---------------------------- MODULE PubSubDelivery ----------------------------
(***************************************************************************)
(* One subscription of the Pub/Sub broker as its users see it: publishers,  *)
(* pulls, acknowledgements, seeks, the virtual clock, IAM grants and the    *)
(* transfer of exhausted messages to a dead-letter topic.  Sources:         *)
(* crates/fireemu-core-pubsub/src/state.rs and                              *)
(* crates/fireemu-adapter-pubsub/src/lib.rs.                                *)
(*                                                                          *)
(* Locks.  The state lock makes every action below atomic.  A transfer is   *)
(* two critical sections, publish to the destination and complete the       *)
(* source; the dead-letter gate is held across both, and so across a whole  *)
(* queue of transfers.  Pulls, retries and seeks take the gate; publishes   *)
(* take only the publication lock, which a transfer holds for one message   *)
(* at a time; acknowledgements, deadline changes, snapshots and the clock   *)
(* take neither.                                                            *)
(***************************************************************************)
EXTENDS SubscriptionState

CONSTANTS Configs,       \* the subscription configurations
          PullSizes,     \* the max of a pull
          MaxMessages, MaxAcks, MaxClock, MaxSeeks, MaxChanges   \* bounds

\* What a subscription may be configured as: an update may remove the dead-letter policy.
Configurations == Configs \cup {[c EXCEPT !.limit = NoLimit] : c \in Configs}

ASSUME InstanceAssumption ==
    /\ \A c \in Configs : IsConfig(c)
    /\ PullSizes \subseteq Nat \ {0}
    /\ {MaxMessages, MaxAcks, MaxClock, MaxSeeks, MaxChanges} \subseteq Nat
ASSUME BackoffAssumption ==
    \A c \in Configurations, n \in 0 .. MaxAcks : redelivery_backoff(c, n) \in Nat

VARIABLES config,        \* SubscriptionConfig
          sub,           \* SubscriptionState
          clock,
          message_counter,
          next_ack,      \* the next ack id the registry's generator yields
          snapshot,      \* a snapshot, or NoSnapshot
          granted,       \* dead_letter_authorized: both grants are present
          gate,          \* [queue |-> transfers under the dead-letter gate, phase]
          leased,        \* ack id -> the message a pull response handed out under it
          transferred,   \* ids the destination admitted since the last seek
          seeks, changes

vars == <<config, sub, clock, message_counter, next_ack, snapshot, granted, gate,
          leased, transferred, seeks, changes>>

NoSnapshot == [created |-> NoInstant]
Free == [queue |-> <<>>, phase |-> "free"]

Message == [id : 1 .. MaxMessages, key : Keys \cup {NoKey}, time : 0 .. MaxClock]

Init ==
    /\ config \in Configs
    /\ sub = EmptySub
    /\ clock = 0 /\ message_counter = 0 /\ next_ack = 1
    /\ snapshot = NoSnapshot
    /\ granted = TRUE
    /\ gate = Free
    /\ leased = [a \in {} |-> 0]
    /\ transferred = {}
    /\ seeks = 0 /\ changes = 0

-----------------------------------------------------------------------------
\* A publication: prepare_publish_numbered and commit_prepared under one state lock.
Publish(key) ==
    /\ gate.phase # "complete"
    /\ message_counter < MaxMessages
    /\ ensure_enqueue_capacity(config, sub)
    /\ LET msg == [id |-> message_counter + 1, key |-> key, time |-> clock]
       IN  /\ sub' = enqueue(config, sub, msg, clock)
           /\ snapshot' = IF snapshot = NoSnapshot THEN NoSnapshot
                          ELSE retain_snapshot_publication(snapshot, msg)
    /\ message_counter' = message_counter + 1
    /\ UNCHANGED <<config, clock, next_ack, granted, gate, leased, transferred, seeks, changes>>

\* Hands a queue of transfers to the holder of the gate.
Transfers(entries, positions) ==
    IF positions = {} THEN Free
    ELSE [queue |-> Retain([i \in DOMAIN entries |-> entries[i].msg.id], positions),
          phase |-> "prepare"]

\* A pull that may forward only under the policy and both grants.
Authorized == config.limit # NoLimit /\ granted

\* The state a pull selects from.
PullBase == release_forwards(expire_deadlines(config, sub, clock), Authorized, clock)

pull_with_dead_letters(max) ==
    LET take == selected(config, PullBase, clock, Authorized, max)
        after == pull_commit(config, PullBase, clock, Authorized, max, next_ack)
    IN  /\ gate = Free
        /\ next_ack + Cardinality(take) <= MaxAcks + 1
        /\ sub' = after
        /\ next_ack' = next_ack + Cardinality(take)
        /\ leased' = [a \in DOMAIN leased \cup (next_ack .. next_ack' - 1) |->
                        IF a \in DOMAIN leased THEN leased[a]
                        ELSE after.entries[after.outstanding[a]].msg.id]
        /\ gate' = Transfers(after.entries, forwarded(config, PullBase, clock, Authorized, max))
        /\ UNCHANGED <<config, clock, message_counter, snapshot, granted, transferred, seeks, changes>>

\* The adapter has no room for the output: selection is discarded, nothing is leased.
pull_refused(max) ==
    /\ gate = Free
    /\ selected(config, PullBase, clock, Authorized, max) # {}
    /\ sub' = PullBase
    /\ UNCHANGED <<config, clock, message_counter, next_ack, snapshot, granted, gate, leased,
                   transferred, seeks, changes>>

\* The trailing step of an acknowledgement, and the dispatcher after any delivery change.
\* Without a policy there is no destination, so nothing is queued.
retry_pending_dead_letters ==
    /\ gate = Free
    /\ config.limit # NoLimit /\ pending_forwards(sub) # {}
    /\ gate' = Transfers(sub.entries, pending_forwards(sub))
    /\ UNCHANGED <<config, sub, clock, message_counter, next_ack, snapshot, granted, leased,
                   transferred, seeks, changes>>

NextTransfer ==
    IF Len(gate.queue) = 1 THEN Free ELSE [queue |-> Tail(gate.queue), phase |-> "prepare"]

Pending(id) == \E i \in pending_forwards(sub) : sub.entries[i].msg.id = id

can_commit_dead_letter(id) == Authorized /\ Pending(id)

\* The reservation or the authority is gone: the source is released.
TransferRefused ==
    /\ gate.phase = "prepare"
    /\ ~can_commit_dead_letter(Head(gate.queue))
    /\ sub' = resume_forward(sub, Head(gate.queue), clock)
    /\ gate' = NextTransfer
    /\ UNCHANGED <<config, clock, message_counter, next_ack, snapshot, granted, leased,
                   transferred, seeks, changes>>

\* The destination topic is missing or full: the source keeps the message pending.
DestinationFull ==
    /\ gate.phase = "prepare"
    /\ can_commit_dead_letter(Head(gate.queue))
    /\ gate' = NextTransfer
    /\ UNCHANGED <<config, sub, clock, message_counter, next_ack, snapshot, granted, leased,
                   transferred, seeks, changes>>

\* The destination admits the message; the state lock is dropped before the source completes.
TransferPublished ==
    /\ gate.phase = "prepare"
    /\ can_commit_dead_letter(Head(gate.queue))
    /\ transferred' = transferred \cup {Head(gate.queue)}
    /\ gate' = [gate EXCEPT !.phase = "complete"]
    /\ UNCHANGED <<config, sub, clock, message_counter, next_ack, snapshot, granted, leased,
                   seeks, changes>>

complete_dead_letter ==
    /\ gate.phase = "complete"
    /\ sub' = complete_forward(sub, Head(gate.queue))
    /\ gate' = NextTransfer
    /\ UNCHANGED <<config, clock, message_counter, next_ack, snapshot, granted, leased,
                   transferred, seeks, changes>>

-----------------------------------------------------------------------------
\* Clients present any ack id they ever received, stale ones included.
Acknowledge(ack) ==
    /\ sub' = acknowledge(sub, ack)
    /\ UNCHANGED <<config, clock, message_counter, next_ack, snapshot, granted, gate, leased,
                   transferred, seeks, changes>>

ModifyAckDeadline(ack, seconds) ==
    /\ sub' = modify_ack_deadline(config, sub, ack, seconds, clock)
    /\ UNCHANGED <<config, clock, message_counter, next_ack, snapshot, granted, gate, leased,
                   transferred, seeks, changes>>

\* The clock moves and the session's clock hook expires every lapsed lease.
expire_all ==
    /\ clock < MaxClock
    /\ clock' = clock + 1
    /\ sub' = expire_deadlines(config, sub, clock + 1)
    /\ UNCHANGED <<config, message_counter, next_ack, snapshot, granted, gate, leased,
                   transferred, seeks, changes>>

\* Mutant of GateFree: a seek does not wait for a transfer to complete.
NoGate == TRUE

GateFree == gate = Free

SeekToTime(time) ==
    /\ GateFree /\ seeks < MaxSeeks
    /\ ~config.ordered
    /\ sub' = seek_to_time(sub, time, clock)
    /\ seeks' = seeks + 1 /\ transferred' = {}
    /\ UNCHANGED <<config, clock, message_counter, next_ack, snapshot, granted, gate, leased, changes>>

SeekToSnapshot ==
    /\ GateFree /\ seeks < MaxSeeks
    /\ snapshot # NoSnapshot
    /\ can_restore(config, sub, snapshot)
    /\ sub' = seek_to_snapshot(config, sub, snapshot, clock)
    /\ seeks' = seeks + 1 /\ transferred' = {}
    /\ UNCHANGED <<config, clock, message_counter, next_ack, snapshot, granted, gate, leased, changes>>

create_snapshot ==
    /\ snapshot = NoSnapshot /\ seeks < MaxSeeks
    /\ snapshot' = capture(sub, clock)
    /\ UNCHANGED <<config, sub, clock, message_counter, next_ack, granted, gate, leased,
                   transferred, seeks, changes>>

\* The service agent's grants are set or revoked.
set_resource_policy ==
    /\ changes < MaxChanges
    /\ granted' = ~granted /\ changes' = changes + 1
    /\ UNCHANGED <<config, sub, clock, message_counter, next_ack, snapshot, gate, leased,
                   transferred, seeks>>

\* An update of the subscription removes its dead-letter policy.
replace_config ==
    /\ changes < MaxChanges /\ config.limit # NoLimit
    /\ config' = [config EXCEPT !.limit = NoLimit] /\ changes' = changes + 1
    /\ UNCHANGED <<sub, clock, message_counter, next_ack, snapshot, granted, gate, leased,
                   transferred, seeks>>

\* Without message ordering the key of a message is never read.
KeysThatMatter == IF config.ordered THEN Keys \cup {NoKey} ELSE {NoKey}

Next ==
    \/ \E key \in KeysThatMatter : Publish(key)
    \/ \E max \in PullSizes : pull_with_dead_letters(max) \/ pull_refused(max)
    \/ retry_pending_dead_letters
    \/ TransferRefused \/ DestinationFull \/ TransferPublished \/ complete_dead_letter
    \/ \E ack \in DOMAIN leased : Acknowledge(ack) \/ ModifyAckDeadline(ack, 0)
                                  \/ ModifyAckDeadline(ack, AckDeadline + 1)
    \/ expire_all
    \/ \E time \in 0 .. MaxClock : SeekToTime(time)
    \/ SeekToSnapshot \/ create_snapshot
    \/ set_resource_policy \/ replace_config

Spec == Init /\ [][Next]_vars
-----------------------------------------------------------------------------
TypeOK ==
    /\ IsConfig(config)
    /\ sub.entries \in Seq([msg : Message, ack : 0 .. MaxAcks, attempt : 0 .. MaxAcks,
                            state : {"Available", "Outstanding", "Acked", "ForwardPending"},
                            at : Nat])
    /\ sub.first_unacked \in 1 .. Len(sub.entries) + 1
    /\ Len(sub.entries) <= config.retain
    /\ clock \in 0 .. MaxClock /\ message_counter \in 0 .. MaxMessages
    /\ next_ack \in 1 .. MaxAcks + 1
    /\ snapshot = NoSnapshot \/ (snapshot.created \in 0 .. clock /\ snapshot.unacked \subseteq snapshot.retained)
    /\ granted \in BOOLEAN
    /\ gate = Free \/ (gate.phase \in {"prepare", "complete"} /\ gate.queue # <<>>)
    /\ DOMAIN leased = 1 .. next_ack - 1
    /\ transferred \subseteq 1 .. message_counter

(* The two indexes of SubscriptionState never drift from the log: an ack id is indexed exactly
   while its lease is open, at the position of the message the pull response handed out under it,
   whatever was reclaimed, expired or sought since; and nothing behind the cursor still waits.
   rebuild_indexes, expire_deadlines, acknowledge, pull_with_admission. *)
IndexesAgree ==
    /\ DOMAIN sub.outstanding = {sub.entries[i].ack : i \in Leased(sub.entries)}
    /\ \A a \in DOMAIN sub.outstanding :
          LET i == sub.outstanding[a]
          IN  i \in Leased(sub.entries) /\ sub.entries[i].ack = a /\ sub.entries[i].msg.id = leased[a]
    /\ \A i \in 1 .. sub.first_unacked - 1 : Acked(sub.entries[i])

(* A message the destination admitted is finished at the source: it is acknowledged or reclaimed, or
   it is the one whose completion the holder of the dead-letter gate still owes, and then it is still
   reserved.  So no pull, retry, acknowledgement, clock move or revoked grant delivers or transfers it
   again before a seek replays it, and no seek replays it before its completion.  commit_dead_letter, lock_dead_letter. *)
TransferredIsDone ==
    /\ gate.phase = "complete" => Pending(Head(gate.queue))
    /\ \A i \in DOMAIN sub.entries :
          sub.entries[i].msg.id \in transferred /\ ~Acked(sub.entries[i]) =>
              gate.phase = "complete" /\ Head(gate.queue) = sub.entries[i].msg.id

(* No message is lost between its publication and its acknowledgement: outside a seek, a message
   that is not acknowledged stays in the log, and it turns acknowledged only because a client
   presented the ack id under which this message was handed out last, or because its transfer was
   published.  enqueue's reclaim, acknowledge, complete_forward. *)
NothingIsLost ==
    [][seeks' = seeks =>
        \A id \in UnackedIds(sub.entries) :
            \/ id \in UnackedIds(sub'.entries)
            \/ gate.phase = "complete" /\ Head(gate.queue) = id
            \/ \E i \in Leased(sub.entries) : /\ sub.entries[i].msg.id = id
                                              /\ leased[sub.entries[i].ack] = id
                                              /\ sub' = acknowledge(sub, sub.entries[i].ack)]_vars

(* Ordered delivery: a keyed message is handed out while an earlier message of its key is
   unacknowledged only when the subscription is pulled and both go out in the same response for the
   first time.  pull_with_admission's blocked_keys and emitted_keys, across nacks, lapsed leases,
   pending transfers and revoked grants. *)
KeyOrder ==
    [][config.ordered /\ seeks' = seeks /\ Len(sub'.entries) = Len(sub.entries) =>
        \A j \in DOMAIN sub'.entries : \A i \in 1 .. j - 1 :
            LET earlier == sub'.entries[i]
                later   == sub'.entries[j]
            IN  /\ later.msg.key # NoKey /\ earlier.msg.key = later.msg.key
                /\ later.state = "Outstanding" /\ later.ack >= next_ack /\ ~Acked(earlier)
                => /\ earlier.state = "Outstanding" /\ earlier.ack >= next_ack
                   /\ earlier.attempt = 1 /\ ~config.push]_vars

(* The same for the dead-letter topic: a keyed message is reserved for transfer only as the first
   unacknowledged message of its key, so a transfer never overtakes a delivery of its own key.
   pull_with_admission's emitted_keys. *)
TransferKeepsKeyOrder ==
    config.ordered => \A j \in pending_forwards(sub) : \A i \in 1 .. j - 1 :
        Key(sub, j) # NoKey /\ Key(sub, i) = Key(sub, j) => Acked(sub.entries[i])

(* The push dispatcher sleeps until next_available_at: it never sleeps past work a pull would find,
   and is never woken for nothing (which would make run_push_quantum return Continue for ever).
   Entries reserved for transfer are the dead-letter dispatcher's. *)
DispatcherIsNotMisled ==
    config.push /\ (Authorized \/ pending_forwards(sub) = {}) =>
        LET next == next_available_at(config, sub)
            found == selected(config, PullBase, clock, Authorized, 1)
                     \cup forwarded(config, PullBase, clock, Authorized, 1)
        IN  (next # NoInstant /\ next <= clock) <=> found # {}

(* One pull's loop over the log, as the code runs it: what it has chosen and which keys it has
   blocked and emitted.  The entry at position i is passed over once the batch is full, ... *)
PassedOver(s, max, only, i, w) ==
    LET k == Key(s, i)
    IN  \/ Cardinality(w.selected) >= max
        \/ Acked(s.entries[i])
        \/ only /\ k # NoKey
        \/ config.ordered /\ k # NoKey /\ k \in w.blocked

\* ... or it is selected, forwarded or left where it is, and blocks or emits its key.
Visited(s, now, max, only, i, w) ==
    LET e == s.entries[i]
        ordered == config.ordered /\ Key(s, i) # NoKey
        block(v) == IF ordered THEN [v EXCEPT !.blocked = @ \cup {Key(s, i)}] ELSE v
        emit(v) == IF ordered THEN [v EXCEPT !.emitted = @ \cup {Key(s, i)}] ELSE v
        out == emit([w EXCEPT !.selected = @ \cup {i}])
    IN  IF PassedOver(s, max, only, i, w) THEN w
        ELSE IF ~Deliverable(e, now) THEN block(w)
        ELSE IF Exhausted(config, Authorized, e)
        THEN IF ordered /\ Key(s, i) \in w.emitted THEN block(w)
             ELSE block([w EXCEPT !.forwarded = @ \cup {i}])
        ELSE IF config.push \/ e.attempt > 0 THEN block(out) ELSE out

Unvisited == [selected |-> {}, forwarded |-> {}, blocked |-> {}, emitted |-> {}]

\* What the loop has done before position n is loop[n].
PullLoop(s, now, max) ==
    LET only == unkeyed_only(config, s, now, Authorized)
        loop[n \in 1 .. Len(s.entries) + 1] ==
            IF n <= s.first_unacked THEN Unvisited
            ELSE Visited(s, now, max, only, n - 1, loop[n - 1])
    IN  loop[Len(s.entries) + 1]

(* Selection stated entry by entry chooses what the loop of pull_with_admission chooses, in every
   reachable state and for every batch size. *)
SelectionIsTheLoop ==
    \A max \in PullSizes :
        LET w == PullLoop(PullBase, clock, max)
        IN  /\ w.selected = selected(config, PullBase, clock, Authorized, max)
            /\ w.forwarded = forwarded(config, PullBase, clock, Authorized, max)

Restored(id) == \E i \in DOMAIN sub'.entries :
    sub'.entries[i].msg.id = id /\ sub'.entries[i].state = "Available" /\ sub'.entries[i].attempt = 0

(* A seek to a snapshot makes every message of the snapshot's backlog, and every message published
   since, available again as undelivered: "Messages that were in the source backlog remain available,
   and messages published after the snapshot was created are also available."  seek_to_snapshot. *)
SeekRestoresBacklog == [][SeekToSnapshot => \A id \in snapshot.unacked : Restored(id)]_vars

(* The same where the restored log fits without reclaiming acknowledged entries. *)
SeekRestoresBacklogInRoom ==
    [][SeekToSnapshot /\ ~must_reclaim(config, sub, snapshot) =>
        \A id \in snapshot.unacked : Restored(id)]_vars
=============================================================================
