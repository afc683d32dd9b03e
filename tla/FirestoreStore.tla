--------------------------- MODULE FirestoreStore ---------------------------
(***************************************************************************)
(* One Firestore database: its document history and its transactions.       *)
(* Every operator takes the store as a record and returns the store the     *)
(* operation leaves behind, with its outcome where it has one.  The indexes *)
(* the store keeps beside its transactions are fields of their own and are  *)
(* maintained where the code maintains them; the code's loops over an index *)
(* are written as the set they visit.                                       *)
(*                                                                          *)
(* A document is one value, a query the set of values its filter passes, a  *)
(* commit at most one write per document.  An instant and a commit version  *)
(* are naturals; every retained read costs one byte of the conflict ledger. *)
(***************************************************************************)
EXTENDS Integers, FiniteSets, FiniteSetsExt

CONSTANTS
    Docs, Values, Absent,
    Filters,            \* the filters of queries, sets of values
    Unfiltered,         \* a query without a filter
    Ids,                \* transaction ids, an interval 1 .. n
    Owners,             \* identities of pending commit requests
    Ttl, Idle, IdleAllowance,             \* transaction_ttl, transaction_idle_ttl, the allowance
    ExpiredMemory, EmulatorRetention,     \* how long an expired token is remembered
    ReadWindow,                           \* READ_TIME_RETENTION_SECONDS
    MaxActive,                            \* MAX_ACTIVE_TRANSACTIONS
    MaxFinished,                          \* MAX_FINISHED_TRANSACTION_LINEAGE
    MaxLedger, MaxActiveLedger            \* MAX_(ACTIVE_)TRANSACTION_CONFLICT_LEDGER_BYTES

ASSUME StoreAssumption ==
    /\ Absent \notin Values /\ IsFiniteSet(Docs)
    /\ Unfiltered \notin Filters
    /\ Ids \subseteq Nat \ {0} /\ IsFiniteSet(Ids)
    /\ {Ttl, Idle, IdleAllowance, ExpiredMemory, EmulatorRetention, ReadWindow} \subseteq Nat
    /\ {MaxActive, MaxFinished, MaxLedger, MaxActiveLedger} \subseteq Nat

Scopes == {"Production", "OfficialEmulator"}

\* No transaction: a commit outside one.
None == 0

\* A transaction id that was never issued, or whose transaction is forgotten.
NoTransaction ==
    [state |-> "Unknown", read_only |-> FALSE, read_version |-> 0, started_at |-> 0,
     last_activity |-> 0, read_set |-> {}, queries |-> {}, bytes |-> 0, waits |-> {},
     deadlock_victim |-> FALSE, snapshot_pending |-> FALSE, lifetime_expired |-> FALSE,
     has_read |-> FALSE, retried_while_live |-> FALSE]

EmptyStore(scope, max_versions) ==
    [scope |-> scope, max_versions_per_path |-> max_versions, history |-> [d \in Docs |-> {}], version |-> 0, next_transaction |-> 0,
     transactions |-> [t \in Ids |-> NoTransaction], active_count |-> 0, releases |-> 0,
     active_deadlines |-> {}, active_versions |-> <<>>, active_read_write |-> {},
     ledger |-> 0, finished |-> {}, evictable |-> {}, finished_deadlines |-> {},
     last_commit_time |-> -1, commit_times |-> {}, compaction_floor |-> 0, capacity_floor |-> 0]

Outcome(s, answer) == [s |-> s, answer |-> answer]

-----------------------------------------------------------------------------
(* The document history: entries [version, value], a tombstone is an entry  *)
(* whose value is Absent.                                                   *)

NoDocument == [version |-> 0, value |-> Absent]

Newest(entries) ==
    IF entries = {} THEN NoDocument
    ELSE CHOOSE e \in entries : \A f \in entries : f.version <= e.version

get_at(s, d, v) == Newest({e \in s.history[d] : e.version <= v})

get(s, d) == Newest(s.history[d])

\* What a read retains of a document: its version, None for an absent one.
Observed(e) == IF e.value = Absent THEN None ELSE e.version

Passes(q, value) == value # Absent /\ (q = Unfiltered \/ value \in q)

\* The rows of a query at a version: the documents that pass, with their versions.
run_query(s, q, v) ==
    {<<d, get_at(s, d, v).version>> : d \in {x \in Docs : Passes(q, get_at(s, x, v).value)}}

-----------------------------------------------------------------------------
(* Deadlines.                                                               *)

transaction_lineage_deadline(tx) == tx.started_at + Ttl

transaction_deadline(s, tx) ==
    Min({transaction_lineage_deadline(tx),
         tx.last_activity + Idle + (IF s.scope = "Production" THEN IdleAllowance ELSE 0)})

finished_lineage_deadline(s, tx) ==
    transaction_lineage_deadline(tx) +
        (IF tx.lifetime_expired \/ (s.scope = "Production" /\ tx.state = "Finished")
         THEN IF s.scope = "Production" THEN ExpiredMemory ELSE EmulatorRetention
         ELSE 0)

-----------------------------------------------------------------------------
(* The bookkeeping of transactions.                                         *)

Active(s, t) == t \in Ids /\ s.transactions[t].state = "Active"

\* active_transaction_versions: how many active transactions read at a version.
increment_version_count(counts, v) ==
    [x \in DOMAIN counts \cup {v} |->
        (IF x \in DOMAIN counts THEN counts[x] ELSE 0) + (IF x = v THEN 1 ELSE 0)]

\* One transaction of each of `gone` less; a version nobody reads at any more has no entry.
decrement_version_count(counts, txs, gone) ==
    LET left(v) == counts[v] - Cardinality({t \in gone : txs[t].read_version = v})
    IN [v \in {x \in DOMAIN counts : left(x) > 0} |-> left(v)]

saturating_sub(a, b) == IF a > b THEN a - b ELSE 0

BytesOf(txs, T) == MapThenSumSet(LAMBDA t : txs[t].bytes, T)

\* A finished transaction leaves the lineage with its deadline and is forgotten.
LeaveLineage(s, gone) ==
    [s EXCEPT !.finished = @ \ gone,
              !.evictable = @ \ gone,
              !.transactions = [t \in Ids |-> IF t \in gone /\ ~Active(s, t) THEN NoTransaction
                                              ELSE s.transactions[t]]]

EvictionCandidates(s) == IF s.scope = "Production" THEN s.evictable ELSE s.finished

Evict(s, gone) ==
    [LeaveLineage(s, gone) EXCEPT
        !.finished_deadlines =
            @ \ {<<finished_lineage_deadline(s, s.transactions[t]), t>> : t \in gone}]

\* The lowest finished tokens that may go, until the lineage is within its bound again.
Lowest(candidates, n) == {t \in candidates : Cardinality({x \in candidates : x < t}) < n}

evict_finished_transactions(s) ==
    Evict(s, Lowest(EvictionCandidates(s), Cardinality(s.finished) - MaxFinished))

\* Ends the active transactions `ending` in `state` and frees what they hold.
Ended(s, ending, state) ==
    LET tx(t) == s.transactions[t]
    IN [s EXCEPT
            !.active_deadlines = @ \ {<<transaction_deadline(s, tx(t)), t>> : t \in ending},
            !.active_read_write = @ \ ending,
            !.active_count = saturating_sub(@, Cardinality(ending)),
            !.releases = @ + Cardinality(ending),
            !.active_versions = decrement_version_count(@, s.transactions, ending),
            !.ledger = saturating_sub(@, BytesOf(s.transactions, ending)),
            !.transactions = [t \in Ids |->
                IF t \in ending
                THEN [tx(t) EXCEPT !.state = state, !.waits = {}, !.bytes = 0,
                                   !.read_set = {}, !.queries = {}]
                ELSE tx(t)],
            !.finished_deadlines = @ \cup {<<transaction_lineage_deadline(tx(t)), t>> : t \in ending},
            !.finished = @ \cup ending,
            !.evictable = IF s.scope = "Production" /\ state # "Finished" THEN @ \cup ending
                          ELSE @ \ ending]

EndActive(s, ending, state) == evict_finished_transactions(Ended(s, ending, state))

Forgotten(s, elapsed) ==
    [LeaveLineage(s, {p[2] : p \in elapsed}) EXCEPT !.finished_deadlines = @ \ elapsed]

forget_elapsed_finished_transactions(s, now) ==
    evict_finished_transactions(Forgotten(s, {p \in s.finished_deadlines : p[1] <= now}))

\* Whether an entry of the deadline index is still the deadline of its transaction.
Current(s, p) == Active(s, p[2]) /\ transaction_deadline(s, s.transactions[p[2]]) = p[1]

Expired(s, tx) ==
    [tx EXCEPT !.state = "Finished", !.bytes = 0, !.read_set = {}, !.queries = {},
               !.lifetime_expired = transaction_deadline(s, tx) = transaction_lineage_deadline(tx)]

Pruned(s, elapsed, due) ==
    [s EXCEPT
        !.active_deadlines = @ \ elapsed,
        !.transactions = [t \in Ids |-> IF t \in due THEN Expired(s, s.transactions[t])
                                        ELSE s.transactions[t]],
        !.releases = @ + Cardinality(s.active_read_write \cap due),
        !.active_read_write = @ \ due,
        !.ledger = saturating_sub(@, BytesOf(s.transactions, due)),
        !.active_count = saturating_sub(@, Cardinality(due)),
        !.active_versions = decrement_version_count(@, s.transactions, due),
        !.finished_deadlines =
            @ \cup {<<finished_lineage_deadline(s, Expired(s, s.transactions[t])), t>> : t \in due},
        !.finished = @ \cup due]

PrunedElapsed(s, elapsed) == Pruned(s, elapsed, {p[2] : p \in {x \in elapsed : Current(s, x)}})

\* The active transactions whose deadline has passed are finished, then the finished ones
\* whose time is over are forgotten.
prune_transactions(s, now) ==
    forget_elapsed_finished_transactions(
        PrunedElapsed(s, {p \in s.active_deadlines : p[1] <= now}), now)

\* An active transaction a request found past its total lifetime is kept for its own bound.
keep_lifetime_expired_transaction(s, t, deadline) ==
    LET tx == s.transactions[t]
        kept == [tx EXCEPT !.lifetime_expired = TRUE]
        plain == <<finished_lineage_deadline(s, tx), t>>
    IN IF \/ tx.state = "Unknown"
          \/ s.scope # "OfficialEmulator"
          \/ deadline # transaction_lineage_deadline(tx)
       THEN s
       ELSE [s EXCEPT
                !.transactions[t] = kept,
                !.finished_deadlines =
                    IF plain \in @ THEN (@ \ {plain}) \cup {<<finished_lineage_deadline(s, kept), t>>}
                    ELSE @]

\* Forgets a transaction that was never handed to the client, because its read was refused
\* or has itself ended it.
abandon_transaction(s, t) ==
    LET tx == s.transactions[t]
    IN [s EXCEPT
        !.active_deadlines = @ \ {<<transaction_deadline(s, tx), t>>},
        !.active_read_write = @ \ {t},
        !.active_count = IF Active(s, t) THEN saturating_sub(@, 1) ELSE @,
        !.active_versions = IF Active(s, t) THEN decrement_version_count(@, s.transactions, {t}) ELSE @,
        !.ledger = saturating_sub(@, tx.bytes),
        !.finished = @ \ {t},
        !.evictable = @ \ {t},
        !.finished_deadlines = @ \ {<<finished_lineage_deadline(s, tx), t>>},
        !.transactions[t] = NoTransaction]

-----------------------------------------------------------------------------
(* Retention.                                                               *)

version_at(s, at) ==
    LET visible == {p[1] : p \in {c \in s.commit_times : c[2] <= at}}
    IN IF visible = {} THEN s.compaction_floor ELSE Max(visible)

version_at_retained(s, at) ==
    s.compaction_floor > 0 => \E c \in s.commit_times : c[2] <= at

\* Mutant: compaction does not look at who still reads.
FloorIgnoresReaders(s, now) ==
    Min({Max({version_at(s, now - ReadWindow), s.capacity_floor}), s.version})

retention_floor(s, now) ==
    LET wanted == Max({version_at(s, now - ReadWindow), s.capacity_floor})
        pinned == IF DOMAIN s.active_versions = {} THEN wanted
                  ELSE Min({wanted} \cup DOMAIN s.active_versions)
    IN Min({Max({pinned, s.capacity_floor}), s.version})

\* Nothing after the floor goes, nor the newest entry at or before it; a lone tombstone does.
Cut(entries, floor) ==
    LET kept == {e \in entries :
                    \/ e.version > floor
                    \/ e = Newest({f \in entries : f.version <= floor})}
    IN IF \A e \in kept : e.value = Absent /\ e.version <= floor THEN {} ELSE kept

CutOff(s, floor) ==
    IF floor <= s.compaction_floor THEN s
    ELSE [s EXCEPT !.compaction_floor = floor,
                   !.commit_times = {c \in @ : c[1] >= floor},
                   !.history = [d \in Docs |-> Cut(@[d], floor)]]

CompactPruned(s, now) == CutOff(s, retention_floor(s, now))

compact(s, now) == CompactPruned(prune_transactions(s, now), now)

\* The newest entries of a path stay, up to the bound `keep`; what is older is given up.
record_capacity_pressure(entries, keep, floor) ==
    LET kept == {e \in entries : Cardinality({f \in entries : f.version > e.version}) < keep}
    IN IF Cardinality(entries) <= keep THEN floor
       ELSE Max({floor, Min({e.version : e \in kept})})

-----------------------------------------------------------------------------
(* Beginning a transaction: the store and the id it was given, None when the *)
(* begin is refused.                                                         *)

begun(s, t) == [s |-> s, id |-> t]

InsertPruned(s, t, tx) ==
    IF s.active_count >= MaxActive THEN begun(s, None)
    ELSE begun([s EXCEPT
                   !.next_transaction = t,
                   !.active_deadlines = @ \cup {<<transaction_deadline(s, tx), t>>},
                   !.active_versions = increment_version_count(@, tx.read_version),
                   !.active_count = @ + 1,
                   !.active_read_write = IF tx.read_only THEN @ ELSE @ \cup {t},
                   !.transactions[t] = tx], t)

insert_transaction(s, read_only, read_version, now) ==
    InsertPruned(prune_transactions(s, now), s.next_transaction + 1,
                 [NoTransaction EXCEPT !.state = "Active", !.read_only = read_only,
                                       !.read_version = read_version, !.started_at = now,
                                       !.last_activity = now])

\* The eager begin of a read's newTransaction: it has read, at this version.
HasRead(b) == IF b.id = None THEN b ELSE [b EXCEPT !.s.transactions[b.id].has_read = TRUE]

begin_transaction(s, read_only, now) == HasRead(insert_transaction(s, read_only, s.version, now))

\* An explicit begin takes its snapshot at its first use.
Pending(b, pending) ==
    IF b.id = None THEN b ELSE [b EXCEPT !.s.transactions[b.id].snapshot_pending = pending]

begin_pending(s, read_only, pending, now) ==
    Pending(insert_transaction(s, read_only, s.version, now), pending)

begin_read_only_transaction(s, now) == begin_pending(s, TRUE, s.scope = "Production", now)

begin_read_write_transaction(s, now) == begin_pending(s, FALSE, TRUE, now)

begin_transaction_at(s, at, now) ==
    IF version_at_retained(s, at) THEN insert_transaction(s, TRUE, version_at(s, at), now)
    ELSE begun(s, None)

RetryableStates == {"Finished", "RetryableAborted", "RolledBack", "Committed", "CommitRefused"}

\* The attempt named is over now: an expired one keeps answering as expired.
RetryEnded(s, previous, live, now) ==
    IF s.transactions[previous].state \notin RetryableStates \/ s.active_count >= MaxActive
    THEN begun(s, None)
    ELSE begin_pending(
             IF s.transactions[previous].state = "Finished" THEN s
             ELSE [s EXCEPT !.transactions[previous].state = "Retried",
                            !.transactions[previous].retried_while_live = live], FALSE, TRUE, now)

RetryPruned(s, previous, now) ==
    IF s.transactions[previous].state = "Unknown" \/ s.transactions[previous].read_only
    THEN begun(s, None)
    ELSE RetryEnded(IF Active(s, previous) THEN EndActive(s, {previous}, "RolledBack") ELSE s,
                    previous, Active(s, previous), now)

retry_transaction(s, previous, now) == RetryPruned(prune_transactions(s, now), previous, now)

-----------------------------------------------------------------------------
(* Reading in a transaction.                                                *)

\* transaction(): an active transaction whose snapshot is still retained.
Usable(s, t) == Active(s, t) /\ s.transactions[t].read_version >= s.compaction_floor

serves_retried_read(s, t) ==
    /\ s.scope = "OfficialEmulator"
    /\ s.transactions[t].state = "Retried"
    /\ s.transactions[t].retried_while_live
    /\ s.transactions[t].read_version >= s.compaction_floor

\* A request found the transaction past its deadline.
EndExpired(s, t, deadline, now) ==
    compact(keep_lifetime_expired_transaction(EndActive(s, {t}, "Finished"), t, deadline), now)

\* The snapshot is taken at the first use.
Pin(s, tx) ==
    IF tx.snapshot_pending THEN [tx EXCEPT !.snapshot_pending = FALSE, !.read_version = s.version]
    ELSE tx

\* Mutant: the version count keeps the version of the begin.
UseKeepsCount(s, t, tx, used) ==
    [s EXCEPT
        !.active_deadlines = (@ \ {<<transaction_deadline(s, tx), t>>})
                             \cup {<<transaction_deadline(s, used), t>>},
        !.transactions[t] = used]

Use(s, t, tx, used) ==
    [s EXCEPT
        !.active_deadlines = (@ \ {<<transaction_deadline(s, tx), t>>})
                             \cup {<<transaction_deadline(s, used), t>>},
        !.active_versions =
            IF used.read_version = tx.read_version THEN @
            ELSE increment_version_count(decrement_version_count(@, s.transactions, {t}),
                                         used.read_version),
        !.transactions[t] = used]

TouchPruned(s, t, tx, now) ==
    IF serves_retried_read(s, t)
    THEN Outcome([s EXCEPT !.transactions[t] = Pin(s, tx)], "ok")
    ELSE IF ~Usable(s, t) THEN Outcome(s, "error")
    ELSE IF now >= transaction_deadline(s, tx)
    THEN Outcome(EndExpired(s, t, transaction_deadline(s, tx), now), "error")
    ELSE Outcome(Use(s, t, tx, [Pin(s, tx) EXCEPT !.last_activity = now, !.has_read = TRUE]), "ok")

\* Production prunes first and compacts when that changed anything.
PrunedForProduction(s, pruned, now) ==
    IF s.scope = "Production" /\ pruned # s THEN CompactPruned(pruned, now) ELSE s

TouchStore(s, t, now) == TouchPruned(s, t, s.transactions[t], now)

touch_transaction(s, t, now) ==
    TouchStore(PrunedForProduction(s, prune_transactions(s, now), now), t, now)

\* Charges `bytes` to the conflict ledger and retains what was read, or ends the
\* transaction when the ledger has no room.
Retain(s, t, bytes, read_set, queries) ==
    LET tx == s.transactions[t]
    IN IF tx.bytes + bytes > MaxLedger \/ s.ledger + bytes > MaxActiveLedger
       THEN Outcome(EndActive(s, {t}, "RetryableAborted"), "error")
       ELSE Outcome([s EXCEPT !.ledger = @ + bytes,
                              !.transactions[t].bytes = @ + bytes,
                              !.transactions[t].read_set = @ \cup read_set,
                              !.transactions[t].queries = queries], "ok")

ReadPaths(tx) == {p[1] : p \in tx.read_set}

record_transaction_read(s, t, d, e) ==
    LET tx == s.transactions[t]
    IN IF serves_retried_read(s, t) THEN Outcome(s, "ok")
       ELSE IF ~Usable(s, t) THEN Outcome(s, "error")
       ELSE IF tx.read_only THEN Outcome(s, "ok")
       ELSE Retain(s, t, IF d \in ReadPaths(tx) THEN 0 ELSE 1, {<<d, Observed(e)>>}, tx.queries)

get_in_transaction(s, t, d) ==
    record_transaction_read(s, t, d, get_at(s, d, s.transactions[t].read_version))

\* A query runs at the snapshot and retains its rows and its result; a served read of a
\* retried token is for documents only.
record_transaction_query_observation(s, t, q, complete) ==
    LET tx == s.transactions[t]
        rows == IF tx.read_only THEN {} ELSE run_query(s, q, tx.read_version)
        bytes == 1 + Cardinality({r \in rows : r[1] \notin ReadPaths(tx)})
    IN IF ~Usable(s, t) THEN Outcome(s, "error")
       ELSE Retain(s, t, bytes, rows,
                   tx.queries \cup {[query |-> q, rows |-> rows, complete |-> complete]})

\* The whole stream was delivered: the observation is compared at the commit.
finish_transaction_query_execution(s, t, entry) ==
    IF Usable(s, t) /\ entry \in s.transactions[t].queries
    THEN Outcome([s EXCEPT !.transactions[t].queries =
                      (@ \ {entry}) \cup {[entry EXCEPT !.complete = TRUE]}], "ok")
    ELSE Outcome(s, "error")

-----------------------------------------------------------------------------
(* Rolling back.                                                            *)

rollback(s, t) ==
    LET tx == s.transactions[t]
    IN IF \/ tx.state = "RetryableAborted" /\ tx.deadlock_victim
          \/ tx.state \in {"RolledBack", "Finished", "CommitRefused"}
       THEN Outcome(s, IF s.scope = "Production" /\ tx.lifetime_expired /\ tx.state = "Finished"
                       THEN "error" ELSE "ok")
       ELSE IF s.scope = "OfficialEmulator" /\ tx.state = "Retried" THEN Outcome(s, "ok")
       ELSE IF ~Usable(s, t) THEN Outcome(s, "error")
       ELSE Outcome(EndActive(s, {t}, "RolledBack"), "ok")

RollbackRemembered(s, t, now) ==
    IF /\ s.scope = "Production"
       /\ s.transactions[t].state = "Finished"
       /\ now >= transaction_lineage_deadline(s.transactions[t])
    THEN Outcome(s, "error")
    ELSE rollback(s, t)

rollback_at(s, t, now) ==
    RollbackRemembered(
        IF s.scope # "Production" THEN s
        ELSE IF Active(s, t) /\ now >= transaction_lineage_deadline(s.transactions[t])
        THEN prune_transactions(s, now)
        ELSE forget_elapsed_finished_transactions(s, now), t, now)

-----------------------------------------------------------------------------
(* Committing.  A write leaves a value, or Absent for a delete, or counts   *)
(* the document up (a transform); its precondition is about existence.      *)

Increment == "increment"

CONSTANT Incremented(_)     \* what a transform leaves of a document's value

ASSUME TransformAssumption == \A value \in Values \cup {Absent} : Incremented(value) \in Values

Applied(write, value) == IF write.to = Increment THEN Incremented(value) ELSE write.to

check_precondition(write, value) ==
    \/ write.exists = "any"
    \/ write.exists = "yes" /\ value # Absent
    \/ write.exists = "no" /\ value = Absent

range_covers_document(s, q, d, write) ==
    \/ q = Unfiltered
    \/ write.to = Increment
    \/ Passes(q, get(s, d).value)
    \/ Passes(q, Applied(write, get(s, d).value))

holder_locks_writes(s, holder, writes) ==
    \E d \in DOMAIN writes :
        \/ d \in ReadPaths(holder)
        \/ \E entry \in holder.queries : range_covers_document(s, entry.query, d, writes[d])

lock_holders(s, own, writes) ==
    {h \in s.active_read_write \ {own} :
        /\ Usable(s, h)
        /\ ~s.transactions[h].read_only
        /\ holder_locks_writes(s, s.transactions[h], writes)}

\* Mutant: a cancelled request still counts as waiting.
WaitsOnCancelled(s, h, own, live) ==
    \E w \in s.transactions[h].waits : holder_locks_writes(s, s.transactions[own], w.writes)

\* A holder some live request of which waits for a lock of `own`.
WaitsOn(s, h, own, live) ==
    \E w \in s.transactions[h].waits :
        w.owner \in live /\ holder_locks_writes(s, s.transactions[own], w.writes)

Older(s, t, u) ==
    LET a == s.transactions[t].started_at
        b == s.transactions[u].started_at
    IN a < b \/ (a = b /\ t < u)

\* OwnedCommitWaits::remove: the owner's entry and every cancelled one.
remove_wait(waits, owner, live) == {w \in waits : w.owner \in live /\ w.owner # owner}

insert_wait(waits, owner, writes, live) ==
    remove_wait(waits, owner, live) \cup
        (IF owner \in live THEN {[owner |-> owner, writes |-> writes]} ELSE {})

\* The request is not waiting while it tries.
StopWaiting(s, own, owner, live) ==
    IF own = None THEN s ELSE [s EXCEPT !.transactions[own].waits = remove_wait(@, owner, live)]

Victims(s, T) ==
    EndActive([s EXCEPT !.transactions = [t \in Ids |->
                  [s.transactions[t] EXCEPT !.deadlock_victim = @ \/ t \in T]]], T, "RetryableAborted")

\* The locks of `holders` are in the way; `cycle` are those of them that wait on `own`.
\* The younger of a deadlock goes.
Contend(s, holders, cycle, writes, own, owner, live) ==
    IF holders = {} THEN Outcome(s, "ok")
    ELSE IF own = None THEN Outcome(s, "contention")
    ELSE IF ~Usable(s, own) THEN Outcome(s, "error")
    ELSE IF \E h \in cycle : Older(s, h, own) THEN Outcome(Victims(s, {own}), "victim")
    ELSE IF holders \subseteq cycle THEN Outcome(Victims(s, cycle), "ok")
    ELSE Outcome([Victims(s, cycle) EXCEPT !.transactions[own].waits =
                      insert_wait(@, owner, writes, live)], "contention")

ContendHolders(s, holders, writes, own, owner, live) ==
    Contend(s, holders, {h \in holders : own # None /\ WaitsOn(s, h, own, live)},
            writes, own, owner, live)

ContendPruned(s, writes, own, owner, live) ==
    ContendHolders(s, lock_holders(s, own, writes), writes, own, owner, live)

check_contention(s, writes, own, owner, live, now) ==
    IF DOMAIN writes = {} THEN Outcome(StopWaiting(s, own, owner, live), "ok")
    ELSE ContendPruned(prune_transactions(StopWaiting(s, own, owner, live), now),
                       writes, own, owner, live)

\* Mutant: only documents are validated, not the results of queries.
ConflictsByDocument(s, t) ==
    \E p \in s.transactions[t].read_set : Observed(get(s, p[1])) # p[2]

transaction_conflicted(s, t) ==
    LET tx == s.transactions[t]
    IN \/ \E p \in tx.read_set : Observed(get(s, p[1])) # p[2]
       \/ \E entry \in tx.queries :
              entry.complete /\ run_query(s, entry.query, s.version) # entry.rows

ValidatePruned(s, t, tx, writes, now) ==
    IF ~Usable(s, t) THEN Outcome(s, "error")
    ELSE IF now >= transaction_deadline(s, tx)
    THEN Outcome(EndExpired(s, t, transaction_deadline(s, tx), now), "error")
    ELSE IF tx.read_only /\ DOMAIN writes # {}
    THEN Outcome(IF s.scope = "Production" THEN EndActive(s, {t}, "CommitRefused") ELSE s, "error")
    ELSE IF ~tx.read_only /\ transaction_conflicted(s, t)
    THEN Outcome(EndActive(s, {t}, "RetryableAborted"), "error")
    ELSE Outcome(s, "ok")

ValidateStore(s, t, writes, now) == ValidatePruned(s, t, s.transactions[t], writes, now)

validate_transaction_commit(s, t, writes, now) ==
    ValidateStore(IF s.scope = "Production" THEN prune_transactions(s, now) ELSE s, t, writes, now)

next_commit_time(s, now) == IF s.last_commit_time >= now THEN s.last_commit_time + 1 ELSE now

\* The documents a commit changes: a write whose result is the stored value is a no-op.
Changed(s, writes) == {d \in DOMAIN writes : Applied(writes[d], get(s, d).value) # get(s, d).value}

\* Publishes the staged documents under the next version.
Entry(s, writes, d) == [version |-> s.version + 1, value |-> Applied(writes[d], get(s, d).value)]

PublishHistory(s, changed, history, time) ==
    IF changed = {} THEN s
    ELSE [s EXCEPT
             !.version = @ + 1,
             !.commit_times = @ \cup {<<s.version + 1, time>>},
             !.history = history,
             !.capacity_floor =
                 Max({record_capacity_pressure(history[d], s.max_versions_per_path, @) : d \in changed})]

Publish(s, writes, changed, time) ==
    PublishHistory(s, changed,
        [d \in Docs |-> IF d \in changed THEN s.history[d] \cup {Entry(s, writes, d)} ELSE s.history[d]],
        time)

\* The empty commit of a transaction that has read consumes no commit time.
Stamped(s, writes, t, time) ==
    [Publish(s, writes, Changed(s, writes), time) EXCEPT
        !.last_commit_time =
            IF t # None /\ DOMAIN writes = {} /\ s.transactions[t].has_read THEN @ ELSE time]

Finish(s, t) == IF t = None THEN s ELSE EndActive(s, {t}, "Committed")

CommitFree(free, s, writes, t, admitted, now) ==
    IF free.answer # "ok" THEN free
    ELSE IF \E d \in DOMAIN writes : ~check_precondition(writes[d], get(s, d).value)
    THEN Outcome(IF t = None THEN s ELSE EndActive(s, {t}, "CommitRefused"), "error")
    ELSE IF ~admitted THEN Outcome(s, "error")
    ELSE Outcome(compact(Finish(Stamped(s, writes, t, next_commit_time(s, now)), t), now), "ok")

CommitContended(free, writes, t, admitted, now) == CommitFree(free, free.s, writes, t, admitted, now)

CommitValid(valid, writes, t, owner, live, admitted, now) ==
    IF valid.answer # "ok" THEN valid
    ELSE CommitContended(check_contention(valid.s, writes, t, owner, live, now),
                         writes, t, admitted, now)

\* One attempt at a commit.  `admitted` is the answer of the limits and of the event
\* admission; a refusal by them leaves the transaction active.
commit_with_history_admission_owned(s, writes, t, owner, live, admitted, now) ==
    CommitValid(IF t = None THEN Outcome(s, "ok") ELSE validate_transaction_commit(s, t, writes, now),
                writes, t, owner, live, admitted, now)

\* A holder past its deadline that no operation has pruned yet.
read_write_holder_expired(s, now) ==
    \E p \in s.active_deadlines :
        /\ p[1] <= now
        /\ p[2] \in s.active_read_write
        /\ Active(s, p[2])
        /\ transaction_deadline(s, s.transactions[p[2]]) = p[1]
=============================================================================
