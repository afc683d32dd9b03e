----------------------- MODULE FirestoreTransactions -----------------------
(***************************************************************************)
(* Clients drive the transactions of one database through the gRPC and the  *)
(* REST surface.  Every operation on the store is one critical section of   *)
(* the database lock.  A commit is a request of several such sections: an   *)
(* attempt; when a lock refuses it, the lease bookkeeping; then the wait    *)
(* for a release, in the gRPC future or in the REST connection task, and    *)
(* the attempt again.  Clients are free: any token in any order, several    *)
(* commits of one transaction, requests that are cancelled.                 *)
(***************************************************************************)
EXTENDS FirestoreStore, Sequences

CONSTANTS
    Requests,       \* commit requests, an interval 1 .. n in the order they arrive
    Batches,        \* the writes of a commit: functions from documents to writes
    Configs,        \* the store's settings and what its clients do
    Operations,     \* the kinds of client operation
    Seeds           \* the documents a run starts from

ASSUME RequestAssumption ==
    /\ Requests \subseteq Nat \ {0}
    /\ Owners = Requests
    /\ \A c \in Configs :
          /\ c.scope \in Scopes
          /\ c.max_versions \in Nat \ {0}        \* with_retained_version_limit keeps at least one
          /\ c.clock \in Nat                     \* bound: how far the clock goes
          /\ c.ids \in Nat /\ 1 .. c.ids \subseteq Ids   \* bound: transactions
          /\ c.requests \in Nat /\ 1 .. c.requests \subseteq Requests   \* bound: commit requests
          /\ c.kinds \subseteq {"grpc", "rest"} /\ c.batches \subseteq Batches
          /\ c.operations \subseteq Operations

\* A write sets a value, deletes or transforms a document.
ASSUME BatchAssumption ==
    \A w \in Batches \cup Seeds :
        DOMAIN w \subseteq Docs /\ \A d \in DOMAIN w : w[d].to \in Values \cup {Absent, Increment}

VARIABLES
    store,      \* the database
    release_count,   \* how often an operation of the backend ended transactions
    now,        \* write_time(): the clock transactions run on
    req,        \* the commit requests
    config,     \* scope, max_versions; and the bounds clock, ids, requests, kinds, batches, operations
    past, seen, committed   \* history: the states, what clients were shown, who committed

vars == <<store, release_count, now, req, config, past, seen, committed>>

NoRequest ==
    [phase |-> "idle", kind |-> "grpc", own |-> None, writes |-> <<>>, marker |-> 0,
     contended |-> FALSE, released |-> FALSE, live |-> FALSE, expired |-> FALSE,
     answer |-> "none", applied |-> 0]

Live == {r \in Requests : req[r].live}

Documents(s) == [d \in Docs |-> get(s, d).value]

Seeded(c, seed) ==
    commit_with_history_admission_owned(EmptyStore(c.scope, c.max_versions), seed, None, 0, {}, TRUE, 0).s

Init ==
    /\ config \in Configs
    /\ \E seed \in Seeds : store = Seeded(config, seed)
    /\ release_count = 0
    /\ now = 0
    /\ req = [r \in Requests |-> NoRequest]
    /\ past = IF store.version = 0 THEN <<Documents(store)>>
              ELSE <<[d \in Docs |-> Absent], Documents(store)>>
    /\ seen = [t \in Ids |-> {}]
    /\ committed = {}

-----------------------------------------------------------------------------
(* Beginning and reading.                                                   *)

Issued(t) == t \in Ids /\ t <= store.next_transaction

\* with_db: an operation that ended transactions is counted for the whole backend.
Operated(s) ==
    /\ store' = s
    /\ release_count' = IF s.releases # store.releases THEN release_count + 1 ELSE release_count

Begun(b) ==
    /\ Operated(b.s)
    /\ UNCHANGED <<now, req, config, past, seen, committed>>

\* BeginTransaction: read-write, read-only, at a read time, or the retry of an attempt.
BeginReadWrite == Begun(begin_read_write_transaction(store, now))

BeginReadOnly == Begun(begin_read_only_transaction(store, now))

BeginAt(at) == Begun(begin_transaction_at(store, at, now))

Retry(t) == Issued(t) /\ Begun(retry_transaction(store, t, now))

\* What a document and a query show a transaction.
ShownDocument(s, t, d) == <<"document", d, get_at(s, d, s.transactions[t].read_version).value>>

ShownRows(s, t, q) ==
    {<<d, get_at(s, d, s.transactions[t].read_version).value>> :
        d \in {x \in Docs : Passes(q, get_at(s, x, s.transactions[t].read_version).value)}}

RowDocuments(rows) == {<<"document", r[1], r[2]>> : r \in rows}

Shown(t, outcome, observations) ==
    /\ Operated(outcome.s)
    /\ seen' = IF outcome.answer = "ok" THEN [seen EXCEPT ![t] = @ \cup observations] ELSE seen
    /\ UNCHANGED <<now, req, config, past, committed>>

\* A read with a token: the touch, then the read, or the rules deny it.
ReadTouched(t, touched, d, allowed) ==
    IF touched.answer = "ok" /\ allowed
    THEN Shown(t, get_in_transaction(touched.s, t, d), {ShownDocument(touched.s, t, d)})
    ELSE Shown(t, touched, {})

Read(t, d, allowed) == Issued(t) /\ ReadTouched(t, touch_transaction(store, t, now), d, allowed)

\* What ended well is followed by a compaction, in the same section.
Compacted(outcome) ==
    IF outcome.answer = "ok" THEN Outcome(compact(outcome.s, now), "ok") ELSE outcome

\* A page that holds the whole result, then, once it has been sent, the end of the stream.
QueryTouched(t, touched, q, complete) ==
    IF touched.answer = "ok"
    THEN Shown(t, record_transaction_query_observation(touched.s, t, q, complete),
               RowDocuments(ShownRows(touched.s, t, q)) \cup
                   (IF complete THEN {<<"query", q, ShownRows(touched.s, t, q)>>} ELSE {}))
    ELSE Shown(t, touched, {})

RunQuery(t, q, complete) == Issued(t) /\ QueryTouched(t, touch_transaction(store, t, now), q, complete)

FinishQuery(t) ==
    /\ Issued(t)
    /\ \E entry \in {e \in store.transactions[t].queries : ~e.complete} :
          Shown(t, Compacted(finish_transaction_query_execution(store, t, entry)),
                IF store.transactions[t].read_only THEN {}
                ELSE {<<"query", entry.query, {<<r[1], past[r[2] + 1][r[1]]>> : r \in entry.rows}>>})

\* A read with newTransaction: begin, touch and read in one section; a refused read takes
\* the transaction with it.
ReadBegun(t, touched, got, d, allowed) ==
    IF touched.answer = "ok" /\ allowed /\ got.answer = "ok"
    THEN Shown(t, got, {ShownDocument(touched.s, t, d)})
    ELSE Shown(t, Outcome(abandon_transaction(IF allowed THEN got.s ELSE touched.s, t), "error"), {})

TouchBegun(t, touched, d, allowed) ==
    ReadBegun(t, touched, get_in_transaction(touched.s, t, d), d, allowed)

ReadInNewTransaction(b, d, allowed) ==
    IF b.id = None THEN Begun(b)
    ELSE TouchBegun(b.id, touch_transaction(b.s, b.id, now), d, allowed)

NewTransaction(read_only, d, allowed) ==
    ReadInNewTransaction(begin_transaction(store, read_only, now), d, allowed)

RetryWithRead(t, d, allowed) ==
    Issued(t) /\ ReadInNewTransaction(retry_transaction(store, t, now), d, allowed)

RolledBack(rolled) ==
    /\ Operated(rolled.s)
    /\ UNCHANGED <<now, req, config, past, seen, committed>>

Rollback(t) == Issued(t) /\ RolledBack(Compacted(rollback_at(store, t, now)))

\* A running clock, or a fault's delay, moves the time without any operation.
Tick ==
    /\ now < config.clock
    /\ now' = now + 1
    /\ UNCHANGED <<store, release_count, req, config, past, seen, committed>>

\* The control API moves the clock and compacts every database, which ends the transactions
\* that ran out of time; compact_all does not count what it released.
MoveClock ==
    /\ now < config.clock
    /\ now' = now + 1
    /\ store' = compact(store, now + 1)
    /\ UNCHANGED <<release_count, req, config, past, seen, committed>>

-----------------------------------------------------------------------------
(* A commit request.                                                        *)

\* The request is over and its CommitWaitLease dropped.
Answered(q, answer) == [NoRequest EXCEPT !.phase = "answered", !.answer = answer, !.applied = q.applied]

\* The blocking closure of a REST attempt returns: the connection task answers, or waits
\* when the attempt was contended; a cancelled request has no task any more.
Returned(q, answer) ==
    IF q.kind = "rest" /\ q.contended /\ ~q.expired /\ q.live
    THEN [q EXCEPT !.phase = "waiting", !.answer = answer]
    ELSE Answered(q, answer)

\* What a waiter looks at: a gRPC request at the releases of its database, a REST request at
\* those counted for the whole backend.
Marker(kind) == IF kind = "rest" THEN release_count ELSE store.releases

\* The loop starts: the release marker is read before the attempt.
Start(r, kind, own, writes) ==
    /\ req[r].phase = "idle"
    /\ \A q \in Requests : q < r => req[q].phase # "idle"
    /\ own = None \/ Issued(own)
    /\ req' = [req EXCEPT ![r] = [NoRequest EXCEPT
                  !.phase = "trying", !.kind = kind, !.own = own, !.writes = writes,
                  !.marker = Marker(kind), !.live = TRUE]]
    /\ UNCHANGED <<store, release_count, now, config, past, seen, committed>>

\* commit_once: validation, locks, preconditions, publication.
Attempted(r, q, c) ==
    /\ Operated(c.s)
    /\ req' = [req EXCEPT ![r] =
           IF c.answer \in {"contention", "victim"}
           THEN [q EXCEPT !.phase = "refused", !.answer = c.answer]
           ELSE Returned([q EXCEPT !.applied = @ + (IF c.answer = "ok" THEN 1 ELSE 0)], c.answer)]
    /\ past' = IF c.answer = "ok" /\ Changed(store, q.writes) # {}
               THEN Append(past, Documents(c.s)) ELSE past
    /\ committed' = IF c.answer = "ok" /\ q.own # None /\ ~store.transactions[q.own].read_only
                    THEN committed \cup {q.own} ELSE committed
    /\ UNCHANGED <<now, config, seen>>

Attempt(r, admitted) ==
    /\ req[r].phase = "trying"
    /\ Attempted(r, req[r], commit_with_history_admission_owned(
                                store, req[r].writes, req[r].own, r, Live, admitted, now))

\* expire_lock_leases: the colliding holders that were idle for the lease, on the wall
\* clock, are rolled back.
ExpireLeases(r, idle) ==
    LET q == req[r]
        released == [q EXCEPT !.released = idle # {}]
    IN /\ q.phase = "refused"
       /\ idle \subseteq lock_holders(store, q.own, q.writes)
       /\ Operated(IF idle = {} THEN store ELSE EndActive(store, idle, "RolledBack"))
       /\ req' = [req EXCEPT ![r] =
              IF q.answer = "victim" THEN Returned(q, "victim")
              ELSE IF q.kind = "grpc" THEN [released EXCEPT !.phase = "leased"]
              ELSE IF idle # {} THEN [released EXCEPT !.phase = "trying", !.contended = TRUE]
              ELSE Returned([released EXCEPT !.contended = TRUE], "contention")]
       /\ UNCHANGED <<now, config, past, seen, committed>>

\* Mutant: the release marker is read again when the wait begins.
ShouldWaitAfresh(r) ==
    LET q == req[r]
    IN /\ q.phase = "leased"
       /\ req' = [req EXCEPT ![r] =
              IF q.expired \/ (q.own # None /\ ~Active(store, q.own)) THEN Answered(q, "contention")
              ELSE [q EXCEPT !.phase = IF q.released THEN "trying" ELSE "waiting",
                             !.marker = Marker(q.kind)]]
       /\ UNCHANGED <<store, release_count, now, config, past, seen, committed>>

\* should_wait_for_release, on the gRPC surface.
ShouldWait(r) ==
    LET q == req[r]
        retried == [q EXCEPT !.phase = "trying", !.marker = Marker(q.kind)]
    IN /\ q.phase = "leased"
       /\ req' = [req EXCEPT ![r] =
              IF q.expired \/ (q.own # None /\ ~Active(store, q.own)) THEN Answered(q, "contention")
              ELSE IF q.released THEN retried
              ELSE [q EXCEPT !.phase = "waiting"]]
       /\ UNCHANGED <<store, release_count, now, config, past, seen, committed>>

\* The wait ends with a release; a gRPC request also looks for an expired holder and makes a
\* last attempt at the deadline, a REST request gives the answer it has.
Wake(r) ==
    LET q == req[r]
        retried == [q EXCEPT !.phase = "trying", !.marker = Marker(q.kind), !.contended = FALSE]
    IN /\ q.phase = "waiting"
       /\ \/ /\ \/ Marker(q.kind) # q.marker
                \/ q.kind = "grpc" /\ (q.expired \/ read_write_holder_expired(store, now))
             /\ req' = [req EXCEPT ![r] = retried]
          \/ /\ q.kind = "rest" /\ q.expired /\ Marker("rest") = q.marker
             /\ req' = [req EXCEPT ![r] = Answered(q, q.answer)]
       /\ UNCHANGED <<store, release_count, now, config, past, seen, committed>>

\* The REST work pool is full when the request would run again.
TurnedAway(r) ==
    /\ req[r].phase = "waiting" /\ req[r].kind = "rest" /\ Marker("rest") # req[r].marker
    /\ req' = [req EXCEPT ![r] = Answered(@, "turned away")]
    /\ UNCHANGED <<store, release_count, now, config, past, seen, committed>>

\* The contention deadline passes, on the wall clock; it is looked at after a refusal.
DeadlinePasses(r) ==
    /\ \/ req[r].phase \in {"leased", "waiting"}
       \/ req[r].kind = "rest" /\ (req[r].phase = "refused" \/ req[r].contended)
    /\ ~req[r].expired
    /\ req' = [req EXCEPT ![r].expired = TRUE]
    /\ UNCHANGED <<store, release_count, now, config, past, seen, committed>>

\* The client goes away.  A gRPC future is dropped where it awaits; a REST task at any time,
\* and a blocking attempt it has started goes on without it.
Cancel(r) ==
    /\ req[r].phase = "waiting" \/ (req[r].kind = "rest" /\ req[r].phase \in {"trying", "refused"})
    /\ req[r].live
    /\ req' = [req EXCEPT ![r] =
           IF @.phase = "waiting" THEN Answered(@, "cancelled") ELSE [@ EXCEPT !.live = FALSE]]
    /\ UNCHANGED <<store, release_count, now, config, past, seen, committed>>

\* The clients of this configuration do `operation`.
Do(operation) == operation \in config.operations

Room == store.next_transaction < config.ids

Next ==
    \/ Do("begin") /\ Room /\ BeginReadWrite
    \/ Do("read only") /\ Room /\ (BeginReadOnly \/ \E at \in 0 .. now : BeginAt(at))
    \/ Do("new transaction") /\ Room /\ \E d \in Docs, ro, allowed \in BOOLEAN :
          NewTransaction(ro, d, allowed)
    \/ Do("retry") /\ Room /\ \E t \in Ids :
          Retry(t) \/ \E d \in Docs, allowed \in BOOLEAN : RetryWithRead(t, d, allowed)
    \/ \E t \in Ids, d \in Docs, allowed \in BOOLEAN :
          Do(IF allowed THEN "read" ELSE "denied") /\ Read(t, d, allowed)
    \/ Do("query") /\ \E t \in Ids :
          \/ \E q \in Filters \cup {Unfiltered}, complete \in BOOLEAN : RunQuery(t, q, complete)
          \/ FinishQuery(t)
    \/ Do("rollback") /\ \E t \in Ids : Rollback(t)
    \/ Tick
    \/ MoveClock
    \/ \E r \in 1 .. config.requests :
          \/ \E kind \in config.kinds, own \in Ids \cup {None}, writes \in config.batches :
                Start(r, kind, own, writes)
          \/ \E admitted \in {TRUE} \cup {~Do("refuse")} : Attempt(r, admitted)
          \/ \E idle \in {{}} \cup (IF Do("lease") THEN SUBSET Ids ELSE {}) : ExpireLeases(r, idle)
          \/ ShouldWait(r)
          \/ Wake(r)
          \/ Do("cancel") /\ (TurnedAway(r) \/ DeadlinePasses(r) \/ Cancel(r))

Spec == Init /\ [][Next]_vars

\* A transaction whose client has no commit in flight and may still end it, in time.
CommitInFlight(t) == \E r \in Requests : req[r].phase \notin {"idle", "answered"} /\ req[r].own = t

RanOut(t) == Active(store, t) /\ transaction_deadline(store, store.transactions[t]) <= now

LeftAlone(t) == Usable(store, t) /\ ~RanOut(t) /\ ~CommitInFlight(t)

\* The runtime schedules every step of a request.  An attempt is enabled as long as its request
\* is "trying" and only a step of the request ends that, so its weak fairness is that no request
\* tries forever.  Likewise no transaction is left alone forever: its client ends it, or the clock
\* comes to the end of its idle or total lifetime, which by itself ends nothing and wakes nobody.
\* Nothing is assumed of the contention deadline, the leases, the clock or cancellation.
FairSpec ==
    /\ Spec
    /\ \A r \in Requests :
          /\ []<>(req[r].phase # "trying")
          /\ WF_vars(ExpireLeases(r, {}))
          /\ WF_vars(ShouldWait(r))
          /\ WF_vars(Wake(r))
    /\ \A t \in Ids : []<>~LeftAlone(t)

-----------------------------------------------------------------------------
(* Properties.                                                              *)

\* The indexes the store keeps beside its transactions say what the transactions say: who is
\* active, who holds locks, which deadlines are ahead, how many read at a version, what the
\* ledger holds, who is remembered and who of them eviction may take.
BookkeepingAgrees ==
    LET tx(t) == store.transactions[t]
        active == {t \in Ids : Active(store, t)}
        ended == {t \in Ids : tx(t).state \notin {"Active", "Unknown"}}
        evictable == {t \in ended : tx(t).state # "Finished"}
    IN /\ store.active_count = Cardinality(active)
       /\ store.active_read_write = {t \in active : ~tx(t).read_only}
       /\ store.active_deadlines = {<<transaction_deadline(store, tx(t)), t>> : t \in active}
       /\ store.active_versions =
             [v \in {tx(t).read_version : t \in active} |->
                 Cardinality({t \in active : tx(t).read_version = v})]
       /\ store.ledger = BytesOf(store.transactions, active)
       /\ store.finished = ended
       /\ store.finished_deadlines = {<<finished_lineage_deadline(store, tx(t)), t>> : t \in ended}
       /\ store.evictable = IF store.scope = "Production" THEN evictable ELSE {}
       /\ Cardinality(ended) <= MaxFinished \/ (store.scope = "Production" /\ evictable = {})

\* Compaction never changes what a retained version shows: the history answers for every
\* version from the floor on with the documents of that version, and only the per-path
\* capacity takes the snapshot of an active transaction away.
HistoryIsExact ==
    /\ Len(past) = store.version + 1
    /\ \A v \in store.compaction_floor .. store.version :
          [d \in Docs |-> get_at(store, d, v).value] = past[v + 1]
    /\ \A t \in Ids : Active(store, t) =>
          \/ store.transactions[t].read_version >= store.compaction_floor
          \/ store.transactions[t].read_version < store.capacity_floor

\* The clients' view: transactions are serializable at their commit and every transaction,
\* committed or not, is shown one snapshot.
Serial == INSTANCE SerialStore WITH db <- Documents(store)
IsSerial == Serial!Spec

\* A lock of the one keeps the commit request of the other from going on.
Blocks(t, r) == t \in lock_holders(store, req[r].own, req[r].writes)

\* A transaction is sacrificed to a deadlock only when there is one, between its commit and the
\* commit of an older transaction, both still wanted by their clients.
VictimsAreYounger ==
    [][\A t \in Ids :
          store'.transactions[t].deadlock_victim /\ ~store.transactions[t].deadlock_victim =>
              \E r, q \in Requests :
                  /\ req[r].own = t /\ Blocks(req[q].own, r)
                  /\ req[q].own \in Ids /\ Blocks(t, q)
                  /\ Older(store, req[q].own, t)
                  /\ \/ req[r].phase = "trying" /\ req[q].live
                     \/ req[q].phase = "trying" /\ req[r].live]_vars

\* A commit that found a lock in its way is answered without the help of the contention deadline
\* or the leases: the holders go, a deadlock of two is broken, and no wake-up is lost.  A gRPC
\* request is answered also when a holder only runs out of time.  A REST request is not: it waits
\* for a counted release, and neither the passing of time nor the compaction that comes with a
\* clock move is one.  (A holder whose snapshot the per-path capacity took away stops holding
\* without waking anybody.)
Unanswered(r) == req[r].phase \notin {"idle", "answered"}

Outlived == \E t \in Ids : Active(store, t) /\ store.transactions[t].read_version < store.compaction_floor

\* A transaction ran out of time: it is still there, was ended for it, or has been forgotten since.
OutOfTime ==
    /\ now > 0
    /\ \E t \in Ids : Issued(t) /\ (RanOut(t) \/ store.transactions[t].state \in {"Finished", "Unknown"})

WaitersAreAnswered ==
    \A r \in Requests :
        Unanswered(r) ~> (~Unanswered(r) \/ Outlived \/ (req[r].kind = "rest" /\ OutOfTime))

\* A REST commit gives up only when its bound passed and nothing was released: some transaction
\* still holds a lock in its way.
RestGivesUpWhileHeld ==
    [][\A r \in Requests :
          /\ req[r].phase = "waiting" /\ req[r].kind = "rest"
          /\ req'[r].phase = "answered" /\ req'[r].answer = "contention"
          => lock_holders(store, req[r].own, req[r].writes) # {}]_vars

\* The REST surface runs a request again only when its writes were refused.
AppliedOnce == \A r \in Requests : req[r].applied <= 1
=============================================================================
