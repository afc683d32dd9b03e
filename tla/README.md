# TLA+ models of fireemu

fireemu is a local emulator of Firebase and Google Cloud services: one daemon that hosts Firestore,
Realtime Database, Storage, Auth, Pub/Sub, Cloud Functions, Tasks, Scheduler and Eventarc over
in-memory state and a virtual clock. Tests drive it: they advance the clock, reset sessions, wait for
idle, inject faults and expect the same outcome every time. So the parts that are hard to get right
are the ones where tasks, timers, resets and process exits meet. These modules specify those parts.

Contents: [inventory](#inventory) · [modules](#modules) · [runs](#runs) · [proofs](#proofs) ·
[findings](#findings) · [abstractions](#abstractions) · [plan](#plan)

To check a run: `tlc -workers 2 -config MCServices.cfg MCServices`. To check proofs: `tlapm OutboxProofs.tla`,
and the same for the other modules whose names end in `Proofs`. `PROJECT.json` lists the runs, the source
lines each definition stands for, for every property a mutation of the model that breaks it, the theorems,
the hazards and the findings.

## Inventory

| Part (crate) | State | Operations | What is hard | What makes it correct |
|---|---|---|---|---|
| Event outbox (`core-events`) | event records and seven indexes over them | enqueue, lease, start, succeed, fail, interrupt, retry due, cancel, discard stale, evict | seven indexes kept by hand through every transition; bounded retention | the indexes are exact; a terminal record is final; active records are never evicted; failures, not interruptions, use up the retry budget |
| Functions runtime (`adapter-functions/runtime.rs`) | outbox, payloads, slots, reservations, runner generation, draining generations, clock sweep, shutdown phase | reserve, publish or cancel a batch; dispatch; complete; release; crash recovery; reload; sweep; reset; shutdown | `complete` and `release` are two critical sections; the clock is read before the lock; handlers outlive their timeout, their runner generation and their session | one invocation per attempt; idle means nothing runs; capacity is exact; old sessions are inert; no wake-up is lost |
| Schedule sweep (`runtime.rs`, `on_clock_changed`) | a cursor per job, `catch_up_pending`, the rerun flag, the sweep in progress | clock change, sweep, publish, manual run, completion, reset, shutdown | admission refuses in the middle of a sweep; the mutex is dropped to publish; overlap decisions read slots that are about to be freed | every occurrence is decided exactly once, oldest first, and a backlog keeps the session busy until it is worked off |
| Pub/Sub broker (`core-pubsub`, `adapter-pubsub`) | per subscription a message log, a cursor and a lease index; snapshots; grants | publish, pull, acknowledge, modify deadline, seek, snapshot, dead-letter transfer, clock | log positions shift under open leases; a transfer is two critical sections; ordering keys across redelivery, exhaustion and seek | nothing unacknowledged is lost; keys stay in order; a transferred message is finished at its source; the push worker sleeps until the right instant |
| Firestore (`core-firestore`, `adapter-grpc`) | versioned documents, transactions with read sets and waits, listeners | begin, read, commit, rollback, expire, compact, listen | snapshots taken at first use, locks held only under one profile, deadlock victims, idle leases, history compacted by time and by capacity; the REST surface waits outside the store and runs a request again | commits are serial and every read is true of one state; a commit waiter is answered; a history that was cut never answers wrongly; a listener sees every commit once |
| Sessions (`core-session`, `fireemu`) | reset epoch, admission barrier, virtual clock, snapshots with budgets, fault plan, idle fence | admit, reset, advance, await idle, snapshot and restore | a request straddling a reset; a hook of a reset, capture or restore failing half way | no request acts in a session it was not admitted to; each transition leaves every store old or new, and its answer says which; idle is only reported when it is true |
| Realtime Database (`core-database`, `adapter-database`) | tree, rules, connections, queued disconnect writes | set, update, transaction, listen, onDisconnect | a disconnect racing a reconnect or reset | disconnect writes run once; listeners converge |
| Storage (`core-storage`) | objects with generations, upload sessions | upload, resume, compose, delete, preconditions | resumed and duplicated chunks; byte accounting | generations grow; a finished upload happens once |
| Auth and App Check (`core-auth`, `core-app-check`) | accounts, MFA factors, tokens, keys | sign in, enrol, verify, exchange | a TOTP step used twice, through enrolment, sign-in or a restored snapshot; token reuse after reset | a secret never accepts a step at or below one it accepted |
| Functions host, runner, tasks, Eventarc (`adapter-functions`, `fireemu`) | processes, frames, task queues, channels | spawn, invoke, enqueue, dispatch | exits in the middle of a frame; rate limits | a task is dispatched within its rate and its retry limits |
| Export publication (`export-publication`, `fd-acl`) | a directory tree on disk | stage, displace, rename, roll back | failure or crash between two renames; another program at the target's name | a manifest means a whole export; the old export survives a failed one; nothing but the replaced export is removed |
| Rules, queries, export formats, limits, wire adapters, UI, logging, configuration | - | evaluation, conversion, presentation | mostly data | checked by the repository's own property and conformance tests |

How they interact. A source mutation (a Firestore commit, an upload, a publish) *reserves* records in
the Functions runtime, commits, and *publishes* the batch; the runtime dispatches to runner processes,
whose handlers call back into the services. A clock change runs the sweep, which releases due retries,
admits schedule runs and expires Pub/Sub leases. A reset takes the admission barrier, bumps the epoch
and lets every part discard what belongs to the old session. Await-idle asks each part whether it
still has work. The Pub/Sub broker feeds the runtime through a bridge, and the runtime publishes the
messages of first-generation schedules through the broker.

## Modules

| Module | Models | Uses |
|---|---|---|
| `RetryPolicy` | backoff and retry limits (`core-events/retry.rs`) | |
| `EventRecord` | one record's transitions (`core-events/state.rs`) | `RetryPolicy` |
| `OutboxState` | the outbox's methods as operators on its state (`core-events/outbox.rs`) | `EventRecord` |
| `Outbox` | the outbox as a component: any sequence of calls | `OutboxState` |
| `FunctionsRuntime` | event delivery: reservations, dispatch, invocations, recovery, reload, sweep, reset, shutdown | `OutboxState` |
| `ScheduleSweep` | catch-up and overlap of scheduled functions | |
| `SubscriptionState` | one subscription's methods as operators on its state (`core-pubsub/subscription.rs`) | |
| `PubSubDelivery` | the subscription with its users, the dead-letter transfer, snapshots, grants and the clock | `SubscriptionState` |
| `FirestoreStore` | one database: its history and its transactions, methods as operators on a record (`core-firestore/store.rs`) | |
| `SerialStore` | abstract specification: commits in a serial order, every observation true of one state | |
| `FirestoreTransactions` | clients, commit requests of the gRPC and REST surfaces, the contention wait, leases, the clock | `FirestoreStore`, refines `SerialStore` |
| `MountPointExport` | publication entry by entry into a directory that cannot be replaced (`export-publication`) | |
| `SiblingExport` | publication by one atomic rename of a sibling directory | |
| `SessionControl` | admission barrier, requests, reset, snapshots, restore (`core-session`, `fireemu/control.rs`) | |
| `TotpFactors` | TOTP enrolment, factors, pending sign-ins and their replay protection (`core-auth/mfa.rs`, `store.rs`) | |
| `MC*` | instances for TLC | the module they are named after; `MCServices` holds the last four and `Outbox` |
| `OutboxStateProofs` | lemmas about the outbox's operators | `OutboxState` |
| `OutboxProofs` | theorems about the outbox as a component | `Outbox`, `OutboxStateProofs` |
| `RuntimeProofs` | theorems about event delivery | `FunctionsRuntime`, `OutboxStateProofs` |
| `ScheduleProofs` | theorems about the schedule sweep | `ScheduleSweep` |
| `PubSubProofs` | lemmas about the subscription's operators, theorems about its delivery | `PubSubDelivery` |
| `FirestoreProofs` | lemmas about the store's operators, theorems about the store with its clients, the refinement | `FirestoreTransactions` |
| `ServiceProofs` | theorems about sessions and TOTP factors | `SessionControl`, `TotpFactors` |
| `ExportProofs` | theorems about both ways to publish an export | `MountPointExport`, `SiblingExport` |

`OutboxState` and `SubscriptionState` hold no variables: they are composed twice, by a module that
calls the operators in any order and, for the outbox, by `FunctionsRuntime`, which composes several
calls inside one critical section the way the runtime does under its mutex.

**Outbox.** `outbox` is the struct field by field: `records`, `pending`, `pending_by_queue`,
`queue_by_id`, `retrying`, `retry_at_by_id`, `active`, `terminal`, `evicted`. Each method is an
operator and, in `Outbox`, an action. `failures` is a history variable that counts failed attempts.

**FunctionsRuntime.** One action per critical section of the mutex `inner`. The dispatch pass takes one
action per candidate and keeps the mutex in between. A task is a member of `flights` with its phase:
`invoking`, then `settling` (its outcome is known and its clock value already read), then `releasing`,
or `late` when it timed out and its handler still executes. Runner processes are numbered; `live` are
the ones that run, `gate` is the restart gate. A reset or reload kills or drains the generation.

**ScheduleSweep.** `config` is chosen once, in `Init`, from the configurations of the instance, so that
one run covers several policies. `sweeper` is the sweep in progress with the list it computed when it
started. A member of `runs` is an attempt: it holds a record while it is `queued`, `running`, `returned` (the
handler is done, the clock value for `complete` already read) or `waiting` for a retry, and an invocation slot
until it is released. A failed run with attempts left splits in two: the record that waits, and the slot still to
be released; only a sweep makes it pending again (`SweepReleases`). `fate` and `origin` are history:
what was decided about each occurrence, in order.

**SubscriptionState and PubSubDelivery.** `sub` is the log (`entries`), the cursor `first_unacked` and
the index `outstanding`. `Retain(E, keep)` is the log without the positions outside `keep`, in order: what
reclaiming, retention and a seek leave. A pull's loop with its blocked and emitted keys is stated entry by
entry (`Reached`, `Selectable`, `selected`, `forwarded`); `PullLoop` is the loop itself, and
`SelectionIsTheLoop` says that both choose the same. A transfer to the dead-letter topic is `TransferPublished` and then
`complete_dead_letter`, with `gate` held from the pull or retry that reserved it to the last
completion; publishes, acknowledgements, deadline changes, the clock and grants come in between as
the locks allow. `leased` is what the clients were told, so they can present stale ack ids.

**FirestoreStore and FirestoreTransactions.** `store` is one `FirestoreState`: versioned documents with
a compaction floor per path and one for the database, and the transactions with their mode, snapshot,
reads, locks and lease. Each method (`begin`, `touch`, document and query reads, `commit`, `rollback`,
expiry, eviction, compaction) is an operator on that record. In `FirestoreTransactions` a client's call is
an action; a commit is a request `req[r]` that goes through attempts, the lease bookkeeping of the holders
in its way, and a wait for a release, the way `retry_on_contention` does on the gRPC surface, and through
the rerun of the whole request that the REST surface does instead. The two surfaces wait on different
counters: gRPC on the releases of its database, REST on `release_count`, which `with_db` and the lease
bookkeeping count (`Operated`). Time passes in two ways: `Tick`, a running clock, does nothing else;
`MoveClock`, the control API, also compacts the store and so ends what ran out of time, uncounted. `past`, `seen` and `committed` are
history: the states of the database, what each transaction was shown, and who committed. The refinement
maps the store to its current documents, `Serial == INSTANCE SerialStore WITH db <- Documents(store)`;
`IsSerial` is the abstract specification. There, all a transaction is shown is true of one state, and a
read-write transaction commits only in a state of which all of it is still true.

**MountPointExport and SiblingExport.** A directory is a function from names to sets of pieces; a manifest
is a name like any other, published last. One action per rename or removal, so failures and crashes come
between any two. In `SiblingExport` other programs act on the target's name between the checks and the
exchange.

**SessionControl.** `epoch`, the admitted requests and the running transition are the barrier; a request
reads the epoch, verifies, is admitted and acts, one step each. A reset, capture or restore runs hook by
hook over the stores, in the order of `WipeOrder` or of `Stores`, and any step may fail after the probe, a wipe
included. The answers are those of the code: every failure of `reset_scope`, before or after the first wipe, is
answered "refused" ("no store was wiped"). The field `during` of a request is history: the transition
that ran when it read its epoch, `idle` if none did.

**TotpFactors.** One account with its enrolment sessions, factors and pending sign-ins. A code belongs
to a step; two steps may share a code. `accepted` is
history: the steps each secret accepted, in order.

## Runs

Passing runs.

| Run | Bounds | Distinct states | Shows |
|---|---|---|---|
| `runtime` | two programs. Failures: 2 events of 1 function, all fault plans and verdicts, a runner exit, a reload, a reset. Admissions: 3 events of 2 functions, batches of one and two, limit of 2 records, a reset, shutdown | 2,328,627 | `PayloadsMatchRecords`, `OneInvocationPerAttempt`, `SlotsAreTruthful`, `IdleIsTruthful`, `ResetStopsOldHandlers`, `CapacityIsHonest`, `OldSessionsAreInert`, `NothingEnqueuedAfterStop` |
| `runtime_liveness` | 1 event, clock 0..1, delays, timeouts, a crash, a failed replacement | 17,125 | `ReadyIsDispatched`, `ShutdownCompletes`, `SweepReleasesRetries` |
| `sweep` | 2 jobs (one publishes), clock 0..3, 2 moves, a reset, a manual run, a shutdown, up to 2 attempts a run, 8 configurations | 707,932 | `NoOccurrenceLost`, `NoOccurrenceTwice`, `BacklogKeepsBusy`, `NoOverlap`, `OldestFirst`, `BacklogIsWorkedOff` |
| `pubsub_delivery` | 3 messages, 1 key and the empty key, 3 leases, retention of 2 or 3, clock 0..1, 1 seek, 1 grant or policy change, 4 configurations | 654,902 | `IndexesAgree`, `NothingIsLost`, `KeyOrder`, `TransferredIsDone`, `TransferKeepsKeyOrder`, `DispatcherIsNotMisled`, `SelectionIsTheLoop`, `SeekRestoresBacklogInRoom` |
| `firestore_transactions` | 2 documents, up to 3 transactions, up to 2 commit requests; 13 client programs over both profiles (production, official emulator) and both surfaces (gRPC, REST): deadlocks, leases, phantoms, expiry, retry lineage, snapshots, compaction, clock moves | 306,952 | `BookkeepingAgrees`, `HistoryIsExact` (what the cut history still answers is what was true), `IsSerial` (the refinement), `VictimsAreYounger`, `WaitersAreAnswered` |
| `services` | mount point: 2 names of data, 2 exports, 2 failures, a crash. Sibling: 2 stages, 3 intrusions. Sessions: 3 stores, 1 request, 2 snapshot names, a budget of 1 snapshot and 2 bytes, 2 writes, 3 transitions. TOTP: window 1, 1 factor, 2 pending, 2 attempts, clock 0..3, 1 restore, steps 0 and 2 share a code. Outbox: 3 events, 2 queues, 1 terminal record kept, 2 attempts, 2 epochs, all enqueued at time 0 (only a retry window looks at that time, and the policy has none) | 1,638,430 | `ManifestMeansWhole`, `OldExportSurvives`, `OnlyTheReplacedIsRemoved`; `RequestsActInOneSession`, `StoresEndOldOrNew`; `StepsAreUsedOnce`; `IndexesAgree`, `RetryBudget`, `DiscardIsTheLoop` (the closed form of `discard_stale` against the loop), `TerminalNeverRegresses` |

The instances that hold several programs or components choose one in `Init`, so every behaviour is of one
of them and the run is the union. Type invariants and inductive invariants are stated by the theorems, not by
runs of their own. Runs with an expected violation: `runtime_crash`,
`runtime_stale_clock`, `sweep_stranded`, `pubsub_seek`, `firestore_rest_rerun`, `firestore_rest_wake`; see [findings](#findings).

Why the bounds are enough. Every property relates at most two events (or two occurrences, or two messages
of a key) and the operations between them; each instance has that many and one more to push them over a
limit: three events against a retention of one, three records against a limit of two, three messages
against a retention of two, two snapshots against a budget of one. A Firestore cycle needs two
transactions and two documents, and a third transaction stands for whoever commits or begins in between;
the client programs fix who reads and writes what and leave the order free, because free programs of three
transactions do not fit in a run. Backoffs of one unit and a clock of a few instants make a timer lie
before, at and after the clock. One crash, reload, reset, seek or grant change meets every step of
everything else; two of the same kind are not combined in one run. Deadlock is not checked: a session in
which every bound is used up, or that was shut down, may stop.

Fairness. `FairSpec` of `FunctionsRuntime` and `ScheduleSweep` has weak fairness only, per task: the
dispatch loop, an invocation and its completion, recovery, the sweep, publication, and a caller that
reserved and must publish or cancel (its guard cancels on drop). They are tokio tasks and threads the
runtime keeps polling; once one of these steps is enabled, only that task or a reset disables it.
Two assumptions go beyond scheduling and are stated in the modules: a handler returns or times out,
and a handler past its timeout returns in the end. Clock moves, resets, crashes, reloads and user
requests have no fairness. The `sweep` run checks its safety properties under the fair specification too,
which excludes no finite behaviour.

`FairSpec` of `FirestoreTransactions` has weak fairness of the steps of a request that is being served (the
lease bookkeeping, the decision to wait, waking up), written per request, and two justice
conditions: an attempt is finished again and again, `[]<>(req[r].phase # "trying")`, and no transaction is
left alone for ever, `[]<>~LeftAlone(t)`: its client ends it, or the clock comes to the end of its idle or total
lifetime. The second ends nothing by itself and wakes nobody: a gRPC waiter looks at expired holders, a REST
waiter does not. Nothing is assumed of the contention deadline, the leases, the clock or cancellation, so
`WaitersAreAnswered` says that releases and deadlock victims alone answer a waiter, for a REST request as long
as no transaction ran out of time; the sixth finding is about what happens then.

`BacklogIsWorkedOff` is about a clock that stands still. Failed runs that wait for a later retry keep their
records, so they may fill the admission limit or the catch-up room and hold the backlog back until the clock
moves; the property excepts exactly these states (`Postponed`).

## Proofs

Every theorem holds for every value of the constants that the named assumptions admit: any sets of events,
messages, jobs, stores or names, any limits and bounds.

| Module | Theorem | States |
|---|---|---|
| `OutboxProofs` | `IndexesAlwaysAgree` | `[](TypeOK /\ IndexesAgree)` |
| | `TerminalRecordsNeverRegress` | `TerminalNeverRegresses`, the repository's INV-EVENT-001 |
| | `RetryBudgetIsExact` | `[]RetryBudget` |
| | `DiscardAgreesWithTheLoop` | `[]DiscardIsTheLoop` |
| `RuntimeProofs` | `PayloadsMatch` | `[]PayloadsMatchRecords` |
| | `CapacityIsKept` | `[]CapacityIsHonest` |
| | `OneInvocation` | `[]OneInvocationPerAttempt` |
| | `OldHandlersAreStopped` | `[]ResetStopsOldHandlers` |
| | `OldSessionsStayInert` | `OldSessionsAreInert` |
| | `StoppedEnqueuesNothing` | `NothingEnqueuedAfterStop` |
| `ScheduleProofs` | `RecordsStayWithinLimit` | `[](TypeOK /\ WithinLimit)` |
| | `RunsNeverOverlap` | `[]NoOverlap` |
| | `OccurrencesAreNotLost`, `OccurrencesAreDecidedOnce` | `[]NoOccurrenceLost`, `[]NoOccurrenceTwice` |
| | `BacklogIsRemembered` | `[]BacklogKeepsBusy` |
| | `OldestIsAdmittedFirst` | `OldestFirst` |
| `PubSubProofs` | `IndexesAlwaysAgree` | `[]IndexesAgree` |
| | `MessagesAreNotLost` | `NothingIsLost` |
| | `KeysStayInOrder` | `KeyOrder` |
| | `TransfersAreFinal`, `TransfersKeepKeyOrder` | `[]TransferredIsDone`, `[]TransferKeepsKeyOrder` |
| | `SeeksRestoreInRoom` | `SeekRestoresBacklogInRoom` |
| | `DispatcherIsWokenForWork` | `[]DispatcherIsNotMisled` |
| | `SelectionAgreesWithTheLoop` | `[]SelectionIsTheLoop` |
| `FirestoreProofs` | `FirestoreInvHolds` | `[]FirestoreInv`, the inductive invariant |
| | `FirestoreBookkeepingAgrees` | `[]BookkeepingAgrees` |
| | `FirestoreHistoryIsExact` | `[]HistoryIsExact` |
| | `FirestoreIsSerial` | `IsSerial`: the specification implements `SerialStore` |
| | `FirestoreVictimsAreYounger` | `VictimsAreYounger` |
| `ExportProofs` | `ManifestsAreWhole`, `OldExportsSurvive` | `[]ManifestMeansWhole`, `[]OldExportSurvives` |
| | `OthersAreNotRemoved` | `OnlyTheReplacedIsRemoved` |
| `ServiceProofs` | `RequestsStayInTheirSession` | `[]RequestsActInOneSession`, which is about requests that read their epoch while no transition ran |
| | `TransitionsEndOldOrNew` | `StoresEndOldOrNew` |
| | `CodesAreUsedOnce` | `[]StepsAreUsedOnce` |

Assumptions, all named in the modules that declare the constants and evaluated by TLC on the instances: ids are
finite sets of naturals, bounds and limits are naturals, positive where the code divides or keeps at least one,
and lists of stores or names hold each once. Firestore's documents and transaction ids are finite sets, a store keeps
at least one version of a path, and a batch or seed writes values, deletions or transforms to documents
(`StoreAssumption`, `RequestAssumption`, `BatchAssumption`; `TransformAssumption`: a transform of a value is a
value). Powers of two are opaque to the provers, so that a backoff is a
natural number is an assumption of its own (`BackoffAssumption` of `Outbox` and of `PubSubDelivery`).
`PolicyAssumption` of `FunctionsRuntime` is more than a type: no retry window, attempts that stay inside `u32`,
backoffs within the policy's maximum, and a clock that stays that far from the end of logical time. Beyond it
`fail` returns an error, the record stays `Running` and its payload is removed, so `PayloadsMatchRecords` is
false there.

Each argument is: an inductive invariant; lemmas about the operators; one lemma per action; then the properties,
most of them in one step. `PubSubInv` also holds as an invariant of the run `pubsub_delivery`; several of the others
quantify over all naturals and are for the provers only.

**Outbox.** `TypeOK /\ IndexesAgree`. Neither half is inductive alone: the operators that take a key out of an
index compute the key from the record and the stored queue, so they remove the right key only if the indexes
agreed before; and eviction keeps the type only if the terminal list holds existing terminal records, each once.
`OutboxStateProofs` shows operator by operator, as the code composes them (`reindex` = unindex, put, index,
retire, evict), that a consistent outbox stays consistent; the mass retirement of `discard_stale` has its own
lemma because it retires more records than it may keep. `RetryBudget` needs one fact more: an interrupted
attempt is given back, so `failures` and the attempt number differ by exactly the attempt that runs.
`DiscardIsTheLoop` is proved along the loop: after m updates the outbox is the first one without the stale ids among
the first m (`DiscardedTo`), and its terminal list is the last part of one list, the old terminal ids followed by the
stale ones in order, because evicting down to the window after each retirement drops in the end what one eviction
would drop (`BeyondNext`, `ListedNext`). An id that is not stale is passed over; that `update` on it files it under
the same keys again and changes nothing (`ReindexSame`) needs exact indexes.

**Functions runtime** (`RuntimeInv`). On top of the outbox's lemmas: the payloads are those of the active records,
which are all of the current session and have attempts left (`DeliveryInv`, `RecordInv`); reserved ids were drawn
once and are nobody else's, and the ids held in this session are what the capacity counts (`ReservationInv`,
`CapacityInv`); every unsettled flight of the session has a `Running` record under its own attempt, every `Running`
record has one such flight, and no two have the same record (`FlightInv`); a live process is the current one or
drains, and runs this session's handlers only (`RunnerInv`). One action composes several outbox methods, so the
lemmas say what each method leaves alone as well as what it changes.

**Schedule sweep** (`SweepInv`). `LedgerInv`: while the sweep works off its list, the occurrences a cursor passed are
those that were decided or wait on the list, and what waits is younger than what was decided; at other times all
that a cursor passed was decided. Lost and doubled occurrences are the two ways to break this. `BacklogInv`: unless
another sweep is asked for, the one in progress is of the present clock and covers every window that is not
remembered as a backlog. `OverlapInv`: under `skip` and `reject`, runs and publications never share a job.

**Pub/Sub** (`PubSubInv`). `IndexesAgree` is not inductive: when positions shift, the index is rebuilt by looking a
lease up by its ack id, so the ack ids of open leases must differ. That follows from what is known of leases
(`LeaseOK`: each was handed out, for its message, and has not lapsed) and from message ids being distinct in the
log (`LogOK`). Beyond these: with ordering on, a reserved entry is the first unacknowledged one of its key
(`ReservedFirst`), which gives the order of transfers; a transferred message is acknowledged or is the one the gate
completes next (`DoneOK`); and a snapshot's messages are distinct (`SnapOK`). `DispatcherIsNotMisled` follows by
comparing the worker's instant with what a pull at that instant would reach. For `SelectionIsTheLoop` the invariant of
the loop (`LoopOK`) says, before each position, which of the earlier entries are taken and forwarded and which keys
are blocked and emitted, in the terms of the closed form.

**Firestore** (`FirestoreInv`). `StoreInv` is about the store alone: counters, locks, deadlines, ledger bytes, evictable
ids and lineage are functions of the transactions (`Core`, `Book`); what is remembered of ended transactions is within
its bound or may not be evicted (`Bounded`); every version from the floor on is answered with the documents of that
version (`History`); and the snapshot of an active transaction is above the floor or was taken by the capacity of a
path (`SnapshotsKept`). `Views` ties the store to its clients: all that a transaction was shown is true of the one
state its snapshot names, and an active read-write transaction retained every read and query, as it was shown, for
the check at its commit. `RequestInv` and `Waits` say which waits the requests in progress own. Each method of the store keeps
`StoreInv`, and to the transactions it is not about it does no more than end or forget them (`Ages`, `Follows`): so what
holds of their views goes on holding, and each action only has to be followed for its own transaction. A commit is
validation, the search for holders in the way, and publication, in this order; validation against the present
documents, with the retained reads, is what makes the abstract commit possible. Every step, under the invariant, is
one step of `SerialStore` or leaves its variables alone (`SerialStep`), which with `InitSerial` gives the refinement.

**Exports** (`MountInv`, `SiblingInv`). Where every entry of the old and of the new export is in each phase: while
names are moved out, the target and the displaced directory split the old export, the manifest leaving first; while
names are moved in, the target and the stage split the new one, the manifest coming last; while a failure is undone,
what is no longer displaced is back in place. Leftovers carry the number of the export that left them, so no name is
used twice. For the sibling directory: no identity is at both names, and where the stage and the new export are at
each step.

**Sessions and TOTP** (`SessionInv`, `TotpInv`). No request is admitted while a transition runs; a request that read
its epoch outside a transition has an older epoch than the transition that runs, and one that still has the current
epoch was verified in the current session. How far each transition got tells which stores it has changed. For TOTP,
a factor's boundary is the last step its secret accepted, no two factors share a secret, a secret accepted a code
before it had a factor only if its enrolment is closed for good, and a captured factor is never ahead of the live one
with its id.

Loops of the code are written as recursive functions or as closed forms. The library's induction theorems take an
operator as a parameter and cannot be used, so a fact about every length is proved from the least counterexample
instead: a nonempty set of naturals has a least element, and the loop's step contradicts it (`LeastNatural`,
`LeastPosition`, `UpTo`, `StepByStep`). The same way shows that the recursive function that stands for a loop exists
at all (`DiscardLoopExists`, `LoopExists`).

Only model-checked:

- liveness, which needs fairness: `ReadyIsDispatched`, `ShutdownCompletes`, `SweepReleasesRetries`,
  `BacklogIsWorkedOff`, `WaitersAreAnswered`;
- `SlotsAreTruthful` and `IdleIsTruthful`, which hold in the instance of the run and are false in general: the
  first finding is the counterexample.

## Findings

Six runs show a disagreement between the code and what its comments say.

1. `runtime_crash` (`runtime.rs:6414`). `complete` and `release` are two critical sections. A planned
   crash gives the attempt back, so the next delivery reuses the invocation key; the old task's
   `release` then frees the new invocation's slot, and when that one times out the session reports
   idle while its handler still runs. In the run `runtime` the same property holds with one slot.
2. `runtime_stale_clock` (`runtime.rs:6656`). `complete` reads the clock before it locks. If the clock
   moves and is swept in between, the retry is scheduled at an instant already swept, and nothing
   releases it until the clock moves again.
3. `sweep_stranded` (`runtime.rs:6740`). With overlap `skip` or `reject` and more occurrences due than
   the catch-up cap, the sweep a completion asks for runs while the finished invocation still holds
   its slot, so it suppresses the next run, and no further sweep is asked for.
4. `pubsub_seek` (`subscription.rs:1004`). At the retention bound a seek to a snapshot reclaims
   acknowledged entries that the snapshot's backlog contains; the seek succeeds and they are gone.
5. `firestore_rest_rerun` (`local.rs:6741`). On the REST surface a refused commit marks the thread as
   contended even when the lease bookkeeping freed the lock and the same call commits in its next
   attempt. The connection task then runs the committed request again: a transform is applied twice, or a
   transaction that committed is answered with an error.
6. `firestore_rest_wake` (`local.rs:3564`). A clock move of the control API ends the transactions whose
   lifetime is over and does not count the release that REST commits wait for. Such a commit waits to its
   bound and is refused for contention, although "nothing was released" (`serve.rs:535`) is not true and
   nothing holds the lock any more.

Observations from the same models that have no run of their own:

- a message a seek restores is inserted behind every retained message, because publications after the
  snapshot join the snapshot (`subscription.rs:1013`); the log is then not in publish order;
- with a catch-up cap of one and periods 1 and 3, a newer occurrence of one job is admitted before an
  older one of another (`runtime.rs:4075`, against the comment at 4142): the cap is applied per job;
- when the runners' `Date` follows the virtual clock, the clock synchronisation with a crashed runner
  fails first and charges a planned crash as an ordinary failure;
- Firestore: a REST waiter does not look at `read_write_holder_expired` either, which the comment at
  `store.rs:2992` counts on; a cycle of three transactions is ended by the contention deadline only; a lock
  holder overtaken by the capacity floor of a path stops holding without a release (`Outlived`), and its rollback is refused;
  on a token that is being retried, queries are refused where document reads are served; a query stream
  left before its end is not validated at commit;
- the epoch is bumped when an exclusive admission starts, so a request may read the new epoch, verify its
  token against the Auth store the reset has not wiped yet, and be admitted afterwards (`service.rs:150`).
  So `RequestsActInOneSession` is about the requests that read their epoch outside a transition;
- `control.rs:1548` says that a reset "reports which store refused and leaves every store as it was", and its
  answer to every failure of `reset_scope` is "no store was wiped" (`control.rs:1566`). But a poisoned store, an
  Auth registry that changed since the probe, or the seeding of tenants (`sessions.rs:214-276`) fails after
  stores were wiped: the steps `WipeFails` and `ResetEnds` with the answer "refused";
- `control.rs:2619` says that after a refused restore "the session is the one that entered the route rather than
  a mixture of two". The hooks before the failing one are put back, the failing one is not: Auth may fail after it restored the project's store (`snapshots.rs:395`),
  and the answer still says that the restore was rolled back. `StoresEndOldOrNew` says what the code does guarantee in
  these two cases: no store in a third state, wiped exactly what the reset came to, and nothing but the torn hook
  different under the answer "rolled back";
- replacing a snapshot "is always admitted" (`control.rs:345`), but a replacement over the byte budget is
  refused;
- an export interrupted the first time it is published into an empty mount point leaves entries that make
  every later export there be refused, with a hint that only speaks of displaced entries;
- the limit of one TOTP factor per user is checked when an enrolment starts (`core-auth/store.rs:5145`)
  and not when it is finalized: two enrolments started before either is finalized give two factors.

## Abstractions

- Instants and durations are small naturals. Saturation at the end of logical time is modelled where
  the code has an error path for it (`fail`), not elsewhere.
- Payloads, names, attributes, labels and ack tokens are ids. Ack ids are drawn in order; the
  collisions of the 64-bit generator are left out.
- Runner processes are modelled by what reaches the runtime: an outcome, a timeout, an exit.
- `ScheduleSweep` takes the next occurrence as a multiple of a period instead of a cron expression, and
  lets `release` come before or after the sweep a completion asked for, which is what the two tasks
  may do. A retry waits one fixed backoff; the backoff arithmetic and the retry window are in `RetryPolicy`. An
  attempt that a planned crash gives back and events a delay fault holds are in `FunctionsRuntime` only. The copies
  of a run that a duplicate fault makes (`runtime.rs:2235`) are not modelled, so a run takes one record.
- `FunctionsRuntime` has one codebase and no scheduled functions. Of an expired draining generation `DispatchWake`
  ends the handlers that are still late. Invocations that wait for their runner's answer without a time limit, which
  the code resolves as timed out there (`runtime.rs:6070`), are left out: every invocation of the model has one.
- `PubSubDelivery` has one subscription. Its destination topic is a set of admitted ids and admits or
  refuses freely; the byte bound follows the entry bound; the filter admits everything; the virtual
  clock is read inside the critical section; dead-letter limits are scaled from 5..100 to 1 and 2.
  Of what an update of a subscription replaces (`state.rs:957-995`) the model has the removal of the dead-letter
  policy; the push configuration, the retry policy, the deadline and the other topic are constants.
  The retry an acknowledgement ends with is the same action as the dispatcher's.
- `FirestoreStore` is one database with a few paths; a query is a set of paths, its result what is there.
  An attempt reads its commit time and takes the store's lock in one step. A token is its id; the registry
  of issued tokens only authenticates (`Issued`). Beginning a transaction at a read time inside a read is
  left out.
- `MountPointExport` keeps leftovers as entries; the empty stage directory a finished publication may
  leave is not kept. In `SiblingExport` other programs touch only the target's name, so the check of the
  private stage name and its removal are one step, and each publication has a stage name of its own.
- `SessionControl` has one value per store. Firestore, the first store a reset wipes, cannot refuse (`WipeFails`). The hook that fails part way is Auth's (the project, then its
  tenants: `torn`).
- `TotpFactors` has one account and counts time in periods. Secrets and ids come from one counter that never
  repeats: the generator is keyed by the epoch. Phone factors and account import are left out. One snapshot
  is taken, and a restore puts the clock back. Every request sweeps first, as in the code.

Not modelled: the parts `PROJECT.json` lists as such, with the reason. In short, parsing, formatting,
evaluation of rules and queries, cryptography and wire protocols.

## Plan

Ordered by how much other behaviour depends on the part. Done:

1. Outbox: module, run, proofs.
2. Functions runtime: module, safety and liveness runs, proofs.
3. Schedule sweep: module, safety and liveness run, proofs.
4. Pub/Sub subscription and dead-letter transfer: module, run, proofs.
5. Firestore transactions: store, clients and surfaces, abstract specification and refinement, run,
   proofs.
6. Admission barrier, session transitions, export publication, TOTP factors: one module each, one run, proofs.

Every safety property that a passing run checks is a theorem, except the two that the first finding refutes in
general. What is left to prove is liveness, which is outside the prover.

To model next: an abstract delivery specification (an event is pending, in flight or finished; at most one
handler) implemented by `FunctionsRuntime`; Storage generations and uploads; onDisconnect; task queues;
listen streams.
