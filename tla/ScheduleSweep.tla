---------------------------- MODULE ScheduleSweep ----------------------------
(***************************************************************************)
(* The schedule sweep of crates/fireemu-adapter-functions/src/runtime.rs:   *)
(* what `on_clock_changed` admits of the occurrences that became due, under *)
(* the catch-up policy, the overlap policy and the admission limit, and     *)
(* everything that asks for another sweep.  One sweep runs at a time        *)
(* (SweepGuard); it holds the mutex `inner` except while it publishes the   *)
(* Pub/Sub message of a first-generation schedule.                          *)
(*                                                                          *)
(* Runs occupy an admission record while they are queued, running or        *)
(* waiting for a retry, and each attempt an invocation slot from its start  *)
(* until its handler has returned.                                          *)
(***************************************************************************)
EXTENDS Integers, Sequences, FiniteSets

CONSTANTS Jobs,          \* the scheduled functions, naturals in manifest order
          Period,        \* occurrences of a job are the multiples of its period
          Publishing,    \* jobs whose runs publish a message first (first generation)
          Backoff,       \* the wait before a retry
          Configs,       \* the scheduler configurations and what happens under them
          MaxClock,      \* bound: instants
          MaxMoves       \* bound: clock changes

ASSUME SweepAssumption ==
    /\ Jobs \subseteq Nat /\ IsFiniteSet(Jobs)
    /\ Period \in [Jobs -> Nat \ {0}]
    /\ Publishing \subseteq Jobs
    /\ Backoff \in Nat /\ MaxClock \in Nat /\ MaxMoves \in Nat
    /\ Configs \subseteq [catch_up : {"all", "latest", "none"},
                          overlap : {"allow", "queue", "skip", "reject", "skip_in_flight"},
                          cap : Nat \ {0},   \* scheduler.maxCatchUpRuns
                          records : Nat,     \* MAX_ACTIVE_EVENT_RECORDS
                          attempts : Nat \ {0},   \* retryCount + 1
                          resets : Nat,      \* bound: resets
                          manuals : {0, 1},  \* bound: manual runs
                          others : Nat,      \* bound: reservations of other sources
                          stops : {0, 1}]    \* bound: shutdowns

VARIABLES config,             \* FunctionsConfig: catch_up, overlap, max_catch_up_runs
          cursor,             \* per job: runs strictly after this instant are due
          runs,               \* attempts of admitted runs that still hold a record or a slot
          publications,       \* reserved runs whose message is being published
          refused,            \* runs whose publication failed, on their way to `complete`
          reserved,           \* reserved_event_records
          catch_up_pending, schedule_recheck_pending, epoch, shutting_down,
          sweeper,            \* the sweep in progress
          rerun,              \* schedule_sweep_rerun: a sweep is asked for
          clock, moves, manuals, others,
          origin,             \* history: cursor at the start of the session, per job
          fate                \* history: what became of the occurrences, in order

inner == <<config, cursor, runs, reserved, catch_up_pending, schedule_recheck_pending, epoch,
           shutting_down>>
environment == <<clock, moves, manuals, others>>
history == <<origin, fate>>
vars == <<inner, publications, refused, sweeper, rerun, environment, history>>

Idle == [stage |-> "idle", now |-> 0, todo |-> <<>>, executing |-> {}, epoch |-> 0]

Init ==
    /\ config \in Configs
    /\ cursor = [j \in Jobs |-> 0]
    /\ runs = {} /\ publications = {} /\ refused = {} /\ reserved = 0
    /\ catch_up_pending = FALSE /\ schedule_recheck_pending = FALSE /\ epoch = 0
    /\ shutting_down = FALSE
    /\ sweeper = Idle /\ rerun = FALSE /\ clock = 0 /\ moves = 0 /\ manuals = 0 /\ others = 0
    /\ origin = [j \in Jobs |-> 0] /\ fate = <<>>

\* The sweep holds the mutex while it admits.
Unlocked == sweeper.stage # "admitting"

\* Occurrences of a job after `from`, up to and including `to`.
Due(j, from, to) == {t \in (from + 1) .. to : t % Period[j] = 0}

LeastOf(S) == CHOOSE x \in S : \A y \in S : x <= y
GreatestOf(S) == CHOOSE x \in S : \A y \in S : y <= x

\* The first n elements of a finite set of integers.
First(S, n) == {x \in S : Cardinality({y \in S : y < x}) < n}

HasPayload(r) == r.phase \in {"queued", "running", "returned", "waiting"}
HasSlot(r) == r.phase \in {"running", "returned", "checking", "late"}

payloads == {r \in runs : HasPayload(r)}

\* can_admit_events for one record.
can_admit == Cardinality(payloads) + reserved + 1 <= config.records

\* Mutant of busy: a run whose message is being published does not count.
busy_unpublished(j) == \E r \in runs : r.job = j

busy(j) == (\E r \in runs : r.job = j) \/ (\E p \in publications : p.job = j /\ p.epoch = epoch)

\* Whether the overlap policy lets a run of j in.
admit_scheduled_run(j) == config.overlap \in {"skip", "reject"} => ~ busy(j)

Request == rerun' = TRUE

-----------------------------------------------------------------------------
(* The clock, and a handler's life as far as the sweep depends on it. *)

SetClock(t) ==
    /\ moves < MaxMoves
    /\ t > clock
    /\ clock' = t
    /\ moves' = moves + 1
    /\ Request
    /\ UNCHANGED <<inner, publications, refused, sweeper, manuals, others, history>>

EnterPhase(r, phase, due) == runs' = (runs \ {r}) \cup {[r EXCEPT !.phase = phase, !.due = due]}

Dispatch(r) ==
    /\ Unlocked
    /\ r.phase = "queued"
    /\ config.overlap = "queue" => \A s \in runs : s.job = r.job => ~ HasSlot(s)
    /\ EnterPhase(r, "running", 0)
    /\ UNCHANGED <<config, cursor, reserved, catch_up_pending, schedule_recheck_pending, epoch,
                   shutting_down, publications, refused, sweeper, rerun, environment, history>>

\* The handler returns or times out; `complete` reads the clock before it locks.
Return(r) ==
    /\ r.phase = "running"
    /\ EnterPhase(r, "returned", clock)
    /\ UNCHANGED <<config, cursor, reserved, catch_up_pending, schedule_recheck_pending, epoch,
                   shutting_down, publications, refused, sweeper, rerun, environment, history>>

(* `complete`, first critical section: the record of a run that succeeded,  *)
(* or failed for the last time, is retired and its payload goes.            *)
Settle(r) ==
    /\ Unlocked
    /\ r.phase = "returned"
    /\ EnterPhase(r, "checking", 0)
    /\ UNCHANGED <<config, cursor, reserved, catch_up_pending, schedule_recheck_pending, epoch,
                   shutting_down, publications, refused, sweeper, rerun, environment, history>>

\* schedule_retry_policy: the handler of a first-generation job is never retried.
MayRetry(r) == r.job \notin Publishing /\ r.attempt < config.attempts

\* The record of a failed run, waiting for its next attempt.
Again(r) == [r EXCEPT !.phase = "waiting", !.attempt = @ + 1, !.due = @ + Backoff]

(* The same section for a failure with an attempt left: record and payload  *)
(* stay, until the retry is due; the slot is still to be released.          *)
SettleRetry(r) ==
    /\ Unlocked
    /\ r.phase = "returned"
    /\ MayRetry(r)
    /\ runs' = (runs \ {r}) \cup {[r EXCEPT !.phase = "checking", !.due = 0], Again(r)}
    /\ UNCHANGED <<config, cursor, reserved, catch_up_pending, schedule_recheck_pending, epoch,
                   shutting_down, publications, refused, sweeper, rerun, environment, history>>

\* Mutant of more_due: a completion asks for no sweep.
more_due_never == FALSE

\* Whether a completion or a cancelled reservation asks for another sweep.
more_due == catch_up_pending

\* `complete`, second critical section.
CheckMoreDue(r) ==
    /\ Unlocked
    /\ r.phase = "checking"
    /\ EnterPhase(r, "late", 0)
    /\ rerun' = (rerun \/ more_due)
    /\ UNCHANGED <<config, cursor, reserved, catch_up_pending, schedule_recheck_pending, epoch,
                   shutting_down, publications, refused, sweeper, environment, history>>

(* `release`: the slot is freed at once, or when a handler past its timeout *)
(* returns.                                                                 *)
Release(r) ==
    /\ Unlocked
    /\ r.phase = "late"
    /\ runs' = runs \ {r}
    /\ UNCHANGED <<config, cursor, reserved, catch_up_pending, schedule_recheck_pending, epoch,
                   shutting_down, publications, refused, sweeper, rerun, environment, history>>

-----------------------------------------------------------------------------
(* The sweep. *)

\* The request is cleared before the clock is read.
SweepStart ==
    /\ sweeper.stage = "idle" /\ rerun
    /\ rerun' = FALSE
    /\ sweeper' = [Idle EXCEPT !.stage = "started", !.now = clock]
    /\ UNCHANGED <<inner, publications, refused, environment, history>>

room == IF Cardinality(payloads) < config.cap THEN config.cap - Cardinality(payloads) ELSE 0
chunk == IF room > 1 THEN room ELSE 1

\* A full catch-up room holds the schedule backlog back.
backlog_held == config.catch_up = "all" /\ room = 0 /\ catch_up_pending

\* The runs of job j that the policy keeps of the window up to `now`.
Kept(j, now) ==
    LET due == Due(j, cursor[j], now)
    IN  CASE config.catch_up = "all"    -> First(due, chunk)
          [] config.catch_up = "latest" -> IF due = {} THEN {} ELSE {GreatestOf(due)}
          [] config.catch_up = "none"   -> {}

\* More is due than one sweep takes.
Beyond(j, now) == config.catch_up = "all" /\ Cardinality(Due(j, cursor[j], now)) > chunk

\* Mutant of left_due: what is beyond the cap is not remembered.
left_due_forgotten(now) == FALSE

\* Whether a sweep of every job leaves something due.
left_due(now) == \E j \in Jobs : Beyond(j, now)

\* Where the cursor goes: to the last kept run, or to the clock, never back.
moved_cursor(j, now) ==
    IF Beyond(j, now) THEN GreatestOf(Kept(j, now))
    ELSE IF now > cursor[j] THEN now ELSE cursor[j]

\* Mutant of Before: job after job.
BeforeByJob(a, b) == a.job < b.job \/ (a.job = b.job /\ a.at < b.at)

\* Oldest occurrence first; job order breaks ties.
Before(a, b) == a.at < b.at \/ (a.at = b.at /\ a.job < b.job)

Sorted(S) ==
    CHOOSE s \in [1 .. Cardinality(S) -> S] : \A i, k \in DOMAIN s : i < k => Before(s[i], s[k])

\* The history of what the catch-up policy drops.
Fated(S, what) == fate \o Sorted({[job |-> x.job, at |-> x.at, what |-> what] : x \in S})

(* The sweep takes the mutex, moves the cursors over what it keeps or drops *)
(* and lists the runs to admit.                                             *)
SweepCollect ==
    LET now     == sweeper.now
        swept   == IF backlog_held THEN {} ELSE Jobs
        kept    == UNION {{[job |-> j, at |-> t] : t \in Kept(j, now)} : j \in swept}
        dropped == IF config.catch_up = "all" THEN {}
                   ELSE UNION {{[job |-> j, at |-> t] :
                                   t \in Due(j, cursor[j], now) \ Kept(j, now)} : j \in swept}
    IN  /\ sweeper.stage = "started"
        /\ ~ shutting_down
        /\ sweeper' = [sweeper EXCEPT !.stage = "admitting", !.todo = Sorted(kept), !.epoch = epoch,
                                      !.executing = {r.job : r \in {s \in runs : HasSlot(s)}}]
        /\ cursor' = [j \in Jobs |-> IF j \in swept THEN moved_cursor(j, now) ELSE cursor[j]]
        /\ catch_up_pending' = IF backlog_held THEN catch_up_pending ELSE left_due(now)
        /\ fate' = Fated(dropped, "dropped")
        /\ UNCHANGED <<config, runs, reserved, schedule_recheck_pending, epoch, shutting_down,
                   publications, refused, rerun, environment, origin>>

\* Once shutdown began the sweep gives up.
SweepStops ==
    /\ sweeper.stage = "started"
    /\ shutting_down
    /\ sweeper' = Idle
    /\ UNCHANGED <<inner, publications, refused, rerun, environment, history>>

Run(j, at, by) == [job |-> j, at |-> at, by |-> by, epoch |-> epoch]

Queued(p) == [job |-> p.job, at |-> p.at, by |-> p.by, attempt |-> 1, due |-> 0, phase |-> "queued"]

\* Reserves or queues a run, as its generation asks for.
Enter(j, at, by) ==
    IF j \in Publishing
    THEN /\ reserved' = reserved + 1
         /\ publications' = publications \cup {Run(j, at, by)}
         /\ UNCHANGED runs
    ELSE /\ runs' = runs \cup {Queued(Run(j, at, by))}
         /\ UNCHANGED <<reserved, publications>>

NextRun == Head(sweeper.todo)

Suppressed == \/ config.overlap = "skip_in_flight" /\ NextRun.job \in sweeper.executing
              \/ ~ admit_scheduled_run(NextRun.job)

Admitting == sweeper.stage = "admitting" /\ sweeper.todo # <<>>

SweepSkips ==
    /\ Admitting
    /\ Suppressed
    /\ sweeper' = [sweeper EXCEPT !.todo = Tail(@)]
    /\ fate' = Fated({NextRun}, "skipped")
    /\ UNCHANGED <<inner, publications, refused, rerun, environment, origin>>

SweepAdmits ==
    /\ Admitting
    /\ ~ Suppressed
    /\ can_admit
    /\ Enter(NextRun.job, NextRun.at, "sweep")
    /\ sweeper' = [sweeper EXCEPT !.todo = Tail(@),
                                  !.stage = IF NextRun.job \in Publishing THEN "publishing" ELSE @]
    /\ fate' = Fated({NextRun}, "run")
    /\ UNCHANGED <<config, cursor, catch_up_pending, schedule_recheck_pending, epoch,
                   shutting_down, refused, rerun, environment, origin>>

\* Mutant of moved_back: only the cursor of the refused run's job moves back.
moved_back_first(j) ==
    IF j = NextRun.job /\ NextRun.at - 1 < cursor[j] THEN NextRun.at - 1 ELSE cursor[j]

\* Mutant of moved_back: one occurrence too far.
moved_back_too_far(j) ==
    LET left == {sweeper.todo[i].at : i \in {k \in DOMAIN sweeper.todo : sweeper.todo[k].job = j}}
    IN  IF left # {} /\ LeastOf(left) > 1 THEN LeastOf(left) - 2 ELSE cursor[j]

\* A job's earliest run that was not admitted decides its cursor.
moved_back(j) ==
    LET left == {sweeper.todo[i].at : i \in {k \in DOMAIN sweeper.todo : sweeper.todo[k].job = j}}
    IN  IF left # {} /\ LeastOf(left) - 1 < cursor[j] THEN LeastOf(left) - 1 ELSE cursor[j]

\* The first refusal ends the sweep: this run and the later ones are due again.
SweepRefused ==
    /\ Admitting
    /\ ~ Suppressed
    /\ ~ can_admit
    /\ cursor' = [j \in Jobs |-> moved_back(j)]
    /\ catch_up_pending' = TRUE
    /\ sweeper' = [sweeper EXCEPT !.todo = <<>>]
    /\ UNCHANGED <<config, runs, reserved, schedule_recheck_pending, epoch, shutting_down,
                   publications, refused, rerun, environment, history>>

\* A reset or the shutdown came while the mutex was free.
interrupted == sweeper.epoch # epoch \/ shutting_down

\* After its publication the sweep locks again; a reset in between restarts it.
SweepRelocks ==
    /\ sweeper.stage = "publishing"
    /\ \A p \in publications \cup refused : p.by # "sweep"
    /\ IF interrupted
       THEN rerun' = FALSE /\ sweeper' = [Idle EXCEPT !.stage = "started", !.now = clock]
       ELSE sweeper' = [sweeper EXCEPT !.stage = "admitting"] /\ UNCHANGED rerun
    /\ UNCHANGED <<inner, publications, refused, environment, history>>

\* Mutant of RetryDue: a retry is due only after its instant.
RetryDueLater(r) == r.phase = "waiting" /\ r.due < sweeper.now

\* A retry the sweep finds due.
RetryDue(r) == r.phase = "waiting" /\ r.due <= sweeper.now

Closing == sweeper.stage = "admitting" /\ sweeper.todo = <<>>

\* At its end the sweep makes the due retries pending again, whatever the room.
SweepReleases(r) ==
    /\ Closing
    /\ RetryDue(r)
    /\ EnterPhase(r, "queued", 0)
    /\ UNCHANGED <<config, cursor, reserved, catch_up_pending, schedule_recheck_pending, epoch,
                   shutting_down, publications, refused, sweeper, rerun, environment, history>>

SweepEnd ==
    /\ Closing
    /\ \A r \in runs : ~ RetryDue(r)
    /\ sweeper' = Idle
    /\ UNCHANGED <<inner, publications, refused, rerun, environment, history>>

-----------------------------------------------------------------------------
(* Publication, manual runs, other sources, reset. *)

\* release_event_reservation, for a reservation of this session.
released(p) == IF p.epoch = epoch /\ reserved > 0 THEN reserved - 1 ELSE reserved

\* The broker took the message and the run is queued, unless a reset came first.
publish(p) ==
    /\ Unlocked
    /\ publications' = publications \ {p}
    /\ reserved' = released(p)
    /\ runs' = IF p.epoch = epoch THEN runs \cup {Queued(p)} ELSE runs
    /\ UNCHANGED <<config, cursor, catch_up_pending, schedule_recheck_pending, epoch,
                   shutting_down, refused, sweeper, rerun, environment, history>>

\* The broker refused it: the record goes to `complete` without a payload.
publication_refused(p) ==
    /\ Unlocked
    /\ publications' = publications \ {p}
    /\ reserved' = released(p)
    /\ refused' = IF p.epoch = epoch THEN refused \cup {p} ELSE refused
    /\ UNCHANGED <<config, cursor, runs, catch_up_pending, schedule_recheck_pending, epoch,
                   shutting_down, sweeper, rerun, environment, history>>

(* `complete` of a refused publication has no slot and may run inside a     *)
(* sweep: it leaves the sweep it asks for to the dispatcher.                *)
complete_refused(p) ==
    /\ Unlocked
    /\ refused' = refused \ {p}
    /\ schedule_recheck_pending' =
          (schedule_recheck_pending \/ (p.epoch = epoch /\ catch_up_pending))
    /\ UNCHANGED <<config, cursor, runs, reserved, catch_up_pending, epoch, shutting_down,
                   publications, sweeper, rerun, environment, history>>

\* The dispatch loop takes over the recheck a refused publication asked for.
Recheck ==
    /\ Unlocked
    /\ schedule_recheck_pending
    /\ schedule_recheck_pending' = FALSE
    /\ Request
    /\ UNCHANGED <<config, cursor, runs, reserved, catch_up_pending, epoch, shutting_down,
                   publications, refused, sweeper, environment, history>>

run_schedule(j) ==
    /\ Unlocked
    /\ ~ shutting_down
    /\ manuals < config.manuals
    /\ manuals' = manuals + 1
    /\ admit_scheduled_run(j)
    /\ can_admit
    /\ Enter(j, clock, "manual")
    /\ UNCHANGED <<config, cursor, catch_up_pending, schedule_recheck_pending, epoch,
                   shutting_down, refused, sweeper, rerun, clock, moves, others, history>>

\* Another source reserves a record and cancels it again.
OtherReserves ==
    /\ Unlocked
    /\ ~ shutting_down
    /\ others < config.others
    /\ can_admit
    /\ others' = others + 1
    /\ reserved' = reserved + 1
    /\ UNCHANGED <<config, cursor, runs, catch_up_pending, schedule_recheck_pending, epoch,
                   shutting_down, publications, refused, sweeper, rerun, clock, moves, manuals,
                   history>>

\* The reservations that belong to runs being published.
Charged == Cardinality({p \in publications : p.epoch = epoch})

OtherCancels ==
    /\ Unlocked
    /\ reserved > Charged
    /\ reserved' = reserved - 1
    /\ rerun' = (rerun \/ more_due)
    /\ UNCHANGED <<config, cursor, runs, catch_up_pending, schedule_recheck_pending, epoch,
                   shutting_down, publications, refused, sweeper, environment, history>>

begin_shutdown ==
    /\ Unlocked
    /\ config.stops = 1 /\ ~ shutting_down
    /\ shutting_down' = TRUE
    /\ UNCHANGED <<config, cursor, runs, reserved, catch_up_pending, schedule_recheck_pending,
                   epoch, publications, refused, sweeper, rerun, environment, history>>

reset_at ==
    /\ Unlocked
    /\ ~ shutting_down
    /\ epoch < config.resets
    /\ epoch' = epoch + 1
    /\ runs' = {} /\ reserved' = 0
    /\ catch_up_pending' = FALSE /\ schedule_recheck_pending' = FALSE
    /\ cursor' = [j \in Jobs |-> clock]
    /\ origin' = [j \in Jobs |-> clock]
    /\ fate' = <<>>
    /\ UNCHANGED <<config, shutting_down, publications, refused, sweeper, rerun, environment>>

-----------------------------------------------------------------------------
Handlers == \E r \in runs : \/ Dispatch(r) \/ Return(r) \/ Settle(r) \/ SettleRetry(r)
                            \/ CheckMoreDue(r) \/ Release(r)

Sweep == SweepStart \/ SweepCollect \/ SweepSkips \/ SweepAdmits \/ SweepRefused
         \/ SweepStops \/ SweepRelocks \/ (\E r \in runs : SweepReleases(r)) \/ SweepEnd

publish_schedule_messages == \/ \E p \in publications : publish(p) \/ publication_refused(p)
                             \/ \E p \in refused : complete_refused(p)

Next ==
    \/ \E t \in 0 .. MaxClock : SetClock(t)
    \/ Handlers \/ Sweep \/ publish_schedule_messages \/ Recheck
    \/ \E j \in Jobs : run_schedule(j)
    \/ OtherReserves \/ OtherCancels
    \/ reset_at \/ begin_shutdown

Spec == Init /\ [][Next]_vars

(* The sweep, the dispatcher and the invocation tasks run; a publication    *)
(* answers; a reservation of another source is handed off; a handler past   *)
(* its timeout returns in the end.                                          *)
FairSpec ==
    Spec /\ WF_vars(Handlers) /\ WF_vars(Sweep) /\ WF_vars(publish_schedule_messages) /\ WF_vars(Recheck)
         /\ WF_vars(OtherCancels)

-----------------------------------------------------------------------------
(* Properties. *)

Phases == {"queued", "running", "returned", "waiting", "checking", "late"}
Stages == {"idle", "started", "admitting", "publishing"}

\* Every variable has its type, and a run being published keeps its reservation.
TypeOK ==
    /\ cursor \in [Jobs -> 0 .. MaxClock] /\ origin \in [Jobs -> 0 .. MaxClock]
    /\ runs \subseteq [job : Jobs, at : 0 .. MaxClock, by : {"sweep", "manual"}, phase : Phases,
                       attempt : Nat, due : Nat]
    /\ publications \cup refused \subseteq [job : Jobs, at : 0 .. MaxClock, by : {"sweep", "manual"},
                               epoch : 0 .. config.resets]
    /\ reserved \in Charged .. config.records /\ epoch \in 0 .. config.resets
    /\ {catch_up_pending, schedule_recheck_pending, shutting_down, rerun} \subseteq BOOLEAN
    /\ sweeper.stage \in Stages /\ clock \in 0 .. MaxClock

FatesOf(j) == {fate[i].at : i \in {k \in DOMAIN fate : fate[k].job = j}}

(* No occurrence is lost: between sweeps, everything of a job up to its     *)
(* cursor was run, skipped by the overlap policy or dropped by the catch-up *)
(* policy, whatever refusals, publications and resets came in between.      *)
NoOccurrenceLost ==
    (sweeper.stage \in {"idle", "started"} /\ ~ shutting_down) =>
        \A j \in Jobs : FatesOf(j) = Due(j, origin[j], cursor[j])

\* No occurrence is decided twice: not after a refusal, a rewind or a rerun.
NoOccurrenceTwice ==
    \A i, k \in DOMAIN fate : (fate[i].job = fate[k].job /\ fate[i].at = fate[k].at) => i = k

\* All that asks for a sweep has been served.
Quiet == sweeper.stage = "idle" /\ ~ rerun /\ ~ shutting_down

(* What is due and not admitted keeps the session busy: await-idle never    *)
(* answers while an occurrence still has to be enqueued.                    *)
BacklogKeepsBusy ==
    Quiet => \A j \in Jobs : Due(j, cursor[j], clock) # {} => catch_up_pending

\* Records stay within the admission limit.
WithinLimit == Cardinality(payloads) + reserved <= config.records

\* The admitted runs of a job; the attempts of one run count once.
RunsOf(j) == {<<r.at, r.by>> : r \in {s \in runs : s.job = j}}

(* Under `skip` and `reject` two runs of a function never coexist, also     *)
(* when one is still being published, waits for its retry or was started by *)
(* hand.                                                                    *)
NoOverlap ==
    config.overlap \in {"skip", "reject"} =>
        \A j \in Jobs : Cardinality(RunsOf(j))
                        + Cardinality({p \in publications : p.job = j /\ p.epoch = epoch}) <= 1

(* A sweep admits the oldest run first, whatever its job: no run is         *)
(* admitted while an older one the sweep kept is waiting, or, unless the    *)
(* catch-up cap or a refusal left some behind, any older one is due.        *)
OldestFirst ==
    [][\A i \in DOMAIN fate' :
          (i \notin DOMAIN fate /\ fate'[i].what = "run") =>
             /\ \A k \in DOMAIN sweeper'.todo : fate'[i].at <= sweeper'.todo[k].at
             /\ ~ catch_up_pending =>
                   \A j \in Jobs : \A t \in Due(j, cursor[j], clock) : fate'[i].at <= t]_vars

\* Runs that wait for a retry at an instant the clock has not reached.
Postponed == {r \in runs : r.phase = "waiting" /\ r.due > clock}

(* A backlog that is left due is worked off in the end without another      *)
(* clock change, unless failed runs that wait for their retries hold every  *)
(* admission record or fill the catch-up room: only the clock ends that.    *)
BacklogIsWorkedOff ==
    catch_up_pending ~> \/ ~ catch_up_pending
                        \/ shutting_down
                        \/ Cardinality(Postponed) >= config.records
                        \/ Cardinality(Postponed) >= config.cap
=============================================================================
