-------------------------- MODULE FunctionsRuntime --------------------------
(***************************************************************************)
(* Event delivery in crates/fireemu-adapter-functions/src/runtime.rs: batch *)
(* reservations, the dispatch loop, the invocation tasks, runner recovery,  *)
(* reload, the clock sweep's retry release, session reset and shutdown.     *)
(* Everything the code does under the mutex `inner` is one action, except   *)
(* the dispatch pass: it takes one action per candidate and holds the       *)
(* mutex in between (`Unlocked` guards every other critical section).  What *)
(* the code reads before it locks, the clock above all, is read in an       *)
(* action of its own.                                                       *)
(*                                                                          *)
(* There is one codebase and no scheduled function (see ScheduleSweep), so  *)
(* `catch_up_pending` stays false.                                          *)
(***************************************************************************)
EXTENDS OutboxState

CONSTANTS Concurrency,   \* effective_concurrency of each function
          Retries,         \* the functions deployed with `retry`
          MaxRunning,      \* config.max_running
          MaxRecords,      \* MAX_ACTIVE_EVENT_RECORDS
          Policy,          \* the runtime's retry policy
          DateVirtual,     \* the runners' Date follows the virtual clock
          Configs          \* what happens: see config

ASSUME RuntimeAssumption ==
    /\ Concurrency \in [Queues -> Nat \ {0}]
    /\ Retries \subseteq Queues
    /\ MaxRunning \in Nat \ {0} /\ MaxRecords \in Nat
    /\ IsRetryPolicy(Policy)
    /\ DateVirtual \in BOOLEAN
    /\ \A c \in Configs :
          /\ c.batches \subseteq Seq(Queues)      \* what one source mutation may trigger
          /\ \A p \in c.plans : p.delay \in Nat   \* what the fault plan may answer
          /\ c.verdicts \subseteq {"Ok", "Failed", "TimedOut"}   \* how a handler may end
          /\ c.events \in Nat                    \* bound: events
          /\ 1 .. c.events \subseteq Ids         \* ids are counted from one
          /\ c.resets \in Nat                    \* bound: resets
          /\ c.clock \in 0 .. MaxInstant         \* bound: how far the virtual clock goes
          /\ c.exits \in Nat                     \* bound: runners that crash, by themselves or planned
          /\ c.reloads \in Nat                   \* bound: reloads
          /\ c.spawn_failures \in Nat            \* bound: replacements that do not start

(* The runtime's policy comes from try_new, which sets no retry window, and *)
(* counts its attempts in a u32.  Logical time is wide enough (an i128 of   *)
(* nanoseconds) for a backoff after any instant the clock reaches.          *)
ASSUME PolicyAssumption ==
    /\ Policy.max_retry_duration = Unlimited
    /\ Policy.max_attempts <= MaxAttempt
    /\ \A a \in Attempts : backoff_for_attempt(Policy, a) \in 0 .. Policy.max_backoff
    /\ \A c \in Configs : c.clock + Policy.max_backoff <= MaxInstant

VARIABLES
    \* struct Inner
    outbox, payloads, reserved_event_records, running, draining, next_event, epoch, delayed,
    \* the codebase generation, the processes that are alive, the restart gate and its queue
    runner, live, gate, restarts,
    \* tasks and callers
    reservations, flights, dispatcher, wake, clock, rerun, sweep, resetting, shutdown,
    \* what happens in this behaviour, and what has happened of it
    config, exits, reloads, spawn_failures

inner == <<outbox, payloads, reserved_event_records, running, draining, next_event, epoch, delayed>>
codebase == <<runner, live, gate, restarts>>
bounds == <<config, exits, reloads, spawn_failures>>
vars == <<inner, codebase, reservations, flights, dispatcher, wake, clock, rerun, sweep,
          resetting, shutdown, bounds>>

NoRunner == 0
NoSweep == -1
FreeGate == [stage |-> "free", by |-> "none", epoch |-> 0, runner |-> NoRunner]

Init ==
    /\ outbox = EmptyOutbox /\ payloads = EmptyMap /\ reserved_event_records = 0
    /\ running = EmptyMap /\ draining = {} /\ next_event = 0 /\ epoch = 0 /\ delayed = EmptyMap
    /\ runner = 1 /\ live = {1} /\ gate = FreeGate /\ restarts = 0
    /\ reservations = {} /\ flights = {}
    /\ dispatcher = [phase |-> "waiting", now |-> 0, ready |-> {}]
    /\ wake = TRUE /\ clock = 0 /\ rerun = FALSE /\ sweep = NoSweep
    /\ resetting = FALSE /\ shutdown = "no"
    /\ config \in Configs /\ exits = 0 /\ reloads = 0 /\ spawn_failures = 0

\* No dispatch pass holds the mutex.
Unlocked == dispatcher.phase # "passing"

ShuttingDown == shutdown # "no"

\* Mutant of NotifiedShutdown: nobody tells the shutdown.
UnnotifiedShutdown == shutdown

\* `idle.notify_waiters()`: the shutdown that waits on it looks again.
NotifiedShutdown == IF shutdown = "waiting" THEN "checking" ELSE shutdown

-----------------------------------------------------------------------------
(* Source mutations: reserve, then publish or cancel. *)

\* Mutant of can_admit_events: reserved records are not counted.
can_admit_events_unreserved(n) == Cardinality(DOMAIN payloads) + n <= MaxRecords

can_admit_events(n) ==
    Cardinality(DOMAIN payloads) + reserved_event_records + n <= MaxRecords

\* The batch is charged as a whole or not at all; ids are never reused.
reserve_drafts(batch) ==
    /\ Unlocked
    /\ ~ ShuttingDown
    /\ can_admit_events(Len(batch))
    /\ next_event + Len(batch) <= config.events
    /\ next_event' = next_event + Len(batch)
    /\ reserved_event_records' = reserved_event_records + Len(batch)
    /\ reservations' = reservations \cup
          {[epoch |-> epoch, time |-> clock, after |-> next_event, fns |-> batch]}
    /\ UNCHANGED <<outbox, payloads, running, draining, epoch, delayed, codebase, flights,
                   dispatcher, wake, clock, rerun, sweep, resetting, shutdown, bounds>>

\* Mutant of published: a batch reserved before a reset is published after it.
published_any_epoch(r) == TRUE

\* Whether the reservation still belongs to this session.
published(r) == r.epoch = epoch

\* The outbox after the events of r are enqueued in id order.
enqueued(o, r) ==
    LET step[n \in 0 .. Len(r.fns)] ==
            IF n = 0 THEN o
            ELSE enqueue_in_queue(step[n - 1], r.after + n, NewRecord(r.epoch, r.time), r.fns[n])
    IN  step[Len(r.fns)]

IdsOf(r) == (r.after + 1) .. (r.after + Len(r.fns))

publish(r) ==
    /\ Unlocked
    /\ reservations' = reservations \ {r}
    /\ IF published(r)
       THEN /\ reserved_event_records' = reserved_event_records - Len(r.fns)
            /\ outbox' = enqueued(outbox, r)
            /\ payloads' = [i \in DOMAIN payloads \cup IdsOf(r) |->
                              IF i \in IdsOf(r) THEN r.fns[i - r.after] ELSE payloads[i]]
            /\ wake' = TRUE
            /\ shutdown' = NotifiedShutdown
       ELSE UNCHANGED <<reserved_event_records, outbox, payloads, wake, shutdown>>
    /\ UNCHANGED <<running, draining, next_event, epoch, delayed, codebase, flights, dispatcher,
                   clock, rerun, sweep, resetting, bounds>>

refunded(r) ==
    IF published(r) THEN reserved_event_records - Len(r.fns)
    ELSE reserved_event_records

cancel_reservation(r) ==
    /\ Unlocked
    /\ reservations' = reservations \ {r}
    /\ reserved_event_records' = refunded(r)
    /\ shutdown' = NotifiedShutdown
    /\ UNCHANGED <<outbox, payloads, running, draining, next_event, epoch, delayed, codebase,
                   flights, dispatcher, wake, clock, rerun, sweep, resetting, bounds>>

-----------------------------------------------------------------------------
(* The dispatch loop. *)

\* The key of an invocation slot names the event and the attempt.
SlotKey(id, attempt) == <<id, attempt>>

SlotOf(fl) == SlotKey(fl.id, fl.attempt)

RestrictOut(f, S) == RestrictTo(f, DOMAIN f \ S)

(* One turn of the loop: a stored permit or the drain timer ends the wait.  *)
(* Generations whose deadline passed are killed and their slots freed, then *)
(* the clock is read for the pass.  The deadline is a second after the last *)
(* timeout of the generation's invocations, so only late handlers are left. *)
DispatchWake(expired) ==
    /\ dispatcher.phase = "waiting"
    /\ shutdown # "stopped"
    /\ wake \/ expired # {}
    /\ \A fl \in flights : SlotOf(fl) \in UNION {d.keys : d \in expired} => fl.phase = "late"
    /\ wake' = FALSE
    /\ draining' = draining \ expired
    /\ live' = live \ {d.runner : d \in expired}
    /\ running' = RestrictOut(running, UNION {d.keys : d \in expired})
    /\ shutdown' = IF expired # {} THEN NotifiedShutdown ELSE shutdown
    /\ dispatcher' = [phase |-> "woken", now |-> clock, ready |-> {}]
    /\ UNCHANGED <<outbox, payloads, reserved_event_records, next_event, epoch, delayed, runner,
                   gate, restarts, reservations, flights, clock, rerun, sweep, resetting, bounds>>

\* Takes the mutex with the head of every queue as the candidates.
DispatchBegin ==
    /\ dispatcher.phase = "woken"
    /\ dispatcher' = IF shutdown = "stopped" THEN [dispatcher EXCEPT !.phase = "waiting"]
                     ELSE [dispatcher EXCEPT !.phase = "passing",
                                             !.ready = dispatchable_queue_heads(outbox)]
    /\ UNCHANGED <<inner, codebase, reservations, flights, wake, clock, rerun, sweep, resetting,
                   shutdown, bounds>>

PassOver == dispatcher.ready = {} \/ Cardinality(DOMAIN running) >= MaxRunning

DispatchEnd ==
    /\ dispatcher.phase = "passing"
    /\ PassOver
    /\ dispatcher' = [phase |-> "waiting", now |-> 0, ready |-> {}]
    /\ UNCHANGED <<inner, codebase, reservations, flights, wake, clock, rerun, sweep, resetting,
                   shutdown, bounds>>

\* The least candidate, its function, and what replaces it among the candidates.
Candidate == CHOOSE k \in dispatcher.ready : \A l \in dispatcher.ready \ {k} : KeyBefore(k, l)
CandidateId == Candidate[2]
CandidateFn == outbox.queue_by_id[CandidateId]
Following == next_dispatchable_in_queue(outbox, CandidateFn, Candidate)

running_here(fn) == Cardinality({k \in DOMAIN running : running[k].fn = fn})

at_limit(fn) == running_here(fn) >= Concurrency[fn]

\* A dead runner or a full function: the whole queue waits for a later pass.
DispatchBlocked ==
    /\ dispatcher.phase = "passing" /\ ~ PassOver
    /\ runner \notin live \/ at_limit(CandidateFn)
    /\ dispatcher' = [dispatcher EXCEPT !.ready = @ \ {Candidate}]
    /\ gate' = IF runner \notin live /\ gate = FreeGate
               THEN [FreeGate EXCEPT !.stage = "held", !.by = "dispatch"] ELSE gate
    /\ UNCHANGED <<inner, runner, live, restarts, reservations, flights, wake, clock, rerun, sweep,
                   resetting, shutdown, bounds>>

Held(id) == id \in DOMAIN delayed /\ dispatcher.now < delayed[id].until

Dispatchable == dispatcher.phase = "passing" /\ ~ PassOver /\ runner \in live /\ ~ at_limit(CandidateFn)

\* A held head does not hide the later events of its function.
DispatchHeld ==
    /\ Dispatchable
    /\ Held(CandidateId)
    /\ dispatcher' = [dispatcher EXCEPT !.ready = (@ \ {Candidate}) \cup Following]
    /\ UNCHANGED <<inner, codebase, reservations, flights, wake, clock, rerun, sweep, resetting,
                   shutdown, bounds>>

\* The fault plan delays the event; it is asked once, the outcome is kept.
DispatchDelay(plan) ==
    /\ Dispatchable
    /\ CandidateId \notin DOMAIN delayed
    /\ plan.delay > 0
    /\ delayed' = Put(delayed, CandidateId,
                      [until |-> dispatcher.now + plan.delay, fault |-> plan.fault])
    /\ dispatcher' = [dispatcher EXCEPT !.ready = (@ \ {Candidate}) \cup Following]
    /\ UNCHANGED <<outbox, payloads, reserved_event_records, running, draining, next_event, epoch,
                   codebase, reservations, flights, wake, clock, rerun, sweep, resetting, shutdown,
                   bounds>>

(* The event is leased and started, takes a slot, and its invocation task   *)
(* is spawned with the runner of this pass.  A planned crash kills that     *)
(* runner at once and asks for a replacement.                               *)
DispatchStart(plan) ==
    LET id     == CandidateId
        fault  == IF id \in DOMAIN delayed THEN delayed[id].fault ELSE plan.fault
        r      == start(lease(outbox.records[id]))
        crash  == fault = "crash"
    IN  /\ Dispatchable
        /\ ~ Held(id)
        /\ id \notin DOMAIN delayed => plan.delay = 0
        /\ crash => exits < config.exits
        /\ exits' = IF crash THEN exits + 1 ELSE exits
        /\ outbox' = reindex(outbox, id, r)
        /\ delayed' = Remove(delayed, id)
        /\ running' = Put(running, SlotKey(id, r.attempt), [fn |-> CandidateFn, runner |-> runner])
        /\ flights' = flights \cup
              {[id |-> id, attempt |-> r.attempt, epoch |-> r.epoch, fn |-> CandidateFn,
                runner |-> runner, fault |-> fault, phase |-> "invoking", outcome |-> "none",
                now |-> 0]}
        /\ live' = IF crash THEN live \ {runner} ELSE live
        /\ restarts' = IF crash /\ ~ ShuttingDown THEN restarts + 1 ELSE restarts
        /\ dispatcher' = [dispatcher EXCEPT !.ready = (@ \ {Candidate}) \cup Following]
        /\ UNCHANGED <<payloads, reserved_event_records, draining, next_event, epoch, runner, gate,
                       reservations, wake, clock, rerun, sweep, resetting, shutdown, config, reloads,
                       spawn_failures>>

-----------------------------------------------------------------------------
(* The invocation task: invoke, complete, release. *)

(* What an invocation may answer: the outcome that the fault plan decided;  *)
(* a clock-synchronisation error, an ordinary failure, when the runner is   *)
(* gone and Date is virtual; otherwise the runner's verdict.                *)
Outcomes(fl) ==
    IF fl.fault \in {"error", "dead_letter"} THEN {"Failed"}
    ELSE IF fl.fault = "timeout" THEN {"TimedOut"}
    ELSE IF fl.runner \in live THEN config.verdicts
    ELSE {"RunnerGone"} \cup (IF DateVirtual THEN {"ClockError"} ELSE {})

Replace(fl, new) == flights' = (flights \ {fl}) \cup {new}

\* The outcome is known and `complete` has read the clock, before it locks.
InvokeEnds(fl, outcome) ==
    /\ fl.phase = "invoking"
    /\ outcome \in Outcomes(fl)
    /\ Replace(fl, [fl EXCEPT !.phase = "settling", !.now = clock, !.outcome = outcome])
    /\ UNCHANGED <<inner, codebase, reservations, dispatcher, wake, clock, rerun, sweep, resetting,
                   shutdown, bounds>>

Single == [max_attempts |-> 1, base_backoff |-> 0, max_backoff |-> 0,
           max_doublings |-> Unlimited, max_retry_duration |-> Unlimited]

\* Mutant of settled: nothing is done for an invocation whose runner is gone.
settled_unless_gone(fl, r) ==
    IF fl.outcome = "RunnerGone" THEN r
    ELSE IF fl.outcome = "Ok" THEN succeed(r) ELSE fail(r, Policy, fl.now)

\* What the outcome does to the record.
settled(fl, r) ==
    IF fl.outcome = "Ok" THEN succeed(r)
    ELSE IF fl.outcome = "RunnerGone" /\ fl.fault = "crash" THEN interrupt(r)
    ELSE fail(r, IF fl.fn \in Retries /\ fl.fault # "dead_letter" THEN Policy ELSE Single, fl.now)

\* ADR-011: the captured epoch is validated before any observable mutation.
of_this_session(fl) == fl.epoch = epoch

\* A handler that outlives its timeout keeps its slot.
after_settling(fl) == IF fl.outcome = "TimedOut" /\ fl.fault = "none" THEN "late" ELSE "releasing"

\* Mutant of StillActive: an interrupted event loses its payload.
RetryOnly(r) == r.state = "RetryWaiting"

\* Retirement::StillActive: the event will be delivered again.
StillActive(r) == r.state \in {"Pending", "RetryWaiting"}

complete(fl) ==
    /\ Unlocked
    /\ fl.phase = "settling"
    /\ outbox' = IF of_this_session(fl)
                 THEN reindex(outbox, fl.id, settled(fl, outbox.records[fl.id])) ELSE outbox
    /\ payloads' = IF of_this_session(fl) /\ StillActive(settled(fl, outbox.records[fl.id]))
                   THEN payloads ELSE Remove(payloads, fl.id)
    /\ Replace(fl, [fl EXCEPT !.phase = after_settling(fl), !.now = 0, !.outcome = "none"])
    /\ wake' = TRUE
    /\ shutdown' = NotifiedShutdown
    /\ UNCHANGED <<reserved_event_records, running, draining, next_event, epoch, delayed, codebase,
                   reservations, dispatcher, clock, rerun, sweep, resetting, bounds>>

(* Frees the slot.  Of a late handler: it returned, or its runner is gone.  *)
(* A draining generation without keys left is killed.                       *)
release(fl) ==
    LET left == {[d EXCEPT !.keys = @ \ {SlotOf(fl)}] : d \in draining}
    IN  /\ Unlocked
        /\ fl.phase \in {"late", "releasing"}
        /\ flights' = flights \ {fl}
        /\ running' = Remove(running, SlotOf(fl))
        /\ draining' = {d \in left : d.keys # {}}
        /\ live' = live \ {d.runner : d \in {e \in left : e.keys = {}}}
        /\ wake' = TRUE
        /\ shutdown' = NotifiedShutdown
        /\ UNCHANGED <<outbox, payloads, reserved_event_records, next_event, epoch, delayed, runner,
                       gate, restarts, reservations, dispatcher, clock, rerun, sweep, resetting,
                       bounds>>

-----------------------------------------------------------------------------
(* Runners: exit, recovery behind the restart gate, reload. *)

RunnerExits(r) ==
    /\ exits < config.exits
    /\ live' = live \ {r}
    /\ exits' = exits + 1
    /\ UNCHANGED <<inner, runner, gate, restarts, reservations, flights, dispatcher, wake, clock,
                   rerun, sweep, resetting, shutdown, config, reloads, spawn_failures>>

\* A replacement asked for by a reset or a crash gets the gate.
RestartTakesGate ==
    /\ restarts > 0 /\ gate = FreeGate
    /\ restarts' = restarts - 1
    /\ gate' = [FreeGate EXCEPT !.stage = "held", !.by = "restart"]
    /\ UNCHANGED <<inner, runner, live, reservations, flights, dispatcher, wake, clock, rerun, sweep,
                   resetting, shutdown, bounds>>

\* Mutant of recovery_wakes: only a reset or a crash announces its runner.
recovery_wakes_restart(installed) == gate.by = "restart"

\* Whether the end of a recovery wakes the dispatcher.
recovery_wakes(installed) == installed \/ gate.by = "restart"

(* The recovery reads the epoch and the generation it is to replace; it is  *)
(* done when that generation is alive or the runtime is shutting down.      *)
RecoveryCaptures ==
    /\ Unlocked
    /\ gate.stage = "held"
    /\ LET done == ShuttingDown \/ runner \in live
       IN  /\ gate' = IF done THEN FreeGate
                      ELSE [gate EXCEPT !.stage = "spawning", !.epoch = epoch, !.runner = runner]
           /\ wake' = (wake \/ (done /\ recovery_wakes(~ ShuttingDown)))
    /\ UNCHANGED <<inner, runner, live, restarts, reservations, flights, dispatcher, clock, rerun,
                   sweep, resetting, shutdown, bounds>>

\* Runners are numbered in the order they are installed.
NextRunner == runner + 1

\* Neither a reset nor a reload came between the capture and the installation.
still_current == gate.epoch = epoch /\ gate.runner = runner /\ ~ ShuttingDown

RecoveryInstalls ==
    /\ Unlocked
    /\ gate.stage = "spawning"
    /\ gate' = FreeGate
    /\ IF still_current
       THEN /\ runner' = NextRunner
            /\ live' = (live \ {runner}) \cup {NextRunner}
       ELSE UNCHANGED <<runner, live>>
    /\ wake' = (wake \/ recovery_wakes(still_current))
    /\ UNCHANGED <<inner, restarts, reservations, flights, dispatcher, clock, rerun, sweep,
                   resetting, shutdown, bounds>>

\* Every attempt failed to start; the wake comes at once or after the cooldown.
RecoveryFails ==
    /\ gate.stage = "spawning"
    /\ spawn_failures < config.spawn_failures
    /\ spawn_failures' = spawn_failures + 1
    /\ gate' = FreeGate
    /\ wake' = TRUE
    /\ UNCHANGED <<inner, runner, live, restarts, reservations, flights, dispatcher, clock, rerun,
                   sweep, resetting, shutdown, config, exits, reloads>>

(* A new generation is installed; the old one is killed now, or drains the  *)
(* invocations that were admitted to it.                                    *)
reload_codebase ==
    LET pending == {k \in DOMAIN running : running[k].runner = runner}
    IN  /\ Unlocked
        /\ reloads < config.reloads
        /\ ~ ShuttingDown
        /\ reloads' = reloads + 1
        /\ runner' = NextRunner
        /\ live' = (IF pending = {} THEN live \ {runner} ELSE live) \cup {NextRunner}
        /\ draining' = IF pending = {} THEN draining
                       ELSE draining \cup {[runner |-> runner, keys |-> pending]}
        /\ wake' = TRUE
        /\ UNCHANGED <<outbox, payloads, reserved_event_records, running, next_event, epoch, delayed,
                       gate, restarts, reservations, flights, dispatcher, clock, rerun, sweep,
                       resetting, shutdown, config, exits, spawn_failures>>

-----------------------------------------------------------------------------
(* The virtual clock and the sweep it asks for. *)

\* The clock moves and its caller requests a sweep.
AdvanceClock ==
    /\ clock < config.clock
    /\ clock' = clock + 1
    /\ rerun' = TRUE
    /\ wake' = TRUE
    /\ shutdown' = NotifiedShutdown
    /\ UNCHANGED <<inner, codebase, reservations, flights, dispatcher, sweep, resetting, bounds>>

\* The request is cleared before the clock is read.
SweepBegin ==
    /\ sweep = NoSweep /\ rerun
    /\ rerun' = FALSE
    /\ sweep' = clock
    /\ UNCHANGED <<inner, codebase, reservations, flights, dispatcher, wake, clock, resetting,
                   shutdown, bounds>>

(* The outbox after every due retry became pending, one after the other;    *)
(* `order` lists the due ids, and the result does not depend on it.         *)
released(o, now, order) ==
    LET step[n \in 0 .. Cardinality(retries_due(o, now))] ==
            IF n = 0 THEN o
            ELSE reindex(step[n - 1], order[n], retry_due(o.records[order[n]], now))
    IN  step[Cardinality(retries_due(o, now))]

on_clock_changed ==
    /\ Unlocked
    /\ sweep # NoSweep
    /\ sweep' = NoSweep
    /\ IF ShuttingDown THEN UNCHANGED outbox
       ELSE \E order \in IncreasingSeqs(retries_due(outbox, sweep)) :
               outbox' = released(outbox, sweep, order)
    /\ wake' = (wake \/ (~ ShuttingDown /\ (\/ retries_due(outbox, sweep) # {}
                                            \/ \E i \in DOMAIN delayed : delayed[i].until <= sweep)))
    /\ UNCHANGED <<payloads, reserved_event_records, running, draining, next_event, epoch, delayed,
                   codebase, reservations, flights, dispatcher, clock, rerun, resetting, shutdown,
                   bounds>>

-----------------------------------------------------------------------------
(* Session reset and shutdown. *)

\* The shutdown flag is read before the mutex is taken.
ResetRequested ==
    /\ ~ resetting
    /\ ~ ShuttingDown
    /\ epoch < config.resets
    /\ resetting' = TRUE
    /\ UNCHANGED <<inner, codebase, reservations, flights, dispatcher, wake, clock, rerun, sweep,
                   shutdown, bounds>>

\* Mutant of killed_by_reset: the draining generations live on.
killed_by_reset_current == {runner}

\* Every process that may still run a handler of the session that ends.
killed_by_reset == {runner} \cup {d.runner : d \in draining}

\* Mutant of slots_after_reset: the slots of late handlers are kept.
slots_kept == running

\* A reset frees every slot at once, those of handlers still running too.
slots_after_reset == EmptyMap

reset_at ==
    /\ Unlocked
    /\ resetting
    /\ resetting' = FALSE
    /\ epoch' = epoch + 1
    /\ live' = live \ killed_by_reset
    /\ draining' = {}
    /\ \E order \in IncreasingSeqs(StaleIds(outbox, epoch + 1)) :
          outbox' = discard_stale(outbox, epoch + 1, order)
    /\ payloads' = EmptyMap
    /\ reserved_event_records' = 0
    /\ running' = slots_after_reset
    /\ delayed' = EmptyMap
    /\ restarts' = IF ShuttingDown THEN restarts ELSE restarts + 1
    /\ wake' = TRUE
    /\ shutdown' = NotifiedShutdown
    /\ UNCHANGED <<next_event, runner, gate, reservations, flights, dispatcher, clock, rerun, sweep,
                   bounds>>

begin_shutdown ==
    /\ Unlocked
    /\ shutdown = "no"
    /\ shutdown' = "checking"
    /\ wake' = TRUE
    /\ UNCHANGED <<inner, codebase, reservations, flights, dispatcher, clock, rerun, sweep,
                   resetting, bounds>>

\* Mutant of handed_off: the dispatcher stops with batches still reserved.
handed_off_always == TRUE

\* Every admitted source mutation has published or cancelled.
handed_off == reserved_event_records = 0

(* The dispatcher stops only when every reservation is handed off;          *)
(* otherwise the shutdown waits for the next notification.                  *)
ShutdownChecks ==
    /\ Unlocked
    /\ shutdown = "checking"
    /\ shutdown' = IF handed_off THEN "stopped" ELSE "waiting"
    /\ wake' = (wake \/ handed_off)
    /\ UNCHANGED <<inner, codebase, reservations, flights, dispatcher, clock, rerun, sweep,
                   resetting, bounds>>

\* The current and the draining runners are shut down.
ShutdownRunners ==
    /\ Unlocked
    /\ shutdown = "stopped"
    /\ live # {}
    /\ live' = {}
    /\ draining' = {}
    /\ UNCHANGED <<outbox, payloads, reserved_event_records, running, next_event, epoch, delayed,
                   runner, gate, restarts, reservations, flights, dispatcher, wake, clock, rerun,
                   sweep, resetting, shutdown, bounds>>

-----------------------------------------------------------------------------
Source == \/ \E batch \in config.batches : reserve_drafts(batch)
          \/ \E r \in reservations : publish(r) \/ cancel_reservation(r)

DispatchLoop ==
    \/ \E expired \in SUBSET draining : DispatchWake(expired)
    \/ DispatchBegin
    \/ DispatchBlocked
    \/ DispatchHeld
    \/ \E plan \in config.plans : DispatchDelay(plan) \/ DispatchStart(plan)
    \/ DispatchEnd

Invocation ==
    \E fl \in flights :
        \/ \E outcome \in Outcomes(fl) : InvokeEnds(fl, outcome)
        \/ complete(fl)
        \/ release(fl)

Recovery == RestartTakesGate \/ RecoveryCaptures \/ RecoveryInstalls \/ RecoveryFails

Sweep == SweepBegin \/ on_clock_changed

Lifecycle == ResetRequested \/ reset_at \/ begin_shutdown \/ ShutdownChecks \/ ShutdownRunners

Next == \/ Source \/ DispatchLoop \/ Invocation \/ Recovery \/ Sweep \/ Lifecycle
        \/ (\E r \in live : RunnerExits(r)) \/ reload_codebase \/ AdvanceClock

Spec == Init /\ [][Next]_vars

(* Fairness: the dispatcher, the tasks and the recovery run; a caller that  *)
(* reserved a batch hands it off; a handler returns or times out, and a     *)
(* handler past its timeout returns in the end (nothing in the runtime ends *)
(* one that does not).                                                      *)
Fairness ==
    /\ WF_vars(\E r \in reservations : publish(r) \/ cancel_reservation(r))
    /\ WF_vars(DispatchLoop)
    /\ WF_vars(Invocation)
    /\ WF_vars(RestartTakesGate \/ RecoveryCaptures \/ RecoveryInstalls)
    /\ WF_vars(Sweep)
    /\ WF_vars(reset_at \/ ShutdownChecks)

FairSpec == Spec /\ Fairness

-----------------------------------------------------------------------------
(* Properties. *)

Slots == {SlotKey(i, a) : i \in Ids, a \in Attempts}

Faults == {"none", "error", "dead_letter", "timeout", "crash"}

Flights == [id : Ids, attempt : Attempts, epoch : 0 .. config.resets, fn : Queues, runner : Nat,
            fault : Faults, phase : {"invoking", "settling", "late", "releasing"},
            outcome : {"none", "Ok", "Failed", "TimedOut", "RunnerGone", "ClockError"},
            now : Instants]

\* Every variable has its type.
TypeOK ==
    /\ OutboxType(outbox)
    /\ IsMap(payloads, Ids, Queues)
    /\ reserved_event_records \in 0 .. MaxRecords
    /\ IsMap(running, Slots, [fn : Queues, runner : Nat])
    /\ \A d \in draining : d.runner \in Nat /\ d.keys \in SUBSET Slots /\ d.keys # {}
    /\ next_event \in Nat /\ epoch \in 0 .. config.resets
    /\ IsMap(delayed, Ids, [until : Instants, fault : Faults])
    /\ runner \in Nat /\ live \subseteq 0 .. runner /\ restarts \in Nat
    /\ gate.stage \in {"free", "held", "spawning"} /\ gate.epoch \in 0 .. config.resets
    /\ \A r \in reservations : r.epoch \in 0 .. config.resets /\ r.fns \in config.batches
    /\ flights \subseteq Flights
    /\ dispatcher.phase \in {"waiting", "woken", "passing"} /\ dispatcher.ready \subseteq Keys
    /\ clock \in 0 .. config.clock /\ sweep \in {NoSweep} \cup 0 .. config.clock
    /\ {wake, rerun, resetting} \subseteq BOOLEAN
    /\ shutdown \in {"no", "checking", "waiting", "stopped"}

\* A handler that is really executing in a runner process.
Executing(fl) == /\ fl.phase \in {"invoking", "late"}
                 /\ fl.fault = "none"
                 /\ fl.runner \in live

\* An invocation whose outcome has not been applied to its record.
Unsettled(fl) == fl.phase \in {"invoking", "settling"}

(* Exactly the active records keep a payload: none is stranded without one, *)
(* and none of a finished event is left to eat the admission capacity.      *)
PayloadsMatchRecords ==
    /\ DOMAIN payloads = outbox.active
    /\ \A id \in outbox.active : payloads[id] = outbox.queue_by_id[id]
    /\ IndexOK(outbox)

(* The reservation counter is what the outstanding batches of this session  *)
(* hold, and reserved and retained records together stay within the limit.  *)
CapacityIsHonest ==
    LET held == {r \in reservations : r.epoch = epoch} IN
    /\ reserved_event_records = Cardinality(UNION {IdsOf(r) : r \in held})
    /\ Cardinality(DOMAIN payloads) + reserved_event_records <= MaxRecords

(* A running record has one invocation, of its own attempt, and the other   *)
(* way round: no event is delivered twice at once and none waits for an     *)
(* invocation that is gone.                                                 *)
OneInvocationPerAttempt ==
    \A id \in DOMAIN outbox.records :
        LET mine == {fl \in flights : fl.id = id /\ fl.epoch = epoch /\ Unsettled(fl)} IN
        /\ outbox.records[id].state = "Running" <=> mine # {}
        /\ \A fl, other \in mine : fl = other
        /\ \A fl \in mine : fl.attempt = outbox.records[id].attempt

(* Every handler that executes holds a slot of its function on its runner,  *)
(* late ones included, no function has more of them executing than its      *)
(* concurrency, and every slot will be released by some invocation.         *)
SlotsAreTruthful ==
    /\ \A fl \in flights :
          Executing(fl) => /\ SlotOf(fl) \in DOMAIN running
                           /\ running[SlotOf(fl)] = [fn |-> fl.fn, runner |-> fl.runner]
    /\ \A fn \in Queues :
          Cardinality({fl \in flights : Executing(fl) /\ fl.fn = fn}) <= Concurrency[fn]
    /\ \A k \in DOMAIN running : \E fl \in flights : SlotOf(fl) = k /\ fl.epoch = epoch

\* Mutant of is_idle: only what runs counts.
is_idle_running_only == running = EmptyMap /\ reserved_event_records = 0

is_idle == ~ has_active(outbox) /\ running = EmptyMap /\ reserved_event_records = 0

(* An idle session has no handler executing, no batch of its own waiting to *)
(* be published and no timer left.                                          *)
IdleIsTruthful ==
    is_idle => /\ \A fl \in flights : ~ Executing(fl)
               /\ \A r \in reservations : r.epoch # epoch
               /\ outbox.retrying = {}

(* After a reset no handler of the session before it executes: a handler    *)
(* still running must not write into the reset session.                     *)
ResetStopsOldHandlers == \A fl \in flights : Executing(fl) => fl.epoch = epoch

(* ADR-011: work of an older session changes no record of this one, and     *)
(* adds none: every record a step adds or changes is of the session that    *)
(* the step leaves, unless it is discarded.                                 *)
OldSessionsAreInert ==
    [][\A id \in DOMAIN outbox'.records :
          \/ id \in DOMAIN outbox.records /\ outbox'.records[id] = outbox.records[id]
          \/ outbox'.records[id].epoch = epoch'
          \/ outbox'.records[id].state = "DiscardedStaleEpoch"]_vars

(* Every batch admitted before shutdown is published while the dispatcher   *)
(* still runs: once it stopped nothing is enqueued any more.                *)
NothingEnqueuedAfterStop ==
    [][shutdown = "stopped" => DOMAIN outbox'.records \subseteq DOMAIN outbox.records]_vars

\* Due for dispatch: pending and not held back by a delay fault.
Ready(id) ==
    /\ id \in InState(outbox, "Pending")
    /\ id \in DOMAIN delayed => delayed[id].until <= clock
    /\ shutdown # "stopped"

(* A pending event is dispatched, or discarded by a reset: no wake-up of    *)
(* the dispatch loop is lost, whatever full functions, dead runners, held   *)
(* heads and stale clock reads it meets.                                    *)
ReadyIsDispatched == \A id \in Ids : Ready(id) ~> ~ Ready(id)

RetryIsDue(id) ==
    /\ id \in InState(outbox, "RetryWaiting")
    /\ outbox.records[id].retry_at <= clock
    /\ ~ ShuttingDown

\* A retry that is due when a sweep is asked for is released by it.
SweepReleasesRetries == \A id \in Ids : (RetryIsDue(id) /\ rerun) ~> ~ RetryIsDue(id)

\* A retry becomes pending again at its instant.
DueRetriesAreReleased == \A id \in Ids : RetryIsDue(id) ~> ~ RetryIsDue(id)

\* A shutdown waits for the reservations and then stops the dispatcher.
ShutdownCompletes == ShuttingDown ~> (shutdown = "stopped")
=============================================================================
