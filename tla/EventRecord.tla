---------------------------- MODULE EventRecord ----------------------------
(***************************************************************************)
(* An event and its delivery state: crates/fireemu-core-events/src/state.rs *)
(* and event.rs.  Every transition is a function from a record to the       *)
(* record it leaves, and leaves the record alone where the code returns an  *)
(* error.                                                                   *)
(*                                                                          *)
(*   Pending -> Leased -> Running -> Succeeded                              *)
(*      |          |         |-> RetryWaiting -> Pending                    *)
(*      |          |         |-> DeadLettered                               *)
(*      |          |         `-> Cancelled                                  *)
(*      `----------+-----------> DiscardedStaleEpoch                        *)
(***************************************************************************)
EXTENDS Integers, RetryPolicy

CONSTANTS MaxInstant,    \* the last representable LogicalInstant
          MaxAttempt     \* u32::MAX, the last value of the attempt counter

ASSUME InstantAssumption == MaxInstant \in Nat
ASSUME AttemptAssumption == MaxAttempt \in Nat \ {0}

ActiveStates   == {"Pending", "Leased", "Running", "RetryWaiting"}
TerminalStates == {"Succeeded", "DeadLettered", "Cancelled", "DiscardedStaleEpoch"}
EventStates    == ActiveStates \cup TerminalStates

Instants == 0 .. MaxInstant
Attempts == 0 .. MaxAttempt

(* `epoch` and `time` are the event's; retry_at is the payload of           *)
(* RetryWaiting and 0 in every other state.                                 *)
EventRecords == [epoch    : Nat,
                 time     : Instants,
                 state    : EventStates,
                 retry_at : Instants,
                 attempt  : Attempts]

NewRecord(epoch, time) ==
    [epoch |-> epoch, time |-> time, state |-> "Pending", retry_at |-> 0, attempt |-> 0]

is_terminal(r) == r.state \in TerminalStates

lease(r) == IF r.state = "Pending" THEN [r EXCEPT !.state = "Leased"] ELSE r

\* checked_add: at u32::MAX the record stays leased.
start(r) ==
    IF r.state = "Leased" /\ r.attempt < MaxAttempt
    THEN [r EXCEPT !.state = "Running", !.attempt = @ + 1]
    ELSE r

succeed(r) == IF r.state = "Running" THEN [r EXCEPT !.state = "Succeeded"] ELSE r

\* Time since the event, zero when the clock was set back before it.
elapsed_since(r, now) == IF now < r.time THEN 0 ELSE now - r.time

(* A failed attempt waits for its backoff or is dead-lettered; a retry      *)
(* instant that cannot be represented leaves the record running.            *)
fail(r, policy, now) ==
    IF r.state # "Running" THEN r
    ELSE IF allows_retry_after_elapsed(policy, r.attempt, elapsed_since(r, now))
    THEN LET at == now + backoff_for_attempt(policy, r.attempt)
         IN  IF at > MaxInstant THEN r
             ELSE [r EXCEPT !.state = "RetryWaiting", !.retry_at = at]
    ELSE [r EXCEPT !.state = "DeadLettered"]

\* Mutant of interrupt: the attempt stays charged.
interrupt_charged(r) ==
    IF r.state = "Running" THEN [r EXCEPT !.state = "Pending"] ELSE r

\* The delivery infrastructure failed: the attempt is given back.
interrupt(r) ==
    IF r.state = "Running"
    THEN [r EXCEPT !.state = "Pending", !.attempt = IF @ > 0 THEN @ - 1 ELSE 0]
    ELSE r

retry_due(r, now) ==
    IF r.state = "RetryWaiting" /\ now >= r.retry_at
    THEN [r EXCEPT !.state = "Pending", !.retry_at = 0]
    ELSE r

\* Mutant of cancel: the terminal states are not protected.
cancel_any_state(r) == [r EXCEPT !.state = "Cancelled", !.retry_at = 0]

cancel(r) ==
    IF is_terminal(r) THEN r ELSE [r EXCEPT !.state = "Cancelled", !.retry_at = 0]

discard_stale_record(r, current_epoch) ==
    IF is_terminal(r) \/ r.epoch >= current_epoch THEN r
    ELSE [r EXCEPT !.state = "DiscardedStaleEpoch", !.retry_at = 0]
=============================================================================
