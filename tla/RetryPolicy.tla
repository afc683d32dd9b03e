---------------------------- MODULE RetryPolicy ----------------------------
(***************************************************************************)
(* The bounded retry policy of crates/fireemu-core-events/src/retry.rs.     *)
(* Durations are naturals in a small unit; LinearStep is what two seconds   *)
(* are in that unit.  The code computes in i128 and answers the cap when a  *)
(* product does not fit; a value that does not fit exceeds every cap, so    *)
(* the unbounded integers here give the same minimum.                       *)
(***************************************************************************)
EXTENDS Integers

CONSTANT LinearStep      \* LINEAR_STEP_NANOS, in the unit of the model

ASSUME LinearStepAssumption == LinearStep \in Nat \ {0}

\* A field that the code keeps as an Option and that holds nothing.
Unlimited == -1

SmallerOf(a, b) == IF a < b THEN a ELSE b

(* What try_new and try_with_limits let through. *)
IsRetryPolicy(p) ==
    /\ p.max_attempts \in Nat \ {0}
    /\ p.base_backoff \in Nat
    /\ p.max_backoff \in Nat
    /\ p.base_backoff <= p.max_backoff
    /\ p.max_doublings \in Nat \cup {Unlimited}
    /\ p.max_retry_duration \in Nat \cup {Unlimited}

\* The shift from which base * 2^shift counts as an overflow.
ShiftLimit == 120

(* Backoff after the failure of `attempt` (1-based): doubling, then two     *)
(* seconds more per step, capped; no unit (an overflow) answers the cap.    *)
backoff_for_attempt(p, attempt) ==
    LET shift     == IF attempt > 0 THEN attempt - 1 ELSE 0
        doublings == IF p.max_doublings = Unlimited
                     THEN shift ELSE SmallerOf(shift, p.max_doublings)
        linear    == LinearStep * (shift - doublings)
    IN  IF doublings >= ShiftLimit
        THEN p.max_backoff
        ELSE SmallerOf(p.base_backoff * 2^doublings + linear, p.max_backoff)

allows_retry_after(p, attempt) == attempt < p.max_attempts

(* With a retry window the chain goes on until the attempts AND the window  *)
(* are both used up.                                                        *)
allows_retry_after_elapsed(p, attempt, elapsed) ==
    \/ allows_retry_after(p, attempt)
    \/ /\ p.max_retry_duration # Unlimited
       /\ elapsed + backoff_for_attempt(p, attempt) <= p.max_retry_duration
=============================================================================
