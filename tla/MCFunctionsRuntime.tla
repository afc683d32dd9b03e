------------------------- MODULE MCFunctionsRuntime -------------------------
(***************************************************************************)
(* Instances of the runtime: small programs of source mutations, faults and *)
(* verdicts.                                                                *)
(***************************************************************************)
EXTENDS FunctionsRuntime, TLC

CONSTANTS f, g

OneFunction == {f}
TwoFunctions == {f, g}
OneId == 1 .. 1
ThreeIds == 1 .. 3

OneAtATime == [q \in Queues |-> 1]
OneAndTwoAtATime == [q \in Queues |-> IF q = f THEN 1 ELSE 2]
TwoAtATime == [q \in Queues |-> 2]

All == Queues
None == {}

\* Two attempts; the first failure waits one unit.
TwoAttempts == [max_attempts |-> 2, base_backoff |-> 1, max_backoff |-> 1,
                max_doublings |-> Unlimited, max_retry_duration |-> Unlimited]

Plan(fault, delay) == [fault |-> fault, delay |-> delay]
NoFaults == {Plan("none", 0)}
Crashes == NoFaults \cup {Plan("crash", 0)}
Delays == NoFaults \cup {Plan("none", 1), Plan("timeout", 0), Plan("dead_letter", 0)}
AllPlans == Crashes \cup {Plan("error", 0), Plan("none", 1)}

AnyVerdict == {"Ok", "Failed", "TimedOut"}

\* One event of one function; nothing goes wrong but what its handler does.
Quiet == [batches |-> {<<f>>}, plans |-> NoFaults, verdicts |-> {"Ok", "TimedOut"}, events |-> 1,
          resets |-> 0, clock |-> 0, exits |-> 0, reloads |-> 0, spawn_failures |-> 0]

\* Two events of one function: retries, late handlers, every fault plan, an exit, a reload, a reset.
Failures == [Quiet EXCEPT !.plans = AllPlans, !.verdicts = AnyVerdict, !.events = 2, !.resets = 1,
                          !.exits = 1, !.reloads = 1]
\* Batches of two functions at the admission limit.
Admissions == [Quiet EXCEPT !.batches = {<<q>> : q \in Queues} \cup {<<f, f>>}, !.events = 3,
                            !.resets = 1]
Programs == {Failures, Admissions}

\* Everything a wake-up may be lost to.
Wakes == {[Quiet EXCEPT !.plans = Delays, !.verdicts = AnyVerdict, !.clock = 1, !.exits = 1,
                        !.spawn_failures = 1]}
\* A planned crash of the only event.
OneCrash == {[Quiet EXCEPT !.plans = Crashes, !.exits = 1]}
\* One failure and one move of the clock.
OneRetry == {[Quiet EXCEPT !.verdicts = {"Ok", "Failed"}, !.clock = 1]}
=============================================================================
