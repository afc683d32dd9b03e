--------------------------- MODULE MCScheduleSweep ---------------------------
(***************************************************************************)
(* Instances of ScheduleSweep for TLC: up to two scheduled functions, one   *)
(* due at every instant and one at every other, under the scheduler         *)
(* configurations that decide differently.                                  *)
(***************************************************************************)
EXTENDS ScheduleSweep

OneJob == {1}
TwoJobs == {1, 2}

Periods == [j \in Jobs |-> j]

Second == Jobs \cap {2}

Config(catch_up, overlap, cap, records, attempts, resets, by_hand, of_others, stops) ==
    [catch_up |-> catch_up, overlap |-> overlap, cap |-> cap, records |-> records,
     attempts |-> attempts, resets |-> resets, manuals |-> by_hand, others |-> of_others,
     stops |-> stops]

\* A cap no window reaches, and one every window of two occurrences exceeds.
Uncapped == 9
Capped == 1

Policies == {
    Config("all", "allow", Uncapped, 1, 1, 0, 0, 1, 0),   \* another source holds the only record
    Config("all", "allow", Uncapped, 1, 2, 0, 0, 0, 0),   \* a retry holds the only record
    Config("all", "allow", Uncapped, 2, 1, 1, 0, 0, 1),
    Config("all", "queue", Capped, 2, 2, 1, 0, 0, 0),
    Config("latest", "allow", Uncapped, 2, 1, 1, 0, 0, 0),
    Config("none", "allow", Uncapped, 2, 1, 0, 1, 0, 0),
    Config("all", "skip", Uncapped, 2, 2, 1, 1, 0, 0),
    Config("latest", "reject", Uncapped, 2, 2, 0, 1, 0, 1),
    Config("all", "skip_in_flight", Uncapped, 2, 1, 1, 1, 0, 0)}

SkipWithCap == {Config("all", "skip", Capped, 2, 1, 0, 0, 0, 0)}
=============================================================================
