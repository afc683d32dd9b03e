---------------------- MODULE MCFirestoreTransactions ----------------------
(***************************************************************************)
(* Instances of FirestoreTransactions: two documents of which one exists at *)
(* first, and client programs that are each small but together take every   *)
(* operation of the store against every other that can disturb it.          *)
(***************************************************************************)
EXTENDS FirestoreTransactions, TLC

ThreeIds == 1 .. 3
TwoRequests == 1 .. 2
a == "a"
b == "b"
TwoDocs == {a, b}
TwoValues == {"x", "y"}
OnlyX == {{"x"}}
Flip(v) == IF v = "x" THEN "y" ELSE "x"

W(to, exists) == [to |-> to, exists |-> exists]
SeedA == {a :> W("x", "any")}

ChangeA == a :> W("y", "any")
CreateB == b :> W("x", "no")
CountA == a :> W(Increment, "any")
DeleteA == a :> W(Absent, "yes")
Both == (a :> W(Increment, "yes")) @@ (b :> W("x", "any"))
Nothing == <<>>
AllBatches == {ChangeA, CreateB, CountA, DeleteA, Both, Nothing}

AllOperations ==
    {"begin", "read only", "new transaction", "retry", "read", "denied", "query", "rollback",
     "refuse", "lease", "cancel"}

Config(scope, versions, clock, ids, requests, kinds, batches, operations) ==
    [scope |-> scope, max_versions |-> versions, clock |-> clock, ids |-> ids,
     requests |-> requests, kinds |-> kinds, batches |-> batches, operations |-> operations]

Emulator == "OfficialEmulator"
Production == "Production"
Surfaces == {"grpc", "rest"}

\* Two transactions that want each other's documents, and clients that give up.
Deadlocks(kind) ==
    Config(Emulator, 9, 0, 2, 2, {kind}, {ChangeA, CreateB}, {"begin", "read", "cancel"})
\* A holder that idles past its lease, and commits that a limit refuses.
Leases(kind) == Config(Emulator, 9, 0, 2, 2, {kind}, {CountA}, {"begin", "read", "lease", "refuse"})
\* Queries, complete and not, against commits of others.
Phantoms ==
    Config(Emulator, 9, 0, 1, 2, {"grpc"}, {CreateB, CountA, DeleteA},
           {"begin", "read only", "query", "read"})
\* A transaction that runs out of time while it reads and others commit.
Expiry(scope, kind) == Config(scope, 9, 3, 1, 2, {kind}, {ChangeA}, {"begin", "read", "rollback"})
\* Attempts that are retried, expire, and are remembered and forgotten.
Lineage(scope) == Config(scope, 9, 4, 3, 0, {}, {}, {"begin", "denied", "rollback", "retry"})
\* Read-only snapshots while history is compacted, by time and by capacity.
Snapshots(scope, versions) ==
    Config(scope, versions, 2, 1, 2, {"grpc"}, {Both, DeleteA}, {"read only", "read"})
\* Reads that begin their transaction, one more than may be active; commits without writes.
Eager(scope, versions) ==
    Config(scope, versions, 0, 3, 1, {"grpc"}, {Both, Nothing}, {"new transaction", "read"})

Programs ==
    {Deadlocks(kind) : kind \in Surfaces} \cup {Leases(kind) : kind \in Surfaces} \cup
    {Phantoms, Expiry(Production, "grpc"), Expiry(Emulator, "rest"), Lineage(Production),
     Lineage(Emulator), Snapshots(Production, 9), Snapshots(Emulator, 1),
     Eager(Production, 1), Eager(Emulator, 9)}

\* The REST surface when a holder's lease expires under a refused commit.
Reruns == {Config(Emulator, 9, 0, 1, 1, {"rest"}, {CountA}, {"begin", "read", "lease"})}


\* A REST commit that waits while the control API moves the clock past its holder's lifetime.
Clocked == {Config(Emulator, 9, 3, 1, 1, {"rest"}, {ChangeA}, {"begin", "read", "cancel"})}
=============================================================================
