---------------------------- MODULE SessionControl ----------------------------
(***************************************************************************)
(* The admission barrier (crates/fireemu-core-session/src/barrier.rs), the *)
(* requests that pass it (the unary calls of crates/fireemu-adapter-grpc), *)
(* and the transitions that hold it exclusively: reset, snapshot capture   *)
(* and restore of the control API (crates/fireemu-adapter-http/src/        *)
(* control.rs) and the moves of the clock that only pause it.              *)
(*                                                                         *)
(* The session's state is one value per store, 0 when the store is wiped.  *)
(* A request verifies its token against the Auth store before it is        *)
(* admitted, so that a transition may come in between.                     *)
(***************************************************************************)
EXTENDS Naturals, Sequences, FiniteSets, FiniteSetsExt

CONSTANTS
  Stores,         \* the stores, in the order of the snapshot hooks
  WipeOrder,      \* the stores, in the order a reset wipes them
  Requests,       \* the requests
  SnapshotNames,  \* the names of snapshots
  MaxSnapshots,   \* MAX_SNAPSHOTS_PER_SESSION
  MaxBytes,       \* MAX_SNAPSHOT_BYTES_PER_SESSION
  MaxWrites,      \* bound on the writes
  MaxTransitions  \* bound on the transitions

ASSUME SessionAssumption ==
  /\ Stores \in Seq(STRING) /\ "auth" \in {Stores[i] : i \in DOMAIN Stores}
  /\ \A i, j \in DOMAIN Stores : Stores[i] = Stores[j] => i = j
  /\ WipeOrder \in Seq(STRING)
  /\ {WipeOrder[i] : i \in DOMAIN WipeOrder} = {Stores[i] : i \in DOMAIN Stores}
  /\ MaxSnapshots \in Nat /\ MaxBytes \in Nat /\ MaxWrites \in Nat /\ MaxTransitions \in Nat

VARIABLES
  store,       \* the value of each store
  epoch,       \* AdmissionBarrier.epoch
  requests,    \* where each request stands, the epoch it read and during what, and the
               \* session (history) that verified it
  control,     \* the running transition and its answer
  snapshots,   \* the named snapshots: one part per store
  sessions     \* how often the stores were replaced, and how many writes there were

sessionVars == <<store, epoch, requests, control, snapshots, sessions>>

StoreNames == {Stores[i] : i \in DOMAIN Stores}

Hooks == DOMAIN Stores

Wiped == [s \in StoreNames |-> 0]

SessionInit ==
  /\ store = [Wiped EXCEPT !["auth"] = 1]
  /\ epoch = 0
  /\ requests = [r \in Requests |->
                   [pc |-> "new", epoch |-> 0, during |-> "idle", session |-> 0]]
  /\ control = [pc |-> "idle", kind |-> "none", at |-> 0, name |-> "none", parts |-> Wiped,
                before |-> Wiped, torn |-> 0, answer |-> "none"]
  /\ snapshots = << >>
  /\ sessions = [replaced |-> 0, writes |-> 1, transitions |-> 0]

(***************************************************************************)
(* Requests.                                                               *)
(***************************************************************************)
Admitted == {r \in Requests : requests[r].pc = "admitted"}

Step(r, pc) == requests' = [requests EXCEPT ![r].pc = pc]

\* FirestoreService::caller: the epoch first ...
ReadEpoch(r) ==
  /\ requests[r].pc = "new"
  /\ requests' = [requests EXCEPT ![r].pc = "seen", ![r].epoch = epoch,
                                  ![r].during = control.pc]
  /\ UNCHANGED <<store, epoch, control, snapshots, sessions>>

\* ... and then the token, if the request carries one.
VerifyToken(r) ==
  /\ requests[r].pc = "seen"
  /\ \E token \in BOOLEAN :
       requests' = [requests EXCEPT
                      ![r].pc = IF token /\ store["auth"] = 0 THEN "refused" ELSE "verified",
                      ![r].session = sessions.replaced]
  /\ UNCHANGED <<store, epoch, control, snapshots, sessions>>

\* Mutant of same_epoch: an admitted request is let through whenever it started.
any_epoch(r) == TRUE

same_epoch(r) == requests[r].epoch = epoch

\* The request waits for the barrier; what it then does compares the epochs first.
Admit(r) ==
  /\ requests[r].pc = "verified" /\ control.pc = "idle"
  /\ Step(r, IF same_epoch(r) THEN "admitted" ELSE "refused")
  /\ UNCHANGED <<store, epoch, control, snapshots, sessions>>

Write(r, s) ==
  /\ requests[r].pc = "admitted" /\ sessions.writes < MaxWrites
  /\ store' = [store EXCEPT ![s] = sessions.writes + 1]
  /\ sessions' = [sessions EXCEPT !.writes = @ + 1]
  /\ Step(r, "done")
  /\ UNCHANGED <<epoch, control, snapshots>>

ReadOnly(r) ==
  /\ requests[r].pc = "admitted"
  /\ Step(r, "done")
  /\ UNCHANGED <<store, epoch, control, snapshots, sessions>>

\* The client tries again, or another one comes.
NextRequest(r) ==
  /\ requests[r].pc \in {"done", "refused"}
  /\ requests' = [requests EXCEPT ![r] = [pc |-> "new", epoch |-> 0, during |-> "idle", session |-> 0]]
  /\ UNCHANGED <<store, epoch, control, snapshots, sessions>>

(***************************************************************************)
(* The barrier.  `exclusive` starts a new epoch, `pause` does not.         *)
(***************************************************************************)
Take(kind, pc, name) ==
  /\ control.pc = "idle" /\ Admitted = {} /\ sessions.transitions < MaxTransitions
  /\ control' = [control EXCEPT !.pc = pc, !.kind = kind, !.name = name, !.at = 1,
                                !.before = store, !.torn = 0, !.answer = "none"]
  /\ sessions' = [sessions EXCEPT !.transitions = @ + 1]

exclusive(kind, pc, name) ==
  /\ Take(kind, pc, name)
  /\ epoch' = epoch + 1
  /\ UNCHANGED <<store, requests, snapshots>>

Release(answer) == control' = [control EXCEPT !.pc = "idle", !.answer = answer]

\* The clock moves and every database drops the history it may: no value changes.
MoveClock ==
  /\ Take("clock", "pausing", "none")
  /\ UNCHANGED <<store, epoch, requests, snapshots>>

ClockMoved ==
  /\ control.pc = "pausing"
  /\ Release("done")
  /\ UNCHANGED <<store, epoch, requests, snapshots, sessions>>

(***************************************************************************)
(* reset_session.  reset_scope probes every store before it wipes the      *)
(* first, Firestore, which cannot refuse; the stores after it still can,   *)
(* and so can seeding the declared tenants, the last step of reset_scope,  *)
(* and the reset hooks that run after it.  The answer to every failure of  *)
(* reset_scope is the one of the probe, that no store was wiped.           *)
(***************************************************************************)
ResetStart == exclusive("reset", "probing", "none")

ResetRefused ==
  /\ control.pc = "probing"
  /\ Release("refused")
  /\ UNCHANGED <<store, epoch, requests, snapshots, sessions>>

ResetProbed ==
  /\ control.pc = "probing"
  /\ control' = [control EXCEPT !.pc = "wiping"]
  /\ UNCHANGED <<store, epoch, requests, snapshots, sessions>>

WipeStore ==
  /\ control.pc = "wiping" /\ control.at \in DOMAIN WipeOrder
  /\ store' = [store EXCEPT ![WipeOrder[control.at]] = 0]
  /\ control' = [control EXCEPT !.at = @ + 1]
  /\ sessions' = [sessions EXCEPT !.replaced = IF control.at = 1 THEN @ + 1 ELSE @]
  /\ UNCHANGED <<epoch, requests, snapshots>>

\* A poisoned store, or an Auth registry that changed since the probe: what was wiped stays so.
WipeFails ==
  /\ control.pc = "wiping" /\ control.at \in DOMAIN WipeOrder \ {1}
  /\ Release("refused")
  /\ UNCHANGED <<store, epoch, requests, snapshots, sessions>>

\* Seeding fails, a reset hook fails, or neither.
ResetEnds ==
  /\ control.pc = "wiping" /\ control.at \notin DOMAIN WipeOrder
  /\ \E answer \in {"refused", "hook failed", "done"} : Release(answer)
  /\ UNCHANGED <<store, epoch, requests, snapshots, sessions>>

(***************************************************************************)
(* The snapshot routes.  Deleting a snapshot takes no admission and may    *)
(* come between any two steps of the others.                               *)
(***************************************************************************)
Bytes(parts) == Cardinality({s \in StoreNames : parts[s] # 0})

over_budget(name) ==
  name \notin DOMAIN snapshots /\ Cardinality(DOMAIN snapshots) >= MaxSnapshots

over_byte_budget(name, parts) ==
  Bytes(parts)
    + MapThenSumSet(LAMBDA n : Bytes(snapshots[n]), DOMAIN snapshots \ {name}) > MaxBytes

CaptureStart(name) == exclusive("capture", "capturing", name)

\* Functions work is outstanding, the budget is used up or a store cannot be copied.
CaptureRefused ==
  /\ control.pc = "capturing"
  /\ Release("refused")
  /\ UNCHANGED <<store, epoch, requests, snapshots, sessions>>

CaptureParts ==
  /\ control.pc = "capturing" /\ ~over_budget(control.name)
  /\ control' = [control EXCEPT !.pc = "keeping", !.parts = store]
  /\ UNCHANGED <<store, epoch, requests, snapshots, sessions>>

KeepSnapshot ==
  /\ control.pc = "keeping"
  /\ IF over_budget(control.name) \/ over_byte_budget(control.name, control.parts)
     THEN Release("refused") /\ UNCHANGED snapshots
     ELSE /\ Release("done")
          /\ snapshots' = [n \in DOMAIN snapshots \cup {control.name} |->
                              IF n = control.name THEN control.parts ELSE snapshots[n]]
  /\ UNCHANGED <<store, epoch, requests, sessions>>

DeleteSnapshot(name) ==
  /\ name \in DOMAIN snapshots
  /\ snapshots' = [n \in DOMAIN snapshots \ {name} |-> snapshots[n]]
  /\ UNCHANGED <<store, epoch, requests, control, sessions>>

\* The parts are lifted out of the book of snapshots, whose lock is then given up.
RestoreStart(name) == exclusive("restore", "lifting", name)

LiftParts ==
  /\ control.pc = "lifting"
  /\ IF control.name \in DOMAIN snapshots
     THEN control' = [control EXCEPT !.pc = "validating", !.parts = snapshots[control.name]]
     ELSE Release("refused")
  /\ UNCHANGED <<store, epoch, requests, snapshots, sessions>>

(***************************************************************************)
(* restore_parts: validate every part, take every pre-image, apply in the  *)
(* order of the hooks; a hook that refuses has the hooks before it put     *)
(* back, the last one first.  The hook that refuses may have applied a     *)
(* part of its own (Auth restores the project and then its tenants).       *)
(***************************************************************************)
ValidateParts ==
  /\ control.pc = "validating"
  /\ \/ Release("refused")
     \/ control' = [control EXCEPT !.pc = "applying"]
  /\ UNCHANGED <<store, epoch, requests, snapshots, sessions>>

ApplyPart ==
  /\ control.pc = "applying" /\ control.at \in Hooks
  /\ LET s == Stores[control.at] IN store' = [store EXCEPT ![s] = control.parts[s]]
  /\ control' = [control EXCEPT !.at = @ + 1]
  /\ sessions' = [sessions EXCEPT !.replaced = IF control.at = 1 THEN @ + 1 ELSE @]
  /\ UNCHANGED <<epoch, requests, snapshots>>

\* Mutant of before_it: the first hook is not among those put back.
last_but_one(at) == IF at > 2 THEN at - 1 ELSE 0

\* The position of the hook to put back before the one at `at`; 0 is none.
before_it(at) == at - 1

ApplyFails ==
  /\ control.pc = "applying" /\ control.at \in Hooks
  /\ \E part_way \in {FALSE} \cup {Stores[control.at] = "auth"} :
       /\ store' = IF part_way THEN [store EXCEPT !["auth"] = control.parts["auth"]] ELSE store
       /\ control' = [control EXCEPT !.pc = "undoing", !.at = before_it(@),
                                     !.torn = IF part_way THEN control.at ELSE 0,
                                     !.answer = "rolled back"]
  /\ sessions' = [sessions EXCEPT !.replaced = IF control.at = 1 THEN @ + 1 ELSE @]
  /\ UNCHANGED <<epoch, requests, snapshots>>

UndoPart(fails) ==
  /\ control.pc = "undoing" /\ control.at # 0
  /\ LET s == Stores[control.at] IN
       store' = IF fails THEN store ELSE [store EXCEPT ![s] = control.before[s]]
  /\ control' = [control EXCEPT !.at = before_it(@),
                                !.answer = IF fails THEN "partial" ELSE @]
  /\ UNCHANGED <<epoch, requests, snapshots, sessions>>

RestoreEnds ==
  /\ \/ control.pc = "applying" /\ control.at \notin Hooks /\ Release("done")
     \/ control.pc = "undoing" /\ control.at = 0 /\ Release(control.answer)
  /\ UNCHANGED <<store, epoch, requests, snapshots, sessions>>

SessionNext ==
  \/ \E r \in Requests :
       \/ ReadEpoch(r) \/ VerifyToken(r) \/ Admit(r) \/ ReadOnly(r) \/ NextRequest(r)
       \/ \E s \in StoreNames : Write(r, s)
  \/ MoveClock \/ ClockMoved
  \/ ResetStart \/ ResetRefused \/ ResetProbed \/ WipeStore \/ WipeFails \/ ResetEnds
  \/ \E name \in SnapshotNames : CaptureStart(name) \/ RestoreStart(name) \/ DeleteSnapshot(name)
  \/ CaptureRefused \/ CaptureParts \/ KeepSnapshot
  \/ LiftParts \/ ValidateParts \/ ApplyPart \/ ApplyFails \/ RestoreEnds
  \/ UndoPart(TRUE) \/ UndoPart(FALSE)

SessionSpec == SessionInit /\ [][SessionNext]_sessionVars

(***************************************************************************)
(* Properties.                                                             *)
(***************************************************************************)
\* An admitted request acts while no transition runs and with credentials
\* verified in the session it acts in: a reset or restore that replaced the
\* stores since, however the steps interleave, has it refused.  It is said of a
\* request that read its epoch while no transition ran.
RequestsActInOneSession ==
  \A r \in Admitted :
    /\ control.pc = "idle"
    /\ requests[r].during = "idle" => requests[r].session = sessions.replaced

\* The reset has wiped this store.
HasWiped(s) == \E i \in DOMAIN WipeOrder : i < control.at /\ WipeOrder[i] = s

\* Although each store is changed in a step of its own and any of the steps may fail, a
\* transition leaves each store as it was or as the transition wants it, never a third way, and
\* all of them the same way but for: the hook that failed part way through its own part; the
\* stores whose rollback failed, which the answer "partially restored" admits; and a reset that
\* failed after its first wipe, which leaves wiped what it has wiped.
StoresEndOldOrNew ==
  [][control.pc # "idle" /\ control'.pc = "idle" =>
       LET a == control'.answer
           before == control.before
           parts == control.parts
       IN CASE control.kind = "clock" -> store' = before
            [] control.kind = "capture" ->
                 store' = before /\ (a = "done" => snapshots'[control.name] = before)
            [] control.kind = "restore" ->
                 \/ a = "done" /\ store' = parts
                 \/ a = "refused" /\ store' = before
                 \/ /\ a = "rolled back"
                    /\ \A i \in Hooks : store'[Stores[i]] # before[Stores[i]] =>
                          i = control.torn /\ store'[Stores[i]] = parts[Stores[i]]
                 \/ /\ a = "partial"
                    /\ \A s \in StoreNames : store'[s] \in {before[s], parts[s]}
            [] control.kind = "reset" ->
                 \/ a \in {"done", "hook failed"} /\ store' = Wiped
                 \/ /\ a = "refused"
                    /\ \A s \in StoreNames :
                         store'[s] = IF control.pc = "wiping" /\ HasWiped(s) THEN 0 ELSE before[s]]_sessionVars
===============================================================================
