---------------------------- MODULE ServiceProofs ----------------------------
(***************************************************************************)
(* Two services of the daemon that share no state.  The admission barrier  *)
(* and the transitions of a session, for every list of stores, every set   *)
(* of requests and snapshot names and all budgets and bounds; and the TOTP *)
(* factors of an account, whose secrets never accept a step twice, for     *)
(* every window, time to live, budget and code table, and for any number   *)
(* of snapshots' restores.                                                 *)
(***************************************************************************)
EXTENDS SessionControl, TotpFactors, TLAPS

-------------------------------------------------------------------------------
(* Sessions: the admission barrier and the transitions.                     *)

Values == [StoreNames -> Nat]

\* The transitions that start a new epoch, while they run.
Exclusive == control.pc \notin {"idle", "pausing"}

RequestPcs == {"new", "seen", "verified", "admitted", "refused", "done"}

Kinds == {"none", "clock", "reset", "capture", "restore"}

ControlPcs == {"idle", "pausing", "probing", "wiping", "capturing", "keeping", "lifting",
               "validating", "applying", "undoing"}

Answers == {"none", "done", "refused", "hook failed", "rolled back", "partial"}

\* Every variable has its type.
SessionTypeOK ==
  /\ store \in Values
  /\ epoch \in Nat
  /\ requests \in [Requests -> [pc : RequestPcs,
                                epoch : Nat, during : ControlPcs, session : Nat]]
  /\ control \in [pc : ControlPcs, kind : Kinds,
                  at : Nat, name : SnapshotNames \cup {"none"}, parts : Values, before : Values,
                  torn : Nat, answer : Answers]
  /\ DOMAIN snapshots \subseteq SnapshotNames
  /\ \A n \in DOMAIN snapshots : snapshots[n] \in Values
  /\ sessions \in [replaced : Nat, writes : Nat, transitions : Nat]

\* No request is admitted while a transition runs.  A request that read its epoch while none
\* ran has an older epoch than the transition that runs, and one that still has the current
\* epoch was verified in the session that is current.  An admitted request has it.
BarrierInv ==
  /\ control.pc # "idle" => Admitted = {}
  /\ \A r \in Requests :
       requests[r].during = "idle" /\ requests[r].pc # "new" =>
         /\ requests[r].epoch <= epoch
         /\ Exclusive => requests[r].epoch < epoch
         /\ requests[r].pc = "admitted" => requests[r].epoch = epoch
         /\ requests[r].pc \in {"verified", "admitted"} /\ requests[r].epoch = epoch =>
              requests[r].session = sessions.replaced

\* How far each transition got: which stores it has changed and which are as they were.
TransitionInv ==
  /\ control.pc \in {"pausing", "probing", "capturing", "keeping", "lifting", "validating"} =>
       store = control.before
  /\ control.pc = "pausing" => control.kind = "clock"
  /\ control.pc \in {"probing", "wiping"} => control.kind = "reset"
  /\ control.pc \in {"capturing", "keeping"} => control.kind = "capture"
  /\ control.pc \in {"lifting", "validating", "applying", "undoing"} => control.kind = "restore"
  /\ control.pc \in {"capturing", "keeping"} => control.name \in SnapshotNames
  /\ control.pc \in {"probing", "validating"} => control.at = 1
  /\ control.pc = "lifting" => control.at = 1
  /\ control.pc = "keeping" => control.parts = store
  /\ control.pc = "wiping" =>
       /\ control.at \in 1 .. Len(WipeOrder) + 1
       /\ \A s \in StoreNames : store[s] = IF HasWiped(s) THEN 0 ELSE control.before[s]
  /\ control.pc = "applying" =>
       /\ control.at \in 1 .. Len(Stores) + 1
       /\ \A i \in Hooks : store[Stores[i]] = IF i < control.at THEN control.parts[Stores[i]]
                                                                ELSE control.before[Stores[i]]
  /\ control.pc = "undoing" =>
       /\ control.at \in 0 .. Len(Stores)
       /\ control.answer \in {"rolled back", "partial"}
       /\ control.answer = "rolled back" =>
            \A i \in Hooks \ {control.torn} :
              control.at < i => store[Stores[i]] = control.before[Stores[i]]
       /\ \A s \in StoreNames : store[s] \in {control.before[s], control.parts[s]}

SessionInv == SessionTypeOK /\ BarrierInv /\ TransitionInv

(* Each hook serves one store, and each store has one hook.                 *)
LEMMA HooksAreStores ==
  /\ Hooks = 1 .. Len(Stores) /\ Len(Stores) \in Nat
  /\ \A i \in Hooks : Stores[i] \in StoreNames
  /\ \A s \in StoreNames : \E i \in Hooks : s = Stores[i]
  /\ \A i, j \in Hooks : Stores[i] = Stores[j] => i = j
  /\ "auth" \in StoreNames
BY SessionAssumption DEF Hooks, StoreNames

(* The wipe goes through the same stores.                                   *)
LEMMA WipedAreStores ==
  /\ DOMAIN WipeOrder = 1 .. Len(WipeOrder) /\ Len(WipeOrder) \in Nat
  /\ \A i \in DOMAIN WipeOrder : WipeOrder[i] \in StoreNames
  /\ \A s \in StoreNames : \E i \in DOMAIN WipeOrder : WipeOrder[i] = s
<1>1. WipeOrder \in Seq(STRING)
  BY SessionAssumption
<1>2. {WipeOrder[i] : i \in DOMAIN WipeOrder} = StoreNames
  BY SessionAssumption DEF StoreNames
<1>3. DOMAIN WipeOrder = 1 .. Len(WipeOrder) /\ Len(WipeOrder) \in Nat
  BY <1>1
<1> QED
  BY <1>2, <1>3

(* The names that the steps assign are of the right sets.                   *)
LEMMA Names ==
  /\ "new" \in RequestPcs /\ "seen" \in RequestPcs /\ "verified" \in RequestPcs
  /\ "admitted" \in RequestPcs /\ "refused" \in RequestPcs /\ "done" \in RequestPcs
  /\ "clock" \in Kinds /\ "reset" \in Kinds /\ "capture" \in Kinds
  /\ "none" \in Kinds /\ "restore" \in Kinds
  /\ "idle" \in ControlPcs /\ "pausing" \in ControlPcs /\ "probing" \in ControlPcs
  /\ "wiping" \in ControlPcs /\ "capturing" \in ControlPcs /\ "keeping" \in ControlPcs
  /\ "lifting" \in ControlPcs /\ "validating" \in ControlPcs /\ "applying" \in ControlPcs
  /\ "undoing" \in ControlPcs
  /\ "none" \in Answers /\ "done" \in Answers /\ "refused" \in Answers
  /\ "hook failed" \in Answers
  /\ "rolled back" \in Answers /\ "partial" \in Answers
BY DEF RequestPcs, Kinds, ControlPcs, Answers

(* The invariant holds at the start.                                        *)
LEMMA SessionInvInitially == SessionInit => SessionInv
<1> SUFFICES ASSUME SessionInit PROVE SessionInv
  OBVIOUS
<1>0. Wiped \in Values
  BY DEF Wiped, Values
<1>1. SessionTypeOK
  <2>1. store \in Values
    BY <1>0, HooksAreStores DEF SessionInit, Wiped, Values
  <2>2. control \in [pc : ControlPcs, kind : Kinds,
                     at : Nat, name : SnapshotNames \cup {"none"}, parts : Values,
                     before : Values, torn : Nat, answer : Answers]
    BY <1>0, Names DEF SessionInit
  <2>3. requests \in [Requests -> [pc : RequestPcs,
                                   epoch : Nat, during : ControlPcs, session : Nat]]
    BY Names DEF SessionInit
  <2> QED
    BY <2>1, <2>2, <2>3 DEF SessionInit, SessionTypeOK
<1>2. BarrierInv
  BY DEF SessionInit, BarrierInv, Admitted, Exclusive
<1>3. TransitionInv
  BY DEF SessionInit, TransitionInv
<1> QED
  BY <1>1, <1>2, <1>3 DEF SessionInv

(***************************************************************************)
(* Types.                                                                  *)
(***************************************************************************)
LEMMA SessionTypeKept == SessionInv /\ [SessionNext]_sessionVars => SessionTypeOK'
<1> SUFFICES ASSUME SessionInv, [SessionNext]_sessionVars PROVE SessionTypeOK'
  OBVIOUS
<1> USE DEF SessionInv, SessionTypeOK
<1>1. ASSUME NEW r \in Requests, ReadEpoch(r) PROVE SessionTypeOK'
  BY <1>1, Names DEF ReadEpoch
<1>2. ASSUME NEW r \in Requests, VerifyToken(r) PROVE SessionTypeOK'
  <2>0. PICK n \in Nat : n = sessions.replaced
    OBVIOUS
  <2>1. PICK pc \in RequestPcs : requests' = [requests EXCEPT ![r].pc = pc, ![r].session = n]
    <3>1. PICK token \in BOOLEAN :
            requests' = [requests EXCEPT
                           ![r].pc = IF token /\ store["auth"] = 0 THEN "refused" ELSE "verified",
                           ![r].session = sessions.replaced]
      BY <1>2 DEF VerifyToken
    <3>2. CASE token /\ store["auth"] = 0
      BY <3>1, <3>2, <2>0, Names
    <3>3. CASE ~(token /\ store["auth"] = 0)
      BY <3>1, <3>3, <2>0, Names
    <3> QED
      BY <3>2, <3>3
  <2>2. requests' \in [Requests -> [pc : RequestPcs, epoch : Nat, during : ControlPcs,
                                    session : Nat]]
    BY <2>1
  <2>3. UNCHANGED <<store, epoch, control, snapshots, sessions>>
    BY <1>2 DEF VerifyToken
  <2> QED
    BY <2>2, <2>3
<1>3. ASSUME NEW r \in Requests, Admit(r) PROVE SessionTypeOK'
  BY <1>3, Names DEF Admit, Step
<1>4. ASSUME NEW r \in Requests, ReadOnly(r) PROVE SessionTypeOK'
  BY <1>4, Names DEF ReadOnly, Step
<1>5. ASSUME NEW r \in Requests, NextRequest(r) PROVE SessionTypeOK'
  BY <1>5, Names DEF NextRequest
<1>6. ASSUME NEW r \in Requests, NEW s \in StoreNames, Write(r, s) PROVE SessionTypeOK'
  <2>1. PICK n \in Nat : n = sessions.writes + 1
    OBVIOUS
  <2>2. sessions' = [sessions EXCEPT !.writes = n] /\ store' = [store EXCEPT ![s] = n]
    BY <1>6, Names, <2>1 DEF Write
  <2>3. store' \in Values
    BY <2>2 DEF Values
  <2>4. /\ requests' = [requests EXCEPT ![r].pc = "done"]
        /\ UNCHANGED <<epoch, control, snapshots>>
    BY <1>6 DEF Write, Step
  <2> QED
    BY <2>2, <2>3, <2>4, Names
<1>7. ASSUME NEW kind \in Kinds, NEW pc \in ControlPcs,
             NEW name \in SnapshotNames \cup {"none"}, Take(kind, pc, name),
             epoch' = epoch \/ epoch' = epoch + 1, UNCHANGED <<store, requests, snapshots>>
      PROVE  SessionTypeOK'
  <2>1. PICK n \in Nat : n = sessions.transitions + 1
    OBVIOUS
  <2>2. sessions' = [sessions EXCEPT !.transitions = n]
    BY <1>7, Names, <2>1 DEF Take
  <2>3. control' = [control EXCEPT !.pc = pc, !.kind = kind, !.name = name, !.at = 1,
                                   !.before = store, !.torn = 0, !.answer = "none"]
    BY <1>7 DEF Take
  <2>4. control' \in [pc : ControlPcs, kind : Kinds, at : Nat, name : SnapshotNames \cup {"none"},
                      parts : Values, before : Values, torn : Nat, answer : Answers]
    BY <2>3, Names
  <2>5. epoch' \in Nat
    BY <1>7
  <2> QED
    BY <1>7, <2>2, <2>4, <2>5
<1>8. ASSUME NEW answer \in Answers, Release(answer),
             UNCHANGED <<store, epoch, requests, snapshots, sessions>>
      PROVE  SessionTypeOK'
  BY <1>8, Names DEF Release
<1>9. CASE ResetProbed
  BY <1>9, Names DEF ResetProbed
<1>10. CASE WipeStore
  <2>1. PICK n \in Nat : n = control.at + 1
    OBVIOUS
  <2>2. PICK m \in Nat : m = IF control.at = 1 THEN sessions.replaced + 1 ELSE sessions.replaced
    OBVIOUS
  <2>3. control' = [control EXCEPT !.at = n] /\ sessions' = [sessions EXCEPT !.replaced = m]
    BY <1>10, Names, <2>1, <2>2 DEF WipeStore
  <2>4. store' \in Values
    BY <1>10, Names, WipedAreStores DEF WipeStore, Values
  <2> QED
    BY <1>10, Names, <2>3, <2>4 DEF WipeStore
<1>11. CASE CaptureParts
  BY <1>11, Names DEF CaptureParts
<1>12. CASE KeepSnapshot
  <2>1. control.name \in SnapshotNames
    BY <1>12, Names DEF KeepSnapshot, TransitionInv
  <2>2. PICK answer \in Answers : control' = [control EXCEPT !.pc = "idle", !.answer = answer]
    BY <1>12, Names DEF KeepSnapshot, Release
  <2>3. /\ DOMAIN snapshots' \subseteq SnapshotNames
        /\ \A n \in DOMAIN snapshots' : snapshots'[n] \in Values
    BY <1>12, <2>1 DEF KeepSnapshot
  <2> QED
    BY <1>12, Names, <2>2, <2>3 DEF KeepSnapshot
<1>13. ASSUME NEW name \in SnapshotNames, DeleteSnapshot(name) PROVE SessionTypeOK'
  BY <1>13, Names DEF DeleteSnapshot
<1>14. CASE LiftParts
  BY <1>14, Names DEF LiftParts, Release
<1>15. CASE ValidateParts
  BY <1>15, Names DEF ValidateParts, Release
<1>16. CASE ApplyPart
  <2>1. PICK n \in Nat : n = control.at + 1
    OBVIOUS
  <2>2. PICK m \in Nat : m = IF control.at = 1 THEN sessions.replaced + 1 ELSE sessions.replaced
    OBVIOUS
  <2>3. control' = [control EXCEPT !.at = n] /\ sessions' = [sessions EXCEPT !.replaced = m]
    BY <1>16, Names, <2>1, <2>2 DEF ApplyPart
  <2>4. store' \in Values
    BY <1>16, Names, HooksAreStores DEF ApplyPart, Values
  <2> QED
    BY <1>16, Names, <2>3, <2>4 DEF ApplyPart
<1>17. CASE ApplyFails
  <2>1. PICK n \in Nat : n = before_it(control.at)
    <3>1. control.at \in Nat /\ control.at \in 1 .. Len(Stores)
      BY <1>17, HooksAreStores DEF ApplyFails
    <3> QED
      BY <3>1 DEF before_it
  <2>2. PICK m \in Nat : m = IF control.at = 1 THEN sessions.replaced + 1 ELSE sessions.replaced
    OBVIOUS
  <2>3. PICK torn \in Nat : control' = [control EXCEPT !.pc = "undoing", !.at = n, !.torn = torn,
                                                       !.answer = "rolled back"]
    BY <1>17, Names, <2>1 DEF ApplyFails
  <2>4. sessions' = [sessions EXCEPT !.replaced = m]
    BY <1>17, Names, <2>2 DEF ApplyFails
  <2>5. store' \in Values
    <3>1. /\ "auth" \in StoreNames
          /\ store' = store \/ store' = [store EXCEPT !["auth"] = control.parts["auth"]]
      BY <1>17, HooksAreStores DEF ApplyFails
    <3> QED
      BY <3>1 DEF Values
  <2> QED
    BY <1>17, Names, <2>3, <2>4, <2>5 DEF ApplyFails
<1>18. ASSUME NEW fails \in BOOLEAN, UndoPart(fails) PROVE SessionTypeOK'
  <2>1. PICK n \in Nat : n = before_it(control.at)
    <3>1. control.at \in Nat /\ control.at # 0
      BY <1>18 DEF UndoPart
    <3> QED
      BY <3>1 DEF before_it
  <2>2. PICK answer \in Answers : control' = [control EXCEPT !.at = n, !.answer = answer]
    BY <1>18, Names, <2>1 DEF UndoPart
  <2>3. Stores[control.at] \in StoreNames
    <3>1. control.at # 0 /\ control.at \in 0 .. Len(Stores)
      BY <1>18 DEF UndoPart, TransitionInv
    <3> QED
      BY <3>1, HooksAreStores
  <2>4. store' \in Values
    BY <1>18, <2>3 DEF UndoPart, Values
  <2> QED
    BY <1>18, Names, <2>2, <2>4 DEF UndoPart
<1>19. CASE UNCHANGED sessionVars
  BY <1>19, Names DEF sessionVars
<1>20. CASE MoveClock \/ ResetStart
            \/ \E name \in SnapshotNames : CaptureStart(name) \/ RestoreStart(name)
  BY <1>20, Names, <1>7 DEF MoveClock, ResetStart, CaptureStart, RestoreStart, exclusive
<1>21. CASE ClockMoved \/ ResetRefused \/ WipeFails \/ ResetEnds \/ CaptureRefused \/ RestoreEnds
  BY <1>21, Names, <1>8 DEF ClockMoved, ResetRefused, WipeFails, ResetEnds, CaptureRefused, RestoreEnds
<1> QED
  BY <1>1, <1>2, <1>3, <1>4, <1>5, <1>6, <1>9, <1>10, <1>11, <1>12, <1>13, <1>14, <1>15, <1>16,
     <1>17, <1>18, <1>19, <1>20, <1>21 DEF SessionNext

(***************************************************************************)
(* The barrier.                                                            *)
(***************************************************************************)
LEMMA BarrierKept == SessionInv /\ [SessionNext]_sessionVars => BarrierInv'
<1> SUFFICES ASSUME SessionInv, [SessionNext]_sessionVars PROVE BarrierInv'
  OBVIOUS
<1>0. /\ epoch \in Nat
      /\ requests \in [Requests -> [pc : RequestPcs, epoch : Nat, during : ControlPcs, session : Nat]]
      /\ control.at \in Nat /\ sessions.replaced \in Nat
      /\ BarrierInv
  BY DEF SessionInv, SessionTypeOK
<1> USE DEF BarrierInv, Admitted, Exclusive
<1>1. ASSUME NEW r \in Requests, ReadEpoch(r) PROVE BarrierInv'
  BY <1>0, <1>1 DEF ReadEpoch
<1>2. ASSUME NEW r \in Requests, VerifyToken(r) PROVE BarrierInv'
  BY <1>0, <1>2 DEF VerifyToken
<1>3. ASSUME NEW r \in Requests, Admit(r) PROVE BarrierInv'
  BY <1>0, <1>3 DEF Admit, Step, same_epoch
<1>4. ASSUME NEW r \in Requests, ReadOnly(r) PROVE BarrierInv'
  BY <1>0, <1>4 DEF ReadOnly, Step
<1>5. ASSUME NEW r \in Requests, NextRequest(r) PROVE BarrierInv'
  BY <1>0, <1>5 DEF NextRequest
<1>6. ASSUME NEW r \in Requests, NEW s \in StoreNames, Write(r, s) PROVE BarrierInv'
  BY <1>0, <1>6 DEF Write, Step
<1>7. ASSUME control.pc = "idle", Admitted = {}, UNCHANGED requests,
             sessions'.replaced = sessions.replaced,
             \/ epoch' = epoch + 1
             \/ epoch' = epoch /\ control'.pc = "pausing"
      PROVE  BarrierInv'
  BY <1>0, <1>7
<1>8. ASSUME control.pc # "idle", UNCHANGED <<requests, epoch>>,
             control'.pc = "idle" \/ (Exclusive /\ control'.pc # "idle"),
             sessions'.replaced = sessions.replaced \/ Exclusive
      PROVE  BarrierInv'
  BY <1>0, <1>8
<1>9. CASE MoveClock \/ ResetStart
           \/ \E name \in SnapshotNames : CaptureStart(name) \/ RestoreStart(name)
  BY <1>7, <1>9 DEF SessionInv, SessionTypeOK, MoveClock, ResetStart, CaptureStart, RestoreStart,
                    exclusive, Take
<1>10. CASE ClockMoved \/ ResetRefused \/ WipeFails \/ ResetEnds \/ CaptureRefused \/ KeepSnapshot \/ RestoreEnds
  BY <1>8, <1>10 DEF SessionInv, SessionTypeOK, Release, ClockMoved, ResetRefused, WipeFails, ResetEnds,
                     CaptureRefused, KeepSnapshot, RestoreEnds
<1>11. CASE ResetProbed \/ CaptureParts \/ LiftParts \/ ValidateParts
  BY <1>8, <1>11 DEF SessionInv, SessionTypeOK, Release, ResetProbed, CaptureParts, LiftParts,
                     ValidateParts
<1>12. CASE WipeStore \/ ApplyPart
  BY <1>8, <1>12 DEF SessionInv, SessionTypeOK, WipeStore, ApplyPart
<1>13. CASE ApplyFails
  BY <1>8, <1>13 DEF SessionInv, SessionTypeOK, ApplyFails
<1>14. ASSUME NEW fails \in BOOLEAN, UndoPart(fails) PROVE BarrierInv'
  BY <1>8, <1>14 DEF SessionInv, SessionTypeOK, UndoPart
<1>15. CASE (\E name \in SnapshotNames : DeleteSnapshot(name)) \/ UNCHANGED sessionVars
  BY <1>0, <1>15 DEF DeleteSnapshot, sessionVars
<1> QED
  BY <1>1, <1>2, <1>3, <1>4, <1>5, <1>6, <1>9, <1>10, <1>11, <1>12, <1>13, <1>14, <1>15
     DEF SessionNext

(***************************************************************************)
(* The transitions.                                                        *)
(***************************************************************************)
LEMMA TransitionKept == SessionInv /\ [SessionNext]_sessionVars => TransitionInv'
<1> SUFFICES ASSUME SessionInv, [SessionNext]_sessionVars PROVE TransitionInv'
  OBVIOUS
<1>0. /\ store \in Values /\ control.parts \in Values /\ control.before \in Values
      /\ control \in [pc : ControlPcs, kind : Kinds, at : Nat, name : SnapshotNames \cup {"none"},
                      parts : Values, before : Values, torn : Nat, answer : Answers]
      /\ control.at \in Nat /\ control.torn \in Nat
      /\ TransitionInv
  BY DEF SessionInv, SessionTypeOK
<1>1. ASSUME UNCHANGED <<store, control>> PROVE TransitionInv'
  <2>1. \A s \in StoreNames : HasWiped(s)' <=> HasWiped(s)
    BY <1>1 DEF HasWiped
  <2> QED
    BY <1>0, <1>1, <2>1 DEF TransitionInv
<1>2. ASSUME NEW answer, Release(answer) PROVE TransitionInv'
  BY <1>0, <1>2 DEF TransitionInv, Release
<1>3. ASSUME NEW r \in Requests, NEW s \in StoreNames, Write(r, s) PROVE TransitionInv'
  <2>1. control.pc = "idle" /\ UNCHANGED control
    BY <1>3 DEF SessionInv, BarrierInv, Admitted, Write
  <2> QED
    BY <2>1 DEF TransitionInv
<1>4. CASE MoveClock \/ ResetStart
           \/ \E name \in SnapshotNames : CaptureStart(name) \/ RestoreStart(name)
  <2>1. PICK kind, pc, name :
          /\ \/ kind = "clock" /\ pc = "pausing"
             \/ kind = "reset" /\ pc = "probing"
             \/ kind = "capture" /\ pc = "capturing" /\ name \in SnapshotNames
             \/ kind = "restore" /\ pc = "lifting"
          /\ Take(kind, pc, name) /\ UNCHANGED store
    BY <1>4 DEF MoveClock, ResetStart, CaptureStart, RestoreStart, exclusive
  <2>2. /\ control'.pc = pc /\ control'.kind = kind /\ control'.at = 1 /\ control'.name = name
        /\ control'.before = store
    BY <1>0, <2>1 DEF Take
  <2> QED
    BY <2>1, <2>2 DEF TransitionInv
<1>5. CASE ResetProbed
  <2>1. /\ control.pc = "probing" /\ control.kind = "reset" /\ control.at = 1
        /\ store = control.before /\ UNCHANGED store
    BY <1>0, <1>5 DEF TransitionInv, ResetProbed
  <2>2. /\ control'.pc = "wiping" /\ control'.kind = "reset" /\ control'.at = 1
        /\ control'.before = control.before
    BY <1>0, <1>5, <2>1 DEF ResetProbed
  <2>3. \A s \in StoreNames : ~HasWiped(s)'
    BY <2>2, WipedAreStores DEF HasWiped
  <2>4. 1 \in 1 .. Len(WipeOrder) + 1
    BY WipedAreStores
  <2> QED
    BY <2>1, <2>2, <2>3, <2>4 DEF TransitionInv
<1>6. CASE WipeStore
  <2>1. /\ control.at \in DOMAIN WipeOrder /\ control.pc = "wiping" /\ control.kind = "reset"
        /\ \A s \in StoreNames : store[s] = IF HasWiped(s) THEN 0 ELSE control.before[s]
        /\ store' = [store EXCEPT ![WipeOrder[control.at]] = 0]
    BY <1>0, <1>6 DEF TransitionInv, WipeStore
  <2>2. /\ control'.pc = "wiping" /\ control'.kind = "reset" /\ control'.at = control.at + 1
        /\ control'.before = control.before
    BY <1>0, <1>6, <2>1 DEF WipeStore
  <2>3. ASSUME NEW s \in StoreNames
        PROVE  store'[s] = IF HasWiped(s)' THEN 0 ELSE control.before[s]
    <3>1. HasWiped(s)' <=> HasWiped(s) \/ s = WipeOrder[control.at]
      <4>1. \A i \in DOMAIN WipeOrder : i < control.at + 1 <=> i < control.at \/ i = control.at
        BY <1>0, WipedAreStores
      <4> QED
        BY <2>1, <2>2, <4>1 DEF HasWiped
    <3>2. store \in [StoreNames -> Nat]
      BY <1>0 DEF Values
    <3>3. store'[s] = IF s = WipeOrder[control.at] THEN 0 ELSE store[s]
      BY <2>1, <3>2
    <3> QED
      BY <2>1, <3>1, <3>3
  <2>4. control.at + 1 \in 1 .. Len(WipeOrder) + 1
    BY <1>0, <2>1, WipedAreStores
  <2> QED
    BY <2>2, <2>3, <2>4 DEF TransitionInv
<1>7. CASE CaptureParts
  BY <1>0, <1>7 DEF TransitionInv, CaptureParts
<1>8. CASE LiftParts
  <2>1. control.pc = "lifting" /\ control.kind = "restore" /\ control.at = 1
        /\ store = control.before /\ UNCHANGED store
    BY <1>0, <1>8 DEF TransitionInv, LiftParts
  <2>2. CASE control' = [control EXCEPT !.pc = "validating", !.parts = snapshots[control.name]]
    <3>1. /\ control'.pc = "validating" /\ control'.kind = "restore" /\ control'.at = 1
          /\ control'.before = control.before
      BY <1>0, <2>1, <2>2
    <3> QED
      BY <2>1, <3>1 DEF TransitionInv
  <2> QED
    BY <1>2, <1>8, <2>2 DEF LiftParts
<1>9. CASE ValidateParts
  <2>1. control.pc = "validating" /\ control.kind = "restore" /\ control.at = 1
        /\ store = control.before /\ UNCHANGED store
    BY <1>0, <1>9 DEF TransitionInv, ValidateParts
  <2>2. CASE control' = [control EXCEPT !.pc = "applying"]
    <3>1. /\ control'.pc = "applying" /\ control'.kind = "restore" /\ control'.at = 1
          /\ control'.before = control.before /\ control'.parts = control.parts
      BY <1>0, <2>1, <2>2
    <3>2. 1 \in 1 .. Len(Stores) + 1 /\ \A i \in Hooks : ~(i < 1)
      BY HooksAreStores
    <3> QED
      BY <2>1, <3>1, <3>2 DEF TransitionInv
  <2> QED
    BY <1>2, <1>9, <2>2 DEF ValidateParts
<1>10. CASE ApplyPart
  <2>1. /\ control.at \in Hooks /\ control.pc = "applying" /\ control.kind = "restore"
        /\ \A i \in Hooks : store[Stores[i]] = IF i < control.at THEN control.parts[Stores[i]]
                                                                 ELSE control.before[Stores[i]]
        /\ store' = [store EXCEPT ![Stores[control.at]] = control.parts[Stores[control.at]]]
    BY <1>0, <1>10 DEF TransitionInv, ApplyPart
  <2>2. /\ control'.pc = "applying" /\ control'.kind = "restore" /\ control'.at = control.at + 1
        /\ control'.parts = control.parts /\ control'.before = control.before
    BY <1>0, <1>10, <2>1 DEF ApplyPart
  <2>3. \A i \in Hooks :
          store'[Stores[i]] = IF i < control.at + 1 THEN control.parts[Stores[i]]
                                                    ELSE control.before[Stores[i]]
    <3> SUFFICES ASSUME NEW i \in Hooks
                 PROVE  store'[Stores[i]] = IF i < control.at + 1 THEN control.parts[Stores[i]]
                                                                  ELSE control.before[Stores[i]]
      OBVIOUS
    <3>1. CASE i = control.at
      BY <1>0, <2>1, <3>1, HooksAreStores DEF Values
    <3>2. CASE i # control.at
      <4>1. store'[Stores[i]] = store[Stores[i]]
        BY <1>0, <2>1, <3>2, HooksAreStores DEF Values
      <4>2. i < control.at + 1 <=> i < control.at
        BY <1>0, <3>2, HooksAreStores
      <4> QED
        BY <2>1, <4>1, <4>2
    <3> QED
      BY <3>1, <3>2
  <2>4. control.at + 1 \in 1 .. Len(Stores) + 1
    BY <1>0, <2>1, HooksAreStores
  <2> QED
    BY <2>2, <2>3, <2>4 DEF TransitionInv
<1>11. CASE ApplyFails
  <2>1. /\ control.at \in Hooks /\ control.pc = "applying" /\ control.kind = "restore"
        /\ \A i \in Hooks : ~(i < control.at) => store[Stores[i]] = control.before[Stores[i]]
        /\ \A i \in Hooks :
             store[Stores[i]] \in {control.before[Stores[i]], control.parts[Stores[i]]}
    BY <1>0, <1>11 DEF TransitionInv, ApplyFails
  <2>2. PICK part_way \in BOOLEAN :
          /\ part_way => Stores[control.at] = "auth"
          /\ store' = IF part_way THEN [store EXCEPT !["auth"] = control.parts["auth"]] ELSE store
          /\ control' = [control EXCEPT !.pc = "undoing", !.at = before_it(@),
                                        !.torn = IF part_way THEN control.at ELSE 0,
                                        !.answer = "rolled back"]
    BY <1>11 DEF ApplyFails
  <2>3. /\ control'.pc = "undoing" /\ control'.kind = "restore" /\ control'.at = control.at - 1
        /\ control'.before = control.before /\ control'.answer = "rolled back"
        /\ control'.parts = control.parts
        /\ control'.torn = IF part_way THEN control.at ELSE 0
    BY <1>0, <2>1, <2>2 DEF before_it
  <2>4. ASSUME NEW i \in Hooks, i # control'.torn, control.at - 1 < i
        PROVE  store'[Stores[i]] = control.before[Stores[i]]
    <3>1. ~(i < control.at)
      BY <1>0, <2>4, HooksAreStores
    <3>2. part_way => Stores[i] # "auth"
      BY <2>1, <2>2, <2>3, <2>4, HooksAreStores
    <3> QED
      BY <1>0, <2>1, <2>2, <3>1, <3>2, HooksAreStores DEF Values
  <2>5. control.at - 1 \in 0 .. Len(Stores)
    BY <1>0, <2>1, HooksAreStores
  <2>6. ASSUME NEW s \in StoreNames PROVE store'[s] \in {control.before[s], control.parts[s]}
    <3>1. store \in [StoreNames -> Nat] /\ store[s] \in {control.before[s], control.parts[s]}
      BY <1>0, <2>1, HooksAreStores DEF Values
    <3> QED
      BY <2>2, <3>1
  <2> QED
    BY <2>3, <2>4, <2>5, <2>6 DEF TransitionInv
<1>12. ASSUME NEW fails \in BOOLEAN, UndoPart(fails) PROVE TransitionInv'
  <2>1. /\ control.at # 0 /\ control.at \in 0 .. Len(Stores)
        /\ control.pc = "undoing" /\ control.kind = "restore"
        /\ control.answer \in {"rolled back", "partial"}
        /\ control.answer = "rolled back" =>
             \A i \in Hooks \ {control.torn} :
               control.at < i => store[Stores[i]] = control.before[Stores[i]]
        /\ \A s \in StoreNames : store[s] \in {control.before[s], control.parts[s]}
    BY <1>0, <1>12 DEF TransitionInv, UndoPart
  <2>2. /\ control'.pc = "undoing" /\ control'.kind = "restore" /\ control'.at = control.at - 1
        /\ control'.before = control.before /\ control'.torn = control.torn
        /\ control'.parts = control.parts
        /\ control'.answer = IF fails THEN "partial" ELSE control.answer
    BY <1>0, <1>12, <2>1 DEF UndoPart, before_it
  <2>3. ASSUME NEW i \in Hooks, i # control.torn, ~fails, control.answer = "rolled back",
               control.at - 1 < i
        PROVE  store'[Stores[i]] = control.before[Stores[i]]
    <3>1. store' = [store EXCEPT ![Stores[control.at]] = control.before[Stores[control.at]]]
      BY <1>12, <2>3 DEF UndoPart
    <3>2. CASE i = control.at
      BY <1>0, <3>1, <3>2, HooksAreStores DEF Values
    <3>3. CASE i # control.at
      <4> DEFINE at == control.at
      <4>1. at < i /\ at \in Hooks
        <5>1. at \in 0 .. Len(Stores) /\ at # 0
          BY <2>1
        <5>2. Len(Stores) \in Nat /\ Hooks = 1 .. Len(Stores)
          BY HooksAreStores
        <5>3. at - 1 < i /\ i \in Hooks /\ at # i
          BY <2>3, <3>3
        <5> HIDE DEF at
        <5> QED
          BY <5>1, <5>2, <5>3
      <4>2. store'[Stores[i]] = store[Stores[i]]
        <5>1. Stores[i] # Stores[at]
          BY <2>3, <3>3, <4>1, HooksAreStores
        <5>2. Stores[i] \in StoreNames /\ store \in [StoreNames -> Nat]
          BY <1>0, <2>3, HooksAreStores DEF Values
        <5> QED
          BY <3>1, <5>1, <5>2
      <4> QED
        BY <2>1, <2>3, <4>1, <4>2
    <3> QED
      BY <3>2, <3>3
  <2>4. control.at - 1 \in 0 .. Len(Stores)
    <3>1. control.at # 0 /\ control.at \in 0 .. Len(Stores) /\ Len(Stores) \in Nat
      BY <2>1, HooksAreStores
    <3> QED
      BY <3>1
  <2>5. ASSUME NEW s \in StoreNames PROVE store'[s] \in {control.before[s], control.parts[s]}
    <3>1. store \in [StoreNames -> Nat]
      BY <1>0 DEF Values
    <3>2. store' = store \/ store' = [store EXCEPT ![Stores[control.at]] = control.before[Stores[control.at]]]
      BY <1>12 DEF UndoPart
    <3> QED
      BY <2>1, <3>1, <3>2
  <2> QED
    BY <2>1, <2>2, <2>3, <2>4, <2>5 DEF TransitionInv
<1>13. CASE ClockMoved \/ ResetRefused \/ WipeFails \/ ResetEnds \/ CaptureRefused \/ KeepSnapshot \/ RestoreEnds
  BY <1>2, <1>13 DEF ClockMoved, ResetRefused, WipeFails, ResetEnds, CaptureRefused, KeepSnapshot, RestoreEnds
<1>14. CASE \/ UNCHANGED sessionVars
            \/ \E name \in SnapshotNames : DeleteSnapshot(name)
            \/ \E r \in Requests :
                 ReadEpoch(r) \/ VerifyToken(r) \/ Admit(r) \/ ReadOnly(r) \/ NextRequest(r)
  BY <1>1, <1>14 DEF sessionVars, DeleteSnapshot, ReadEpoch, VerifyToken, Admit, ReadOnly,
                     NextRequest
<1> QED
  BY <1>3, <1>4, <1>5, <1>6, <1>7, <1>8, <1>9, <1>10, <1>11, <1>12, <1>13, <1>14 DEF SessionNext

(***************************************************************************)
(* The theorems.                                                           *)
(***************************************************************************)
LEMMA SessionInvHolds == SessionSpec => []SessionInv
<1>1. SessionInit => SessionInv
  BY SessionInvInitially
<1>2. SessionInv /\ [SessionNext]_sessionVars => SessionInv'
  BY SessionTypeKept, BarrierKept, TransitionKept DEF SessionInv
<1> QED
  BY <1>1, <1>2, PTL DEF SessionSpec

(* A request acts never while a transition runs and, when it read its      *)
(* epoch while none ran, only in the session that verified it.             *)
THEOREM RequestsStayInTheirSession == SessionSpec => []RequestsActInOneSession
<1>1. SessionInv => RequestsActInOneSession
  <2> SUFFICES ASSUME SessionInv, NEW r \in Admitted
               PROVE  /\ control.pc = "idle"
                      /\ requests[r].during = "idle" => requests[r].session = sessions.replaced
    BY DEF RequestsActInOneSession
  <2> QED
    BY DEF SessionInv, BarrierInv, Admitted
<1> QED
  BY <1>1, SessionInvHolds, PTL

(* Whatever step of a transition fails, each store is left old or new, and *)
(* which of the two follows from the answer, from the hook that failed part *)
(* way and from how far a reset got.                                       *)
THEOREM TransitionsEndOldOrNew == SessionSpec => StoresEndOldOrNew
<1> DEFINE Said ==
      LET a == control'.answer
          before == control.before
          parts == control.parts
      IN CASE control.kind = "clock" -> store' = before
           [] control.kind = "capture" ->
                store' = before /\ (a = "done" => snapshots'[control.name] = before)
           [] control.kind = "restore" ->
                \/ a = "done" /\ store' = parts
                \/ a = "refused" /\ store' = before
                \/ /\ a = "rolled back"
                   /\ \A i \in Hooks : store'[Stores[i]] # before[Stores[i]] =>
                         i = control.torn /\ store'[Stores[i]] = parts[Stores[i]]
                \/ /\ a = "partial"
                   /\ \A s \in StoreNames : store'[s] \in {before[s], parts[s]}
           [] control.kind = "reset" ->
                \/ a \in {"done", "hook failed"} /\ store' = Wiped
                \/ /\ a = "refused"
                   /\ \A s \in StoreNames :
                        store'[s] = IF control.pc = "wiping" /\ HasWiped(s) THEN 0 ELSE before[s]
<1>1. SessionInv /\ [SessionNext]_sessionVars =>
        [control.pc # "idle" /\ control'.pc = "idle" => Said]_sessionVars
  <2> SUFFICES ASSUME SessionInv, SessionNext, control.pc # "idle", control'.pc = "idle"
               PROVE  Said
    BY DEF sessionVars
  <2>0. /\ store \in Values /\ control.parts \in Values /\ control.before \in Values
        /\ control \in [pc : ControlPcs, kind : Kinds, at : Nat,
                        name : SnapshotNames \cup {"none"}, parts : Values, before : Values,
                        torn : Nat, answer : Answers]
        /\ control.at \in Nat
        /\ TransitionInv /\ BarrierInv
    BY DEF SessionInv, SessionTypeOK
  <2>1. ASSUME NEW answer, Release(answer) PROVE control'.answer = answer
    BY <2>0, <2>1 DEF Release
  <2>2. CASE ClockMoved
    BY <2>0, <2>1, <2>2 DEF ClockMoved, TransitionInv
  <2>3. CASE ResetRefused \/ CaptureRefused
    BY <2>0, <2>1, <2>3 DEF ResetRefused, CaptureRefused, TransitionInv
  <2>4. CASE WipeFails \/ ResetEnds
    <3>1. /\ control.pc = "wiping" /\ control.kind = "reset" /\ UNCHANGED store
          /\ control.at \in 1 .. Len(WipeOrder) + 1
          /\ \A s \in StoreNames : store[s] = IF HasWiped(s) THEN 0 ELSE control.before[s]
      BY <2>0, <2>4 DEF WipeFails, ResetEnds, TransitionInv
    <3>2. CASE control'.answer = "refused"
      BY <3>1, <3>2
    <3>3. CASE control'.answer # "refused"
      <4>1. control.at \notin DOMAIN WipeOrder /\ control'.answer \in {"done", "hook failed"}
        BY <2>1, <2>4, <3>3 DEF WipeFails, ResetEnds
      <4>2. \A s \in StoreNames : HasWiped(s)
        <5>1. control.at = Len(WipeOrder) + 1
          <6>1. PICK n, m : n = Len(WipeOrder) /\ m = control.at
            OBVIOUS
          <6>2. n \in Nat /\ m \in 1 .. n + 1 /\ m \notin 1 .. n
            BY <3>1, <4>1, <6>1, WipedAreStores
          <6>3. m = n + 1
            BY <6>2
          <6> QED
            BY <6>1, <6>3
        <5>2. \A i \in DOMAIN WipeOrder : i < control.at
          BY <5>1, WipedAreStores
        <5> QED
          BY <5>2, WipedAreStores DEF HasWiped
      <4>3. store = Wiped
        BY <2>0, <3>1, <4>2 DEF Values, Wiped
      <4> QED
        BY <3>1, <4>1, <4>3
    <3> QED
      BY <3>2, <3>3
  <2>5. CASE KeepSnapshot
    <3>1. /\ control.pc = "keeping" /\ control.kind = "capture" /\ store = control.before
          /\ UNCHANGED store /\ control.parts = store
      BY <2>0, <2>5 DEF KeepSnapshot, TransitionInv
    <3>2. control'.answer = "done" => snapshots'[control.name] = control.parts
      BY <2>1, <2>5 DEF KeepSnapshot
    <3> QED
      BY <3>1, <3>2
  <2>6. CASE LiftParts \/ ValidateParts
    <3>1. /\ control.pc \in {"lifting", "validating"} /\ store = control.before /\ UNCHANGED store
          /\ control.kind = "restore"
      BY <2>0, <2>6 DEF LiftParts, ValidateParts, TransitionInv
    <3>2. control'.answer = "refused"
      BY <2>0, <2>1, <2>6 DEF LiftParts, ValidateParts
    <3> QED
      BY <3>1, <3>2
  <2>7. CASE RestoreEnds
    <3>1. CASE control.pc = "applying" /\ control.at \notin Hooks /\ Release("done")
      <4>1. /\ control.kind = "restore" /\ control.at \in 1 .. Len(Stores) + 1 /\ UNCHANGED store
            /\ \A i \in Hooks : i < control.at => store[Stores[i]] = control.parts[Stores[i]]
        BY <2>0, <2>7, <3>1 DEF RestoreEnds, TransitionInv
      <4>2. \A i \in Hooks : store[Stores[i]] = control.parts[Stores[i]]
        BY <2>0, <3>1, <4>1, HooksAreStores
      <4>3. store = control.parts
        <5>1. store \in [StoreNames -> Nat] /\ control.parts \in [StoreNames -> Nat]
          BY <2>0 DEF Values
        <5>2. \A s \in StoreNames : store[s] = control.parts[s]
          BY <4>2, HooksAreStores
        <5> QED
          BY <5>1, <5>2
      <4>4. control'.answer = "done"
        BY <2>1, <3>1
      <4> QED
        BY <4>1, <4>3, <4>4
    <3>2. CASE control.pc = "undoing" /\ control.at = 0 /\ Release(control.answer)
      <4>1. /\ control.answer \in {"rolled back", "partial"} /\ UNCHANGED store
            /\ control.answer = "rolled back" =>
                 \A i \in Hooks \ {control.torn} :
                   0 < i => store[Stores[i]] = control.before[Stores[i]]
            /\ \A s \in StoreNames : store[s] \in {control.before[s], control.parts[s]}
        BY <2>0, <2>7, <3>2 DEF RestoreEnds, TransitionInv
      <4>2. \A i \in Hooks : 0 < i
        BY HooksAreStores
      <4>3. control.kind = "restore"
        BY <2>0, <3>2 DEF TransitionInv
      <4> QED
        <5>1. control'.answer = control.answer
          BY <2>1, <3>2
        <5>2. CASE control.answer = "partial"
          BY <4>1, <4>3, <5>1, <5>2
        <5>3. CASE control.answer = "rolled back"
          <6>1. ASSUME NEW i \in Hooks, store'[Stores[i]] # control.before[Stores[i]]
                PROVE  i = control.torn /\ store'[Stores[i]] = control.parts[Stores[i]]
            BY <4>1, <4>2, <5>3, <6>1, HooksAreStores
          <6> QED
            BY <4>3, <5>1, <5>3, <6>1
        <5> QED
          BY <4>1, <5>2, <5>3
    <3> QED
      BY <2>7, <3>1, <3>2 DEF RestoreEnds
  <2>8. ~ \E r \in Requests :
            \/ ReadEpoch(r) \/ VerifyToken(r) \/ Admit(r) \/ ReadOnly(r) \/ NextRequest(r)
            \/ \E s \in StoreNames : Write(r, s)
    BY <2>0 DEF ReadEpoch, VerifyToken, Admit, ReadOnly, NextRequest, Write
  <2>9. ~ (\/ MoveClock \/ ResetStart
           \/ \E name \in SnapshotNames : CaptureStart(name) \/ RestoreStart(name) \/ DeleteSnapshot(name))
    BY DEF MoveClock, ResetStart, CaptureStart, RestoreStart, DeleteSnapshot, exclusive, Take
  <2>10. ~ (ResetProbed \/ WipeStore \/ CaptureParts \/ ApplyPart \/ ApplyFails)
    BY <2>0 DEF ResetProbed, WipeStore, CaptureParts, ApplyPart, ApplyFails
  <2>11. ~ (UndoPart(TRUE) \/ UndoPart(FALSE))
    BY <2>0 DEF UndoPart
  <2> QED
    BY <2>2, <2>3, <2>4, <2>5, <2>6, <2>7, <2>8, <2>9, <2>10, <2>11 DEF SessionNext
<1> QED
  BY <1>1, SessionInvHolds, PTL DEF SessionSpec, StoresEndOldOrNew

-------------------------------------------------------------------------------
(* TOTP second factors.                                                     *)

\* The ids and secrets drawn so far.
Drawn == 1 .. issued

\* What was accepted with each secret: at least one step, in ascending order.
AcceptedInv ==
  /\ accepted = [secret \in DOMAIN accepted |-> accepted[secret]]
  /\ DOMAIN accepted \subseteq Drawn
  /\ \A secret \in DOMAIN accepted :
       /\ accepted[secret] \in Seq(Nat) /\ accepted[secret] # << >>
       /\ \A i \in 2 .. Len(accepted[secret]) :
            accepted[secret][i - 1] < accepted[secret][i]

\* Every factor of the account has an id and a secret of its own, and its
\* boundary is the last step its secret accepted.
FactorsInv ==
  /\ \A f \in account.totp :
       /\ f \in [id : Drawn, secret : Drawn, last : Nat]
       /\ f.secret \in DOMAIN accepted /\ f.last = Newest(accepted[f.secret])
  /\ \A f, g \in account.totp : f.secret = g.secret \/ f.id = g.id => f = g

\* The secret of an enrolment session accepted a code only if the session was
\* completed and is kept closed.
SessionsInv ==
  \A s \in DOMAIN account.enrollments :
    /\ s \in Drawn
    /\ s \in DOMAIN accepted => strict = TRUE /\ account.enrollments[s].completed = TRUE

\* A captured factor has no secret, and a live one with its id is not behind it.
CapturedInv ==
  \A snapshot \in captured :
    /\ DOMAIN snapshot.account.enrollments = {}
    /\ \A kept \in snapshot.account.totp :
         /\ kept.id \in Drawn /\ kept.last \in Nat
         /\ \A live \in account.totp : live.id = kept.id => kept.last <= live.last

Enrollment == [expires_at : Nat, attempts : Nat, completed : BOOLEAN]

\* The shape of an account's state.
IsAccount(a) ==
  /\ a = [totp |-> a.totp, enrollments |-> a.enrollments, sign_ins |-> a.sign_ins,
          disabled |-> a.disabled]
  /\ a.enrollments = [s \in DOMAIN a.enrollments |-> a.enrollments[s]]
  /\ \A s \in DOMAIN a.enrollments : a.enrollments[s] \in Enrollment

ShapeInv ==
  /\ issued \in Nat /\ now \in Nat /\ strict \in BOOLEAN
  /\ IsAccount(account)
  /\ \A snapshot \in captured : IsAccount(snapshot.account) /\ snapshot.now \in Nat

TotpInv == ShapeInv /\ AcceptedInv /\ FactorsInv /\ SessionsInv /\ CapturedInv

\* Account a has the live account's factors and some of its enrolment sessions.
Narrowed(a) ==
  /\ IsAccount(a) /\ a.totp = account.totp
  /\ \A s \in DOMAIN a.enrollments :
       s \in DOMAIN account.enrollments /\ a.enrollments[s] = account.enrollments[s]

(***************************************************************************)
(* What a request starts from.                                             *)
(***************************************************************************)
LEMMA Bounds == Window \in Nat /\ EnrollmentTtl \in Nat
BY TotpAssumption

\* Dropping enrolment sessions or sign-ins narrows an account.
LEMMA LessNarrows ==
  ASSUME NEW a, Narrowed(a), NEW keys, NEW pending
  PROVE  /\ Narrowed([a EXCEPT !.enrollments = Restrict(a.enrollments, DOMAIN a.enrollments \ keys)])
         /\ Narrowed([a EXCEPT !.sign_ins = pending])
<1>1. Narrowed([a EXCEPT !.sign_ins = pending])
  BY DEF Narrowed, IsAccount
<1>2. Narrowed([a EXCEPT !.enrollments = Restrict(a.enrollments, DOMAIN a.enrollments \ keys)])
  <2> DEFINE e == Restrict(a.enrollments, DOMAIN a.enrollments \ keys)
             b == [a EXCEPT !.enrollments = e]
  <2>1. DOMAIN e = DOMAIN a.enrollments \ keys /\ \A s \in DOMAIN e : e[s] = a.enrollments[s]
    BY DEF Restrict
  <2>2. e = [s \in DOMAIN e |-> e[s]]
    BY DEF Restrict
  <2>3. a = [totp |-> a.totp, enrollments |-> a.enrollments, sign_ins |-> a.sign_ins,
             disabled |-> a.disabled]
    BY DEF Narrowed, IsAccount
  <2> HIDE DEF e
  <2>4. b = [totp |-> a.totp, enrollments |-> e, sign_ins |-> a.sign_ins, disabled |-> a.disabled]
    BY <2>3
  <2> HIDE DEF b
  <2>5. b.totp = a.totp /\ b.enrollments = e /\ b.sign_ins = a.sign_ins /\ b.disabled = a.disabled
    BY <2>4
  <2>6. b = [totp |-> b.totp, enrollments |-> b.enrollments, sign_ins |-> b.sign_ins,
             disabled |-> b.disabled]
    BY <2>4, <2>5
  <2>7. /\ a.totp = account.totp
        /\ \A s \in DOMAIN e : /\ s \in DOMAIN account.enrollments
                              /\ e[s] = account.enrollments[s] /\ e[s] \in Enrollment
    BY <2>1 DEF Narrowed, IsAccount
  <2>8. Narrowed(b)
    BY <2>2, <2>5, <2>6, <2>7 DEF Narrowed, IsAccount
  <2> QED
    BY <2>8 DEF b, e
<1> QED
  BY <1>1, <1>2

(* A sweep only takes sessions and factors away.                            *)
LEMMA SweptNarrows ==
  ASSUME IsAccount(account)
  PROVE  Narrowed(swept)
<1> DEFINE keys == {s \in DOMAIN account.enrollments :
                     ~ now <= account.enrollments[s].expires_at + enrollment_grace}
           kept == Restrict(account.sign_ins, {s \in DOMAIN account.sign_ins :
                     now <= account.sign_ins[s].started_at + SignInTtl})
           b == [account EXCEPT !.enrollments =
                   Restrict(account.enrollments, DOMAIN account.enrollments \ keys)]
<1>1. Narrowed(account)
  BY DEF Narrowed
<1>2. Narrowed(b)
  BY <1>1, LessNarrows
<1>3. {s \in DOMAIN account.enrollments :
         now <= account.enrollments[s].expires_at + enrollment_grace}
        = DOMAIN account.enrollments \ keys
  OBVIOUS
<1>4. swept = [b EXCEPT !.sign_ins = kept]
  BY <1>3 DEF swept, IsAccount
<1> HIDE DEF b, kept
<1> QED
  BY <1>2, <1>4, LessNarrows

(* Making room only takes pending sign-ins away.                            *)
LEMMA RoomyNarrows ==
  ASSUME IsAccount(account), NEW room \in Roomy
  PROVE  Narrowed(room)
<1>1. Narrowed(swept)
  BY SweptNarrows
<1>2. ASSUME NEW a \in drop_one_finished(swept)
      PROVE  \/ a = swept
             \/ \E s : a = [swept EXCEPT !.enrollments = Less(swept.enrollments, {s})]
             \/ \E s : a = [swept EXCEPT !.sign_ins = Less(swept.sign_ins, {s})]
  BY <1>2 DEF drop_one_finished
<1>3. room \in drop_one_finished(swept) \cup {swept}
  BY DEF Roomy, make_pending_room
<1>4. ASSUME NEW s PROVE Narrowed([swept EXCEPT !.enrollments = Less(swept.enrollments, {s})])
  BY <1>1, LessNarrows DEF Less
<1>5. ASSUME NEW s PROVE Narrowed([swept EXCEPT !.sign_ins = Less(swept.sign_ins, {s})])
  BY <1>1, LessNarrows
<1> QED
  BY <1>1, <1>2, <1>3, <1>4, <1>5

(***************************************************************************)
(* Initially.                                                              *)
(***************************************************************************)
LEMMA NewAccountIsAccount ==
  /\ IsAccount(NewAccount) /\ NewAccount.totp = {} /\ DOMAIN NewAccount.enrollments = {}
BY DEF IsAccount, NewAccount

(* The invariant holds at the start.                                        *)
LEMMA TotpInvInitially == TotpInit => TotpInv
<1> SUFFICES ASSUME TotpInit PROVE TotpInv
  OBVIOUS
<1>1. ShapeInv
  BY NewAccountIsAccount DEF TotpInit, ShapeInv
<1>2. AcceptedInv
  BY DEF TotpInit, AcceptedInv
<1>3. FactorsInv /\ SessionsInv /\ CapturedInv
  BY NewAccountIsAccount DEF TotpInit, FactorsInv, SessionsInv, CapturedInv
<1> QED
  BY <1>1, <1>2, <1>3 DEF TotpInv

(***************************************************************************)
(* The steps, by what they do to the account.  First those that accept no  *)
(* code: they keep some of the factors and of the enrolment sessions.      *)
(***************************************************************************)
\* Account b keeps the sessions' answers: it has no factor and no enrolment
\* session that the live account does not have.
Reduced(b) ==
  /\ IsAccount(b) /\ b.totp \subseteq account.totp
  /\ \A s \in DOMAIN b.enrollments :
       /\ s \in DOMAIN account.enrollments
       /\ b.enrollments[s].completed = account.enrollments[s].completed

(* The invariant survives a reduction of the account.                       *)
LEMMA ReducedKept ==
  ASSUME TotpInv, Reduced(account'), UNCHANGED <<now, strict, captured, issued, accepted>>
  PROVE  TotpInv'
<1>1. ShapeInv'
  BY DEF TotpInv, ShapeInv, Reduced
<1>2. AcceptedInv'
  BY DEF TotpInv, AcceptedInv, Drawn
<1>3. FactorsInv'
  BY DEF TotpInv, FactorsInv, Reduced, Drawn
<1>4. SessionsInv'
  BY DEF TotpInv, SessionsInv, Reduced, Drawn
<1>5. CapturedInv'
  BY DEF TotpInv, CapturedInv, Reduced, Drawn
<1> QED
  BY <1>1, <1>2, <1>3, <1>4, <1>5 DEF TotpInv

(* A narrowed account is a reduced one.                                     *)
LEMMA NarrowedIsReduced == ASSUME NEW b, Narrowed(b) PROVE Reduced(b)
BY DEF Narrowed, Reduced

\* The account with its factors or its flag replaced.
LEMMA FactorsReplaced ==
  ASSUME NEW a, Narrowed(a), NEW totp \in SUBSET account.totp, NEW disabled
  PROVE  /\ Reduced([a EXCEPT !.totp = totp]) /\ Reduced([a EXCEPT !.disabled = disabled])
BY DEF Narrowed, Reduced, IsAccount

\* The attempt counted.
LEMMA CountedIsReduced ==
  ASSUME TotpInv, NEW session, Offered(session)
  PROVE  /\ Reduced(Counted(session)) /\ Counted(session).totp = account.totp
         /\ session \in DOMAIN Counted(session).enrollments
<1>1. Narrowed(swept)
  BY SweptNarrows DEF TotpInv, ShapeInv
<1>2. session \in DOMAIN swept.enrollments
  BY DEF Offered
<1>3. CASE strict
  <2> DEFINE e == [swept.enrollments EXCEPT ![session].attempts = @ + 1]
  <2>1. DOMAIN e = DOMAIN swept.enrollments /\ e = [s \in DOMAIN e |-> e[s]]
    BY <1>1 DEF Narrowed, IsAccount
  <2>2. \A s \in DOMAIN e : e[s] \in Enrollment /\ e[s].completed = swept.enrollments[s].completed
    BY <1>1 DEF Narrowed, IsAccount, Enrollment
  <2>3. Counted(session) = [totp |-> swept.totp, enrollments |-> e, sign_ins |-> swept.sign_ins,
                            disabled |-> swept.disabled]
    BY <1>1, <1>3 DEF Counted, Narrowed, IsAccount
  <2> DEFINE b == Counted(session)
  <2> HIDE DEF e, b
  <2>4. /\ b.totp = swept.totp /\ b.enrollments = e /\ b.sign_ins = swept.sign_ins
        /\ b.disabled = swept.disabled
    BY <2>3 DEF b
  <2>5. b = [totp |-> b.totp, enrollments |-> b.enrollments, sign_ins |-> b.sign_ins,
             disabled |-> b.disabled]
    BY <2>3, <2>4 DEF b
  <2>6. Reduced(b)
    BY <1>1, <2>1, <2>2, <2>4, <2>5 DEF Reduced, IsAccount, Narrowed
  <2> QED
    BY <1>1, <1>2, <2>1, <2>4, <2>6 DEF b, Narrowed
<1>4. CASE ~strict
  BY <1>1, <1>2, <1>4, NarrowedIsReduced DEF Counted, Narrowed
<1> QED
  BY <1>3, <1>4

\* The requests that are refused or about something else, the changes of the
\* account, and its deletion.
LEMMA RefusalsKeep ==
  ASSUME TotpInv,
         \/ OtherRequest \/ set_phone_factors \/ SetDisabled \/ Recreated
         \/ \E factor \in account.totp : unenroll_factor(factor)
         \/ \E session \in DOMAIN account.enrollments :
              \/ EnrollmentExpired(session)
              \/ \E code \in Codes : EnrollmentRefused(session, code)
  PROVE  TotpInv'
<1>1. Narrowed(swept)
  BY SweptNarrows DEF TotpInv, ShapeInv
<1>2. CASE OtherRequest
  BY <1>1, <1>2, NarrowedIsReduced, ReducedKept DEF OtherRequest
<1>3. CASE set_phone_factors
  <2>1. Reduced([swept EXCEPT !.totp = {}])
    BY <1>1, FactorsReplaced
  <2> QED
    BY <1>3, <2>1, ReducedKept DEF set_phone_factors
<1>4. CASE SetDisabled
  <2>1. Reduced([swept EXCEPT !.disabled = ~ swept.disabled])
    BY <1>1, FactorsReplaced
  <2> QED
    BY <1>4, <2>1, ReducedKept DEF SetDisabled
<1>5. CASE Recreated
  <2>1. Reduced(NewAccount)
    BY NewAccountIsAccount DEF Reduced
  <2> QED
    BY <1>5, <2>1, ReducedKept DEF Recreated
<1>6. ASSUME NEW factor, unenroll_factor(factor) PROVE TotpInv'
  <2>1. swept.totp = account.totp
    BY <1>1 DEF Narrowed
  <2>2. Reduced([swept EXCEPT !.totp = swept.totp \ {factor}])
    BY <1>1, <2>1, FactorsReplaced
  <2> QED
    BY <1>6, <2>2, ReducedKept DEF unenroll_factor
<1>7. ASSUME NEW session, EnrollmentExpired(session) PROVE TotpInv'
  <2>1. Narrowed([swept EXCEPT !.enrollments = Less(swept.enrollments, {session})])
    BY <1>1, LessNarrows DEF Less
  <2>2. Reduced(account')
    BY <1>1, <1>7, <2>1, NarrowedIsReduced DEF EnrollmentExpired
  <2> QED
    BY <1>7, <2>2, ReducedKept DEF EnrollmentExpired
<1>8. ASSUME NEW session, NEW code, EnrollmentRefused(session, code) PROVE TotpInv'
  <2>1. Reduced(account')
    BY <1>8, CountedIsReduced DEF EnrollmentRefused
  <2> QED
    BY <1>8, <2>1, ReducedKept DEF EnrollmentRefused
<1> QED
  BY <1>2, <1>3, <1>4, <1>5, <1>6, <1>7, <1>8

(***************************************************************************)
(* The starts draw an id that nothing has yet.                             *)
(***************************************************************************)
LEMMA StartKeeps ==
  ASSUME TotpInv, start_totp_enrollment \/ start_mfa_sign_in
  PROVE  TotpInv'
<1>0. issued \in Nat /\ now \in Nat
  BY DEF TotpInv, ShapeInv
<1>1. PICK n \in Nat : n = issued + 1
  BY <1>0
<1>2. /\ issued' = n /\ UNCHANGED <<now, strict, captured, accepted>>
  BY <1>1 DEF start_totp_enrollment, start_mfa_sign_in
<1>3. Drawn \subseteq Drawn' /\ n \in Drawn' /\ n \notin Drawn
  BY <1>0, <1>1, <1>2 DEF Drawn
<1>4. /\ IsAccount(account') /\ account'.totp = account.totp
      /\ \A s \in DOMAIN account'.enrollments \ {n} :
           /\ s \in DOMAIN account.enrollments
           /\ account'.enrollments[s] = account.enrollments[s]
  <2>1. CASE start_totp_enrollment
    <3>1. PICK room \in Roomy :
            account' = [room EXCEPT !.enrollments =
                          Insert(room.enrollments, n, [expires_at |-> now + EnrollmentTtl,
                                                    attempts |-> 0, completed |-> FALSE])]
      BY <1>1, <2>1 DEF start_totp_enrollment
    <3> DEFINE new == [expires_at |-> now + EnrollmentTtl, attempts |-> 0, completed |-> FALSE]
               e == Insert(room.enrollments, n, new)
    <3>2. Narrowed(room)
      BY RoomyNarrows DEF TotpInv, ShapeInv
    <3>3. new \in Enrollment
      BY <1>0, Bounds DEF Enrollment
    <3> HIDE DEF new
    <3>4. /\ e = [s \in DOMAIN e |-> e[s]] /\ e[n] = new
          /\ \A s \in DOMAIN e \ {n} : s \in DOMAIN room.enrollments /\ e[s] = room.enrollments[s]
      BY DEF Insert
    <3>5. account' = [room EXCEPT !.enrollments = e]
      BY <3>1 DEF new
    <3> HIDE DEF e
    <3>6. \A s \in DOMAIN e : e[s] \in Enrollment
      BY <3>2, <3>3, <3>4 DEF Narrowed, IsAccount
    <3>7. account' = [totp |-> room.totp, enrollments |-> e, sign_ins |-> room.sign_ins,
                      disabled |-> room.disabled]
      BY <3>2, <3>5 DEF Narrowed, IsAccount
    <3>8. /\ account'.totp = room.totp /\ account'.enrollments = e
          /\ account'.sign_ins = room.sign_ins /\ account'.disabled = room.disabled
      BY <3>7
    <3>9. IsAccount(account')
      BY <3>4, <3>6, <3>7, <3>8 DEF IsAccount
    <3> QED
      BY <3>2, <3>4, <3>8, <3>9 DEF Narrowed
  <2>2. CASE start_mfa_sign_in
    <3>1. PICK room \in Roomy : \E pending : account' = [room EXCEPT !.sign_ins = pending]
      BY <2>2 DEF start_mfa_sign_in
    <3>2. Narrowed(account')
      BY <3>1, RoomyNarrows, LessNarrows DEF TotpInv, ShapeInv
    <3> QED
      BY <3>2 DEF Narrowed
  <2> QED
    BY <2>1, <2>2
<1>5. ShapeInv'
  BY <1>1, <1>2, <1>4 DEF TotpInv, ShapeInv
<1>6. AcceptedInv'
  BY <1>2, <1>3 DEF TotpInv, AcceptedInv
<1>7. FactorsInv'
  <2>1. ASSUME NEW f \in [id : Drawn, secret : Drawn, last : Nat]
        PROVE  f \in [id : Drawn', secret : Drawn', last : Nat]
    BY <1>3
  <2> HIDE DEF Drawn
  <2>2. FactorsInv
    BY DEF TotpInv
  <2> QED
    BY <1>2, <1>4, <2>1, <2>2 DEF FactorsInv
<1>8. SessionsInv'
  BY <1>2, <1>3, <1>4 DEF TotpInv, SessionsInv, AcceptedInv
<1>9. CapturedInv'
  BY <1>2, <1>3, <1>4 DEF TotpInv, CapturedInv
<1> QED
  BY <1>5, <1>6, <1>7, <1>8, <1>9 DEF TotpInv

(***************************************************************************)
(* Snapshots and the clock.                                                *)
(***************************************************************************)
LEMMA CaptureKeeps ==
  ASSUME TotpInv, CaptureAuth
  PROVE  TotpInv'
<1> DEFINE a == detach_totp_secrets(account)
<1>0. IsAccount(account) /\ issued \in Nat /\ now \in Nat
  BY DEF TotpInv, ShapeInv
<1>1. captured' = {[account |-> a, now |-> now]}
      /\ UNCHANGED <<account, now, strict, issued, accepted>>
  BY DEF CaptureAuth
<1>2. a = [totp |-> {[factor EXCEPT !.secret = Detached] : factor \in account.totp},
           enrollments |-> << >>, sign_ins |-> account.sign_ins, disabled |-> account.disabled]
  <2> DEFINE totp == {[factor EXCEPT !.secret = Detached] : factor \in account.totp}
  <2>1. a = [account EXCEPT !.totp = totp, !.enrollments = << >>]
    BY DEF detach_totp_secrets
  <2> HIDE DEF totp, a
  <2>2. account = [totp |-> account.totp, enrollments |-> account.enrollments,
                   sign_ins |-> account.sign_ins, disabled |-> account.disabled]
    BY <1>0 DEF IsAccount
  <2>3. a = [totp |-> totp, enrollments |-> << >>, sign_ins |-> account.sign_ins,
             disabled |-> account.disabled]
    BY <2>1, <2>2
  <2> QED
    BY <2>3 DEF totp
<1> HIDE DEF a
<1>3. /\ a.totp = {[factor EXCEPT !.secret = Detached] : factor \in account.totp}
      /\ a.enrollments = << >> /\ a.sign_ins = account.sign_ins /\ a.disabled = account.disabled
  BY <1>2
<1>4. DOMAIN << >> = {} /\ << >> = [s \in DOMAIN << >> |-> << >>[s]]
  OBVIOUS
<1>5. IsAccount(a)
  BY <1>2, <1>3, <1>4 DEF IsAccount
<1>6. ShapeInv'
  <2>1. \A snapshot \in captured' : snapshot.account = a /\ snapshot.now = now
    BY <1>1
  <2> QED
    BY <1>1, <1>5, <2>1 DEF TotpInv, ShapeInv
<1>7. CapturedInv'
  <2>1. ASSUME NEW kept \in a.totp
        PROVE  \E f \in account.totp : kept.id = f.id /\ kept.last = f.last
    <3>1. PICK f \in account.totp : kept = [f EXCEPT !.secret = Detached]
      BY <1>3
    <3>2. f \in [id : Drawn, secret : Drawn, last : Nat]
      BY DEF TotpInv, FactorsInv
    <3> QED
      BY <3>1, <3>2
  <2>2. ASSUME NEW kept \in a.totp
        PROVE  /\ kept.id \in Drawn /\ kept.last \in Nat
               /\ \A live \in account.totp : live.id = kept.id => kept.last <= live.last
    <3>1. PICK f \in account.totp : kept.id = f.id /\ kept.last = f.last
      BY <2>1
    <3>2. f.id \in Drawn /\ f.last \in Nat
      BY DEF TotpInv, FactorsInv
    <3>3. \A live \in account.totp : live.id = f.id => live = f
      BY DEF TotpInv, FactorsInv
    <3>4. f.last <= f.last
      BY <3>2
    <3> QED
      BY <3>1, <3>2, <3>3, <3>4
  <2>3. \A snapshot \in captured' : snapshot.account = a
    BY <1>1
  <2> QED
    BY <1>1, <1>3, <1>4, <2>2, <2>3 DEF CapturedInv, Drawn
<1> QED
  BY <1>1, <1>6, <1>7 DEF TotpInv, AcceptedInv, FactorsInv, SessionsInv, Drawn

(* The larger of two steps.                                                 *)
LEMMA MaxOfTwo ==
  ASSUME NEW m \in Nat, NEW n \in Nat, m <= n
  PROVE  Max({m, n}) = n
BY DEF Max

(* A restore keeps the invariant.                                           *)
LEMMA RestoreKeeps ==
  ASSUME TotpInv, RestoreAuth
  PROVE  TotpInv'
<1>1. PICK snapshot \in captured :
        /\ account' = [snapshot.account EXCEPT !.totp = rebind_totp_secrets(snapshot.account)]
        /\ now' = snapshot.now
  BY DEF RestoreAuth
<1>2. UNCHANGED <<strict, captured, issued, accepted>>
  BY DEF RestoreAuth
<1> DEFINE a == snapshot.account
           totp == rebind_totp_secrets(a)
<1>3. IsAccount(a) /\ snapshot.now \in Nat
  BY DEF TotpInv, ShapeInv
<1>4. totp \subseteq account.totp
  <2>1. ASSUME NEW f \in totp PROVE f \in account.totp
    <3>1. PICK kept \in a.totp, live \in account.totp :
            live.id = kept.id /\ f = [live EXCEPT !.last = boundary(kept, live)]
      BY DEF rebind_totp_secrets
    <3>2. live \in [id : Drawn, secret : Drawn, last : Nat]
      BY DEF TotpInv, FactorsInv
    <3>3. kept.last \in Nat /\ live.last \in Nat /\ kept.last <= live.last
      BY <3>1, <3>2 DEF TotpInv, CapturedInv
    <3>4. boundary(kept, live) = live.last
      BY <3>3, MaxOfTwo DEF boundary
    <3>5. f = live
      BY <3>1, <3>2, <3>4
    <3> QED
      BY <3>5
  <2> QED
    BY <2>1
<1> HIDE DEF totp
<1>5. account' = [totp |-> totp, enrollments |-> a.enrollments, sign_ins |-> a.sign_ins,
                  disabled |-> a.disabled]
  BY <1>1, <1>3 DEF IsAccount, totp
<1> HIDE DEF a
<1>6. /\ account'.totp = totp /\ account'.enrollments = a.enrollments
      /\ account'.sign_ins = a.sign_ins /\ account'.disabled = a.disabled
  BY <1>5
<1>7. IsAccount(account')
  BY <1>3, <1>5, <1>6 DEF IsAccount
<1>8. DOMAIN account'.enrollments = {}
  BY <1>6 DEF TotpInv, CapturedInv, a
<1>9. ShapeInv'
  BY <1>1, <1>2, <1>3, <1>7 DEF TotpInv, ShapeInv
<1>10. FactorsInv' /\ AcceptedInv' /\ CapturedInv'
  BY <1>2, <1>4, <1>6 DEF TotpInv, FactorsInv, AcceptedInv, CapturedInv, Drawn
<1>11. SessionsInv'
  BY <1>8 DEF SessionsInv
<1> QED
  BY <1>9, <1>10, <1>11 DEF TotpInv

(* A move of the clock keeps the invariant.                                 *)
LEMMA ClockKeeps ==
  ASSUME TotpInv, AdvanceClock \/ UNCHANGED totpVars
  PROVE  TotpInv'
<1>1. UNCHANGED <<account, strict, captured, issued, accepted>> /\ now' \in Nat
  BY DEF AdvanceClock, totpVars, TotpInv, ShapeInv
<1>2. ShapeInv'
  BY <1>1 DEF TotpInv, ShapeInv
<1> QED
  BY <1>1, <1>2 DEF TotpInv, AcceptedInv, FactorsInv, SessionsInv, CapturedInv, Drawn

(***************************************************************************)
(* The steps that accept a code.                                           *)
(***************************************************************************)
\* A matching step is fresh.
LEMMA MatchingIsFresh ==
  ASSUME now \in Nat, NEW secret, NEW last \in Int, NEW code,
         NEW step \in First(match_code(secret, last, code))
  PROVE  step \in Nat /\ last < step
<1>1. step \in Matching(last, code)
  BY DEF First, match_code
<1> DEFINE low == IF now > Window THEN now - Window ELSE 0
<1>2. low \in Nat /\ now + Window \in Nat
  BY Bounds
<1>3. step \in low .. now + Window /\ step > last
  BY <1>1 DEF Matching
<1> HIDE DEF low
<1> QED
  BY <1>2, <1>3

\* A fresh step extends the history of its secret.
LEMMA AcceptExtends ==
  ASSUME AcceptedInv, NEW secret, secret \in Drawn', Drawn \subseteq Drawn', NEW step \in Nat,
         secret \in DOMAIN accepted => Newest(accepted[secret]) < step,
         Accept(secret, step)
  PROVE  /\ AcceptedInv'
         /\ DOMAIN accepted' = DOMAIN accepted \cup {secret}
         /\ Newest(accepted'[secret]) = step
         /\ \A s \in DOMAIN accepted \ {secret} : accepted'[s] = accepted[s]
<1> DEFINE steps == IF secret \in DOMAIN accepted THEN Append(accepted[secret], step) ELSE <<step>>
<1>1. /\ steps \in Seq(Nat) /\ steps # << >> /\ Newest(steps) = step
      /\ \A i \in 2 .. Len(steps) : steps[i - 1] < steps[i]
  <2>1. CASE secret \in DOMAIN accepted
    <3> DEFINE old == accepted[secret]
    <3>1. /\ old \in Seq(Nat) /\ old # << >> /\ steps = Append(old, step)
          /\ \A i \in 2 .. Len(old) : old[i - 1] < old[i]
      BY <2>1 DEF AcceptedInv
    <3>2. old[Len(old)] < step
      BY <2>1 DEF Newest
    <3> HIDE DEF old, steps
    <3>3. /\ Append(old, step) \in Seq(Nat) /\ Len(Append(old, step)) = Len(old) + 1
          /\ Append(old, step)[Len(old) + 1] = step
          /\ \A i \in 1 .. Len(old) : Append(old, step)[i] = old[i]
          /\ Len(old) \in Nat
      BY <3>1
    <3>4. ASSUME NEW i \in 2 .. Len(old) + 1 PROVE steps[i - 1] < steps[i]
      <4>1. CASE i = Len(old) + 1
        <5>1. i - 1 = Len(old) /\ Len(old) \in 1 .. Len(old)
          BY <3>3, <3>4, <4>1
        <5> QED
          BY <3>1, <3>2, <3>3, <4>1, <5>1
      <4>2. CASE i # Len(old) + 1
        <5>1. i \in 2 .. Len(old) /\ i \in 1 .. Len(old) /\ i - 1 \in 1 .. Len(old)
          BY <3>3, <3>4, <4>2
        <5> QED
          BY <3>1, <3>3, <5>1
      <4> QED
        BY <4>1, <4>2
    <3>5. steps # << >>
      BY <3>1, <3>3
    <3> QED
      BY <3>1, <3>3, <3>4, <3>5 DEF Newest
  <2>2. CASE secret \notin DOMAIN accepted
    <3>1. steps = <<step>>
      BY <2>2
    <3> HIDE DEF steps
    <3> QED
      BY <3>1 DEF Newest
  <2> QED
    BY <2>1, <2>2
<1>2. accepted' = Insert(accepted, secret, steps)
  BY DEF Accept
<1> HIDE DEF steps
<1>3. /\ accepted' = [s \in DOMAIN accepted' |-> accepted'[s]]
      /\ DOMAIN accepted' = DOMAIN accepted \cup {secret}
      /\ accepted'[secret] = steps
      /\ \A s \in DOMAIN accepted \ {secret} : accepted'[s] = accepted[s]
  BY <1>2 DEF Insert
<1>4. AcceptedInv'
  <2>1. ASSUME NEW s \in DOMAIN accepted'
        PROVE  /\ accepted'[s] \in Seq(Nat) /\ accepted'[s] # << >>
               /\ \A i \in 2 .. Len(accepted'[s]) : accepted'[s][i - 1] < accepted'[s][i]
    BY <1>1, <1>3 DEF AcceptedInv
  <2>2. DOMAIN accepted' \subseteq Drawn'
    BY <1>3 DEF AcceptedInv
  <2> QED
    BY <1>3, <2>1, <2>2 DEF AcceptedInv
<1> QED
  BY <1>1, <1>3, <1>4

\* A finalized enrolment: the secret had accepted nothing, and the factor's id is
\* new.
LEMMA EnrollmentKeeps ==
  ASSUME TotpInv, NEW session, NEW code, EnrollmentFinalized(session, code)
  PROVE  TotpInv'
<1>0. issued \in Nat /\ now \in Nat /\ strict \in BOOLEAN /\ Narrowed(swept)
  BY SweptNarrows DEF TotpInv, ShapeInv
<1>1. PICK n \in Nat : n = issued + 1
  BY <1>0
<1>2. /\ issued' = n /\ UNCHANGED <<now, strict, captured>>
  BY <1>1 DEF EnrollmentFinalized
<1>3. Drawn \subseteq Drawn' /\ n \in Drawn' /\ n \notin Drawn
  BY <1>0, <1>1, <1>2 DEF Drawn
<1>4. session \in Drawn /\ session \notin DOMAIN accepted
  <2>1. /\ session \in DOMAIN swept.enrollments /\ ~closed(swept.enrollments[session])
    BY DEF EnrollmentFinalized, Offered
  <2>2. /\ session \in DOMAIN account.enrollments
        /\ swept.enrollments[session] = account.enrollments[session]
    BY <1>0, <2>1 DEF Narrowed
  <2>3. ~(strict = TRUE /\ account.enrollments[session].completed = TRUE)
    BY <2>1, <2>2 DEF closed
  <2> QED
    BY <2>2, <2>3 DEF TotpInv, SessionsInv
<1> DEFINE b == Counted(session)
<1>5. /\ Reduced(b) /\ b.totp = account.totp /\ session \in DOMAIN b.enrollments
  BY CountedIsReduced DEF EnrollmentFinalized
<1> HIDE DEF b
<1>6. PICK step \in First(match_code(session, NoStep, code)) :
        /\ account' = [b EXCEPT
                         !.enrollments = IF strict THEN [b.enrollments EXCEPT ![session].completed = TRUE]
                                                   ELSE Less(b.enrollments, {session}),
                         !.totp = b.totp \cup {[id |-> n, secret |-> session, last |-> step]}]
        /\ Accept(session, step)
  BY <1>1 DEF EnrollmentFinalized, b
<1>7. step \in Nat
  BY <1>0, MatchingIsFresh DEF NoStep
<1>8. /\ AcceptedInv'
      /\ DOMAIN accepted' = DOMAIN accepted \cup {session}
      /\ Newest(accepted'[session]) = step
      /\ \A s \in DOMAIN accepted \ {session} : accepted'[s] = accepted[s]
  BY <1>3, <1>4, <1>6, <1>7, AcceptExtends DEF TotpInv
<1> DEFINE new == [id |-> n, secret |-> session, last |-> step]
           e == IF strict THEN [b.enrollments EXCEPT ![session].completed = TRUE]
                          ELSE Less(b.enrollments, {session})
<1>9. /\ e = [s \in DOMAIN e |-> e[s]]
      /\ \A s \in DOMAIN e : e[s] \in Enrollment /\ s \in DOMAIN b.enrollments
      /\ \A s \in DOMAIN e \ {session} : e[s] = b.enrollments[s]
      /\ session \in DOMAIN e => strict = TRUE /\ e[session].completed = TRUE
  <2>1. /\ b.enrollments = [s \in DOMAIN b.enrollments |-> b.enrollments[s]]
        /\ \A s \in DOMAIN b.enrollments : b.enrollments[s] \in Enrollment
    BY <1>5 DEF Reduced, IsAccount
  <2>2. CASE strict
    <3>1. e = [b.enrollments EXCEPT ![session].completed = TRUE]
      BY <2>2
    <3> HIDE DEF e
    <3>2. DOMAIN e = DOMAIN b.enrollments /\ e = [s \in DOMAIN e |-> e[s]]
      BY <2>1, <3>1
    <3>3. /\ e[session] = [b.enrollments[session] EXCEPT !.completed = TRUE]
          /\ \A s \in DOMAIN e \ {session} : e[s] = b.enrollments[s]
      BY <1>5, <2>1, <3>1
    <3>4. e[session] \in Enrollment /\ e[session].completed = TRUE
      BY <1>5, <2>1, <3>3 DEF Enrollment
    <3> QED
      BY <1>5, <2>1, <2>2, <3>2, <3>3, <3>4
  <2>3. CASE ~strict
    <3>1. e = Less(b.enrollments, {session})
      BY <2>3
    <3> HIDE DEF e
    <3> QED
      BY <2>1, <3>1 DEF Less, Restrict
  <2> QED
    BY <2>2, <2>3
<1>10. account' = [b EXCEPT !.enrollments = e, !.totp = b.totp \cup {new}]
  BY <1>6
<1> HIDE DEF e, new
<1>11. account' = [totp |-> account.totp \cup {new}, enrollments |-> e, sign_ins |-> b.sign_ins,
                   disabled |-> b.disabled]
  BY <1>5, <1>10 DEF Reduced, IsAccount
<1>12. /\ account'.totp = account.totp \cup {new} /\ account'.enrollments = e
       /\ account'.sign_ins = b.sign_ins /\ account'.disabled = b.disabled
  BY <1>11
<1>13. ShapeInv'
  <2>1. IsAccount(account')
    BY <1>9, <1>11, <1>12 DEF IsAccount
  <2> QED
    BY <1>1, <1>2, <2>1 DEF TotpInv, ShapeInv
<1>14. FactorsInv'
  <2>1. /\ new \in [id : Drawn', secret : Drawn', last : Nat]
        /\ new.id = n /\ new.secret = session /\ new.last = step
    BY <1>3, <1>4, <1>7 DEF new
  <2>2. ASSUME NEW f \in account.totp
        PROVE  /\ f \in [id : Drawn', secret : Drawn', last : Nat]
               /\ f.secret \in DOMAIN accepted /\ f.last = Newest(accepted[f.secret])
               /\ f.id # n /\ f.secret # session
    <3>1. /\ f \in [id : Drawn, secret : Drawn, last : Nat]
          /\ f.secret \in DOMAIN accepted /\ f.last = Newest(accepted[f.secret])
      BY DEF TotpInv, FactorsInv
    <3> QED
      BY <1>3, <1>4, <3>1
  <2>3. \A f, g \in account.totp : f.secret = g.secret \/ f.id = g.id => f = g
    BY DEF TotpInv, FactorsInv
  <2>4. ASSUME NEW f \in account'.totp
        PROVE  /\ f \in [id : Drawn', secret : Drawn', last : Nat]
               /\ f.secret \in DOMAIN accepted' /\ f.last = Newest(accepted'[f.secret])
    BY <1>8, <1>12, <2>1, <2>2
  <2>5. \A f, g \in account'.totp : f.secret = g.secret \/ f.id = g.id => f = g
    BY <1>12, <2>1, <2>2, <2>3
  <2> QED
    BY <2>4, <2>5 DEF FactorsInv
<1>15. SessionsInv'
  <2>1. ASSUME NEW s \in DOMAIN e
        PROVE  /\ s \in Drawn
               /\ s \in DOMAIN accepted' => strict = TRUE /\ e[s].completed = TRUE
    <3>1. CASE s = session
      BY <1>4, <1>9, <2>1, <3>1
    <3>2. CASE s # session
      <4>1. /\ e[s] = b.enrollments[s] /\ s \in DOMAIN account.enrollments
            /\ e[s].completed = account.enrollments[s].completed
        BY <1>5, <1>9, <3>2 DEF Reduced
      <4> QED
        BY <1>8, <3>2, <4>1 DEF TotpInv, SessionsInv
    <3> QED
      BY <3>1, <3>2
  <2> QED
    BY <1>2, <1>3, <1>12, <2>1 DEF SessionsInv
<1>16. CapturedInv'
  <2>1. new.id = n
    BY DEF new
  <2> QED
    BY <1>2, <1>3, <1>12, <2>1 DEF TotpInv, CapturedInv
<1> QED
  BY <1>8, <1>13, <1>14, <1>15, <1>16 DEF TotpInv

\* A finished sign-in: the factor's boundary moves with the history of its secret.
LEMMA SignInKeeps ==
  ASSUME TotpInv, NEW session, NEW factor, NEW code, SignInFinalized(session, factor, code)
  PROVE  TotpInv'
<1>0. issued \in Nat /\ now \in Nat /\ Narrowed(swept)
  BY SweptNarrows DEF TotpInv, ShapeInv
<1>1. UNCHANGED <<now, strict, captured, issued>> /\ Drawn' = Drawn
  BY DEF SignInFinalized, Drawn
<1>2. factor \in account.totp
  BY <1>0 DEF SignInFinalized, Narrowed
<1>3. /\ factor \in [id : Drawn, secret : Drawn, last : Nat]
      /\ factor.secret \in DOMAIN accepted /\ factor.last = Newest(accepted[factor.secret])
      /\ factor.last \in Nat
  BY <1>2 DEF TotpInv, FactorsInv
<1> DEFINE pending == IF strict THEN [swept.sign_ins EXCEPT ![session].completed = TRUE]
                                ELSE Less(swept.sign_ins, {session})
<1>4. PICK step \in First(match_code(factor.secret, factor.last, code)) :
        /\ account' = [swept EXCEPT !.sign_ins = pending,
                         !.totp = (swept.totp \ {factor}) \cup {[factor EXCEPT !.last = step]}]
        /\ Accept(factor.secret, step)
  BY DEF SignInFinalized
<1> HIDE DEF pending
<1>5. step \in Nat /\ factor.last < step
  BY <1>0, <1>3, MatchingIsFresh
<1>6. /\ AcceptedInv'
      /\ DOMAIN accepted' = DOMAIN accepted
      /\ Newest(accepted'[factor.secret]) = step
      /\ \A s \in DOMAIN accepted \ {factor.secret} : accepted'[s] = accepted[s]
  <2>1. AcceptedInv /\ factor.secret \in Drawn' /\ Drawn \subseteq Drawn'
    BY <1>1, <1>3 DEF TotpInv
  <2>2. Newest(accepted[factor.secret]) < step /\ step \in Nat /\ Accept(factor.secret, step)
    BY <1>3, <1>4, <1>5
  <2>3. DOMAIN accepted \cup {factor.secret} = DOMAIN accepted
    BY <1>3
  <2> QED
    BY <2>1, <2>2, <2>3, AcceptExtends
<1> DEFINE new == [factor EXCEPT !.last = step]
           totp == (account.totp \ {factor}) \cup {new}
<1>7. /\ new \in [id : Drawn, secret : Drawn, last : Nat]
      /\ new.id = factor.id /\ new.secret = factor.secret /\ new.last = step
  BY <1>3, <1>5
<1> HIDE DEF new
<1>8. account' = [swept EXCEPT !.sign_ins = pending, !.totp = totp]
  BY <1>0, <1>4 DEF Narrowed, new
<1>9. account' = [totp |-> totp, enrollments |-> swept.enrollments, sign_ins |-> pending,
                  disabled |-> swept.disabled]
  <2> HIDE DEF totp
  <2> QED
    BY <1>0, <1>8 DEF Narrowed, IsAccount
<1>10. /\ account'.totp = totp /\ account'.enrollments = swept.enrollments
       /\ account'.sign_ins = pending /\ account'.disabled = swept.disabled
  BY <1>9
<1>11. ShapeInv'
  <2>1. IsAccount(account')
    BY <1>0, <1>9, <1>10 DEF IsAccount, Narrowed
  <2> QED
    BY <1>1, <2>1 DEF TotpInv, ShapeInv
<1>12. \A f, g \in account.totp : f.secret = g.secret \/ f.id = g.id => f = g
  BY DEF TotpInv, FactorsInv
<1>13. FactorsInv'
  <2>1. ASSUME NEW f \in account.totp, f # factor
        PROVE  /\ f \in [id : Drawn, secret : Drawn, last : Nat]
               /\ f.secret \in DOMAIN accepted' /\ f.last = Newest(accepted'[f.secret])
               /\ f.secret # factor.secret /\ f.id # factor.id
    BY <1>2, <1>6, <1>12, <2>1 DEF TotpInv, FactorsInv
  <2>2. ASSUME NEW f \in totp
        PROVE  /\ f \in [id : Drawn', secret : Drawn', last : Nat]
               /\ f.secret \in DOMAIN accepted' /\ f.last = Newest(accepted'[f.secret])
    BY <1>1, <1>3, <1>6, <1>7, <2>1
  <2>3. \A f, g \in totp : f.secret = g.secret \/ f.id = g.id => f = g
    BY <1>7, <1>12, <2>1
  <2> QED
    BY <1>10, <2>2, <2>3 DEF FactorsInv
<1>14. SessionsInv'
  BY <1>0, <1>1, <1>6, <1>10 DEF TotpInv, SessionsInv, Narrowed
<1>15. CapturedInv'
  <2>1. ASSUME NEW snapshot \in captured, NEW kept \in snapshot.account.totp, NEW live \in totp,
               live.id = kept.id
        PROVE  kept.last <= live.last
    <3>1. /\ kept.last \in Nat
          /\ \A f \in account.totp : f.id = kept.id => kept.last <= f.last
      BY DEF TotpInv, CapturedInv
    <3>2. CASE live = new
      <4>1. kept.last <= factor.last
        BY <1>2, <1>7, <2>1, <3>1, <3>2
      <4> QED
        BY <1>3, <1>5, <1>7, <3>1, <3>2, <4>1
    <3>3. CASE live # new
      BY <2>1, <3>1, <3>3
    <3> QED
      BY <3>2, <3>3
  <2> QED
    BY <1>1, <1>10, <2>1 DEF TotpInv, CapturedInv
<1> QED
  BY <1>6, <1>11, <1>13, <1>14, <1>15 DEF TotpInv

(* The inductive invariant holds.                                           *)
LEMMA TotpInvHolds == TotpSpec => []TotpInv
<1>1. TotpInv /\ [TotpNext]_totpVars => TotpInv'
  BY RefusalsKeep, StartKeeps, CaptureKeeps, RestoreKeeps, ClockKeeps, EnrollmentKeeps,
     SignInKeeps DEF TotpNext
<1> QED
  BY <1>1, TotpInvInitially, PTL DEF TotpSpec

(***************************************************************************)
(* The theorem.                                                            *)
(***************************************************************************)
(* A secret never accepts a step at or below one it accepted, over         *)
(* enrolments, sign-ins, withdrawals and restores that put factors and     *)
(* clock back.                                                             *)
THEOREM CodesAreUsedOnce == TotpSpec => []StepsAreUsedOnce
<1>1. TotpInv => StepsAreUsedOnce
  BY DEF TotpInv, AcceptedInv, FactorsInv, StepsAreUsedOnce
<1> QED
  BY <1>1, TotpInvHolds, PTL
===============================================================================
