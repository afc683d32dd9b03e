------------------------------ MODULE MCServices ------------------------------
(***************************************************************************)
(* Five small components of the daemon, which share no state, checked side *)
(* by side: the initial state chooses one of them and the others stand     *)
(* still.  The outbox: three events in two queues, one terminal record     *)
(* kept, two attempts each.                                                *)
(***************************************************************************)
EXTENDS MountPointExport, SiblingExport, SessionControl, TotpFactors, Outbox, TLC

CONSTANTS f, g

VARIABLE component

MCData == {"firestore", "auth"}

\* The order of the hooks and of the wipe, which are not the same.
MCStores == <<"firestore", "database", "auth">>
MCWipeOrder == <<"firestore", "auth", "database">>

\* Steps 0 and 2 have the same code.
MCHotp == [step \in 0 .. 4 |-> <<"a", "b", "a", "c", "d">>[step + 1]]

MCIds == 1 .. 3

MCQueues == {f, g}

\* The queues are interchangeable: no operator looks at a queue's name.
QueueSymmetry == Permutations(MCQueues)

\* Two attempts; the first failure waits one unit.
MCPolicy == [max_attempts |-> 2, base_backoff |-> 1, max_backoff |-> 1,
             max_doublings |-> Unlimited, max_retry_duration |-> Unlimited]

\* Only a retry window looks at the time of an event, and the policy has none.
SameTime == \A id \in DOMAIN outbox'.records : outbox'.records[id].time = 0

ServicesInit ==
  /\ component \in {"mount", "sibling", "session", "totp", "outbox"}
  /\ MountInit /\ SiblingInit /\ SessionInit /\ TotpInit /\ Init
  /\ component # "mount" => target = Empty
  /\ component # "sibling" => names.target = None
  /\ component # "totp" => ~strict

ServicesNext ==
  /\ UNCHANGED component
  /\ \/ component = "mount" /\ MountNext
          /\ UNCHANGED <<siblingVars, sessionVars, totpVars, vars>>
     \/ component = "sibling" /\ SiblingNext
          /\ UNCHANGED <<mountVars, sessionVars, totpVars, vars>>
     \/ component = "session" /\ SessionNext
          /\ UNCHANGED <<mountVars, siblingVars, totpVars, vars>>
     \/ component = "totp" /\ TotpNext
          /\ UNCHANGED <<mountVars, siblingVars, sessionVars, vars>>
     \/ component = "outbox" /\ Next /\ SameTime
          /\ UNCHANGED <<mountVars, siblingVars, sessionVars, totpVars>>

ServicesSpec ==
  ServicesInit
  /\ [][ServicesNext]_<<component, mountVars, siblingVars, sessionVars, totpVars, vars>>
===============================================================================
