------------------------------ MODULE TotpFactors ------------------------------
(***************************************************************************)
(* The TOTP second factors of one account: enrolment sessions, factors and *)
(* pending sign-ins (crates/fireemu-core-auth/src/mfa.rs and store.rs),    *)
(* with the requests of its clients, the withdrawal of factors, the moves  *)
(* of the clock, and the snapshots, which carry no secret and put the      *)
(* clock back when they are restored.                                      *)
(*                                                                         *)
(* Time counts in periods, so the clock is the current TOTP step.  Secrets *)
(* and ids are numbers from one counter, never drawn twice; 0 stands for   *)
(* the detached secret.                                                    *)
(***************************************************************************)
EXTENDS Integers, Sequences, Functions, FiniteSets, FiniteSetsExt

CONSTANTS
  Hotp,               \* the code of each step; codes of different steps may be equal
  Window,             \* TotpPolicy.window_steps
  EnrollmentTtl,      \* TotpPolicy.enrollment_session_ttl
  StrictGrace,        \* how long an expired session is kept under production's rules
  ChallengeTimeout,   \* OBSERVED_TOTP_CHALLENGE_TIMEOUT_SECONDS
  SignInTtl,          \* PENDING_SIGN_IN_TTL_SECONDS
  MaxFactors,         \* max_totp_factors_per_user
  MaxPending,         \* MAX_PENDING_PER_USER
  MaxAttempts,        \* MAX_ENROLLMENT_ATTEMPTS
  MaxClock,           \* bound on the clock
  MaxIssued,          \* bound on the secrets and ids drawn
  MaxRestores         \* bound on the restores

ASSUME TotpAssumption ==
  /\ \A bound \in {Window, EnrollmentTtl, StrictGrace, ChallengeTimeout, SignInTtl, MaxFactors,
                   MaxPending, MaxAttempts, MaxClock, MaxIssued, MaxRestores} : bound \in Nat
  /\ 0 .. MaxClock + Window \subseteq DOMAIN Hotp

VARIABLES
  account,   \* MfaState, and whether the account is disabled
  now,       \* the virtual clock
  strict,    \* second_factor_rules_are_production
  captured,  \* the snapshot, if one was taken: its account and its clock
  issued,    \* the secrets and ids drawn so far
  restores,  \* the restores so far
  accepted   \* history: the steps accepted with each secret, in order

totpVars == <<account, now, strict, captured, issued, restores, accepted>>

Detached == 0

NoStep == -1

NewAccount == [totp |-> {}, enrollments |-> << >>, sign_ins |-> << >>, disabled |-> FALSE]

TotpInit ==
  /\ account = NewAccount
  /\ now = 0
  /\ strict \in BOOLEAN
  /\ captured = {}
  /\ issued = 0 /\ restores = 0
  /\ accepted = << >>

Less(map, keys) == Restrict(map, DOMAIN map \ keys)

Insert(map, key, value) ==
  [k \in DOMAIN map \cup {key} |-> IF k = key THEN value ELSE map[k]]

(***************************************************************************)
(* What every request does first, and what a start does at the budget.     *)
(***************************************************************************)
enrollment_grace == IF strict THEN StrictGrace ELSE EnrollmentTtl

\* MfaState::sweep, which the adapter calls before every request.
swept ==
  [account EXCEPT
     !.enrollments = Restrict(@, {s \in DOMAIN @ : now <= @[s].expires_at + enrollment_grace}),
     !.sign_ins = Restrict(@, {s \in DOMAIN @ : now <= @[s].started_at + SignInTtl})]

pending_count(a) == Cardinality(DOMAIN a.enrollments) + Cardinality(DOMAIN a.sign_ins)

\* The sessions of `among` whose `at` is least.
Earliest(among, at) == {s \in among : \A t \in among : at[s] <= at[t]}

\* drop_one_finished: the accounts it may leave.
drop_one_finished(a) ==
  LET expiry == [s \in DOMAIN a.enrollments |-> a.enrollments[s].expires_at]
      start == [s \in DOMAIN a.sign_ins |-> a.sign_ins[s].started_at]
      expired == {s \in DOMAIN a.enrollments : expiry[s] < now}
      enrolled == {s \in DOMAIN a.enrollments : a.enrollments[s].completed}
      signed_in == {s \in DOMAIN a.sign_ins : a.sign_ins[s].completed}
      enrollment == IF expired # {} THEN expired ELSE enrolled
  IN  CASE enrollment # {} ->
             {[a EXCEPT !.enrollments = Less(@, {s})] : s \in Earliest(enrollment, expiry)}
        [] enrollment = {} /\ signed_in # {} ->
             {[a EXCEPT !.sign_ins = Less(@, {s})] : s \in Earliest(signed_in, start)}
        [] OTHER -> {a}

make_pending_room(a) ==
  IF strict /\ pending_count(a) >= MaxPending THEN drop_one_finished(a) ELSE {a}

\* The accounts a start may go on from; none when the budget refuses it.
Roomy == {a \in make_pending_room(swept) : pending_count(a) < MaxPending}

(***************************************************************************)
(* match_step_window: the first fresh step of the window with this code.   *)
(***************************************************************************)
Matching(last, code) ==
  {step \in (IF now > Window THEN now - Window ELSE 0) .. now + Window :
     Hotp[step] = code /\ step > last}

match_code(secret, last, code) == IF secret = Detached THEN {} ELSE Matching(last, code)

First(steps) == {step \in steps : \A other \in steps : step <= other}

Accept(secret, step) ==
  accepted' = Insert(accepted, secret, IF secret \in DOMAIN accepted
                                      THEN Append(accepted[secret], step)
                                      ELSE <<step>>)

(***************************************************************************)
(* Enrolment.                                                              *)
(***************************************************************************)
start_totp_enrollment ==
  /\ issued < MaxIssued
  /\ ~swept.disabled /\ Cardinality(swept.totp) < MaxFactors
  /\ \E room \in Roomy :
       account' = [room EXCEPT !.enrollments =
                     Insert(@, issued + 1, [expires_at |-> now + EnrollmentTtl, attempts |-> 0,
                                         completed |-> FALSE])]
  /\ issued' = issued + 1
  /\ UNCHANGED <<now, strict, captured, restores, accepted>>

\* The session is past its expiry: production's rules keep it for its answer.
EnrollmentExpired(session) ==
  /\ session \in DOMAIN swept.enrollments /\ now > swept.enrollments[session].expires_at
  /\ account' = IF strict THEN swept ELSE [swept EXCEPT !.enrollments = Less(@, {session})]
  /\ UNCHANGED <<now, strict, captured, issued, restores, accepted>>

\* The session takes no further code.
closed(pending) == strict /\ (pending.attempts >= MaxAttempts \/ pending.completed)

\* A session that is open, with the attempt counted under production's rules.
Offered(session) ==
  /\ session \in DOMAIN swept.enrollments /\ now <= swept.enrollments[session].expires_at
  /\ ~closed(swept.enrollments[session])

Counted(session) ==
  IF strict THEN [swept EXCEPT !.enrollments[session].attempts = @ + 1] ELSE swept

EnrollmentRefused(session, code) ==
  /\ Offered(session)
  /\ swept.disabled \/ match_code(session, NoStep, code) = {}
  /\ account' = Counted(session)
  /\ UNCHANGED <<now, strict, captured, issued, restores, accepted>>

\* finalize_totp_enrollment_named with the right code.  The session's secret is
\* the factor's, and the step of the code is its first accepted step.
EnrollmentFinalized(session, code) ==
  /\ issued < MaxIssued
  /\ Offered(session) /\ ~swept.disabled
  /\ \E step \in First(match_code(session, NoStep, code)) :
       /\ account' = [Counted(session) EXCEPT
                        !.enrollments = IF strict THEN [@ EXCEPT ![session].completed = TRUE]
                                                  ELSE Less(@, {session}),
                        !.totp = @ \cup {[id |-> issued + 1, secret |-> session, last |-> step]}]
       /\ Accept(session, step)
  /\ issued' = issued + 1
  /\ UNCHANGED <<now, strict, captured, restores>>

(***************************************************************************)
(* Sign-in with a second factor.                                           *)
(***************************************************************************)
start_mfa_sign_in ==
  /\ issued < MaxIssued
  /\ ~swept.disabled /\ swept.totp # {}
  /\ \E room \in Roomy :
       account' = [room EXCEPT !.sign_ins =
                     Insert(@, issued + 1, [started_at |-> now, completed |-> FALSE])]
  /\ issued' = issued + 1
  /\ UNCHANGED <<now, strict, captured, restores, accepted>>

\* The checks before the code: the pending credential, its age, the account.
MayFinish(session) ==
  /\ session \in DOMAIN swept.sign_ins
  /\ strict => now - swept.sign_ins[session].started_at < ChallengeTimeout
  /\ strict \/ ~swept.disabled

\* finalize_mfa_sign_in_for_factor with a fresh code of the factor.
SignInFinalized(session, factor, code) ==
  /\ MayFinish(session) /\ factor \in swept.totp
  /\ \E step \in First(match_code(factor.secret, factor.last, code)) :
       /\ account' = [swept EXCEPT
                        !.sign_ins = IF strict THEN [@ EXCEPT ![session].completed = TRUE]
                                               ELSE Less(@, {session}),
                        !.totp = (@ \ {factor}) \cup {[factor EXCEPT !.last = step]}]
       /\ Accept(factor.secret, step)
  /\ UNCHANGED <<now, strict, captured, issued, restores>>

\* Any request that is refused, or about something else.
OtherRequest ==
  /\ account' = swept
  /\ UNCHANGED <<now, strict, captured, issued, restores, accepted>>

(***************************************************************************)
(* The account, the clock and the session around them.                     *)
(***************************************************************************)
unenroll_factor(factor) ==
  /\ account' = [swept EXCEPT !.totp = @ \ {factor}]
  /\ UNCHANGED <<now, strict, captured, issued, restores, accepted>>

\* The Admin API replaces every factor by a list of phone numbers.
set_phone_factors ==
  /\ account' = [swept EXCEPT !.totp = {}]
  /\ UNCHANGED <<now, strict, captured, issued, restores, accepted>>

\* The Admin API disables or enables the account.
SetDisabled ==
  /\ account' = [swept EXCEPT !.disabled = ~@]
  /\ UNCHANGED <<now, strict, captured, issued, restores, accepted>>

\* The account is deleted or the session reset, and the account created again.
Recreated ==
  /\ account # NewAccount /\ account' = NewAccount
  /\ UNCHANGED <<now, strict, captured, issued, restores, accepted>>

AdvanceClock ==
  /\ now < MaxClock /\ now' = now + 1
  /\ UNCHANGED <<account, strict, captured, issued, restores, accepted>>

detach_totp_secrets(a) ==
  [a EXCEPT !.totp = {[factor EXCEPT !.secret = Detached] : factor \in @}, !.enrollments = << >>]

\* One snapshot is taken; it may be restored several times.
CaptureAuth ==
  /\ captured = {}
  /\ captured' = {[account |-> detach_totp_secrets(account), now |-> now]}
  /\ UNCHANGED <<account, now, strict, issued, restores, accepted>>

\* Mutant of boundary: the captured factor keeps its own boundary.
captured_boundary(kept, live) == kept.last

\* The higher of the two accepted steps.
boundary(kept, live) == Max({kept.last, live.last})

\* Each captured factor with the secret the live account holds for the same id;
\* the others are dropped.
rebind_totp_secrets(a) ==
  UNION {{[live EXCEPT !.last = boundary(kept, live)] :
            live \in {f \in account.totp : f.id = kept.id}} : kept \in a.totp}

RestoreAuth ==
  /\ restores < MaxRestores /\ restores' = restores + 1
  /\ \E snapshot \in captured :
       /\ account' = [snapshot.account EXCEPT !.totp = rebind_totp_secrets(snapshot.account)]
       /\ now' = snapshot.now
  /\ UNCHANGED <<strict, captured, issued, accepted>>

Codes == Range(Hotp)

TotpNext ==
  \/ start_totp_enrollment \/ start_mfa_sign_in \/ OtherRequest
  \/ \E session \in DOMAIN account.enrollments :
       \/ EnrollmentExpired(session)
       \/ \E code \in Codes :
            EnrollmentRefused(session, code) \/ EnrollmentFinalized(session, code)
  \/ \E session \in DOMAIN account.sign_ins, factor \in account.totp, code \in Codes :
       SignInFinalized(session, factor, code)
  \/ \E factor \in account.totp : unenroll_factor(factor)
  \/ set_phone_factors \/ SetDisabled \/ Recreated \/ AdvanceClock \/ CaptureAuth \/ RestoreAuth

TotpSpec == TotpInit /\ [][TotpNext]_totpVars

(***************************************************************************)
(* Properties.                                                             *)
(***************************************************************************)
\* The last element of a sequence.
Newest(seq) == seq[Len(seq)]

\* INV-AUTH-001 over whole histories: a secret never accepts a step at or below
\* one it accepted, whether the code came with an enrolment or a sign-in, from
\* whichever session, and although a restore puts factors and clock back to
\* before the code was used.  And an enrolled factor knows: its boundary is the
\* last step its secret accepted, and no two factors share a secret.
StepsAreUsedOnce ==
  /\ \A secret \in DOMAIN accepted : \A i \in 2 .. Len(accepted[secret]) :
       accepted[secret][i - 1] < accepted[secret][i]
  /\ \A f \in account.totp :
       /\ f.secret \in DOMAIN accepted /\ f.last = Newest(accepted[f.secret])
       /\ \A g \in account.totp : f.secret = g.secret => f = g
===============================================================================
