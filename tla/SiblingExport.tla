---------------------------- MODULE SiblingExport -----------------------------
(***************************************************************************)
(* The publication of an export by one atomic rename                       *)
(* (crates/fireemu-export-publication, Placement::Sibling): the tree is    *)
(* written to a stage beside the target, exchanged with the target when    *)
(* there was one and moved to the free name otherwise, and what it         *)
(* displaced is removed.  Other programs may replace, remove or create the *)
(* directory at the target's name at any moment: the publication compares  *)
(* identities before and after the rename.                                 *)
(*                                                                         *)
(* A directory is its identity (device and inode): 0 is no directory, the  *)
(* even ones are made by this program and the odd ones by others.  Each    *)
(* publication has a stage name of its own; `names` holds the current one. *)
(***************************************************************************)
EXTENDS Naturals, FiniteSets

CONSTANTS
  MaxStages,      \* bound on the exports begun
  MaxIntrusions   \* bound on what other programs do

ASSUME SiblingAssumption == MaxStages \in Nat /\ MaxIntrusions \in Nat

VARIABLES
  names,     \* the directories at the target's and at the stage's name
  run,       \* the running publication: its step, what it captured, its stage
  intruded,  \* how often other programs acted, and whether they did since the rename
  removed    \* the directories this program removed

siblingVars == <<names, run, intruded, removed>>

None == 0

SiblingInit ==
  /\ names \in {[target |-> None, stage |-> None], [target |-> 1, stage |-> None]}
  /\ run = [pc |-> "idle", stages |-> 0, expected |-> None, owned |-> None,
            answer |-> "none"]
  /\ intruded = [count |-> 0, since |-> FALSE]
  /\ removed = {}

(***************************************************************************)
(* PublicationStage::create: the target's identity is captured, its        *)
(* overwrite policy checked, and the identity compared again.              *)
(***************************************************************************)
Capture ==
  /\ run.pc = "idle" /\ run.stages < MaxStages
  /\ run' = [run EXCEPT !.pc = "checking", !.stages = @ + 1, !.expected = names.target,
                        !.owned = None, !.answer = "none"]
  /\ intruded' = [intruded EXCEPT !.since = FALSE]
  /\ UNCHANGED <<names, removed>>

CreateStage ==
  /\ run.pc = "checking" /\ names.target = run.expected
  /\ run' = [run EXCEPT !.pc = "staged", !.owned = 2 * run.stages]
  /\ names' = [names EXCEPT !.stage = 2 * run.stages]
  /\ UNCHANGED <<intruded, removed>>

\* PublicationStage::drop of a stage that is still armed removes what is at the
\* stage's name if it is the stage it made.
drop_removes == run.owned # None /\ names.stage = run.owned

Dropping(ns) ==
  /\ names' = IF drop_removes THEN [ns EXCEPT !.stage = None] ELSE ns
  /\ removed' = IF drop_removes THEN removed \cup {names.stage} ELSE removed

Answer(answer) == run' = [run EXCEPT !.pc = "idle", !.answer = answer]

\* The policy refuses the target, the identity changed, the tree cannot be
\* written, or the target changed before publish looked at it again.
GiveUp ==
  /\ \/ run.pc = "checking"
     \/ run.pc = "staged"
     \/ run.pc = "publishing" /\ names.target # run.expected
  /\ Dropping(names)
  /\ Answer("unchanged")
  /\ UNCHANGED intruded

\* previous_export opens the captured target, if there was one, and the tree is
\* written.
WriteStage ==
  /\ run.pc = "staged" /\ names.stage = run.owned
  /\ run.expected # None => names.target = run.expected
  /\ run' = [run EXCEPT !.pc = "publishing"]
  /\ UNCHANGED <<names, intruded, removed>>

\* publish compares the identities of the stage and of the target again.
Recheck ==
  /\ run.pc = "publishing" /\ names.stage = run.owned
  /\ names.target = run.expected
  /\ run' = [run EXCEPT !.pc = "renaming"]
  /\ UNCHANGED <<names, intruded, removed>>

Exchanged == [target |-> names.stage, stage |-> names.target]

(***************************************************************************)
(* atomic_publish: EXCHANGE needs both names to exist, NOREPLACE needs the *)
(* target's to be free; either may also be refused by the volume.          *)
(***************************************************************************)
rename_possible == (run.expected # None) = (names.target # None)

Rename ==
  /\ run.pc = "renaming" /\ rename_possible
  /\ names' = Exchanged
  /\ run' = [run EXCEPT !.pc = IF run.expected = None THEN "published" ELSE "verifying"]
  /\ intruded' = [intruded EXCEPT !.since = FALSE]
  /\ UNCHANGED removed

RenameRefused ==
  /\ run.pc = "renaming"
  /\ Dropping(names)
  /\ Answer("unchanged")
  /\ UNCHANGED intruded

\* Mutant of displaced_is_expected: what the exchange displaced is not looked at.
displaced_any == names.stage # None

displaced_is_expected == names.stage = run.expected

Verified ==
  /\ run.pc = "verifying" /\ displaced_is_expected
  /\ run' = [run EXCEPT !.pc = "cleaning"]
  /\ UNCHANGED <<names, intruded, removed>>

\* verify_displaced_target_or_rollback: another directory was displaced, so the
\* two names are exchanged again.  The drop then removes the stage if it is back.
ExchangedBack ==
  /\ run.pc = "verifying" /\ ~displaced_is_expected /\ names.target # None
  /\ LET back == Exchanged
         mine == back.stage = run.owned IN
       /\ names' = IF mine THEN [back EXCEPT !.stage = None] ELSE back
       /\ removed' = IF mine THEN removed \cup {run.owned} ELSE removed
  /\ Answer("unchanged")
  /\ UNCHANGED intruded

ExchangeBackFails ==
  /\ run.pc = "verifying" /\ ~displaced_is_expected
  /\ Dropping(names)
  /\ Answer("rollback failed")
  /\ UNCHANGED intruded

\* The displaced target is compared once more and removed; when it cannot be,
\* the answer is an error although the export is published.
Clean(fails) ==
  /\ run.pc = "cleaning" /\ (fails \/ displaced_is_expected)
  /\ names' = IF fails THEN names ELSE [names EXCEPT !.stage = None]
  /\ removed' = IF fails THEN removed ELSE removed \cup {names.stage}
  /\ Answer(IF fails THEN "not cleaned" ELSE "published")
  /\ UNCHANGED intruded

PublishedNew ==
  /\ run.pc = "published"
  /\ Answer("published")
  /\ UNCHANGED <<names, intruded, removed>>

\* Another program moves its own directory to the target's name, or takes away
\* what is there.
Intrude ==
  /\ intruded.count < MaxIntrusions
  /\ intruded' = [count |-> intruded.count + 1, since |-> TRUE]
  /\ \/ names' = [names EXCEPT !.target = 2 * intruded.count + 3]
     \/ names.target # None /\ names' = [names EXCEPT !.target = None]
  /\ UNCHANGED <<run, removed>>

SiblingNext ==
  \/ Capture \/ CreateStage \/ GiveUp \/ WriteStage \/ Recheck \/ Rename \/ RenameRefused
  \/ Verified \/ ExchangedBack \/ ExchangeBackFails
  \/ Clean(TRUE) \/ Clean(FALSE) \/ PublishedNew
  \/ Intrude

SiblingSpec == SiblingInit /\ [][SiblingNext]_siblingVars

(***************************************************************************)
(* Properties.                                                             *)
(***************************************************************************)
\* A publication removes nothing but its own stages and the directory it
\* captured, checked and replaced: a directory that another program puts at the
\* target's name between any two steps stays, whatever the publication answers.
\* And while nobody else acts after the rename, the answer is the truth: the
\* target is the new export exactly when the answer says it was published, or
\* that only the clean-up or the way back failed.
OnlyTheReplacedIsRemoved ==
  [][/\ \A id \in removed' \ removed :
          \/ id = run.owned /\ id # names'.target
          \/ id = run.expected /\ (intruded.since \/ names.target = run.owned)
     /\ run.pc # "idle" /\ run'.pc = "idle" /\ ~intruded.since =>
          (names'.target = run.owned /\ run.owned # None)
            <=> (run'.answer \in {"published", "not cleaned", "rollback failed"})]_siblingVars
===============================================================================
