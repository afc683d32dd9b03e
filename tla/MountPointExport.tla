--------------------------- MODULE MountPointExport ---------------------------
(***************************************************************************)
(* The publication of an export whose target directory is the root of a    *)
(* mount (crates/fireemu-export-publication, Placement::InsideMountPoint,  *)
(* driven by `export` of crates/fireemu/src/import_export.rs).  Such a     *)
(* directory cannot be renamed, so its entries are moved one by one: the   *)
(* old ones into a displaced directory inside it, then those of the stage  *)
(* into it.  Any rename may fail and the process may die between any two.  *)
(*                                                                         *)
(* A directory is a function from the names of its entries to their        *)
(* contents, and a content is a set of pieces <<name, export>>: one piece  *)
(* for an entry of an export, everything below it for a stage or displaced *)
(* directory that an earlier export left behind.                           *)
(***************************************************************************)
EXTENDS Naturals, Functions

CONSTANTS
  Data,            \* the names of the export's own entries, but for the manifest
  MaxExports,      \* bound on the exports begun
  MaxFailures,     \* bound on the system calls that fail
  MaxCrashes       \* bound on the deaths of the process

ASSUME ExportAssumption ==
  /\ MaxExports \in Nat /\ MaxFailures \in Nat /\ MaxCrashes \in Nat
  /\ {"manifest", "user"} \cap Data = {}

VARIABLES
  target,     \* the mount point, but for the stage and displaced directory of a running export
  stage,      \* the running export's stage
  displaced,  \* the running export's displaced directory
  export,     \* where the running export stands, and the last answer
  faults,     \* failures and crashes so far
  history     \* what was in the target before, the whole exports, and what must survive

mountVars == <<target, stage, displaced, export, faults, history>>

\* Names: an entry's name is a pair, as the names of the private directories that
\* an export makes inside the target carry a number (create_private_child).
Manifest == <<"manifest", 0>>

DataNames == {<<kind, 0>> : kind \in Data}

\* An entry the export does not manage: it is copied into every stage.
UserEntry == <<"user", 0>>

StageName(gen) == <<"stage", gen>>

DisplacedName(gen) == <<"displaced", gen>>

Empty == << >>

Pieces(dir) == UNION Range(dir)

Without(dir, name) == Restrict(dir, DOMAIN dir \ {name})

\* The entries of one directory put into another, over those of the same name.
Over(new, dir) ==
  [name \in DOMAIN new \cup DOMAIN dir |-> IF name \in DOMAIN new THEN new[name] ELSE dir[name]]

With(dir, name, content) == Over([n \in {name} |-> content], dir)

Files(names, gen) == [name \in names |-> {<<name, gen>>}]

EntryNames == DataNames \cup {Manifest, UserEntry}

\* What is left of a directory without the leftovers of earlier exports.
Proper(dir) == Restrict(dir, DOMAIN dir \cap EntryNames)

Standing == {Empty, Files({UserEntry}, 0)}
  \cup {Files(names \cup {Manifest} \cup user, 0) :
          names \in SUBSET DataNames \ {{}}, user \in {{}, {UserEntry}}}

MountInit ==
  /\ target \in Standing
  /\ stage = Empty /\ displaced = Empty
  /\ export = [pc |-> "idle", gen |-> 0, pending |-> {}, moved_in |-> {}, moved_out |-> {},
               restored |-> TRUE, answer |-> "none"]
  /\ faults = [failures |-> 0, crashes |-> 0]
  /\ history = [before |-> target, whole |-> {Pieces(target)},
                promised |-> IF Manifest \in DOMAIN target THEN Pieces(target) ELSE {}]

Fails ==
  /\ faults.failures < MaxFailures
  /\ faults' = [faults EXCEPT !.failures = @ + 1]

(***************************************************************************)
(* Before the publication.                                                 *)
(***************************************************************************)
may_overwrite == DOMAIN target = {} \/ Manifest \in DOMAIN target

Create ==
  /\ export.pc = "idle" /\ export.gen < MaxExports
  /\ may_overwrite
  /\ export' = [export EXCEPT !.pc = "staged", !.gen = @ + 1, !.answer = "none"]
  /\ stage' = Empty
  /\ history' = [history EXCEPT !.before = target]
  /\ UNCHANGED <<target, displaced, faults>>

CreateRefused ==
  /\ export.pc = "idle" /\ export.gen < MaxExports
  /\ ~may_overwrite
  /\ export' = [export EXCEPT !.gen = @ + 1, !.answer = "failed"]
  /\ history' = [history EXCEPT !.before = target]
  /\ UNCHANGED <<target, stage, displaced, faults>>

\* What of the previous export the stage starts with: nothing the export owns,
\* and no leftover of a publication.
unmanaged == Restrict(target, DOMAIN target \cap {UserEntry})

WriteTree ==
  /\ export.pc = "staged" /\ stage = Empty
  /\ \E names \in SUBSET DataNames \ {{}} :
       stage' = Over(Files(names \cup {Manifest}, export.gen), unmanaged)
  /\ history' = [history EXCEPT !.whole = @ \cup {Pieces(stage')}]
  /\ UNCHANGED <<target, displaced, export, faults>>

\* PublicationStage::drop of a stage that was not published; the removal of the
\* stage is best effort.
Dropped(dir, kept) ==
  /\ target' = IF kept THEN With(dir, StageName(export.gen), Pieces(stage)) ELSE dir
  /\ stage' = Empty

WriteFails ==
  /\ export.pc = "staged" /\ stage = Empty
  /\ Fails
  /\ \E kept \in BOOLEAN : Dropped(target, kept)
  /\ export' = [export EXCEPT !.pc = "idle", !.answer = "failed"]
  /\ UNCHANGED <<displaced, history>>

(***************************************************************************)
(* publish_into_mount_point_with and move_entries: the names are listed    *)
(* once, in whatever order the directory gives them, and then moved one at *)
(* a time, the manifest first on the way out and last on the way in.       *)
(***************************************************************************)
BeginPublish ==
  /\ export.pc = "staged" /\ stage # Empty
  /\ displaced' = Empty
  /\ export' = [export EXCEPT !.pc = "out", !.pending = DOMAIN target,
                              !.moved_in = {}, !.moved_out = {}, !.restored = TRUE]
  /\ UNCHANGED <<target, stage, faults, history>>

\* A directory cannot be made or opened; the displaced directory may exist by then.
BeginFails ==
  /\ export.pc = "staged" /\ stage # Empty
  /\ Fails
  /\ \E made, left \in BOOLEAN :
       Dropped(IF made THEN With(target, DisplacedName(export.gen), {}) ELSE target, left)
  /\ export' = [export EXCEPT !.pc = "idle", !.answer = "failed"]
  /\ UNCHANGED <<displaced, history>>

\* Mutant of moves_out_next: the manifest leaves like any other entry.
moves_out_any(name) == name \in export.pending

moves_out_next(name) == Manifest \in export.pending => name = Manifest

moves_in_next(name) == name = Manifest => export.pending = {Manifest}

MoveOut(name) ==
  /\ export.pc = "out" /\ name \in export.pending /\ moves_out_next(name)
  /\ target' = Without(target, name)
  /\ displaced' = With(displaced, name, target[name])
  /\ export' = [export EXCEPT !.pending = @ \ {name}, !.moved_out = @ \cup {name}]
  /\ UNCHANGED <<stage, faults, history>>

ListStage ==
  /\ export.pc = "out" /\ export.pending = {}
  /\ export' = [export EXCEPT !.pc = "in", !.pending = DOMAIN stage]
  /\ UNCHANGED <<target, stage, displaced, faults, history>>

MoveIn(name) ==
  /\ export.pc = "in" /\ name \in export.pending /\ moves_in_next(name)
  /\ target' = With(target, name, stage[name])
  /\ stage' = Without(stage, name)
  /\ export' = [export EXCEPT !.pending = @ \ {name}, !.moved_in = @ \cup {name}]
  /\ history' = IF name = Manifest THEN [history EXCEPT !.promised = Pieces(target')]
                                   ELSE history
  /\ UNCHANGED <<displaced, faults>>

MoveFails ==
  /\ export.pc \in {"out", "in"} /\ export.pending # {}
  /\ Fails
  /\ export' = [export EXCEPT !.pc = "undo", !.pending = {}]
  /\ UNCHANGED <<target, stage, displaced, history>>

\* The export is in place.  The empty stage and the displaced tree go, as far
\* as they can be removed.
FinishPublish(kept) ==
  /\ export.pc = "in" /\ export.pending = {}
  /\ IF kept THEN Fails ELSE UNCHANGED faults
  /\ target' = IF kept THEN With(target, DisplacedName(export.gen), Pieces(displaced))
                       ELSE target
  /\ displaced' = Empty
  /\ export' = [export EXCEPT !.pc = "idle", !.answer = "published"]
  /\ UNCHANGED <<stage, history>>

(***************************************************************************)
(* roll_back: the new entries back to the stage, the old ones back to the  *)
(* target, the old manifest last and only when everything else is back.    *)
(***************************************************************************)
UndoIn(name, fails) ==
  /\ export.pc = "undo" /\ name \in export.moved_in
  /\ IF fails THEN Fails ELSE UNCHANGED faults
  /\ IF fails THEN UNCHANGED <<target, stage>>
              ELSE /\ target' = Without(target, name)
                   /\ stage' = With(stage, name, target[name])
  /\ export' = [export EXCEPT !.moved_in = @ \ {name}, !.restored = @ /\ ~fails]
  /\ UNCHANGED <<displaced, history>>

\* Mutant of puts_back_next: the old manifest goes back like any other entry.
puts_back_any(name) == name \in export.moved_out

\* The old manifest goes back after the other entries, and not at all once
\* something could not be put back.
puts_back_next(name) ==
  name = Manifest => export.moved_out = {Manifest} /\ export.restored

UndoOut(name, fails) ==
  /\ export.pc = "undo" /\ export.moved_in = {} /\ name \in export.moved_out
  /\ puts_back_next(name)
  /\ IF fails THEN Fails ELSE UNCHANGED faults
  /\ IF fails THEN UNCHANGED <<target, displaced>>
              ELSE /\ target' = With(target, name, displaced[name])
                   /\ displaced' = Without(displaced, name)
  /\ export' = [export EXCEPT !.moved_out = @ \ {name}, !.restored = @ /\ ~fails]
  /\ UNCHANGED <<stage, history>>

\* The answer, the removal of the emptied displaced directory (best effort) and
\* the drop of the stage, which is still armed.
UndoEnd(kept) ==
  /\ export.pc = "undo" /\ export.moved_in = {}
  /\ \A name \in export.moved_out : ~puts_back_next(name)
  /\ IF kept THEN Fails ELSE UNCHANGED faults
  /\ \E left \in BOOLEAN :
       Dropped(IF export.restored /\ ~kept THEN target
               ELSE With(target, DisplacedName(export.gen), Pieces(displaced)), left)
  /\ displaced' = Empty
  /\ export' = [export EXCEPT !.pc = "idle", !.moved_out = {},
                              !.answer = IF export.restored THEN "failed" ELSE "not restored"]
  /\ UNCHANGED history

(***************************************************************************)
(* The process dies: its stage and displaced directory stay in the target. *)
(***************************************************************************)
Crash ==
  /\ export.pc # "idle" /\ faults.crashes < MaxCrashes
  /\ faults' = [faults EXCEPT !.crashes = @ + 1]
  /\ target' = With(IF export.pc = "staged" THEN target
                    ELSE With(target, DisplacedName(export.gen), Pieces(displaced)),
                    StageName(export.gen), Pieces(stage))
  /\ stage' = Empty /\ displaced' = Empty
  /\ export' = [export EXCEPT !.pc = "idle", !.pending = {}, !.moved_in = {},
                              !.moved_out = {}, !.answer = "none"]
  /\ UNCHANGED history

\* The user follows the advice of the refusal and empties the directory.
UserEmpties ==
  /\ export.pc = "idle" /\ ~may_overwrite
  /\ target' = Empty
  /\ export' = [export EXCEPT !.answer = "none"]
  /\ history' = [history EXCEPT !.promised = {}]
  /\ UNCHANGED <<stage, displaced, faults>>

MountNext ==
  \/ Create \/ CreateRefused \/ WriteTree \/ WriteFails
  \/ BeginPublish \/ BeginFails \/ ListStage \/ MoveFails
  \/ \E name \in DOMAIN target : MoveOut(name)
  \/ \E name \in DOMAIN stage : MoveIn(name)
  \/ \E bad \in BOOLEAN :
       \/ FinishPublish(bad) \/ UndoEnd(bad)
       \/ \E name \in export.moved_in : UndoIn(name, bad)
       \/ \E name \in export.moved_out : UndoOut(name, bad)
  \/ Crash \/ UserEmpties

MountSpec == MountInit /\ [][MountNext]_mountVars

(***************************************************************************)
(* Properties.                                                             *)
(***************************************************************************)
\* A directory that holds a manifest holds one export and all of it, the
\* user's own entries included, beside leftovers that no import reads: whatever
\* rename failed and wherever the process died, in this export or an earlier
\* one ("never holds a manifest beside a partial tree", lib.rs:973-975).
ManifestMeansWhole ==
  Manifest \in DOMAIN target => Pieces(Proper(target)) \in history.whole

\* The last whole export and the user's entries are on the volume until another
\* export is whole: in the target, or in a displaced directory of it, also
\* across a failed rollback, a crash and the exports after them.  And the
\* answer says which: a refusal leaves the target as it was found, a
\* publication leaves the new export there, and only the answer that names the
\* displaced directory leaves the target without its manifest.
OldExportSurvives ==
  /\ history.promised \subseteq Pieces(target) \cup Pieces(displaced)
  /\ export.pc = "idle" =>
       CASE export.answer = "failed" -> Proper(target) = Proper(history.before)
         [] export.answer = "published" -> target[Manifest] = {<<Manifest, export.gen>>}
         [] export.answer = "not restored" -> Manifest \notin DOMAIN target
         [] OTHER -> TRUE
===============================================================================
