------------------------------ MODULE ExportProofs -----------------------------
(***************************************************************************)
(* The two ways of publishing an export.                                   *)
(*                                                                         *)
(* Into a mount point: an export never leaves a manifest beside a partial  *)
(* tree and never loses the last whole export, for every set of entries,   *)
(* number of exports, failed renames and crashes.  The argument follows    *)
(* the entries.  While an export runs, the directory that it found is      *)
(* split between the target and the displaced directory, entry by entry    *)
(* unchanged, and the new tree between the target and the stage; whichever *)
(* manifest the target holds, its tree is then complete.                   *)
(*                                                                         *)
(* By one rename: nothing is removed that the publication did not make or  *)
(* replace, however many exports run and however often other programs act. *)
(* The argument is about identities: no directory is ever at both names,   *)
(* since what appears at a name was never seen before; from its creation   *)
(* to the rename the stage stands at its name, which nobody else touches;  *)
(* and from the rename on the target is the new export unless another      *)
(* program acted.                                                          *)
(***************************************************************************)
EXTENDS MountPointExport, SiblingExport, TLAPS

IsDir(dir) == dir = [name \in DOMAIN dir |-> dir[name]]

\* The entries of a directory: of an export, of the user, and leftovers of the
\* exports numbered below a limit.
Numbered(dir, limit) ==
  \A name \in DOMAIN dir :
    \/ name \in EntryNames
    \/ \E gen \in Nat : 0 < gen /\ gen < limit /\ name \in {StageName(gen), DisplacedName(gen)}

WholeIfManifest(dir) == Manifest \in DOMAIN dir => Pieces(Proper(dir)) \in history.whole

\* The manifest of the running export.
OwnManifest == {<<Manifest, export.gen>>}

IsExport(e) ==
  /\ e = [pc |-> e.pc, gen |-> e.gen, pending |-> e.pending, moved_in |-> e.moved_in,
          moved_out |-> e.moved_out, restored |-> e.restored, answer |-> e.answer]
  /\ e.gen \in Nat /\ e.restored \in BOOLEAN
  /\ e.pc \in {"idle", "staged", "out", "in", "undo"}

IsHistory(h) ==
  h = [before |-> h.before, whole |-> h.whole, promised |-> h.promised] /\ IsDir(h.before)

MountShape ==
  /\ IsDir(target) /\ IsDir(stage) /\ IsDir(displaced)
  /\ IsExport(export) /\ IsHistory(history)

\* No name is used twice: what an export leaves behind carries its number.
NamesInv ==
  /\ export.pc = "idle" => Numbered(target, export.gen + 1)
  /\ export.pc # "idle" => /\ export.gen # 0
                           /\ Numbered(target, export.gen) /\ Numbered(history.before, export.gen)

\* Between two exports.
IdleInv ==
  export.pc \in {"idle", "staged"} =>
    WholeIfManifest(target) /\ history.promised \subseteq Pieces(target)

\* While an export runs, before its manifest is in place.
BeforeInv ==
  export.pc # "idle" =>
    /\ WholeIfManifest(history.before)
    /\ ~(export.pc = "in" /\ Manifest \in DOMAIN target) =>
         history.promised \subseteq Pieces(history.before)

StagedInv ==
  export.pc \in {"staged", "out"} =>
    /\ export.pc = "staged" => target = history.before
    /\ DOMAIN stage \subseteq EntryNames
    /\ stage # Empty \/ export.pc = "out" =>
         /\ Pieces(stage) \in history.whole
         /\ Manifest \in DOMAIN stage /\ stage[Manifest] = OwnManifest

OutInv ==
  export.pc = "out" =>
    /\ DOMAIN target \cap DOMAIN displaced = {}
    /\ DOMAIN target \cup DOMAIN displaced = DOMAIN history.before
    /\ \A name \in DOMAIN target : target[name] = history.before[name]
    /\ \A name \in DOMAIN displaced : displaced[name] = history.before[name]
    /\ Manifest \in DOMAIN target => DOMAIN displaced = {}
    /\ export.pending = DOMAIN target /\ export.moved_out = DOMAIN displaced
    /\ export.moved_in = {} /\ export.restored = TRUE

InInv ==
  export.pc = "in" =>
    /\ displaced = history.before /\ export.moved_out = DOMAIN history.before
    /\ export.moved_in = DOMAIN target /\ export.pending = DOMAIN stage
    /\ export.restored = TRUE
    /\ DOMAIN target \subseteq EntryNames /\ DOMAIN stage \subseteq EntryNames
    /\ DOMAIN target \cap DOMAIN stage = {}
    /\ Pieces(target) \cup Pieces(stage) \in history.whole
    /\ IF Manifest \in DOMAIN target
       THEN /\ export.pending = {} /\ target[Manifest] = OwnManifest
            /\ history.promised \subseteq Pieces(target)
       ELSE Manifest \in DOMAIN stage /\ stage[Manifest] = OwnManifest

UndoInv ==
  export.pc = "undo" =>
    /\ export.moved_in \subseteq DOMAIN target /\ export.moved_out \subseteq DOMAIN displaced
    /\ DOMAIN displaced \subseteq DOMAIN history.before
    /\ \A name \in DOMAIN displaced : displaced[name] = history.before[name]
    /\ \A name \in DOMAIN history.before \ DOMAIN displaced :
         name \in DOMAIN target /\ target[name] = history.before[name]
    /\ export.moved_in # {} =>
         DOMAIN displaced = DOMAIN history.before /\ export.moved_out = DOMAIN history.before
    /\ export.restored = TRUE =>
         /\ export.moved_out = DOMAIN displaced
         /\ DOMAIN target = export.moved_in \cup (DOMAIN history.before \ export.moved_out)
    /\ Manifest \in DOMAIN target =>
         export.moved_in = {} /\ export.moved_out = {} /\ export.restored = TRUE

AnswerInv ==
  export.pc = "idle" =>
    /\ export.answer = "failed" => Proper(target) = Proper(history.before)
    /\ export.answer = "published" => /\ Manifest \in DOMAIN target
                                      /\ target[Manifest] = OwnManifest
    /\ export.answer = "not restored" => Manifest \notin DOMAIN target

MountInv ==
  /\ MountShape /\ NamesInv /\ IdleInv /\ BeforeInv /\ StagedInv /\ OutInv /\ InInv /\ UndoInv
  /\ AnswerInv

(***************************************************************************)
(* Directories.                                                            *)
(***************************************************************************)
LEMMA PiecesAre ==
  ASSUME NEW dir, NEW piece
  PROVE  piece \in Pieces(dir) <=> \E name \in DOMAIN dir : piece \in dir[name]
BY DEF Pieces, Range

(* The empty directory is a directory without pieces.                       *)
LEMMA EmptyIsDir == IsDir(Empty) /\ DOMAIN Empty = {} /\ Pieces(Empty) = {}
BY DEF IsDir, Empty, Pieces, Range

(* Two directories with the same entries are the same.                      *)
LEMMA SameDir ==
  ASSUME NEW dir, NEW other, IsDir(dir), IsDir(other), DOMAIN dir = DOMAIN other,
         \A name \in DOMAIN dir : dir[name] = other[name]
  PROVE  dir = other
BY DEF IsDir

(* What a directory holds after an entry is put into it.                    *)
LEMMA WithAdds ==
  ASSUME NEW dir, NEW name, NEW content
  PROVE  /\ IsDir(With(dir, name, content))
         /\ DOMAIN With(dir, name, content) = DOMAIN dir \cup {name}
BY DEF IsDir, With, Over

(* The entry that was put is there.                                         *)
LEMMA WithNew ==
  ASSUME NEW dir, NEW name, NEW content
  PROVE  With(dir, name, content)[name] = content
BY DEF With, Over

(* The other entries are left alone.                                        *)
LEMMA WithOld ==
  ASSUME NEW dir, NEW name, NEW content, NEW n \in DOMAIN dir, n # name
  PROVE  With(dir, name, content)[n] = dir[n]
BY DEF With, Over

(* What a directory holds after an entry is taken out.                      *)
LEMMA WithoutRemoves ==
  ASSUME NEW dir, NEW name
  PROVE  /\ IsDir(Without(dir, name))
         /\ DOMAIN Without(dir, name) = DOMAIN dir \ {name}
         /\ \A n \in DOMAIN dir \ {name} : Without(dir, name)[n] = dir[n]
BY DEF IsDir, Without, Restrict

(* The pieces of a directory that got an entry.                             *)
LEMMA PiecesOfWith ==
  ASSUME NEW dir, NEW name, NEW content, name \notin DOMAIN dir
  PROVE  Pieces(With(dir, name, content)) = Pieces(dir) \cup content
<1> DEFINE new == With(dir, name, content)
<1>1. DOMAIN new = DOMAIN dir \cup {name}
  BY WithAdds
<1>2. new[name] = content
  BY WithNew
<1>3. \A n \in DOMAIN dir : new[n] = dir[n]
  BY WithOld
<1> HIDE DEF new
<1>4. ASSUME NEW piece PROVE piece \in Pieces(new) <=> piece \in Pieces(dir) \/ piece \in content
  <2>1. piece \in Pieces(new) <=> \E n \in DOMAIN new : piece \in new[n]
    BY PiecesAre
  <2>2. piece \in Pieces(dir) <=> \E n \in DOMAIN dir : piece \in dir[n]
    BY PiecesAre
  <2> QED
    BY <1>1, <1>2, <1>3, <2>1, <2>2
<1> QED
  BY <1>4 DEF new

\* What is entered into one directory and taken from another stays the same.
LEMMA PiecesOfMove ==
  ASSUME NEW dir, NEW from, NEW name \in DOMAIN from, name \notin DOMAIN dir
  PROVE  Pieces(With(dir, name, from[name])) \cup Pieces(Without(from, name))
           = Pieces(dir) \cup Pieces(from)
<1>1. Pieces(With(dir, name, from[name])) = Pieces(dir) \cup from[name]
  BY PiecesOfWith
<1>2. Pieces(from) = Pieces(Without(from, name)) \cup from[name]
  <2> DEFINE rest == Without(from, name)
  <2>1. DOMAIN rest = DOMAIN from \ {name} /\ \A n \in DOMAIN rest : rest[n] = from[n]
    BY WithoutRemoves
  <2> HIDE DEF rest
  <2>2. ASSUME NEW piece
        PROVE  piece \in Pieces(from) <=> piece \in Pieces(rest) \/ piece \in from[name]
    BY <2>1, PiecesAre
  <2> QED
    BY <2>2 DEF rest
<1> QED
  BY <1>1, <1>2

(* Part of a directory has part of its pieces.                              *)
LEMMA PiecesOfPart ==
  ASSUME NEW dir, NEW other,
         \A name \in DOMAIN dir : name \in DOMAIN other /\ dir[name] = other[name]
  PROVE  Pieces(dir) \subseteq Pieces(other)
<1>1. ASSUME NEW piece \in Pieces(dir) PROVE piece \in Pieces(other)
  BY PiecesAre
<1> QED
  BY <1>1

\* A directory that differs only in private entries is the same export.
LEMMA SameProper ==
  ASSUME NEW dir, NEW other,
         DOMAIN dir \cap EntryNames = DOMAIN other \cap EntryNames,
         \A name \in DOMAIN dir \cap EntryNames : dir[name] = other[name]
  PROVE  Proper(dir) = Proper(other)
BY DEF Proper, Restrict

(* A directory of entries only is its own proper part.                      *)
LEMMA ProperIsAll ==
  ASSUME NEW dir, IsDir(dir), DOMAIN dir \subseteq EntryNames
  PROVE  Proper(dir) = dir
<1>1. DOMAIN dir \cap EntryNames = DOMAIN dir
  OBVIOUS
<1> QED
  BY <1>1 DEF Proper, Restrict, IsDir

(* The private names are no entries, and new where none is numbered higher. *)
LEMMA PrivateNames ==
  ASSUME NEW gen \in Nat, gen # 0, NEW name \in {StageName(gen), DisplacedName(gen)}
  PROVE  /\ name \notin EntryNames /\ StageName(gen) # DisplacedName(gen)
         /\ Manifest \in EntryNames /\ name # Manifest
         /\ \A dir : Numbered(dir, gen) => name \notin DOMAIN dir
<1>1. StageName(gen) # DisplacedName(gen)
  BY DEF StageName, DisplacedName
<1>2. \A n \in EntryNames : n[2] = 0
  BY DEF EntryNames, DataNames, Manifest, UserEntry
<1>3. name[2] = gen
  BY DEF StageName, DisplacedName
<1>4. Manifest \in EntryNames
  BY DEF EntryNames
<1>5. ASSUME NEW dir, Numbered(dir, gen), name \in DOMAIN dir PROVE FALSE
  <2>1. PICK g \in Nat : g < gen /\ name \in {StageName(g), DisplacedName(g)}
    BY <1>2, <1>3, <1>5 DEF Numbered
  <2>2. name[2] = g
    BY <2>1 DEF StageName, DisplacedName
  <2> QED
    BY <1>3, <2>1, <2>2
<1> QED
  BY <1>1, <1>2, <1>3, <1>4, <1>5

\* A private entry of this export beside what the target holds.
LEMMA LeftBehind ==
  ASSUME NEW dir, NEW gen \in Nat, NEW name, NEW content, gen # 0,
         name \in {StageName(gen), DisplacedName(gen)}, name \notin DOMAIN dir,
         Numbered(dir, gen + 1)
  PROVE  /\ IsDir(With(dir, name, content)) /\ Numbered(With(dir, name, content), gen + 1)
         /\ Proper(With(dir, name, content)) = Proper(dir)
         /\ Pieces(With(dir, name, content)) = Pieces(dir) \cup content
         /\ Manifest \in DOMAIN With(dir, name, content) <=> Manifest \in DOMAIN dir
<1> DEFINE left == With(dir, name, content)
<1>1. IsDir(left) /\ DOMAIN left = DOMAIN dir \cup {name}
  BY WithAdds
<1>2. \A n \in DOMAIN dir : left[n] = dir[n]
  BY WithOld
<1>3. Pieces(left) = Pieces(dir) \cup content
  BY PiecesOfWith
<1> HIDE DEF left
<1>4. name \notin EntryNames /\ name # Manifest
  BY PrivateNames
<1>5. Proper(left) = Proper(dir)
  BY <1>1, <1>2, <1>4, SameProper
<1>6. Numbered(left, gen + 1)
  BY <1>1 DEF Numbered
<1> QED
  BY <1>1, <1>3, <1>4, <1>5, <1>6 DEF left

(* A later publication has higher numbers still.                            *)
LEMMA NumberedLater ==
  ASSUME NEW dir, NEW gen \in Nat, Numbered(dir, gen)
  PROVE  Numbered(dir, gen + 1)
BY DEF Numbered

(***************************************************************************)
(* Initially.                                                              *)
(***************************************************************************)
LEMMA MountInvInitially == MountInit => MountInv
<1> SUFFICES ASSUME MountInit PROVE MountInv
  OBVIOUS
<1>1. IsDir(target) /\ DOMAIN target \subseteq EntryNames
  <2>1. ASSUME NEW some PROVE IsDir(Files(some, 0)) /\ DOMAIN Files(some, 0) = some
    BY DEF Files, IsDir
  <2>2. \/ target = Empty
        \/ \E some \in SUBSET EntryNames : target = Files(some, 0)
    <3>1. CASE target \in {Empty, Files({UserEntry}, 0)}
      BY <3>1 DEF EntryNames
    <3>2. ASSUME NEW some \in SUBSET DataNames, NEW user \in {{}, {UserEntry}},
                 target = Files(some \cup {Manifest} \cup user, 0)
          PROVE  \E all \in SUBSET EntryNames : target = Files(all, 0)
      <4>1. some \cup {Manifest} \cup user \in SUBSET EntryNames
        BY DEF EntryNames
      <4> QED
        BY <3>2, <4>1
    <3>3. CASE target \notin {Empty, Files({UserEntry}, 0)}
      <4>1. \E some \in SUBSET DataNames \ {{}}, user \in {{}, {UserEntry}} :
              target = Files(some \cup {Manifest} \cup user, 0)
        <5>1. target \in Standing
          BY DEF MountInit
        <5> QED
          BY <3>3, <5>1, SMT DEF Standing
      <4> QED
        BY <3>2, <4>1
    <3> QED
      BY <3>1, <3>3
  <2> QED
    BY <2>1, <2>2, EmptyIsDir
<1>2. /\ export.pc = "idle" /\ export.gen = 0 /\ export.restored = TRUE /\ export.answer = "none"
      /\ export.pending = {} /\ export.moved_in = {} /\ export.moved_out = {}
  BY DEF MountInit
<1>3. /\ history.before = target /\ history.whole = {Pieces(target)}
      /\ history.promised \subseteq Pieces(target)
  BY DEF MountInit
<1>4. MountShape
  <2>1. IsExport(export)
    <3>1. export = [pc |-> export.pc, gen |-> export.gen, pending |-> export.pending,
                    moved_in |-> export.moved_in, moved_out |-> export.moved_out,
                    restored |-> export.restored, answer |-> export.answer]
      BY DEF MountInit
    <3>2. export.gen \in Nat
      BY <1>2
    <3>3. export.restored \in BOOLEAN
      BY <1>2, Zenon
    <3>4. export.pc \in {"idle", "staged", "out", "in", "undo"}
      BY <1>2
    <3> QED
      BY <3>1, <3>2, <3>3, <3>4 DEF IsExport
  <2>2. IsHistory(history)
    <3>1. history = [before |-> history.before, whole |-> history.whole,
                     promised |-> history.promised]
      BY DEF MountInit
    <3> QED
      BY <1>1, <1>3, <3>1 DEF IsHistory
  <2>3. IsDir(stage) /\ IsDir(displaced)
    BY EmptyIsDir DEF MountInit
  <2> QED
    BY <1>1, <2>1, <2>2, <2>3 DEF MountShape
<1>5. NamesInv
  BY <1>1, <1>2 DEF NamesInv, Numbered
<1>6. IdleInv
  BY <1>1, <1>3, ProperIsAll DEF IdleInv, WholeIfManifest
<1>7. BeforeInv /\ StagedInv /\ OutInv /\ InInv /\ UndoInv /\ AnswerInv
  BY <1>2 DEF BeforeInv, StagedInv, OutInv, InInv, UndoInv, AnswerInv
<1> QED
  BY <1>4, <1>5, <1>6, <1>7 DEF MountInv

(***************************************************************************)
(* The steps after which no export runs.                                   *)
(***************************************************************************)
LEMMA Retires ==
  ASSUME MountInv, history' = history,
         IsDir(target'), IsDir(stage'), IsDir(displaced'),
         IsExport(export'), export'.pc = "idle", export'.gen = export.gen,
         Numbered(target', export.gen + 1),
         Manifest \in DOMAIN target' => Pieces(Proper(target')) \in history.whole,
         history.promised \subseteq Pieces(target'),
         export'.answer = "failed" => Proper(target') = Proper(history.before),
         export'.answer = "published" =>
           Manifest \in DOMAIN target' /\ target'[Manifest] = OwnManifest,
         export'.answer = "not restored" => Manifest \notin DOMAIN target'
  PROVE  MountInv'
<1>1. MountShape'
  BY DEF MountInv, MountShape
<1>2. NamesInv'
  BY DEF NamesInv
<1>3. IdleInv'
  BY DEF IdleInv, WholeIfManifest
<1>4. BeforeInv' /\ StagedInv' /\ OutInv' /\ InInv' /\ UndoInv'
  BY DEF BeforeInv, StagedInv, OutInv, InInv, UndoInv
<1>5. AnswerInv'
  BY DEF AnswerInv, OwnManifest
<1> QED
  BY <1>1, <1>2, <1>3, <1>4, <1>5 DEF MountInv

\* Whether or not something private is left, the target holds the same export.
LEMMA LeftOrRemoved ==
  ASSUME NEW dir, IsDir(dir), NEW gen \in Nat, gen # 0, Numbered(dir, gen), NEW content,
         NEW name \in {StageName(gen), DisplacedName(gen)},
         NEW result, result = dir \/ result = With(dir, name, content)
  PROVE  /\ IsDir(result) /\ Numbered(result, gen + 1) /\ Proper(result) = Proper(dir)
         /\ Pieces(dir) \subseteq Pieces(result)
         /\ Manifest \in DOMAIN result <=> Manifest \in DOMAIN dir
<1>1. Numbered(dir, gen + 1) /\ name \notin DOMAIN dir
  BY NumberedLater, PrivateNames
<1> QED
  BY <1>1, LeftBehind

\* The same when a displaced directory and then the stage may be left.
LEMMA BothLeftOrRemoved ==
  ASSUME NEW dir, IsDir(dir), NEW gen \in Nat, gen # 0, Numbered(dir, gen), NEW content, NEW inside,
         NEW first, first = dir \/ first = With(dir, DisplacedName(gen), content),
         NEW result, result = first \/ result = With(first, StageName(gen), inside)
  PROVE  /\ IsDir(result) /\ Numbered(result, gen + 1) /\ Proper(result) = Proper(dir)
         /\ Pieces(dir) \subseteq Pieces(first) /\ Pieces(first) \subseteq Pieces(result)
         /\ Manifest \in DOMAIN result => Manifest \in DOMAIN dir
<1>1. /\ IsDir(first) /\ Numbered(first, gen + 1) /\ Proper(first) = Proper(dir)
      /\ Pieces(dir) \subseteq Pieces(first)
      /\ Manifest \in DOMAIN first <=> Manifest \in DOMAIN dir
  BY LeftOrRemoved
<1>2. /\ StageName(gen) \notin DOMAIN dir /\ StageName(gen) # DisplacedName(gen)
  BY PrivateNames
<1>3. DOMAIN With(dir, DisplacedName(gen), content) = DOMAIN dir \cup {DisplacedName(gen)}
  BY WithAdds
<1>4. StageName(gen) \notin DOMAIN first
  BY <1>2, <1>3
<1>5. CASE result = With(first, StageName(gen), inside)
  BY <1>1, <1>4, <1>5, LeftBehind
<1> QED
  BY <1>1, <1>5

(* A stage that cannot be written leaves the target as it was.              *)
LEMMA WriteFailsKeeps == ASSUME MountInv, WriteFails \/ BeginFails PROVE MountInv'
<1>1. /\ export.pc = "staged" /\ export.gen \in Nat /\ export.gen # 0 /\ target = history.before
      /\ Numbered(target, export.gen) /\ WholeIfManifest(target)
      /\ history.promised \subseteq Pieces(target)
      /\ IsDir(target) /\ IsDir(displaced)
  BY DEF MountInv, MountShape, IsExport, NamesInv, IdleInv, StagedInv, WriteFails, BeginFails
<1>2. /\ IsExport(export') /\ export'.pc = "idle" /\ export'.gen = export.gen
      /\ export'.answer = "failed"
  BY DEF WriteFails, BeginFails, MountInv, MountShape, IsExport
<1>3. IsDir(stage') /\ displaced' = displaced /\ history' = history
  BY EmptyIsDir DEF WriteFails, BeginFails, Dropped
<1>4. PICK first : /\ first = target \/ first = With(target, DisplacedName(export.gen), {})
                   /\ target' = first \/ target' = With(first, StageName(export.gen), Pieces(stage))
  BY DEF WriteFails, BeginFails, Dropped
<1>5. /\ IsDir(target') /\ Numbered(target', export.gen + 1)
      /\ Proper(target') = Proper(target) /\ Pieces(target) \subseteq Pieces(target')
      /\ Manifest \in DOMAIN target' => Manifest \in DOMAIN target
  <2>1. /\ IsDir(target') /\ Numbered(target', export.gen + 1)
        /\ Proper(target') = Proper(target) /\ Pieces(target) \subseteq Pieces(first)
        /\ Pieces(first) \subseteq Pieces(target')
        /\ Manifest \in DOMAIN target' => Manifest \in DOMAIN target
    <3>1. PICK none, inside : none = {} /\ inside = Pieces(stage)
      OBVIOUS
    <3>2. /\ first = target \/ first = With(target, DisplacedName(export.gen), none)
          /\ target' = first \/ target' = With(first, StageName(export.gen), inside)
      BY <1>4, <3>1
    <3>3. IsDir(target) /\ export.gen \in Nat /\ export.gen # 0 /\ Numbered(target, export.gen)
      BY <1>1
    <3> QED
      BY <3>2, <3>3, BothLeftOrRemoved
  <2> QED
    BY <2>1
<1> QED
  BY <1>1, <1>2, <1>3, <1>5, Retires DEF WholeIfManifest

(* The end of a publication keeps the invariant.                            *)
LEMMA FinishKeeps ==
  ASSUME MountInv, NEW kept \in BOOLEAN, FinishPublish(kept) PROVE MountInv'
<1>1. /\ export.pc = "in" /\ export.gen \in Nat /\ export.gen # 0
      /\ Numbered(target, export.gen) /\ IsDir(target) /\ IsDir(stage)
      /\ export.pending = DOMAIN stage /\ export.pending = {}
  BY DEF MountInv, MountShape, IsExport, NamesInv, InInv, FinishPublish
<1>2. /\ Pieces(target) \cup Pieces(stage) \in history.whole /\ DOMAIN target \subseteq EntryNames
      /\ Manifest \in DOMAIN target /\ target[Manifest] = OwnManifest
      /\ history.promised \subseteq Pieces(target)
  BY <1>1 DEF MountInv, InInv
<1>3. Pieces(stage) = {} /\ Proper(target) = target
  BY <1>1, <1>2, ProperIsAll DEF Pieces, Range
<1>4. /\ IsExport(export') /\ export'.pc = "idle" /\ export'.gen = export.gen
      /\ export'.answer = "published"
  BY DEF FinishPublish, MountInv, MountShape, IsExport
<1>5. stage' = stage /\ IsDir(displaced') /\ history' = history
  BY EmptyIsDir DEF FinishPublish
<1>6. \/ target' = target
      \/ target' = With(target, DisplacedName(export.gen), Pieces(displaced))
  BY DEF FinishPublish
<1>7. /\ IsDir(target') /\ Numbered(target', export.gen + 1)
      /\ Proper(target') = Proper(target) /\ Pieces(target) \subseteq Pieces(target')
      /\ Manifest \in DOMAIN target'
  BY <1>1, <1>2, <1>6, LeftOrRemoved
<1>8. target'[Manifest] = OwnManifest
  <2>1. DisplacedName(export.gen) # Manifest
    BY <1>1, PrivateNames
  <2> QED
    BY <1>2, <1>6, <2>1, WithOld
<1>9. Pieces(Proper(target')) \in history.whole
  <2>1. Pieces(target) \cup Pieces(stage) = Pieces(target)
    BY <1>3
  <2> QED
    BY <1>2, <1>3, <1>7, <2>1
<1> QED
  BY <1>1, <1>2, <1>4, <1>5, <1>7, <1>8, <1>9, Retires

\* When everything is back, the target is the directory that was found.
LEMMA PutBack ==
  ASSUME MountInv, export.pc = "undo", export.restored = TRUE,
         export.moved_in = {}, export.moved_out = {}
  PROVE  target = history.before /\ DOMAIN displaced = {}
<1>1. /\ DOMAIN displaced = {} /\ DOMAIN target = DOMAIN history.before
      /\ \A name \in DOMAIN history.before : target[name] = history.before[name]
  BY DEF MountInv, UndoInv
<1> QED
  BY <1>1, SameDir DEF MountInv, MountShape, IsHistory

\* Nothing of the directory that was found is lost.
LEMMA NothingLost ==
  ASSUME MountInv, export.pc \in {"out", "undo"}
  PROVE  history.promised \subseteq Pieces(target) \cup Pieces(displaced)
<1>1. history.promised \subseteq Pieces(history.before)
  BY DEF MountInv, BeforeInv
<1>2. \A name \in DOMAIN history.before :
        \/ name \in DOMAIN target /\ target[name] = history.before[name]
        \/ name \in DOMAIN displaced /\ displaced[name] = history.before[name]
  BY DEF MountInv, OutInv, UndoInv
<1>3. ASSUME NEW piece \in Pieces(history.before)
      PROVE  piece \in Pieces(target) \/ piece \in Pieces(displaced)
  BY <1>2, PiecesAre
<1> QED
  BY <1>1, <1>3

(* The end of a rollback keeps the invariant.                               *)
LEMMA UndoEndKeeps ==
  ASSUME MountInv, NEW kept \in BOOLEAN, UndoEnd(kept) PROVE MountInv'
<1>1. /\ export.pc = "undo" /\ export.gen \in Nat /\ export.gen # 0 /\ export.moved_in = {}
      /\ Numbered(target, export.gen) /\ IsDir(target) /\ WholeIfManifest(history.before)
      /\ export.restored \in BOOLEAN
  BY DEF MountInv, MountShape, IsExport, NamesInv, BeforeInv, UndoEnd
<1>2. ASSUME export.restored = TRUE
      PROVE  target = history.before /\ DOMAIN displaced = {}
  <2>1. \A name \in export.moved_out :
          name = Manifest /\ export.moved_out # {Manifest}
    BY <1>2 DEF UndoEnd, puts_back_next
  <2>2. export.moved_out = {}
    BY <2>1
  <2> QED
    BY <1>1, <1>2, <2>2, PutBack
<1>3. ASSUME export.restored # TRUE PROVE Manifest \notin DOMAIN target
  BY <1>1, <1>3 DEF MountInv, UndoInv
<1>4. /\ IsExport(export') /\ export'.pc = "idle" /\ export'.gen = export.gen
  BY DEF UndoEnd, MountInv, MountShape, IsExport
<1>5. IsDir(stage') /\ IsDir(displaced') /\ history' = history
  BY EmptyIsDir DEF UndoEnd, Dropped
<1> DEFINE left == With(target, DisplacedName(export.gen), Pieces(displaced))
<1>6. PICK first : /\ first = target \/ first = left
                   /\ export.restored # TRUE => first = left
                   /\ target' = first \/ target' = With(first, StageName(export.gen), Pieces(stage))
  BY <1>1 DEF UndoEnd, Dropped
<1>7. /\ IsDir(target') /\ Numbered(target', export.gen + 1)
      /\ Proper(target') = Proper(target) /\ Pieces(target) \subseteq Pieces(first)
      /\ Pieces(first) \subseteq Pieces(target')
      /\ Manifest \in DOMAIN target' => Manifest \in DOMAIN target
  BY <1>1, <1>6, BothLeftOrRemoved
<1>8. DisplacedName(export.gen) \notin DOMAIN target
  BY <1>1, PrivateNames
<1>9. Pieces(left) = Pieces(target) \cup Pieces(displaced)
  BY <1>8, PiecesOfWith
<1> HIDE DEF left
<1>10. history.promised \subseteq Pieces(target) \cup Pieces(displaced)
  BY <1>1, NothingLost
<1>11. CASE export.restored = TRUE
  <2>1. export'.answer = "failed"
    BY <1>11 DEF UndoEnd, MountInv, MountShape, IsExport
  <2>2. Pieces(displaced) = {}
    BY <1>2, <1>11 DEF Pieces, Range
  <2>3. history.promised \subseteq Pieces(target')
    BY <1>7, <1>10, <2>2
  <2>4. Manifest \in DOMAIN target' => Pieces(Proper(target')) \in history.whole
    BY <1>1, <1>2, <1>7, <1>11 DEF WholeIfManifest
  <2> QED
    BY <1>2, <1>4, <1>5, <1>7, <1>11, <2>1, <2>3, <2>4, Retires
<1>12. CASE export.restored # TRUE
  <2>1. export'.answer = "not restored"
    BY <1>1, <1>12 DEF UndoEnd, MountInv, MountShape, IsExport
  <2>2. history.promised \subseteq Pieces(target')
    BY <1>6, <1>7, <1>9, <1>10, <1>12
  <2>3. Manifest \notin DOMAIN target'
    BY <1>3, <1>7, <1>12
  <2> QED
    BY <1>4, <1>5, <1>7, <2>1, <2>2, <2>3, Retires
<1> QED
  BY <1>11, <1>12

(***************************************************************************)
(* What the invariant means for the target at every moment.                *)
(***************************************************************************)
LEMMA ManifestIsWhole == MountInv => ManifestMeansWhole
<1> SUFFICES ASSUME MountInv, Manifest \in DOMAIN target
             PROVE  Pieces(Proper(target)) \in history.whole
  BY DEF ManifestMeansWhole
<1>1. CASE export.pc \in {"idle", "staged"}
  BY <1>1 DEF MountInv, IdleInv, WholeIfManifest
<1>2. ASSUME export.pc # "idle", target = history.before
      PROVE  Pieces(Proper(target)) \in history.whole
  BY <1>2 DEF MountInv, BeforeInv, WholeIfManifest
<1>3. CASE export.pc = "out"
  <2>1. /\ DOMAIN target = DOMAIN history.before
        /\ \A name \in DOMAIN target : target[name] = history.before[name]
    BY <1>3 DEF MountInv, OutInv
  <2>2. target = history.before
    BY <2>1, SameDir DEF MountInv, MountShape, IsHistory
  <2> QED
    BY <1>2, <1>3, <2>2
<1>4. CASE export.pc = "undo"
  <2>1. target = history.before
    BY <1>4, PutBack DEF MountInv, UndoInv
  <2> QED
    BY <1>2, <1>4, <2>1
<1>5. CASE export.pc = "in"
  <2>1. /\ DOMAIN stage = {} /\ DOMAIN target \subseteq EntryNames
        /\ Pieces(target) \cup Pieces(stage) \in history.whole
    BY <1>5 DEF MountInv, InInv
  <2>2. Pieces(stage) = {}
    BY <2>1 DEF Pieces, Range
  <2>3. Proper(target) = target
    BY <2>1, ProperIsAll DEF MountInv, MountShape
  <2>4. Pieces(target) \cup Pieces(stage) = Pieces(target)
    BY <2>2
  <2> QED
    BY <2>1, <2>3, <2>4
<1> QED
  BY <1>1, <1>3, <1>4, <1>5 DEF MountInv, MountShape, IsExport

(* The promised export is in the target or among the displaced entries.     *)
LEMMA PromiseIsKept ==
  MountInv => history.promised \subseteq Pieces(target) \cup Pieces(displaced)
<1> SUFFICES ASSUME MountInv
             PROVE  history.promised \subseteq Pieces(target) \cup Pieces(displaced)
  OBVIOUS
<1>1. CASE export.pc \in {"idle", "staged"}
  BY <1>1 DEF MountInv, IdleInv
<1>2. CASE export.pc \in {"out", "undo"}
  BY <1>2, NothingLost
<1>3. CASE export.pc = "in"
  <2>1. CASE Manifest \in DOMAIN target
    BY <1>3, <2>1 DEF MountInv, InInv
  <2>2. CASE Manifest \notin DOMAIN target
    <3>1. history.promised \subseteq Pieces(history.before) /\ displaced = history.before
      BY <1>3, <2>2 DEF MountInv, InInv, BeforeInv
    <3> QED
      BY <3>1
  <2> QED
    BY <2>1, <2>2
<1> QED
  BY <1>1, <1>2, <1>3 DEF MountInv, MountShape, IsExport

(* A crash at any point keeps the invariant.                                *)
LEMMA CrashKeeps == ASSUME MountInv, Crash PROVE MountInv'
<1>1. /\ export.gen \in Nat /\ export.gen # 0 /\ Numbered(target, export.gen) /\ IsDir(target)
  BY DEF MountInv, MountShape, IsExport, NamesInv, Crash
<1>2. /\ IsExport(export') /\ export'.pc = "idle" /\ export'.gen = export.gen
      /\ export'.answer = "none"
  BY DEF Crash, MountInv, MountShape, IsExport
<1>3. IsDir(stage') /\ IsDir(displaced') /\ history' = history
  BY EmptyIsDir DEF Crash
<1> DEFINE first == IF export.pc = "staged" THEN target
                    ELSE With(target, DisplacedName(export.gen), Pieces(displaced))
<1>4. target' = With(first, StageName(export.gen), Pieces(stage))
  BY DEF Crash
<1>5. StageName(export.gen) \notin DOMAIN target /\ DisplacedName(export.gen) \notin DOMAIN target
      /\ StageName(export.gen) # DisplacedName(export.gen)
  BY <1>1, PrivateNames
<1>6. /\ Numbered(first, export.gen + 1) /\ Proper(first) = Proper(target)
      /\ Manifest \in DOMAIN first => Manifest \in DOMAIN target
  BY <1>1, LeftOrRemoved
<1>7. StageName(export.gen) \notin DOMAIN first
  <2>1. DOMAIN With(target, DisplacedName(export.gen), Pieces(displaced))
          = DOMAIN target \cup {DisplacedName(export.gen)}
    BY WithAdds
  <2>2. CASE export.pc = "staged"
    BY <1>5, <2>2
  <2>3. CASE export.pc # "staged"
    BY <1>5, <2>1, <2>3
  <2> QED
    BY <2>2, <2>3
<1>8. history.promised \subseteq Pieces(first)
  <2>1. CASE export.pc = "staged"
    BY <2>1 DEF MountInv, IdleInv
  <2>2. CASE export.pc # "staged"
    <3>1. Pieces(With(target, DisplacedName(export.gen), Pieces(displaced)))
            = Pieces(target) \cup Pieces(displaced)
      BY <1>5, PiecesOfWith
    <3> QED
      BY <2>2, <3>1, PromiseIsKept
  <2> QED
    BY <2>1, <2>2
<1> HIDE DEF first
<1>9. /\ IsDir(target') /\ Numbered(target', export.gen + 1) /\ Proper(target') = Proper(first)
      /\ Pieces(first) \subseteq Pieces(target')
      /\ Manifest \in DOMAIN target' => Manifest \in DOMAIN first
  BY <1>1, <1>4, <1>6, <1>7, LeftBehind
<1>10. Manifest \in DOMAIN target' => Pieces(Proper(target')) \in history.whole
  BY <1>6, <1>9, ManifestIsWhole DEF ManifestMeansWhole
<1>11. history.promised \subseteq Pieces(target')
  BY <1>8, <1>9
<1> QED
  BY <1>2, <1>3, <1>9, <1>10, <1>11, Retires

(***************************************************************************)
(* The steps between two exports and the start of one.                     *)
(***************************************************************************)
LEMMA UserKeeps == ASSUME MountInv, UserEmpties PROVE MountInv'
<1>1. /\ IsExport(export') /\ export'.pc = "idle" /\ export'.gen = export.gen
      /\ export'.answer = "none" /\ export.gen \in Nat
  BY DEF UserEmpties, MountInv, MountShape, IsExport
<1>2. /\ IsHistory(history') /\ history'.promised = {}
  BY DEF UserEmpties, MountInv, MountShape, IsHistory
<1>3. target' = Empty /\ stage' = stage /\ displaced' = displaced
  BY DEF UserEmpties
<1>4. MountShape'
  BY <1>1, <1>2, <1>3, EmptyIsDir DEF MountInv, MountShape
<1>5. NamesInv'
  BY <1>1, <1>3, EmptyIsDir DEF NamesInv, Numbered
<1>6. IdleInv'
  BY <1>2, <1>3, EmptyIsDir DEF IdleInv, WholeIfManifest
<1> QED
  BY <1>1, <1>4, <1>5, <1>6
     DEF MountInv, BeforeInv, StagedInv, OutInv, InInv, UndoInv, AnswerInv

(* Creating the stage, or being refused, keeps the invariant.               *)
LEMMA CreateKeeps == ASSUME MountInv, Create \/ CreateRefused PROVE MountInv'
<1>1. /\ export.pc = "idle" /\ export.gen \in Nat /\ Numbered(target, export.gen + 1)
      /\ WholeIfManifest(target) /\ history.promised \subseteq Pieces(target) /\ IsDir(target)
  BY DEF MountInv, MountShape, IsExport, NamesInv, IdleInv, Create, CreateRefused
<1>2. PICK n \in Nat : n = export.gen + 1
  BY <1>1
<1>3. /\ IsHistory(history') /\ history'.before = target /\ history'.whole = history.whole
      /\ history'.promised = history.promised
  BY <1>1 DEF Create, CreateRefused, MountInv, MountShape, IsHistory
<1>4. target' = target /\ displaced' = displaced /\ IsDir(stage')
  BY EmptyIsDir DEF Create, CreateRefused, MountInv, MountShape
<1>5. CASE Create
  <2>1. /\ export' = [export EXCEPT !.pc = "staged", !.gen = n, !.answer = "none"]
        /\ stage' = Empty
    BY <1>2, <1>5 DEF Create
  <2>2. IsExport(export') /\ export'.pc = "staged" /\ export'.gen = n
    BY <2>1 DEF MountInv, MountShape, IsExport
  <2>3. MountShape'
    BY <1>1, <1>3, <1>4, <2>2 DEF MountInv, MountShape
  <2>4. NamesInv'
    <3>1. n # 0
      BY <1>1, <1>2
    <3> QED
      BY <1>1, <1>2, <1>3, <1>4, <2>2, <3>1 DEF NamesInv
  <2>5. IdleInv' /\ BeforeInv'
    BY <1>1, <1>3, <1>4, <2>2 DEF IdleInv, BeforeInv, WholeIfManifest
  <2>6. StagedInv'
    BY <1>3, <1>4, <2>1, <2>2, EmptyIsDir DEF StagedInv
  <2> QED
    BY <2>2, <2>3, <2>4, <2>5, <2>6 DEF MountInv, OutInv, InInv, UndoInv, AnswerInv
<1>6. CASE CreateRefused
  <2>1. /\ export' = [export EXCEPT !.gen = n, !.answer = "failed"]
    BY <1>2, <1>6 DEF CreateRefused
  <2>2. IsExport(export') /\ export'.pc = "idle" /\ export'.gen = n /\ export'.answer = "failed"
    BY <1>1, <2>1 DEF MountInv, MountShape, IsExport
  <2>3. MountShape'
    BY <1>1, <1>3, <1>4, <2>2 DEF MountInv, MountShape
  <2>4. NamesInv'
    <3>1. Numbered(target, n + 1)
      BY <1>1, <1>2, NumberedLater
    <3> QED
      BY <1>4, <2>2, <3>1 DEF NamesInv
  <2>5. IdleInv' /\ AnswerInv'
    BY <1>1, <1>3, <1>4, <2>2 DEF IdleInv, AnswerInv, WholeIfManifest
  <2> QED
    BY <2>2, <2>3, <2>4, <2>5 DEF MountInv, BeforeInv, StagedInv, OutInv, InInv, UndoInv
<1> QED
  BY <1>5, <1>6

\* The new tree: the export's own entries under the number of this export, and
\* the user's.
LEMMA WriteTreeKeeps == ASSUME MountInv, WriteTree PROVE MountInv'
<1>1. PICK some \in SUBSET DataNames :
        stage' = Over(Files(some \cup {Manifest}, export.gen), unmanaged)
  BY DEF WriteTree
<1>2. /\ export.pc = "staged" /\ export' = export /\ target' = target /\ displaced' = displaced
      /\ IsHistory(history') /\ history'.before = history.before
      /\ history'.promised = history.promised
      /\ history'.whole = history.whole \cup {Pieces(stage')}
  BY DEF WriteTree, MountInv, MountShape, IsHistory
<1>3. /\ IsDir(stage') /\ DOMAIN stage' \subseteq EntryNames /\ Manifest \in DOMAIN stage'
  <2>1. DOMAIN stage' = some \cup {Manifest} \cup DOMAIN unmanaged /\ IsDir(stage')
    BY <1>1 DEF Over, Files, IsDir
  <2>2. DOMAIN unmanaged \subseteq {UserEntry}
    BY DEF unmanaged, Restrict
  <2> QED
    BY <2>1, <2>2 DEF EntryNames
<1>4. stage'[Manifest] = OwnManifest
  BY <1>1 DEF Over, Files, OwnManifest
<1>5. MountShape'
  BY <1>2, <1>3 DEF MountInv, MountShape
<1>6. NamesInv' /\ IdleInv' /\ BeforeInv'
  BY <1>2 DEF MountInv, NamesInv, IdleInv, BeforeInv, WholeIfManifest
<1>7. StagedInv'
  BY <1>2, <1>3, <1>4 DEF MountInv, StagedInv, OwnManifest
<1> QED
  BY <1>2, <1>5, <1>6, <1>7 DEF MountInv, OutInv, InInv, UndoInv, AnswerInv

(***************************************************************************)
(* The steps of a running export.                                          *)
(***************************************************************************)
LEMMA GoesOn ==
  ASSUME MountInv, export.pc # "idle", IsHistory(history'),
         history'.before = history.before, history'.whole = history.whole,
         IsDir(target'), IsDir(stage'), IsDir(displaced'),
         IsExport(export'), export'.gen = export.gen, export'.pc \in {"out", "in", "undo"},
         Numbered(target', export.gen),
         ~(export'.pc = "in" /\ Manifest \in DOMAIN target') =>
           history'.promised \subseteq Pieces(history.before),
         StagedInv', OutInv', InInv', UndoInv'
  PROVE  MountInv'
<1>1. MountShape'
  BY DEF MountInv, MountShape
<1>2. NamesInv'
  BY DEF MountInv, NamesInv
<1>3. BeforeInv'
  BY DEF MountInv, BeforeInv, WholeIfManifest
<1> QED
  BY <1>1, <1>2, <1>3 DEF MountInv, IdleInv, AnswerInv

(* Listing what is to be displaced keeps the invariant.                     *)
LEMMA BeginPublishKeeps == ASSUME MountInv, BeginPublish PROVE MountInv'
<1>1. /\ export.pc = "staged" /\ stage # Empty /\ target = history.before
      /\ Numbered(target, export.gen) /\ history.promised \subseteq Pieces(history.before)
      /\ IsDir(target) /\ IsDir(stage)
  BY DEF MountInv, MountShape, NamesInv, BeforeInv, StagedInv, BeginPublish
<1>2. /\ target' = target /\ stage' = stage /\ displaced' = Empty /\ history' = history
  BY DEF BeginPublish
<1>3. /\ IsExport(export') /\ export'.pc = "out" /\ export'.gen = export.gen
      /\ export'.pending = DOMAIN target /\ export'.moved_in = {} /\ export'.moved_out = {}
      /\ export'.restored = TRUE
  BY DEF BeginPublish, MountInv, MountShape, IsExport
<1>4. StagedInv'
  BY <1>1, <1>2, <1>3 DEF MountInv, StagedInv, OwnManifest
<1>5. OutInv'
  BY <1>1, <1>2, <1>3, EmptyIsDir DEF OutInv
<1> QED
  BY <1>1, <1>2, <1>3, <1>4, <1>5, EmptyIsDir, GoesOn
     DEF MountInv, MountShape, InInv, UndoInv

(* Displacing one entry keeps the invariant.                                *)
LEMMA MoveOutKeeps == ASSUME MountInv, NEW name, MoveOut(name) PROVE MountInv'
<1>1. /\ export.pc = "out" /\ name \in export.pending /\ moves_out_next(name)
      /\ target' = Without(target, name) /\ displaced' = With(displaced, name, target[name])
      /\ stage' = stage /\ history' = history
  BY DEF MoveOut
<1>2. /\ Numbered(target, export.gen) /\ history.promised \subseteq Pieces(history.before)
      /\ IsDir(target) /\ IsDir(stage)
  BY <1>1 DEF MountInv, MountShape, NamesInv, BeforeInv
<1>3. /\ IsExport(export') /\ export'.pc = "out" /\ export'.gen = export.gen
      /\ export'.pending = export.pending \ {name} /\ export'.moved_in = export.moved_in
      /\ export'.moved_out = export.moved_out \cup {name}
      /\ export'.restored = export.restored
  BY <1>1 DEF MoveOut, MountInv, MountShape, IsExport
<1>4. IsDir(target') /\ DOMAIN target' = DOMAIN target \ {name}
  BY <1>1, WithoutRemoves
<1>5. \A n \in DOMAIN target' : target'[n] = target[n]
  BY <1>1, WithoutRemoves
<1>6. IsDir(displaced') /\ DOMAIN displaced' = DOMAIN displaced \cup {name}
  BY <1>1, WithAdds
<1>7. displaced'[name] = target[name]
  BY <1>1, WithNew
<1>8. \A n \in DOMAIN displaced \ {name} : displaced'[n] = displaced[n]
  BY <1>1, WithOld
<1>9. StagedInv'
  BY <1>1, <1>3 DEF MountInv, StagedInv, OwnManifest
<1>10. OutInv'
  <2>1. /\ DOMAIN target \cap DOMAIN displaced = {}
        /\ DOMAIN target \cup DOMAIN displaced = DOMAIN history.before
        /\ \A n \in DOMAIN target : target[n] = history.before[n]
        /\ \A n \in DOMAIN displaced : displaced[n] = history.before[n]
        /\ export.pending = DOMAIN target /\ export.moved_out = DOMAIN displaced
        /\ export.moved_in = {} /\ export.restored = TRUE
    BY <1>1 DEF MountInv, OutInv
  <2>2. /\ DOMAIN target' \cap DOMAIN displaced' = {}
        /\ DOMAIN target' \cup DOMAIN displaced' = DOMAIN history.before
    BY <1>1, <1>4, <1>6, <2>1
  <2>3. \A n \in DOMAIN target' : target'[n] = history.before[n]
    BY <1>4, <1>5, <2>1
  <2>4. \A n \in DOMAIN displaced' : displaced'[n] = history.before[n]
    BY <1>1, <1>6, <1>7, <1>8, <2>1
  <2>5. Manifest \notin DOMAIN target'
    BY <1>1, <1>4, <2>1 DEF moves_out_next
  <2> QED
    BY <1>1, <1>3, <1>4, <1>6, <2>1, <2>2, <2>3, <2>4, <2>5 DEF OutInv
<1>11. Numbered(target', export.gen)
  BY <1>2, <1>4 DEF Numbered
<1> QED
  BY <1>1, <1>2, <1>3, <1>4, <1>6, <1>9, <1>10, <1>11, GoesOn
     DEF MountInv, MountShape, InInv, UndoInv

(* Listing what is to be published keeps the invariant.                     *)
LEMMA ListStageKeeps == ASSUME MountInv, ListStage PROVE MountInv'
<1>1. /\ export.pc = "out" /\ DOMAIN target = {} /\ DOMAIN displaced = DOMAIN history.before
      /\ \A name \in DOMAIN displaced : displaced[name] = history.before[name]
      /\ export.moved_in = {} /\ export.moved_out = DOMAIN displaced /\ export.restored = TRUE
      /\ Numbered(target, export.gen) /\ history.promised \subseteq Pieces(history.before)
  BY DEF MountInv, OutInv, NamesInv, BeforeInv, ListStage
<1>2. displaced = history.before
  BY <1>1, SameDir DEF MountInv, MountShape, IsHistory
<1>3. target' = target /\ stage' = stage /\ displaced' = displaced /\ history' = history
  BY DEF ListStage
<1>4. /\ IsExport(export') /\ export'.pc = "in" /\ export'.gen = export.gen
      /\ export'.pending = DOMAIN stage /\ export'.moved_in = export.moved_in
      /\ export'.moved_out = export.moved_out /\ export'.restored = export.restored
  BY DEF ListStage, MountInv, MountShape, IsExport
<1>5. Pieces(target) = {}
  BY <1>1 DEF Pieces, Range
<1>6. /\ DOMAIN stage \subseteq EntryNames /\ Pieces(stage) \in history.whole
      /\ Manifest \in DOMAIN stage /\ stage[Manifest] = OwnManifest
  BY <1>1 DEF MountInv, StagedInv
<1>7. Pieces(target) \cup Pieces(stage) = Pieces(stage)
  BY <1>5
<1>8. InInv'
  BY <1>1, <1>2, <1>3, <1>4, <1>6, <1>7 DEF InInv, OwnManifest
<1> QED
  BY <1>1, <1>3, <1>4, <1>8, GoesOn DEF MountInv, MountShape, StagedInv, OutInv, UndoInv

(* Publishing one entry keeps the invariant.                                *)
LEMMA MoveInKeeps == ASSUME MountInv, NEW name, MoveIn(name) PROVE MountInv'
<1>1. /\ export.pc = "in" /\ name \in export.pending /\ moves_in_next(name)
      /\ target' = With(target, name, stage[name]) /\ stage' = Without(stage, name)
      /\ displaced' = displaced
  BY DEF MoveIn
<1>2. /\ displaced = history.before /\ export.moved_out = DOMAIN history.before
      /\ export.moved_in = DOMAIN target /\ export.pending = DOMAIN stage
      /\ export.restored = TRUE
      /\ DOMAIN target \subseteq EntryNames /\ DOMAIN stage \subseteq EntryNames
      /\ DOMAIN target \cap DOMAIN stage = {}
      /\ Pieces(target) \cup Pieces(stage) \in history.whole
      /\ Manifest \notin DOMAIN target /\ Manifest \in DOMAIN stage
      /\ stage[Manifest] = OwnManifest
  BY <1>1 DEF MountInv, InInv
<1>3. history.promised \subseteq Pieces(history.before)
  BY <1>1, <1>2 DEF MountInv, BeforeInv
<1>4. /\ IsExport(export') /\ export'.pc = "in" /\ export'.gen = export.gen
      /\ export'.pending = export.pending \ {name} /\ export'.moved_in = export.moved_in \cup {name}
      /\ export'.moved_out = export.moved_out /\ export'.restored = export.restored
  BY <1>1 DEF MoveIn, MountInv, MountShape, IsExport
<1>5. IsDir(target') /\ DOMAIN target' = DOMAIN target \cup {name}
  BY <1>1, WithAdds
<1>6. target'[name] = stage[name]
  BY <1>1, WithNew
<1>7. IsDir(stage') /\ DOMAIN stage' = DOMAIN stage \ {name}
  BY <1>1, WithoutRemoves
<1>8. \A n \in DOMAIN stage' : stage'[n] = stage[n]
  BY <1>1, WithoutRemoves
<1>9. Pieces(target') \cup Pieces(stage') = Pieces(target) \cup Pieces(stage)
  BY <1>1, <1>2, PiecesOfMove
<1>10. /\ IsHistory(history') /\ history'.before = history.before
       /\ history'.whole = history.whole
       /\ history'.promised = IF name = Manifest THEN Pieces(target') ELSE history.promised
  BY DEF MoveIn, MountInv, MountShape, IsHistory
<1>11. InInv'
  <2>1. CASE name = Manifest
    <3>1. DOMAIN stage' = {}
      BY <1>1, <1>2, <1>7, <2>1 DEF moves_in_next
    <3>2. target'[Manifest] = OwnManifest /\ Manifest \in DOMAIN target'
      BY <1>2, <1>5, <1>6, <2>1
    <3> QED
      BY <1>1, <1>2, <1>4, <1>5, <1>7, <1>9, <1>10, <2>1, <3>1, <3>2 DEF InInv, OwnManifest
  <2>2. CASE name # Manifest
    <3>1. Manifest \notin DOMAIN target' /\ Manifest \in DOMAIN stage'
      BY <1>2, <1>5, <1>7, <2>2
    <3>2. stage'[Manifest] = OwnManifest
      BY <1>2, <1>8, <3>1
    <3> QED
      BY <1>1, <1>2, <1>4, <1>5, <1>7, <1>9, <1>10, <2>2, <3>1, <3>2 DEF InInv, OwnManifest
  <2> QED
    BY <2>1, <2>2
<1>12. Numbered(target', export.gen)
  BY <1>1, <1>2, <1>5 DEF Numbered
<1>13. Manifest \notin DOMAIN target' => history'.promised \subseteq Pieces(history.before)
  BY <1>3, <1>5, <1>10
<1>14. IsDir(displaced')
  BY <1>1 DEF MountInv, MountShape
<1> QED
  BY <1>1, <1>4, <1>5, <1>7, <1>10, <1>11, <1>12, <1>13, <1>14, GoesOn
     DEF StagedInv, OutInv, UndoInv

(* A rename that fails starts the rollback and keeps the invariant.         *)
LEMMA MoveFailsKeeps == ASSUME MountInv, MoveFails PROVE MountInv'
<1>1. /\ export.pc \in {"out", "in"} /\ export.pending # {} /\ target' = target
      /\ stage' = stage /\ displaced' = displaced /\ history' = history
  BY DEF MoveFails
<1>2. /\ IsExport(export') /\ export'.pc = "undo" /\ export'.gen = export.gen
      /\ export'.moved_in = export.moved_in
      /\ export'.moved_out = export.moved_out /\ export'.restored = export.restored
  BY DEF MoveFails, MountInv, MountShape, IsExport
<1>3. Numbered(target, export.gen) /\ history.promised \subseteq Pieces(history.before)
  BY <1>1 DEF MountInv, NamesInv, BeforeInv, InInv
<1>4. UndoInv'
  <2>1. CASE export.pc = "out"
    BY <1>1, <1>2, <2>1 DEF MountInv, OutInv, UndoInv
  <2>2. CASE export.pc = "in"
    BY <1>1, <1>2, <2>2 DEF MountInv, InInv, UndoInv
  <2> QED
    BY <1>1, <2>1, <2>2
<1> QED
  BY <1>1, <1>2, <1>3, <1>4, GoesOn DEF MountInv, MountShape, StagedInv, OutInv, InInv

(* Taking a published entry back keeps the invariant.                       *)
LEMMA UndoInKeeps ==
  ASSUME MountInv, NEW name, NEW fails \in BOOLEAN, UndoIn(name, fails) PROVE MountInv'
<1>1. /\ export.pc = "undo" /\ name \in export.moved_in /\ displaced' = displaced
      /\ history' = history
  BY DEF UndoIn
<1>2. /\ export.moved_in \subseteq DOMAIN target
      /\ DOMAIN displaced = DOMAIN history.before /\ export.moved_out = DOMAIN history.before
      /\ \A n \in DOMAIN displaced : displaced[n] = history.before[n]
      /\ export.restored = TRUE => DOMAIN target = export.moved_in
      /\ Manifest \notin DOMAIN target
  BY <1>1 DEF MountInv, UndoInv
<1>3. Numbered(target, export.gen) /\ history.promised \subseteq Pieces(history.before)
  BY <1>1 DEF MountInv, NamesInv, BeforeInv
<1>4. /\ IsExport(export') /\ export'.pc = "undo" /\ export'.gen = export.gen
      /\ export'.moved_in = export.moved_in \ {name} /\ export'.moved_out = export.moved_out
      /\ export'.restored = (export.restored /\ ~fails)
  BY <1>1 DEF UndoIn, MountInv, MountShape, IsExport
<1>5. IsDir(target) /\ IsDir(stage) /\ IsDir(displaced)
  BY DEF MountInv, MountShape
<1>6. CASE fails
  <2>1. target' = target /\ stage' = stage /\ ~(export'.restored = TRUE)
    BY <1>4, <1>6 DEF UndoIn
  <2>2. UndoInv'
    BY <1>1, <1>2, <1>4, <2>1 DEF UndoInv
  <2> QED
    BY <1>1, <1>3, <1>4, <1>5, <2>1, <2>2, GoesOn
       DEF MountInv, MountShape, StagedInv, OutInv, InInv
<1>7. CASE ~fails
  <2>1. target' = Without(target, name) /\ stage' = With(stage, name, target[name])
    BY <1>7 DEF UndoIn
  <2>2. IsDir(target') /\ DOMAIN target' = DOMAIN target \ {name}
    BY <2>1, WithoutRemoves
  <2>3. IsDir(stage')
    BY <2>1, WithAdds
  <2>4. export'.restored = TRUE => export.restored = TRUE
    BY <1>4
  <2>5. UndoInv'
    BY <1>1, <1>2, <1>4, <2>2, <2>4 DEF UndoInv
  <2>6. Numbered(target', export.gen)
    BY <1>3, <2>2 DEF Numbered
  <2> QED
    BY <1>1, <1>3, <1>4, <1>5, <2>2, <2>3, <2>5, <2>6, GoesOn
       DEF MountInv, MountShape, StagedInv, OutInv, InInv
<1> QED
  BY <1>6, <1>7

(* Putting a displaced entry back keeps the invariant.                      *)
LEMMA UndoOutKeeps ==
  ASSUME MountInv, NEW name, NEW fails \in BOOLEAN, UndoOut(name, fails) PROVE MountInv'
<1>1. /\ export.pc = "undo" /\ export.moved_in = {} /\ name \in export.moved_out
      /\ puts_back_next(name) /\ stage' = stage /\ history' = history
  BY DEF UndoOut
<1>2. /\ export.moved_out \subseteq DOMAIN displaced /\ DOMAIN displaced \subseteq DOMAIN history.before
      /\ \A n \in DOMAIN displaced : displaced[n] = history.before[n]
      /\ \A n \in DOMAIN history.before \ DOMAIN displaced :
           n \in DOMAIN target /\ target[n] = history.before[n]
      /\ export.restored = TRUE =>
           /\ export.moved_out = DOMAIN displaced
           /\ DOMAIN target = DOMAIN history.before \ export.moved_out
      /\ Manifest \notin DOMAIN target
  BY <1>1 DEF MountInv, UndoInv
<1>3. /\ Numbered(target, export.gen) /\ Numbered(history.before, export.gen)
      /\ history.promised \subseteq Pieces(history.before)
  BY <1>1 DEF MountInv, NamesInv, BeforeInv
<1>4. /\ IsExport(export') /\ export'.pc = "undo" /\ export'.gen = export.gen
      /\ export'.moved_in = export.moved_in /\ export'.moved_out = export.moved_out \ {name}
      /\ export'.restored = (export.restored /\ ~fails)
  BY <1>1 DEF UndoOut, MountInv, MountShape, IsExport
<1>5. IsDir(target) /\ IsDir(stage) /\ IsDir(displaced)
  BY DEF MountInv, MountShape
<1>6. CASE fails
  <2>1. target' = target /\ displaced' = displaced /\ ~(export'.restored = TRUE)
    BY <1>4, <1>6 DEF UndoOut
  <2>2. UndoInv'
    BY <1>1, <1>2, <1>4, <2>1 DEF UndoInv
  <2> QED
    BY <1>1, <1>3, <1>4, <1>5, <2>1, <2>2, GoesOn
       DEF MountInv, MountShape, StagedInv, OutInv, InInv
<1>7. CASE ~fails
  <2>1. target' = With(target, name, displaced[name]) /\ displaced' = Without(displaced, name)
    BY <1>7 DEF UndoOut
  <2>2. IsDir(target') /\ DOMAIN target' = DOMAIN target \cup {name}
    BY <2>1, WithAdds
  <2>3. target'[name] = displaced[name]
    BY <2>1, WithNew
  <2>4. \A n \in DOMAIN target \ {name} : target'[n] = target[n]
    BY <2>1, WithOld
  <2>5. IsDir(displaced') /\ DOMAIN displaced' = DOMAIN displaced \ {name}
    BY <2>1, WithoutRemoves
  <2>6. \A n \in DOMAIN displaced' : displaced'[n] = displaced[n]
    BY <2>1, WithoutRemoves
  <2>7. export'.restored = TRUE <=> export.restored = TRUE
    BY <1>4, <1>7 DEF MountInv, MountShape, IsExport
  <2>8. Manifest \in DOMAIN target' => export.moved_out = {Manifest} /\ name = Manifest
                                       /\ export.restored = TRUE
    BY <1>1, <1>2, <2>2 DEF puts_back_next, MountInv, MountShape, IsExport
  <2>9. UndoInv'
    <3>1. \A n \in DOMAIN displaced' : displaced'[n] = history.before[n]
      BY <1>2, <2>5, <2>6
    <3>2. \A n \in DOMAIN history.before \ DOMAIN displaced' :
            n \in DOMAIN target' /\ target'[n] = history.before[n]
      BY <1>1, <1>2, <2>2, <2>3, <2>4, <2>5
    <3>3. export.restored = TRUE =>
            /\ export'.moved_out = DOMAIN displaced'
            /\ DOMAIN target' = DOMAIN history.before \ export'.moved_out
      BY <1>1, <1>2, <1>4, <2>2, <2>5
    <3>4. Manifest \in DOMAIN target' => export'.moved_out = {} /\ export'.restored = TRUE
      BY <1>4, <2>7, <2>8
    <3>5. /\ export'.moved_out \subseteq DOMAIN displaced' /\ export'.moved_in = {}
          /\ DOMAIN displaced' \subseteq DOMAIN history.before
      BY <1>1, <1>2, <1>4, <2>5
    <3> QED
      BY <1>1, <2>7, <3>1, <3>2, <3>3, <3>4, <3>5 DEF UndoInv
  <2>10. Numbered(target', export.gen)
    BY <1>1, <1>2, <1>3, <2>2 DEF Numbered
  <2> QED
    BY <1>1, <1>3, <1>4, <1>5, <2>2, <2>5, <2>9, <2>10, GoesOn
       DEF MountInv, MountShape, StagedInv, OutInv, InInv
<1> QED
  BY <1>6, <1>7

(* The inductive invariant holds.                                           *)
LEMMA MountInvHolds == MountSpec => []MountInv
<1>1. ASSUME MountInv, UNCHANGED mountVars PROVE MountInv'
  BY <1>1 DEF mountVars, MountInv, MountShape, NamesInv, IdleInv, BeforeInv, StagedInv, OutInv,
              InInv, UndoInv, AnswerInv, WholeIfManifest, OwnManifest
<1>2. MountInv /\ [MountNext]_mountVars => MountInv'
  BY <1>1, WriteFailsKeeps, FinishKeeps, UndoEndKeeps, CrashKeeps, UserKeeps, CreateKeeps,
     WriteTreeKeeps, BeginPublishKeeps, MoveOutKeeps, ListStageKeeps, MoveInKeeps,
     MoveFailsKeeps, UndoInKeeps, UndoOutKeeps DEF MountNext
<1> QED
  BY <1>2, MountInvInitially, PTL DEF MountSpec

(***************************************************************************)
(* The theorems.                                                           *)
(***************************************************************************)
(* A target that holds a manifest holds one export and all of it, whatever *)
(* rename failed and wherever the process died.                            *)
THEOREM ManifestsAreWhole == MountSpec => []ManifestMeansWhole
BY MountInvHolds, ManifestIsWhole, PTL

(* The last whole export stays on the volume until another one is whole,   *)
(* and the answer of the publication says where.                           *)
THEOREM OldExportsSurvive == MountSpec => []OldExportSurvives
<1>1. MountInv => OldExportSurvives
  <2> SUFFICES ASSUME MountInv PROVE OldExportSurvives
    OBVIOUS
  <2>1. history.promised \subseteq Pieces(target) \cup Pieces(displaced)
    BY PromiseIsKept
  <2>2. AnswerInv
    BY DEF MountInv
  <2> QED
    BY <2>1, <2>2 DEF OldExportSurvives, AnswerInv, OwnManifest
<1> QED
  BY <1>1, MountInvHolds, PTL

-------------------------------------------------------------------------------
(* Publication by one rename.                                              *)

\* The identities given to the first `stages` directories of this program, None
\* among them, and to the first of the other programs.
Known(id, stages, count) ==
  \E k \in Nat : (k <= stages /\ id = 2 * k) \/ (k <= count /\ id = 2 * k + 1)

Steps == {"idle", "checking", "staged", "publishing", "renaming", "verifying", "cleaning",
          "published"}

SiblingAnswers == {"none", "unchanged", "published", "not cleaned", "rollback failed"}

SiblingTypeOK ==
  /\ names \in [target : Nat, stage : Nat]
  /\ run \in [pc : Steps, stages : Nat, expected : Nat, owned : Nat, answer : SiblingAnswers]
  /\ intruded \in [count : Nat, since : BOOLEAN]

\* Every identity is known, and none is at both names.
IdentityInv ==
  /\ Known(names.target, run.stages, intruded.count)
  /\ Known(names.stage, run.stages, intruded.count)
  /\ names.stage # None => names.stage # names.target

\* Where the stage and the new export are at each step.
PlaceInv ==
  /\ run.pc = "checking" => run.owned = None /\ run.stages # 0 /\ names.target # 2 * run.stages
  /\ run.pc \in {"staged", "publishing", "renaming"} =>
       run.owned # None /\ names.stage = run.owned
  /\ run.pc \in {"verifying", "cleaning", "published"} =>
       run.owned # None /\ (intruded.since \/ names.target = run.owned)

SiblingInv == SiblingTypeOK /\ IdentityInv /\ PlaceInv

(***************************************************************************)
(* Induction.                                                              *)
(***************************************************************************)
LEMMA StepNames ==
  /\ \A pc \in {"idle", "checking", "staged", "publishing", "renaming", "verifying", "cleaning",
                "published"} : pc \in Steps
  /\ \A a \in {"none", "unchanged", "published", "not cleaned", "rollback failed"} :
       a \in SiblingAnswers
BY DEF Steps, SiblingAnswers

\* What is known stays known, and nothing known has an identity not yet given.
LEMMA KnownKept ==
  ASSUME NEW stages \in Nat, NEW count \in Nat, NEW id, Known(id, stages, count)
  PROVE  /\ Known(id, stages + 1, count) /\ Known(id, stages, count + 1)
         /\ id # 2 * (stages + 1) /\ id # 2 * count + 3
BY DEF Known

(* Even and odd identities below their counters are known.                  *)
LEMMA KnownBy ==
  ASSUME NEW stages \in Nat, NEW count \in Nat, NEW id, NEW k \in Nat,
         (k <= stages /\ id = 2 * k) \/ (k <= count /\ id = 2 * k + 1)
  PROVE  Known(id, stages, count)
<1> SUFFICES \E j \in Nat : (j <= stages /\ id = 2 * j) \/ (j <= count /\ id = 2 * j + 1)
  BY DEF Known
<1> WITNESS k \in Nat
<1> QED
  OBVIOUS

(* The identities that a step hands out are known after it.                 *)
LEMMA NewIsKnown ==
  ASSUME NEW stages \in Nat, NEW count \in Nat
  PROVE  /\ Known(0, stages, count) /\ Known(1, stages, count)
         /\ Known(2 * stages, stages, count)
         /\ Known(2 * count + 3, stages, count + 1)
<1>1. Known(0, stages, count) /\ Known(1, stages, count)
  <2>1. 0 \in Nat /\ 0 <= stages /\ 0 <= count /\ 0 = 2 * 0 /\ 1 = 2 * 0 + 1
    OBVIOUS
  <2> QED
    BY <2>1, KnownBy, Zenon
<1>2. Known(2 * stages, stages, count)
  BY KnownBy
<1>3. Known(2 * count + 3, stages, count + 1)
  <2>1. count + 1 \in Nat /\ count + 1 <= count + 1 /\ 2 * count + 3 = 2 * (count + 1) + 1
    OBVIOUS
  <2> QED
    BY <2>1, KnownBy, Zenon
<1> QED
  BY <1>1, <1>2, <1>3

(* The invariant holds at the start.                                        *)
LEMMA SiblingInvInitially == SiblingInit => SiblingInv
<1> SUFFICES ASSUME SiblingInit PROVE SiblingInv
  OBVIOUS
<1>1. SiblingTypeOK
  <2>1. names \in [target : Nat, stage : Nat]
    BY DEF SiblingInit, None
  <2>2. run \in [pc : Steps, stages : Nat, expected : Nat, owned : Nat, answer : SiblingAnswers]
    BY StepNames DEF SiblingInit, None
  <2>3. intruded \in [count : Nat, since : BOOLEAN]
    BY DEF SiblingInit
  <2> QED
    BY <2>1, <2>2, <2>3 DEF SiblingTypeOK
<1>2. IdentityInv
  <2>1. names.stage = 0 /\ names.target \in {0, 1} /\ run.stages = 0 /\ intruded.count = 0
    BY DEF SiblingInit, None
  <2>2. Known(names.stage, run.stages, intruded.count)
    BY <2>1, NewIsKnown
  <2>3. Known(names.target, run.stages, intruded.count)
    BY <2>1, NewIsKnown
  <2> QED
    BY <2>1, <2>2, <2>3 DEF IdentityInv, None
<1>3. PlaceInv
  BY DEF SiblingInit, PlaceInv
<1> QED
  BY <1>1, <1>2, <1>3 DEF SiblingInv

(* Every step keeps the types.                                              *)
LEMMA SiblingTypeKept ==
  SiblingTypeOK /\ [SiblingNext]_siblingVars => SiblingTypeOK'
<1> SUFFICES ASSUME SiblingTypeOK, [SiblingNext]_siblingVars PROVE SiblingTypeOK'
  OBVIOUS
<1>0. /\ names \in [target : Nat, stage : Nat]
      /\ run \in [pc : Steps, stages : Nat, expected : Nat, owned : Nat, answer : SiblingAnswers]
      /\ intruded \in [count : Nat, since : BOOLEAN]
  BY DEF SiblingTypeOK
<1>1. ASSUME NEW ns \in [target : Nat, stage : Nat], Dropping(ns)
      PROVE  names' \in [target : Nat, stage : Nat]
  BY <1>1 DEF Dropping, None
<1>2. ASSUME NEW answer \in SiblingAnswers, Answer(answer)
      PROVE  run' \in [pc : Steps, stages : Nat, expected : Nat, owned : Nat, answer : SiblingAnswers]
  BY <1>0, <1>2, StepNames DEF Answer
<1>3. CASE Capture
  <2>1. PICK n \in Nat : n = run.stages + 1
    BY <1>0
  <2>2. run' = [run EXCEPT !.pc = "checking", !.stages = n, !.expected = names.target,
                           !.owned = 0, !.answer = "none"]
    BY <1>3, <2>1 DEF Capture, None
  <2>3. run' \in [pc : Steps, stages : Nat, expected : Nat, owned : Nat, answer : SiblingAnswers]
    BY <1>0, <2>2, StepNames
  <2>4. intruded' \in [count : Nat, since : BOOLEAN] /\ UNCHANGED names
    BY <1>0, <1>3 DEF Capture
  <2> QED
    BY <1>0, <2>3, <2>4 DEF SiblingTypeOK
<1>4. CASE CreateStage
  <2>1. PICK n \in Nat : n = 2 * run.stages
    BY <1>0
  <2>2. run' = [run EXCEPT !.pc = "staged", !.owned = n] /\ names' = [names EXCEPT !.stage = n]
    BY <1>4, <2>1 DEF CreateStage
  <2> QED
    BY <1>0, <1>4, <2>2, StepNames DEF CreateStage, SiblingTypeOK
<1>5. CASE GiveUp \/ RenameRefused \/ ExchangeBackFails
  BY <1>0, <1>1, <1>2, <1>5, StepNames DEF GiveUp, RenameRefused, ExchangeBackFails, SiblingTypeOK
<1>6. CASE WriteStage \/ Recheck \/ Verified
  BY <1>0, <1>6, StepNames DEF WriteStage, Recheck, Verified, SiblingTypeOK
<1>7. CASE Rename
  BY <1>0, <1>7, StepNames DEF Rename, Exchanged, SiblingTypeOK
<1>8. CASE ExchangedBack
  BY <1>0, <1>2, <1>8, StepNames DEF ExchangedBack, Exchanged, SiblingTypeOK, None
<1>9. ASSUME NEW fails \in BOOLEAN, Clean(fails) PROVE SiblingTypeOK'
  BY <1>0, <1>2, <1>9, StepNames DEF Clean, SiblingTypeOK, None
<1>10. CASE PublishedNew
  BY <1>0, <1>2, <1>10, StepNames DEF PublishedNew, SiblingTypeOK
<1>11. CASE Intrude
  <2>1. PICK n \in Nat, d \in Nat : n = intruded.count + 1 /\ d = 2 * intruded.count + 3
    BY <1>0
  <2>2. /\ intruded' = [count |-> n, since |-> TRUE]
        /\ names' = [names EXCEPT !.target = d] \/ names' = [names EXCEPT !.target = 0]
    BY <1>11, <2>1 DEF Intrude, None
  <2> QED
    BY <1>0, <1>11, <2>1, <2>2 DEF Intrude, SiblingTypeOK
<1>12. CASE UNCHANGED siblingVars
  BY <1>0, <1>12 DEF siblingVars, SiblingTypeOK
<1> QED
  BY <1>3, <1>4, <1>5, <1>6, <1>7, <1>8, <1>9, <1>10, <1>11, <1>12 DEF SiblingNext

(* Every step keeps the identities known.                                   *)
LEMMA IdentityKept ==
  SiblingInv /\ [SiblingNext]_siblingVars => IdentityInv'
<1> SUFFICES ASSUME SiblingInv, [SiblingNext]_siblingVars PROVE IdentityInv'
  OBVIOUS
<1>0. /\ names \in [target : Nat, stage : Nat]
      /\ run \in [pc : Steps, stages : Nat, expected : Nat, owned : Nat, answer : SiblingAnswers]
      /\ intruded \in [count : Nat, since : BOOLEAN]
      /\ run.stages \in Nat /\ intruded.count \in Nat
  BY DEF SiblingInv, SiblingTypeOK
<1>1. /\ Known(names.target, run.stages, intruded.count)
      /\ Known(names.stage, run.stages, intruded.count)
      /\ names.stage # 0 => names.stage # names.target
  BY DEF SiblingInv, IdentityInv, None
<1>2. ASSUME run'.stages = run.stages, intruded'.count = intruded.count,
             \/ names' = names
             \/ names'.stage = 0 /\ names'.target \in {names.target, names.stage}
             \/ names'.stage = names.target /\ names'.target = names.stage
                /\ (names.target # 0 => names.target # names.stage)
      PROVE  IdentityInv'
  <2>1. Known(0, run.stages, intruded.count)
    BY <1>0, NewIsKnown
  <2>2. /\ Known(names'.target, run.stages, intruded.count)
        /\ Known(names'.stage, run.stages, intruded.count)
    BY <1>1, <1>2, <2>1
  <2>3. names'.stage # 0 => names'.stage # names'.target
    BY <1>1, <1>2
  <2> QED
    BY <1>2, <2>2, <2>3 DEF IdentityInv, None
<1>3. CASE UNCHANGED siblingVars \/ WriteStage \/ Recheck \/ Verified \/ PublishedNew
  <2>1. run'.stages = run.stages /\ intruded' = intruded /\ names' = names
    BY <1>0, <1>3 DEF siblingVars, WriteStage, Recheck, Verified, PublishedNew, Answer
  <2> QED
    BY <1>2, <2>1
<1>4. CASE Capture
  <2>1. run'.stages = run.stages + 1 /\ intruded'.count = intruded.count /\ names' = names
    BY <1>0, <1>4 DEF Capture
  <2> QED
    BY <1>0, <1>1, <2>1, KnownKept DEF IdentityInv, None
<1>5. CASE CreateStage
  <2>1. /\ run'.stages = run.stages /\ intruded' = intruded
        /\ names'.target = names.target /\ names'.stage = 2 * run.stages
    BY <1>0, <1>5 DEF CreateStage
  <2>2. names.target # 2 * run.stages
    BY <1>5 DEF CreateStage, SiblingInv, PlaceInv
  <2> QED
    BY <1>0, <1>1, <2>1, <2>2, NewIsKnown DEF IdentityInv, None
<1>6. CASE GiveUp \/ RenameRefused \/ ExchangeBackFails
  <2>1. /\ run'.stages = run.stages /\ intruded' = intruded
        /\ names' = names \/ (names'.stage = 0 /\ names'.target = names.target)
    BY <1>0, <1>6 DEF GiveUp, RenameRefused, ExchangeBackFails, Dropping, Answer, None
  <2> QED
    BY <1>2, <2>1
<1>7. CASE Rename
  <2>1. /\ run'.stages = run.stages /\ intruded'.count = intruded.count
        /\ names'.stage = names.target /\ names'.target = names.stage
    BY <1>0, <1>7 DEF Rename, Exchanged
  <2> QED
    BY <1>1, <1>2, <2>1
<1>8. CASE ExchangedBack
  <2>1. /\ run'.stages = run.stages /\ intruded' = intruded
        /\ names'.target = names.stage /\ names'.stage \in {names.target, 0}
    BY <1>0, <1>8 DEF ExchangedBack, Exchanged, Answer, None
  <2> QED
    BY <1>1, <1>2, <2>1
<1>9. ASSUME NEW fails \in BOOLEAN, Clean(fails) PROVE IdentityInv'
  <2>1. /\ run'.stages = run.stages /\ intruded' = intruded
        /\ names' = names \/ (names'.stage = 0 /\ names'.target = names.target)
    BY <1>0, <1>9 DEF Clean, Answer, None
  <2> QED
    BY <1>2, <2>1
<1>10. CASE Intrude
  <2>1. /\ run' = run /\ intruded'.count = intruded.count + 1
        /\ names'.stage = names.stage
        /\ names'.target = 2 * intruded.count + 3 \/ names'.target = 0
    BY <1>0, <1>10 DEF Intrude, None
  <2>2. Known(names'.target, run.stages, intruded.count + 1)
    <3>1. CASE names'.target = 0
      BY <1>0, <3>1, NewIsKnown
    <3>2. CASE names'.target = 2 * intruded.count + 3
      BY <1>0, <3>2, NewIsKnown
    <3> QED
      BY <2>1, <3>1, <3>2
  <2>3. names.stage # 0 => names.stage # names'.target
    BY <1>0, <1>1, <2>1, KnownKept
  <2>4. Known(names.stage, run.stages, intruded.count + 1)
    BY <1>0, <1>1, KnownKept
  <2> QED
    BY <2>1, <2>2, <2>3, <2>4 DEF IdentityInv, None
<1> QED
  BY <1>3, <1>4, <1>5, <1>6, <1>7, <1>8, <1>9, <1>10 DEF SiblingNext

(* Every step keeps what is known of the places.                            *)
LEMMA PlaceKept ==
  SiblingInv /\ [SiblingNext]_siblingVars => PlaceInv'
<1> SUFFICES ASSUME SiblingInv, [SiblingNext]_siblingVars PROVE PlaceInv'
  OBVIOUS
<1>0. /\ names \in [target : Nat, stage : Nat]
      /\ run \in [pc : Steps, stages : Nat, expected : Nat, owned : Nat, answer : SiblingAnswers]
      /\ intruded \in [count : Nat, since : BOOLEAN]
      /\ run.stages \in Nat /\ intruded.count \in Nat
      /\ PlaceInv
  BY DEF SiblingInv, SiblingTypeOK
<1>1. CASE UNCHANGED siblingVars
  BY <1>0, <1>1 DEF siblingVars, PlaceInv
<1>2. ASSUME NEW answer, Answer(answer) PROVE run'.pc = "idle"
  BY <1>0, <1>2 DEF Answer
<1>3. CASE run'.pc = "idle"
  BY <1>3 DEF PlaceInv
<1>4. CASE Capture
  <2>1. /\ run'.pc = "checking" /\ run'.stages = run.stages + 1 /\ run'.owned = 0
        /\ names' = names
    BY <1>0, <1>4 DEF Capture, None
  <2>2. names.target # 2 * (run.stages + 1)
    BY <1>0, KnownKept DEF SiblingInv, IdentityInv
  <2>3. run.stages + 1 # 0
    BY <1>0
  <2> QED
    BY <2>1, <2>2, <2>3 DEF PlaceInv, None
<1>5. CASE CreateStage
  <2>1. /\ run'.pc = "staged" /\ run'.owned = 2 * run.stages /\ names'.stage = 2 * run.stages
        /\ run.stages # 0
    BY <1>0, <1>5 DEF CreateStage, PlaceInv
  <2>2. 2 * run.stages # 0
    BY <1>0, <2>1
  <2> QED
    BY <2>1, <2>2 DEF PlaceInv, None
<1>6. CASE WriteStage \/ Recheck
  <2>1. /\ run'.pc \in {"publishing", "renaming"} /\ run'.owned = run.owned
        /\ run.pc \in {"staged", "publishing"} /\ names' = names
    BY <1>0, <1>6 DEF WriteStage, Recheck
  <2> QED
    BY <1>0, <2>1 DEF PlaceInv
<1>7. CASE Rename
  <2>1. /\ run'.pc \in {"verifying", "published"} /\ run'.owned = run.owned
        /\ names'.target = names.stage /\ run.pc = "renaming"
    BY <1>0, <1>7 DEF Rename, Exchanged
  <2> QED
    BY <1>0, <2>1 DEF PlaceInv
<1>8. CASE Verified
  <2>1. /\ run'.pc = "cleaning" /\ run'.owned = run.owned /\ run.pc = "verifying"
        /\ names' = names /\ intruded' = intruded
    BY <1>0, <1>8 DEF Verified
  <2> QED
    BY <1>0, <2>1 DEF PlaceInv
<1>9. CASE Intrude
  <2>1. run' = run /\ names'.stage = names.stage /\ intruded'.since = TRUE
    BY <1>0, <1>9 DEF Intrude
  <2>2. run.pc = "checking" => names'.target # 2 * run.stages
    <3>1. names'.target = 2 * intruded.count + 3 \/ names'.target = 0
      BY <1>0, <1>9 DEF Intrude, None
    <3>2. run.pc = "checking" => run.stages # 0
      BY <1>0 DEF PlaceInv
    <3> QED
      BY <1>0, <3>1, <3>2
  <2> QED
    BY <1>0, <2>1, <2>2 DEF PlaceInv
<1>10. CASE \/ GiveUp \/ RenameRefused \/ ExchangedBack \/ ExchangeBackFails
            \/ Clean(TRUE) \/ Clean(FALSE) \/ PublishedNew
  BY <1>2, <1>3, <1>10 DEF GiveUp, RenameRefused, ExchangedBack, ExchangeBackFails, Clean,
                           PublishedNew
<1> QED
  BY <1>1, <1>4, <1>5, <1>6, <1>7, <1>8, <1>9, <1>10 DEF SiblingNext

(* The inductive invariant holds.                                           *)
LEMMA SiblingInvHolds == SiblingSpec => []SiblingInv
<1>1. SiblingInv /\ [SiblingNext]_siblingVars => SiblingInv'
  BY SiblingTypeKept, IdentityKept, PlaceKept DEF SiblingInv
<1> QED
  BY <1>1, SiblingInvInitially, PTL DEF SiblingSpec

(***************************************************************************)
(* The theorem.                                                            *)
(***************************************************************************)
(* A publication removes only its own stages and the directory it captured *)
(* and replaced, and answers the truth while nobody else acts.             *)
THEOREM OthersAreNotRemoved == SiblingSpec => OnlyTheReplacedIsRemoved
<1> DEFINE Rightly(id) ==
             \/ id = run.owned /\ id # names'.target
             \/ id = run.expected /\ (intruded.since \/ names.target = run.owned)
           Ends == run.pc # "idle" /\ run'.pc = "idle" /\ ~intruded.since
           InPlace == names'.target = run.owned /\ run.owned # None
           SaysSo == run'.answer \in {"published", "not cleaned", "rollback failed"}
           Right == /\ \A id \in removed' \ removed : Rightly(id)
                    /\ Ends => (InPlace <=> SaysSo)
<1>1. SiblingInv /\ [SiblingNext]_siblingVars => [Right]_siblingVars
  <2> SUFFICES ASSUME SiblingInv, SiblingNext PROVE Right
    BY DEF siblingVars
  <2>0. /\ names \in [target : Nat, stage : Nat]
        /\ run \in [pc : Steps, stages : Nat, expected : Nat, owned : Nat,
                    answer : SiblingAnswers]
        /\ PlaceInv
        /\ names.stage # 0 => names.stage # names.target
    BY DEF SiblingInv, SiblingTypeOK, IdentityInv, None
  <2>1. ASSUME removed' = removed, ~Ends PROVE Right
    BY <2>1
  <2>2. ASSUME NEW answer, Answer(answer) PROVE run'.answer = answer
    BY <2>0, <2>2 DEF Answer
  <2>3. CASE Capture \/ CreateStage \/ WriteStage \/ Recheck \/ Rename \/ Verified \/ Intrude
    <3>1. removed' = removed /\ (run' = run \/ run'.pc # "idle")
      BY <2>0, <2>3 DEF Capture, CreateStage, WriteStage, Recheck, Rename, Verified, Intrude
    <3> QED
      BY <2>1, <3>1
  <2>4. ASSUME Dropping(names), names.target # run.owned \/ run.owned = 0, ~SaysSo
        PROVE  Right
    <3>1. names'.target = names.target
      BY <2>0, <2>4 DEF Dropping
    <3>2. \A id \in removed' \ removed : id = run.owned /\ run.owned # 0
      BY <2>4 DEF Dropping, drop_removes, None
    <3>3. ~InPlace
      BY <2>4, <3>1 DEF None
    <3>4. InPlace <=> SaysSo
      BY <2>4, <3>3
    <3>5. ASSUME NEW id \in removed' \ removed PROVE Rightly(id)
      BY <2>4, <3>1, <3>2, <3>5
    <3> QED
      BY <3>4, <3>5
  <2>5. CASE GiveUp \/ RenameRefused
    <3>1. names.target # run.owned \/ run.owned = 0
      BY <2>0, <2>5 DEF GiveUp, RenameRefused, PlaceInv, None
    <3>2. run'.answer = "unchanged"
      BY <2>2, <2>5 DEF GiveUp, RenameRefused
    <3> QED
      BY <2>4, <2>5, <3>1, <3>2 DEF GiveUp, RenameRefused
  <2>6. CASE ExchangedBack
    <3>1. /\ names'.target = names.stage
          /\ \A id \in removed' \ removed : id = run.owned /\ id = names.target
      BY <2>0, <2>6 DEF ExchangedBack, Exchanged
    <3>2. /\ run.owned # 0
          /\ intruded.since \/ names.target = run.owned
      BY <2>0, <2>6 DEF ExchangedBack, PlaceInv, None
    <3>3. run'.answer = "unchanged"
      BY <2>2, <2>6 DEF ExchangedBack
    <3>4. names.target = run.owned => names.stage # run.owned
      BY <2>0, <3>2
    <3> QED
      BY <3>1, <3>2, <3>3, <3>4
  <2>7. ASSUME names'.target = names.target, SaysSo,
               run.owned # 0, intruded.since \/ names.target = run.owned,
               \A id \in removed' \ removed : Rightly(id)
        PROVE  Right
    BY <2>7 DEF None
  <2>8. CASE ExchangeBackFails
    <3>1. names'.target = names.target
      BY <2>0, <2>8 DEF ExchangeBackFails, Dropping
    <3>2. /\ run.owned # 0
          /\ intruded.since \/ names.target = run.owned
      BY <2>0, <2>8 DEF ExchangeBackFails, PlaceInv, None
    <3>3. \A id \in removed' \ removed : id = run.owned /\ id = names.stage
      BY <2>8 DEF ExchangeBackFails, Dropping, drop_removes
    <3>4. \A id \in removed' \ removed : Rightly(id)
      BY <2>0, <3>1, <3>2, <3>3
    <3>5. run'.answer = "rollback failed"
      BY <2>2, <2>8 DEF ExchangeBackFails
    <3> QED
      BY <2>7, <3>1, <3>2, <3>4, <3>5
  <2>9. ASSUME NEW fails \in BOOLEAN, Clean(fails) PROVE Right
    <3>1. names'.target = names.target
      BY <2>0, <2>9 DEF Clean
    <3>2. /\ run.owned # 0
          /\ intruded.since \/ names.target = run.owned
      BY <2>0, <2>9 DEF Clean, PlaceInv, None
    <3>3. \A id \in removed' \ removed : id = run.expected
      BY <2>9 DEF Clean, displaced_is_expected
    <3>4. \A id \in removed' \ removed : Rightly(id)
      BY <3>2, <3>3
    <3>5. run'.answer \in {"published", "not cleaned"}
      BY <2>2, <2>9 DEF Clean
    <3> QED
      BY <2>7, <3>1, <3>2, <3>4, <3>5
  <2>10. CASE PublishedNew
    <3>1. names' = names /\ removed' = removed
      BY <2>10 DEF PublishedNew
    <3>2. /\ run.owned # 0
          /\ intruded.since \/ names.target = run.owned
      BY <2>0, <2>10 DEF PublishedNew, PlaceInv, None
    <3>3. run'.answer = "published"
      BY <2>2, <2>10 DEF PublishedNew
    <3> QED
      BY <2>7, <3>1, <3>2, <3>3
  <2> QED
    BY <2>3, <2>5, <2>6, <2>8, <2>9, <2>10 DEF SiblingNext
<1> QED
  BY <1>1, SiblingInvHolds, PTL DEF SiblingSpec, OnlyTheReplacedIsRemoved
===============================================================================
