---------------------------- MODULE NativeSource ----------------------------
(***************************************************************************)
(* How the native backend persists one committed batch (native.rs,         *)
(* NativeSource::apply_sync): every precondition first, then change by     *)
(* change with an undo journal, rolled back newest first when a step       *)
(* fails.  Each step is one system call or one check, and between any two  *)
(* of them other processes edit the same files, a call fails, or this      *)
(* process dies.  Other processes leave the temporary backup files alone.  *)
(***************************************************************************)
EXTENDS CodeTree, SequencesExt

CONSTANTS
    MaxBatch,   \* bound on the changes of the batch
    MaxEdits,   \* bound on the edits of other processes
    MaxFaults   \* bound on the system calls that fail for no visible reason

ASSUME BoundsAssumption == {MaxBatch, MaxEdits, MaxFaults} \subseteq Nat

\* A path has finitely many segments.
ASSUME DepthAssumption == \A p \in Paths : IsFiniteSet(Above[p])

VARIABLES
    disk,       \* the files as they are
    base,       \* the snapshot the batch was planned on
    batch,      \* the staged changes
    pc,         \* "idle", "precheck", "apply", "rollback", or how it ended
    i,          \* the change being checked or applied
    step,       \* within apply_change: "check", "save", "write"
    expected,   \* base with the changes applied so far
    undo,       \* ApplyJournal.undo
    left,       \* the undos that failed: "rollback incomplete" in the error
    edits,      \* how many edits other processes made
    faults,     \* how many calls failed
    world,      \* ghost: base with only the others' edits applied
    raced,      \* ghost: an edit hit an entry that was already checked
    late,       \* ghost: an edit happened after the batch began
    lost        \* ghost: when edits of others were overwritten

vars == <<disk, base, batch, pc, i, step, expected, undo, left, edits, faults,
          world, raced, late, lost>>

fixed  == <<base, batch>>
ghosts == <<world, raced, late>>

(* The entries of t at or below a key: what a rename of the key moves.     *)
Subtree(t, key) ==
    [dirs  |-> t.dirs \cap AtOrBelow(key),
     files |-> [p \in Paths |-> IF p \in AtOrBelow(key) THEN t.files[p] ELSE NoFile]]

Graft(t, piece) ==
    [dirs  |-> t.dirs \cup piece.dirs,
     files |-> [p \in Paths |-> IF piece.files[p] # NoFile THEN piece.files[p] ELSE t.files[p]]]

Exists(t, key)  == key \in t.dirs \cup FilesOf(t)
ParentOk(t, key) == Above[key] \subseteq t.dirs
Related(p, q)   == p = q \/ p \in Above[q] \/ q \in Above[p]

(* A batch that commit has already replayed on base.                       *)
Planned(b, changes) ==
    LET at[n \in 0..Len(changes)] ==
          IF n = 0 THEN [ok |-> TRUE, tree |-> b]
          ELSE IF at[n-1].ok /\ Valid(at[n-1].tree, changes[n])
               THEN [ok |-> TRUE, tree |-> Apply(at[n-1].tree, changes[n])]
               ELSE [ok |-> FALSE, tree |-> at[n-1].tree]
    IN at[Len(changes)]

Batches == UNION {[1..n -> Changes] : n \in 1..MaxBatch}

Init ==
    /\ base \in {t \in Tree : WellFormed(t)}
    /\ batch \in {b \in Batches : Planned(base, b).ok}
    /\ disk = base /\ world = base /\ expected = base
    /\ pc = "idle" /\ i = 1 /\ step = "check"
    /\ undo = <<>> /\ left = {}
    /\ edits = 0 /\ faults = 0
    /\ raced = FALSE /\ late = FALSE /\ lost = {}

-----------------------------------------------------------------------------
(* The world outside                                                       *)

Running == pc \in {"precheck", "apply", "rollback"}

(* The batch has looked at this entry in its apply loop, or changed it.    *)
Committed(key) ==
    /\ pc \in {"apply", "rollback"}
    /\ \E n \in DOMAIN batch :
          /\ n < i \/ (n = i /\ step # "check") \/ pc = "rollback"
          /\ Related(batch[n].key, key)

ExternalEdit(e) ==
    /\ pc = "idle" \/ Running
    /\ edits < MaxEdits
    /\ Valid(disk, e)
    /\ disk' = Apply(disk, e)
    /\ world' = IF Valid(world, e) THEN Apply(world, e) ELSE world
    /\ raced' = (raced \/ Committed(e.key) \/ ~Valid(world, e))
    /\ late' = (late \/ Running)
    /\ edits' = edits + 1
    /\ UNCHANGED <<fixed, pc, i, step, expected, undo, left, faults, lost>>

(* The process dies; the journal was in its memory.                        *)
Crash ==
    /\ Running
    /\ pc' = "crashed"
    /\ UNCHANGED <<fixed, disk, i, step, expected, undo, left, edits, faults,
                   ghosts, lost>>

-----------------------------------------------------------------------------
(* Preconditions                                                           *)

(* require_unchanged: a key the tree does not have carries no condition.   *)
FileUnchanged(t, key) ==
    key \in FilesOf(t) => disk.files[key] = t.files[key]

(* require_directory_unchanged: the same files with the same bytes, and as *)
(* many directories.                                                       *)
DirectoryUnchanged(t, key) ==
    key \in t.dirs =>
        /\ key \in disk.dirs
        /\ \A p \in AtOrBelow(key) : disk.files[p] = t.files[p]
        /\ Cardinality(disk.dirs \cap AtOrBelow(key))
             = Cardinality(t.dirs \cap AtOrBelow(key))

Unchanged(t, change) ==
    CASE change.op \in {"ReplaceFile", "RemoveFile"}  -> FileUnchanged(t, change.key)
      [] change.op = "RemoveDirectory"                -> DirectoryUnchanged(t, change.key)
      [] OTHER                                        -> TRUE

FirstTouch(n) == \A m \in 1..(n-1) : batch[m].key # batch[n].key

Begin ==
    /\ pc = "idle"
    /\ pc' = "precheck"
    /\ UNCHANGED <<fixed, disk, i, step, expected, undo, left, edits, faults,
                   ghosts, lost>>

(* Mutated form: only the first entry of the batch is checked up front.    *)
PrecheckFirstOnly ==
    /\ pc = "precheck"
    /\ IF ~Unchanged(base, batch[1])
       THEN pc' = "failed" /\ UNCHANGED i
       ELSE pc' = "apply" /\ i' = 1
    /\ UNCHANGED <<fixed, disk, step, expected, undo, left, edits, faults,
                   ghosts, lost>>

(* require_preconditions, one entry of the write set at a time.            *)
Precheck ==
    /\ pc = "precheck"
    /\ IF FirstTouch(i) /\ ~Unchanged(base, batch[i])
       THEN pc' = "failed" /\ UNCHANGED i
       ELSE IF i < Len(batch)
       THEN pc' = pc /\ i' = i + 1
       ELSE pc' = "apply" /\ i' = 1
    /\ UNCHANGED <<fixed, disk, step, expected, undo, left, edits, faults,
                   ghosts, lost>>

-----------------------------------------------------------------------------
(* apply_change                                                            *)

change == batch[i]
Op(ops) == pc = "apply" /\ change.op \in ops

(* An error part-way hands the batch to the journal.                       *)
Fail ==
    /\ pc' = "rollback"
    /\ UNCHANGED <<fixed, i, step, expected, left, edits, ghosts, lost>>

(* Mutated form: the precheck is trusted and nothing is checked again.     *)
CheckNothing ==
    /\ Op({"ReplaceFile", "RemoveFile", "RemoveDirectory"})
    /\ step = "check"
    /\ step' = IF change.op = "ReplaceFile" THEN "save" ELSE "write"
    /\ UNCHANGED <<fixed, disk, pc, i, expected, undo, left, edits, faults, ghosts, lost>>

(* The checks apply_change repeats immediately before it writes.           *)
Check ==
    /\ Op({"ReplaceFile", "RemoveFile", "RemoveDirectory"})
    /\ step = "check"
    /\ IF /\ Unchanged(expected, change)
          /\ change.op = "ReplaceFile" => change.key \in FilesOf(disk)
       THEN /\ step' = IF change.op = "ReplaceFile" THEN "save" ELSE "write"
            /\ UNCHANGED <<fixed, disk, pc, i, expected, undo, left, edits, faults,
                           ghosts, lost>>
       ELSE Fail /\ UNCHANGED <<disk, undo, faults>>

(* Directories above one key, each after the ones above it.                *)
ParentsFirst(dirs) ==
    [n \in 1..Cardinality(dirs) |->
        CHOOSE d \in dirs : Cardinality(Above[d] \cap dirs) = n - 1]

(* create_directories: make what is missing, parents first, recording each *)
(* directory made; a file in the way, or a fault, ends it early.           *)
MakeDirectories ==
    LET target  == IF change.op = "CreateFile" THEN Above[change.key]
                   ELSE Above[change.key] \cup {change.key}
        missing == target \ disk.dirs
        blocked == target \cap FilesOf(disk) # {}
    IN
    /\ Op({"CreateFile", "CreateDirectory"})
    /\ step = "check"
    /\ \E made \in SUBSET missing :
          /\ blocked => made = {}
          /\ \A d \in made : Above[d] \subseteq disk.dirs \cup made
          /\ ~blocked /\ made # missing => faults < MaxFaults
          /\ disk' = [disk EXCEPT !.dirs = @ \cup made]
          /\ undo' = undo \o [n \in 1..Cardinality(made) |->
                 [op |-> "RemoveCreatedDir", key |-> ParentsFirst(made)[n]]]
          /\ IF blocked \/ made # missing
             THEN /\ faults' = IF blocked THEN faults ELSE faults + 1
                  /\ Fail
             ELSE /\ step' = "write"
                  /\ UNCHANGED <<fixed, pc, i, expected, left, edits, faults,
                                 ghosts, lost>>

(* Mutated form: the file is replaced without a backup.                    *)
SaveNothing ==
    /\ Op({"ReplaceFile"})
    /\ step = "save"
    /\ step' = "write"
    /\ UNCHANGED <<fixed, disk, pc, i, expected, undo, left, edits, faults, ghosts, lost>>

(* back_up_file: a copy of whatever is there by now.                       *)
Save ==
    /\ Op({"ReplaceFile"})
    /\ step = "save"
    /\ \/ /\ change.key \in FilesOf(disk)
          /\ undo' = Append(undo, [op |-> "Restore", key |-> change.key,
                                   saved |-> Subtree(disk, change.key)])
          /\ step' = "write"
          /\ UNCHANGED <<fixed, disk, pc, i, expected, left, edits, faults, ghosts, lost>>
       \/ /\ change.key \notin FilesOf(disk)
          /\ Fail /\ UNCHANGED <<disk, undo, faults>>

(* The call that publishes the change, and whether it can succeed: a hard  *)
(* link never replaces an entry, a rename replaces a file, and moving an   *)
(* entry aside needs the entry.                                            *)
WriteOk ==
    CASE change.op = "CreateFile"  -> ~Exists(disk, change.key)
                                        /\ Above[change.key] \cap FilesOf(disk) = {}
      [] change.op = "ReplaceFile" -> change.key \notin disk.dirs
                                        /\ Above[change.key] \cap FilesOf(disk) = {}
      [] change.op = "CreateDirectory" -> change.key \in disk.dirs
      [] OTHER                     -> Exists(disk, change.key)

Written ==
    CASE change.op \in {"CreateFile", "ReplaceFile"}
                                   -> InsertFile(disk, change.key, change.bytes)
      [] change.op = "CreateDirectory" -> disk
      [] OTHER                     -> RemoveDirectory(disk, change.key)

Record ==
    CASE change.op = "CreateFile" -> <<[op |-> "RemoveCreatedFile", key |-> change.key]>>
      [] change.op \in {"RemoveFile", "RemoveDirectory"} ->
            <<[op |-> "Restore", key |-> change.key, saved |-> Subtree(disk, change.key)]>>
      [] OTHER                    -> <<>>

(* Content that nobody checked is about to go: an edit fell into the       *)
(* window between the check and the write.                                 *)
Overwrites ==
    /\ change.op \in {"ReplaceFile", "RemoveFile", "RemoveDirectory"}
    /\ \E p \in Touches(change) : p \in FilesOf(disk) /\ disk.files[p] # expected.files[p]

Write ==
    /\ pc = "apply"
    /\ step = "write"
    /\ \/ /\ WriteOk
          /\ disk' = Written
          /\ undo' = undo \o Record
          /\ lost' = IF Overwrites THEN lost \cup {"window"} ELSE lost
          /\ IF Valid(expected, change)
             THEN /\ expected' = Apply(expected, change)
                  /\ step' = "check"
                  /\ i' = i + 1
                  /\ pc' = IF i = Len(batch) THEN "discard" ELSE pc
             ELSE pc' = "abandoned" /\ UNCHANGED <<expected, step, i>>
          /\ UNCHANGED <<fixed, left, edits, faults, ghosts>>
       \/ /\ ~WriteOk
          /\ Fail /\ UNCHANGED <<disk, undo, faults>>

(* Any call of the batch may fail without having done anything.            *)
Fault ==
    /\ pc = "apply"
    /\ step # "check"
    /\ faults < MaxFaults
    /\ faults' = faults + 1
    /\ Fail /\ UNCHANGED <<disk, undo>>

(* journal.discard: the batch has landed, its backups go.                  *)
Discard ==
    /\ pc = "discard"
    /\ pc' = "done"
    /\ undo' = <<>>
    /\ UNCHANGED <<fixed, disk, i, step, expected, left, edits, faults, ghosts, lost>>

-----------------------------------------------------------------------------
(* roll_back                                                               *)

(* Mutated form: the journal is walked oldest first.                       *)
OldestFirst(journal) == [next |-> Head(journal), rest |-> Tail(journal)]

NewestFirst(journal) == [next |-> Last(journal), rest |-> Front(journal)]

(* remove_file, remove_dir of an empty directory, rename of the backup.    *)
UndoOk(t, u) ==
    CASE u.op = "RemoveCreatedFile" -> u.key \in FilesOf(t)
      [] u.op = "RemoveCreatedDir"  -> /\ u.key \in t.dirs
                                       /\ Below(u.key) \cap (t.dirs \cup FilesOf(t)) = {}
      [] u.op = "Restore" ->
            /\ ParentOk(t, u.key)
            /\ IF u.key \in u.saved.dirs
               THEN /\ u.key \notin FilesOf(t)
                    /\ Below(u.key) \cap (t.dirs \cup FilesOf(t)) = {}
               ELSE u.key \notin t.dirs

Undone(t, u) ==
    CASE u.op = "RemoveCreatedFile" -> RemoveFile(t, u.key)
      [] u.op = "RemoveCreatedDir"  -> [t EXCEPT !.dirs = @ \ {u.key}]
      [] u.op = "Restore"           -> Graft(t, u.saved)

(* The bytes the batch itself left at a key: its last write there, among   *)
(* the changes whose write has happened.                                   *)
BatchLeft(key) ==
    {batch[n].bytes : n \in {m \in DOMAIN batch :
        m <= i /\ batch[m].key = key /\ batch[m].op \in {"CreateFile", "ReplaceFile"}}}

UndoOverwrites(u) ==
    /\ u.key \in FilesOf(disk)
    /\ disk.files[u.key] \notin BatchLeft(u.key)
    /\ u.op = "Restore" => disk.files[u.key] # u.saved.files[u.key]

RollBack ==
    /\ pc = "rollback"
    /\ undo # <<>>
    /\ LET u == NewestFirst(undo).next IN
       \/ /\ UndoOk(disk, u)
          /\ disk' = Undone(disk, u)
          /\ lost' = IF UndoOverwrites(u) THEN lost \cup {"rollback"} ELSE lost
          /\ UNCHANGED <<left, faults>>
       \/ /\ ~UndoOk(disk, u)
          /\ left' = left \cup {u}
          /\ UNCHANGED <<disk, faults, lost>>
       \/ /\ UndoOk(disk, u)
          /\ faults < MaxFaults
          /\ faults' = faults + 1
          /\ left' = left \cup {u}
          /\ UNCHANGED <<disk, lost>>
    /\ undo' = NewestFirst(undo).rest
    /\ UNCHANGED <<fixed, pc, i, step, expected, edits, ghosts>>

RolledBack ==
    /\ pc = "rollback"
    /\ undo = <<>>
    /\ pc' = "failed"
    /\ UNCHANGED <<fixed, disk, i, step, expected, undo, left, edits, faults,
                   ghosts, lost>>

Next ==
    \/ Begin \/ Precheck
    \/ Check \/ MakeDirectories \/ Save \/ Write \/ Fault \/ Discard
    \/ RollBack \/ RolledBack
    \/ Crash
    \/ \E e \in Changes : ExternalEdit(e)

Spec == Init /\ [][Next]_vars

-----------------------------------------------------------------------------
(* Types; and the disk stays a file system, whatever is undone on it.      *)
TypeOK ==
    /\ WellFormed(disk)
    /\ disk \in Tree /\ base \in Tree /\ expected \in Tree /\ world \in Tree
    /\ pc \in {"idle", "precheck", "apply", "rollback", "discard",
               "done", "failed", "abandoned", "crashed"}
    /\ i \in 1..(Len(batch) + 1)
    /\ step \in {"check", "save", "write"}
    /\ raced \in BOOLEAN /\ late \in BOOLEAN
    /\ lost \subseteq {"window", "rollback"}

(* A batch that succeeds leaves the planned tree, one that fails leaves    *)
(* the files it found, each plus what other processes did meanwhile to     *)
(* entries the batch was not yet committed to; of the directories this is  *)
(* certain only when nobody else works in them.  That includes the error   *)
(* return of apply_sync that skips the rollback.  Left alone, the journal  *)
(* undoes everything: newest first, every undo finds the state it needs.   *)
AllOrNothing ==
    ~raced =>
        /\ edits = 0 /\ faults <= 1 => left = {}
        /\ pc \in {"failed", "abandoned"} /\ left = {} =>
              disk.files = world.files /\ (edits = 0 => disk = base)
        /\ pc = "done" /\ edits = 0 => disk = Planned(base, batch).tree
        /\ pc = "done" => \A n \in DOMAIN batch :
              LET key == batch[n].key
              IN disk.files[key] = Planned(base, batch).tree.files[key]

(* Entry n replaces or removes something that has changed since the        *)
(* snapshot.                                                               *)
Stale(n) ==
    /\ FirstTouch(n)
    /\ \/ /\ batch[n].op \in {"ReplaceFile", "RemoveFile"}
          /\ batch[n].key \in FilesOf(base)
          /\ world.files[batch[n].key] # base.files[batch[n].key]
       \/ /\ batch[n].op = "RemoveDirectory"
          /\ batch[n].key \in base.dirs
          /\ \E p \in AtOrBelow(batch[n].key) : world.files[p] # base.files[p]

(* Entry n creates something where an entry has appeared since.            *)
Occupied(n) ==
    /\ FirstTouch(n)
    /\ ~Exists(base, batch[n].key)
    /\ \/ batch[n].op = "CreateFile" /\ Exists(world, batch[n].key)
       \/ batch[n].op = "CreateDirectory" /\ batch[n].key \in FilesOf(world)

(* What require_preconditions achieves: when an entry that the batch       *)
(* replaces or removes had changed before the batch began, and nobody      *)
(* edits after that, nothing is ever written, not even the entries before  *)
(* it.  Of the entries a batch creates it checks nothing; see the next     *)
(* property.                                                               *)
CheckedStaleNeverWritten ==
    pc # "idle" /\ ~late /\ (\E n \in DOMAIN batch : Stale(n)) =>
        disk = world /\ undo = <<>>

(* What its comment says: "a known-stale later entry never causes an       *)
(* earlier entry to be written and rolled back".  That is not so when the  *)
(* later entry is to be created and exists by now: the earlier ones are    *)
(* written before the link or the mkdir fails.                             *)
KnownStaleNeverWritten ==
    pc # "idle" /\ ~late /\ (\E n \in DOMAIN batch : Stale(n) \/ Occupied(n)) =>
        disk = world /\ undo = <<>>

(* An edit is overwritten only in the window apply_change documents, after *)
(* its entry was checked: an edit that came before is always refused.      *)
LostOnlyInRace == lost # {} => raced

(* Until the batch has landed, the original bytes of every file are in the *)
(* project or in a backup beside it, whenever the process dies.            *)
OriginalsRecoverable ==
    edits = 0 /\ pc # "done" =>
        \A p \in FilesOf(base) :
            \/ disk.files[p] = base.files[p]
            \/ \E u \in ToSet(undo) \cup left :
                  u.op = "Restore" /\ u.saved.files[p] = base.files[p]

(* "Refuse to overwrite content that no longer matches the snapshot        *)
(* instead of clobbering a concurrent external edit": rolling back would   *)
(* then never overwrite an edit either.                                    *)
RollbackKeepsEdits == "rollback" \notin lost
=============================================================================
