------------------------------ MODULE CodeTree ------------------------------
(***************************************************************************)
(* The ordered project tree of jals-storage (tree.rs), the changes a       *)
(* transaction stages on it and the merge of unsaved editor text over it   *)
(* (storage.rs).  A path is an opaque key; what the code reads off its     *)
(* segments is the set of its proper ancestors, so that is all a path has. *)
(* The project root is the ancestor of everything, is always a directory   *)
(* and is never a key: it is left implicit.                                *)
(***************************************************************************)
EXTENDS Naturals, Sequences

CONSTANTS
    Paths,      \* the non-root keys (FileKey / DirKey)
    Above,      \* Above[p]: the proper, non-root ancestors of p
    Bytes,      \* file contents
    NoFile      \* the absence of a file

ASSUME PathsAssumption ==
    /\ Above \in [Paths -> SUBSET Paths]
    /\ \A p \in Paths : p \notin Above[p]
    /\ \A p, q \in Paths : p \in Above[q] => Above[p] \subseteq Above[q]
    /\ \A p \in Paths : \A q, r \in Above[p] :
          q = r \/ q \in Above[r] \/ r \in Above[q]

ASSUME BytesAssumption == NoFile \notin Bytes

(* RelativePath::starts_with, as the set of keys that start with p. *)
AtOrBelow(p) == {q \in Paths : q = p \/ p \in Above[q]}
Below(p)     == {q \in Paths : p \in Above[q]}

-----------------------------------------------------------------------------
(* CodeTree { directories, files } *)

FileMap == [Paths -> Bytes \cup {NoFile}]
Tree    == [dirs : SUBSET Paths, files : FileMap]

EmptyTree == [dirs |-> {}, files |-> [p \in Paths |-> NoFile]]

Keys(files) == {p \in Paths : files[p] # NoFile}
FilesOf(t)  == Keys(t.files)

(* What every reader of a tree relies on: no key is both a file and a      *)
(* directory, and every entry sits in a directory that exists.             *)
WellFormed(t) ==
    /\ FilesOf(t) \cap t.dirs = {}
    /\ \A p \in t.dirs \cup FilesOf(t) : Above[p] \subseteq t.dirs

InsertDirectoryOk(t, p) == ({p} \cup Above[p]) \cap FilesOf(t) = {}

InsertDirectory(t, p) ==
    [dirs |-> t.dirs \cup {p} \cup Above[p], files |-> t.files]

InsertFileOk(t, p) ==
    /\ p \notin t.dirs
    /\ Above[p] \cap FilesOf(t) = {}
    /\ Below(p) \cap FilesOf(t) = {}

(* Mutated form: the file goes in without its parent directories.          *)
InsertFileOrphaned(t, p, bytes) ==
    [dirs |-> t.dirs, files |-> [t.files EXCEPT ![p] = bytes]]

InsertFile(t, p, bytes) ==
    [dirs |-> t.dirs \cup Above[p], files |-> [t.files EXCEPT ![p] = bytes]]

RemoveFile(t, p) == [dirs |-> t.dirs, files |-> [t.files EXCEPT ![p] = NoFile]]

(* Also takes a file at p itself: the key range starts at p.               *)
RemoveDirectory(t, p) ==
    [dirs  |-> t.dirs \ AtOrBelow(p),
     files |-> [q \in Paths |-> IF q \in AtOrBelow(p) THEN NoFile ELSE t.files[q]]]

-----------------------------------------------------------------------------
(* Staged changes (enum Change) and CodeTree::apply_changes, one at a time *)

Changes ==
    [op : {"CreateFile", "ReplaceFile"}, key : Paths, bytes : Bytes]
        \cup [op : {"RemoveFile", "CreateDirectory", "RemoveDirectory"}, key : Paths]

Valid(t, c) ==
    \/ /\ c.op = "CreateFile"
       /\ c.key \notin FilesOf(t)
       /\ InsertFileOk(t, c.key)
    \/ /\ c.op = "ReplaceFile"
       /\ c.key \in FilesOf(t)
       /\ InsertFileOk(RemoveFile(t, c.key), c.key)
    \/ /\ c.op = "RemoveFile"
       /\ c.key \in FilesOf(t)
    \/ /\ c.op = "CreateDirectory"
       /\ c.key \notin t.dirs
       /\ InsertDirectoryOk(t, c.key)
    \/ /\ c.op = "RemoveDirectory"
       /\ c.key \in t.dirs

Apply(t, c) ==
    IF c.op \in {"CreateFile", "ReplaceFile"} THEN InsertFile(t, c.key, c.bytes)
    ELSE IF c.op = "RemoveFile" THEN RemoveFile(t, c.key)
    ELSE IF c.op = "CreateDirectory" THEN InsertDirectory(t, c.key)
    ELSE RemoveDirectory(t, c.key)

(* Mutated form: removing a directory drops no entry below it.             *)
DropsKeyOnly(c) == IF c.op = "CreateDirectory" THEN {} ELSE {c.key}

(* The overlay entries the commit of a change drops.                       *)
Drops(c) ==
    IF c.op = "CreateDirectory" THEN {}
    ELSE IF c.op = "RemoveDirectory" THEN AtOrBelow(c.key)
    ELSE {c.key}

(* The entries a change reads or writes, which the backend compares with   *)
(* the base it was planned on.                                             *)
Touches(c) == IF c.op = "RemoveDirectory" THEN AtOrBelow(c.key) ELSE {c.key}

-----------------------------------------------------------------------------
(* ProjectStorage::build_current: the unsaved text laid over the base.     *)
(* The code folds over the overlay in key order; because an ancestor sorts *)
(* before its descendants the fold has this closed form, which module      *)
(* TreeOrder compares with the fold itself.                                *)

BuildOk(base, overlay) ==
    \A p \in Keys(overlay) :
        Above[p] \cap (Keys(overlay) \cup FilesOf(base)) = {}

Hidden(overlay) == {q \in Paths : \E p \in Keys(overlay) : q \in AtOrBelow(p)}

BuildCurrent(base, overlay) ==
    [dirs  |-> (base.dirs \ Hidden(overlay))
                   \cup {d \in Paths : \E p \in Keys(overlay) : d \in Above[p]},
     files |-> [q \in Paths |->
                   IF overlay[q] # NoFile THEN overlay[q]
                   ELSE IF q \in Hidden(overlay) THEN NoFile
                   ELSE base.files[q]]]

Without(overlay, keys) ==
    [q \in Paths |-> IF q \in keys THEN NoFile ELSE overlay[q]]
=============================================================================
