-------------------------- MODULE NativeSourceProofs --------------------------
(***************************************************************************)
(* What NativeSource::apply_sync keeps safe, for any files, batches, faults *)
(* and edits of other processes: the disk stays a file system, the bytes a *)
(* batch found are in the project or in a backup whenever the process      *)
(* dies, a batch that replaces or removes an entry known to be stale       *)
(* writes nothing, an edit is overwritten only after its entry was         *)
(* checked, and a batch lands as planned or leaves the files as it found   *)
(* them.                                                                   *)
(***************************************************************************)
EXTENDS NativeSource, FiniteSetTheorems, WellFoundedInduction, TLAPS

(* Applying a change to a tree gives a tree (apply_changes).               *)
LEMMA ApplyType ==
    ASSUME NEW t \in Tree, NEW c \in Changes
    PROVE  Apply(t, c) \in Tree
<1> USE PathsAssumption, BytesAssumption
<1>1. CASE c.op \in {"CreateFile", "ReplaceFile"}
  <2>1. c.key \in Paths /\ c.bytes \in Bytes
    BY <1>1 DEF Changes
  <2>2. InsertFile(t, c.key, c.bytes) \in Tree
    BY <2>1 DEF InsertFile, Tree, FileMap
  <2> QED BY <1>1, <2>2 DEF Apply
<1>2. CASE c.op = "RemoveFile"
  BY <1>2 DEF Apply, RemoveFile, Tree, FileMap, Changes
<1>3. CASE c.op = "CreateDirectory"
  BY <1>3 DEF Apply, InsertDirectory, Tree, Changes
<1>4. CASE c.op = "RemoveDirectory"
  BY <1>4 DEF Apply, RemoveDirectory, Tree, FileMap, Changes
<1> QED BY <1>1, <1>2, <1>3, <1>4 DEF Changes

(* A change that validates keeps the tree well formed: entries never lose  *)
(* their parents and no key becomes both file and directory.               *)
LEMMA ApplyWellFormed ==
    ASSUME NEW t \in Tree, WellFormed(t), NEW c \in Changes, Valid(t, c)
    PROVE  WellFormed(Apply(t, c))
<1> USE PathsAssumption, BytesAssumption
<1> DEFINE p == c.key
<1>0. p \in Paths
  BY DEF Changes
<1>1. CASE c.op \in {"CreateFile", "ReplaceFile"}
  <2>1. c.bytes \in Bytes /\ c.bytes # NoFile
    BY <1>1 DEF Changes
  <2>2. p \notin t.dirs /\ Above[p] \cap FilesOf(t) = {}
    BY <1>0, <1>1 DEF Valid, InsertFileOk, RemoveFile, FilesOf, Keys, Tree, FileMap
  <2>3. Apply(t, c) = InsertFile(t, p, c.bytes)
    BY <1>1 DEF Apply
  <2>4. /\ FilesOf(InsertFile(t, p, c.bytes)) = FilesOf(t) \cup {p}
        /\ InsertFile(t, p, c.bytes).dirs = t.dirs \cup Above[p]
    BY <1>0, <2>1 DEF InsertFile, FilesOf, Keys, Tree, FileMap
  <2> QED BY <1>0, <2>2, <2>3, <2>4 DEF WellFormed
<1>2. CASE c.op = "RemoveFile"
  BY <1>0, <1>2 DEF Apply, RemoveFile, WellFormed, FilesOf, Keys, Tree, FileMap
<1>3. CASE c.op = "CreateDirectory"
  <2>1. ({p} \cup Above[p]) \cap FilesOf(t) = {}
    BY <1>3 DEF Valid, InsertDirectoryOk
  <2>2. /\ Apply(t, c).dirs = t.dirs \cup {p} \cup Above[p]
        /\ FilesOf(Apply(t, c)) = FilesOf(t)
    BY <1>3 DEF Apply, InsertDirectory, FilesOf, Tree
  <2> QED BY <1>0, <2>1, <2>2 DEF WellFormed
<1>4. CASE c.op = "RemoveDirectory"
  <2>1. /\ Apply(t, c).dirs = t.dirs \ AtOrBelow(p)
        /\ FilesOf(Apply(t, c)) = FilesOf(t) \ AtOrBelow(p)
    BY <1>0, <1>4 DEF Apply, RemoveDirectory, FilesOf, Keys, Tree, FileMap
  <2>2. \A q \in Paths : q \notin AtOrBelow(p) => Above[q] \cap AtOrBelow(p) = {}
    BY <1>0 DEF AtOrBelow
  <2> QED BY <2>1, <2>2 DEF WellFormed, FilesOf, Keys, Tree
<1> QED BY <1>1, <1>2, <1>3, <1>4 DEF Changes

Removals == {"ReplaceFile", "RemoveFile", "RemoveDirectory"}

\* A backup holds what was at its key and below, and nothing else.
SavedOk(u) ==
    /\ u.saved \in Tree
    /\ FilesOf(u.saved) \cap u.saved.dirs = {}
    /\ \A q \in u.saved.dirs \cup FilesOf(u.saved) :
          q \in AtOrBelow(u.key) /\ Above[q] \subseteq u.saved.dirs \cup Above[u.key]

EntryOk(u) ==
    /\ u.op \in {"RemoveCreatedFile", "RemoveCreatedDir", "Restore"}
    /\ u.op # "RemoveCreatedDir" => u.key \in Paths
    /\ u.op = "Restore" => SavedOk(u)

Types ==
    /\ disk \in Tree /\ base \in Tree /\ expected \in Tree
    /\ batch \in Seq(Changes) /\ batch # <<>>
    /\ \E S : undo \in Seq(S)
    /\ i \in Nat /\ edits \in Nat
    /\ pc \in {"idle", "precheck", "apply"} => i \in DOMAIN batch
    /\ pc \in {"idle", "precheck"} => step = "check"
    /\ step \in {"check", "save", "write"}
    /\ WellFormed(disk)
    /\ \A n \in DOMAIN undo : EntryOk(undo[n])

-----------------------------------------------------------------------------
(* The originals.                                                          *)

\* Undoing u may change the file at p.
Affects(u, p) ==
    \/ u.op = "RemoveCreatedFile" /\ u.key = p
    \/ u.op = "Restore" /\ u.saved.files[p] # NoFile

Holds(u, p, bytes) == u.op = "Restore" /\ u.saved.files[p] = bytes

\* The original of p is in a backup that could not be put back, in the
\* oldest backup of p in the journal, or still where it was.
KeptIn(now, journal, failed, p, original) ==
    \/ \E u \in failed : Holds(u, p, original)
    \/ \E n \in DOMAIN journal :
          /\ Holds(journal[n], p, original)
          /\ \A m \in DOMAIN journal : m < n => ~Affects(journal[m], p)
    \/ now = original /\ \A n \in DOMAIN journal : ~Affects(journal[n], p)

Kept(p) == KeptIn(disk.files[p], undo, left, p, base.files[p])

Originals ==
    /\ edits = 0 /\ pc # "done" => \A p \in FilesOf(base) : Kept(p)
    /\ pc = "apply" /\ step = "write" /\ batch[i].op = "ReplaceFile" =>
          \E n \in DOMAIN undo : Affects(undo[n], batch[i].key)

-----------------------------------------------------------------------------
(* What is known to be stale stays unwritten.                              *)

Untouched ==
    /\ pc \in {"idle", "precheck"} => disk = world /\ undo = <<>>
    /\ pc = "idle" => i = 1
    /\ pc # "idle" /\ ~late /\ (\E n \in DOMAIN batch : Stale(n)) =>
          /\ pc \in {"precheck", "failed", "crashed"}
          /\ disk = world /\ undo = <<>>
          /\ pc = "precheck" => \A n \in DOMAIN batch : n < i => ~Stale(n)

-----------------------------------------------------------------------------
(* Edits and races.                                                        *)

\* What is planned for the entry the batch is at.
Plan(f) ==
    /\ f[0] = base
    /\ \A n \in DOMAIN batch : Valid(f[n - 1], batch[n]) /\ f[n] = Apply(f[n - 1], batch[n])
    /\ f[Len(batch)] = Planned(base, batch).tree

Landing == pc \in {"apply", "discard", "done"}

Follows ==
    \E f : Plan(f) /\ (pc \in {"idle", "precheck"} => expected = base)
                   /\ (Landing => expected = f[i - 1])

\* The bytes b's changes up to k left at a key: BatchLeft of batch and i.
LeftBy(b, k, key) ==
    {b[n].bytes : n \in {m \in DOMAIN b :
        m <= k /\ b[m].key = key /\ b[m].op \in {"CreateFile", "ReplaceFile"}}}

\* The bytes in `files` at the key of u are the batch's or the backup's own.
Clean(b, k, files, u) ==
    u.op # "RemoveCreatedDir" /\ files[u.key] # NoFile =>
        \/ files[u.key] \in LeftBy(b, k, u.key)
        \/ u.op = "Restore" /\ files[u.key] = u.saved.files[u.key]

\* Undoing a journal newest first only ever replaces such bytes.
CleanJournal(b, k, files, journal) ==
    \A n \in DOMAIN journal :
       /\ Clean(b, k, files, journal[n])
       /\ journal[n].op = "Restore" => \A m \in DOMAIN journal : m < n =>
             Clean(b, k, journal[n].saved.files, journal[m])

\* The batch has been at its n-th entry.
Reached(n) == n < i \/ (n = i /\ step # "check") \/ pc = "rollback"

Visited(u) ==
    u.op # "RemoveCreatedDir" =>
        \E n \in DOMAIN batch : batch[n].key = u.key /\ Reached(n)

\* Between its check and its write, an entry is as it was checked.
Window ==
    pc = "apply" /\ step # "check" /\ ~raced /\ batch[i].op \in Removals =>
        \A p \in Touches(batch[i]) : disk.files[p] = expected.files[p]

Journaled ==
    pc \in {"apply", "rollback"} =>
        /\ \A n \in DOMAIN undo : Visited(undo[n])
        /\ ~raced => CleanJournal(batch, i, disk.files, undo)

Guarded == LostOnlyInRace /\ Window /\ Journaled

IInv == Types /\ Originals /\ Untouched /\ Follows /\ Guarded

-----------------------------------------------------------------------------
(* The journal is a list that grows and is taken back at its end.          *)

(* Recording more leaves the older entries where they are.                 *)
LEMMA Concatenated ==
    ASSUME NEW S, NEW q \in Seq(S), NEW T, NEW t \in Seq(T)
    PROVE  /\ \E U : q \o t \in Seq(U)
           /\ \A n \in DOMAIN q : n \in DOMAIN (q \o t) /\ (q \o t)[n] = q[n]
           /\ \A n \in DOMAIN (q \o t) \ DOMAIN q :
                 /\ \E m \in DOMAIN t : (q \o t)[n] = t[m]
                 /\ \A k \in DOMAIN q : k < n
           /\ \A m \in DOMAIN t : \E n \in DOMAIN (q \o t) \ DOMAIN q :
                 (q \o t)[n] = t[m]
<1> DEFINE r == q \o t
<1>1. /\ q \in Seq(S \cup T) /\ t \in Seq(S \cup T)
      /\ Len(q) \in Nat /\ Len(t) \in Nat /\ DOMAIN q = 1 .. Len(q) /\ DOMAIN t = 1 .. Len(t)
  OBVIOUS
<1>2. /\ r \in Seq(S \cup T) /\ DOMAIN r = 1 .. (Len(q) + Len(t))
      /\ \A n \in 1 .. (Len(q) + Len(t)) :
            r[n] = IF n <= Len(q) THEN q[n] ELSE t[n - Len(q)]
  BY <1>1
<1> HIDE DEF r
<1>3. \A n \in DOMAIN q : n \in DOMAIN r /\ r[n] = q[n]
  BY <1>1, <1>2
<1>4. ASSUME NEW n \in DOMAIN r \ DOMAIN q
      PROVE  (\E m \in DOMAIN t : r[n] = t[m]) /\ \A k \in DOMAIN q : k < n
  <2>1. n - Len(q) \in DOMAIN t /\ r[n] = t[n - Len(q)]
    BY <1>1, <1>2
  <2> QED BY <1>1, <1>2, <2>1
<1>5. ASSUME NEW m \in DOMAIN t
      PROVE  \E n \in DOMAIN r \ DOMAIN q : r[n] = t[m]
  <2>1. /\ m + Len(q) \in DOMAIN r /\ m + Len(q) \notin DOMAIN q
        /\ (m + Len(q)) - Len(q) = m /\ r[m + Len(q)] = t[m]
    BY <1>1, <1>2
  <2> QED BY <2>1
<1> QED BY <1>2, <1>3, <1>4, <1>5 DEF r

(* Taking back the newest entry leaves the older ones where they are.      *)
LEMMA TakenBack ==
    ASSUME NEW S, NEW q \in Seq(S), q # <<>>
    PROVE  /\ Front(q) \in Seq(S)
           /\ Len(q) \in DOMAIN q /\ Last(q) = q[Len(q)]
           /\ DOMAIN Front(q) = DOMAIN q \ {Len(q)}
           /\ \A n \in DOMAIN Front(q) : Front(q)[n] = q[n] /\ n < Len(q)
<1>1. Len(q) \in Nat /\ Len(q) # 0 /\ DOMAIN q = 1 .. Len(q)
  OBVIOUS
<1>2. /\ Front(q) \in Seq(S) /\ DOMAIN Front(q) = 1 .. (Len(q) - 1)
      /\ \A n \in 1 .. (Len(q) - 1) : Front(q)[n] = q[n]
  BY <1>1 DEF Front
<1> QED BY <1>1, <1>2 DEF Last

-----------------------------------------------------------------------------
(* What single calls do to a file system.                                  *)

(* A file put where no directory is, below no file.                        *)
LEMMA InsertFileFacts ==
    ASSUME NEW t \in Tree, WellFormed(t), NEW p \in Paths, NEW b \in Bytes,
           p \notin t.dirs, Above[p] \cap FilesOf(t) = {}
    PROVE  /\ InsertFile(t, p, b) \in Tree /\ WellFormed(InsertFile(t, p, b))
           /\ \A q \in Paths : InsertFile(t, p, b).files[q] = IF q = p THEN b ELSE t.files[q]
<1> USE PathsAssumption, BytesAssumption
<1> DEFINE r == InsertFile(t, p, b)
<1>1. r \in Tree
  BY DEF InsertFile, Tree, FileMap
<1>2. /\ r.dirs = t.dirs \cup Above[p]
      /\ \A q \in Paths : r.files[q] = IF q = p THEN b ELSE t.files[q]
  BY DEF InsertFile, Tree, FileMap
<1> HIDE DEF r
<1>3. FilesOf(r) = FilesOf(t) \cup {p} /\ b # NoFile
  BY <1>2 DEF FilesOf, Keys
<1>4. FilesOf(r) \cap r.dirs = {}
  BY <1>2, <1>3 DEF WellFormed
<1>5. \A q \in r.dirs \cup FilesOf(r) : Above[q] \subseteq r.dirs
  BY <1>2, <1>3 DEF WellFormed
<1> QED BY <1>1, <1>2, <1>4, <1>5 DEF WellFormed, r

(* An entry moved aside with all that lies below it.                       *)
LEMMA RemoveDirectoryFacts ==
    ASSUME NEW t \in Tree, WellFormed(t), NEW p \in Paths
    PROVE  /\ RemoveDirectory(t, p) \in Tree /\ WellFormed(RemoveDirectory(t, p))
           /\ \A q \in Paths : RemoveDirectory(t, p).files[q]
                                = IF q \in AtOrBelow(p) THEN NoFile ELSE t.files[q]
<1> USE PathsAssumption, BytesAssumption
<1> DEFINE r == RemoveDirectory(t, p)
<1>1. r \in Tree
  BY DEF RemoveDirectory, Tree, FileMap
<1>2. /\ r.dirs = t.dirs \ AtOrBelow(p)
      /\ \A q \in Paths : r.files[q] = IF q \in AtOrBelow(p) THEN NoFile ELSE t.files[q]
  BY DEF RemoveDirectory
<1> HIDE DEF r
<1>3. FilesOf(r) = FilesOf(t) \ AtOrBelow(p)
  BY <1>2 DEF FilesOf, Keys
<1>4. FilesOf(r) \cap r.dirs = {}
  BY <1>2, <1>3 DEF WellFormed
<1>5. \A q \in r.dirs \cup FilesOf(r) : Above[q] \subseteq r.dirs
  <2>1. t.dirs \subseteq Paths /\ FilesOf(t) \subseteq Paths
    BY DEF Tree, FilesOf, Keys
  <2> QED BY <1>2, <1>3, <2>1 DEF WellFormed, AtOrBelow
<1> QED BY <1>1, <1>2, <1>4, <1>5 DEF WellFormed, r

(* A file removed.                                                         *)
LEMMA RemoveFileFacts ==
    ASSUME NEW t \in Tree, WellFormed(t), NEW p \in Paths
    PROVE  /\ RemoveFile(t, p) \in Tree /\ WellFormed(RemoveFile(t, p))
           /\ \A q \in Paths : RemoveFile(t, p).files[q] = IF q = p THEN NoFile ELSE t.files[q]
<1> USE PathsAssumption, BytesAssumption
<1> DEFINE r == RemoveFile(t, p)
<1>1. r \in Tree
  BY DEF RemoveFile, Tree, FileMap
<1>2. /\ r.dirs = t.dirs
      /\ \A q \in Paths : r.files[q] = IF q = p THEN NoFile ELSE t.files[q]
  BY DEF RemoveFile, Tree, FileMap
<1> HIDE DEF r
<1>3. FilesOf(r) = FilesOf(t) \ {p}
  BY <1>2 DEF FilesOf, Keys
<1> QED BY <1>1, <1>2, <1>3 DEF WellFormed, r

(* Renaming a backup into place, when there is room for it.                *)
LEMMA GraftFacts ==
    ASSUME NEW t \in Tree, WellFormed(t), NEW p \in Paths, NEW s \in Tree,
           FilesOf(s) \cap s.dirs = {},
           \A q \in s.dirs \cup FilesOf(s) :
              q \in AtOrBelow(p) /\ Above[q] \subseteq s.dirs \cup Above[p],
           ParentOk(t, p),
           IF p \in s.dirs
           THEN p \notin FilesOf(t) /\ Below(p) \cap (t.dirs \cup FilesOf(t)) = {}
           ELSE p \notin t.dirs
    PROVE  /\ Graft(t, s) \in Tree /\ WellFormed(Graft(t, s))
           /\ \A q \in Paths : Graft(t, s).files[q]
                                = IF s.files[q] # NoFile THEN s.files[q] ELSE t.files[q]
<1> USE PathsAssumption, BytesAssumption
<1> DEFINE r == Graft(t, s)
<1>1. r \in Tree
  BY DEF Graft, Tree, FileMap
<1>2. /\ r.dirs = t.dirs \cup s.dirs
      /\ \A q \in Paths : r.files[q] = IF s.files[q] # NoFile THEN s.files[q] ELSE t.files[q]
  BY DEF Graft
<1> HIDE DEF r
<1>3. FilesOf(r) = FilesOf(t) \cup FilesOf(s)
  BY <1>2 DEF FilesOf, Keys
<1>4. /\ t.dirs \subseteq Paths /\ FilesOf(t) \subseteq Paths
      /\ s.dirs \subseteq Paths /\ FilesOf(s) \subseteq Paths
  BY DEF Tree, FilesOf, Keys
<1>5. Above[p] \subseteq t.dirs
  BY DEF ParentOk
<1>6. FilesOf(s) \cap t.dirs = {} /\ FilesOf(t) \cap s.dirs = {}
  <2>1. CASE p \in s.dirs
    BY <2>1, <1>4 DEF AtOrBelow, Below
  <2>2. CASE p \notin s.dirs
    <3>1. \A q \in s.dirs \cup FilesOf(s) : q = p
      BY <2>2, <1>4 DEF AtOrBelow
    <3> QED BY <3>1, <2>2
  <2> QED BY <2>1, <2>2
<1>7. FilesOf(r) \cap r.dirs = {}
  BY <1>2, <1>3, <1>6 DEF WellFormed
<1>8. \A q \in r.dirs \cup FilesOf(r) : Above[q] \subseteq r.dirs
  BY <1>2, <1>3, <1>5 DEF WellFormed
<1> QED BY <1>1, <1>2, <1>7, <1>8 DEF WellFormed, r

(* A backup is a file system of its own, rooted at its key.                *)
LEMMA SubtreeFacts ==
    ASSUME NEW t \in Tree, WellFormed(t), NEW p \in Paths
    PROVE  /\ SavedOk([op |-> "Restore", key |-> p, saved |-> Subtree(t, p)])
           /\ \A q \in Paths : Subtree(t, p).files[q]
                                = IF q \in AtOrBelow(p) THEN t.files[q] ELSE NoFile
<1> USE PathsAssumption, BytesAssumption
<1> DEFINE s == Subtree(t, p)
<1>1. s \in Tree
  BY DEF Subtree, Tree, FileMap
<1>2. /\ s.dirs = t.dirs \cap AtOrBelow(p)
      /\ \A q \in Paths : s.files[q] = IF q \in AtOrBelow(p) THEN t.files[q] ELSE NoFile
  BY DEF Subtree
<1> HIDE DEF s
<1>3. FilesOf(s) = FilesOf(t) \cap AtOrBelow(p)
  BY <1>2 DEF FilesOf, Keys
<1>4. FilesOf(s) \cap s.dirs = {}
  BY <1>2, <1>3 DEF WellFormed
<1>5. ASSUME NEW q \in s.dirs \cup FilesOf(s)
      PROVE  q \in AtOrBelow(p) /\ Above[q] \subseteq s.dirs \cup Above[p]
  <2>1. q \in AtOrBelow(p) /\ q \in Paths /\ Above[q] \subseteq t.dirs /\ Above[q] \subseteq Paths
    BY <1>2, <1>3 DEF WellFormed, AtOrBelow
  <2> QED BY <1>2, <2>1 DEF AtOrBelow
<1> QED BY <1>1, <1>2, <1>4, <1>5 DEF SavedOk, s

-----------------------------------------------------------------------------
(* What the steps of a batch do to the disk and to the journal.            *)

(* The change being applied is one of the batch.                           *)
LEMMA ChangeFacts ==
    ASSUME Types, pc = "apply"
    PROVE  /\ change \in Changes /\ change.key \in Paths /\ i \in DOMAIN batch
           /\ change.op \in {"CreateFile", "ReplaceFile", "RemoveFile",
                             "CreateDirectory", "RemoveDirectory"}
           /\ change.op \in {"CreateFile", "ReplaceFile"} => change.bytes \in Bytes
<1>1. i \in DOMAIN batch /\ change \in Changes
  BY DEF Types, change
<1> HIDE DEF change
<1> QED BY <1>1 DEF Changes

(* The journal with one more entry.                                        *)
LEMMA Appended ==
    ASSUME NEW S, undo \in Seq(S), NEW u
    PROVE  /\ \E U : undo \o <<u>> \in Seq(U)
           /\ \A n \in DOMAIN undo :
                 n \in DOMAIN (undo \o <<u>>) /\ (undo \o <<u>>)[n] = undo[n]
           /\ \A n \in DOMAIN (undo \o <<u>>) \ DOMAIN undo :
                 (undo \o <<u>>)[n] = u /\ \A m \in DOMAIN undo : m < n
           /\ \E n \in DOMAIN (undo \o <<u>>) \ DOMAIN undo : (undo \o <<u>>)[n] = u
           /\ \A n, m \in DOMAIN (undo \o <<u>>) \ DOMAIN undo : n = m
<1> DEFINE t == <<u>>
           r == undo \o t
<1>1. t \in Seq({u}) /\ DOMAIN t = {1} /\ t[1] = u
  OBVIOUS
<1>4. \A n, m \in DOMAIN r \ DOMAIN undo : n = m
  BY <1>1
<1> HIDE DEF t
<1>2. /\ \E U : r \in Seq(U)
      /\ \A n \in DOMAIN undo : n \in DOMAIN r /\ r[n] = undo[n]
      /\ \A n \in DOMAIN r \ DOMAIN undo :
            /\ \E m \in DOMAIN t : r[n] = t[m]
            /\ \A k \in DOMAIN undo : k < n
      /\ \A m \in DOMAIN t : \E n \in DOMAIN r \ DOMAIN undo : r[n] = t[m]
  BY <1>1, Concatenated, Zenon
<1> HIDE DEF r
<1>3. /\ \A n \in DOMAIN r \ DOMAIN undo : r[n] = u
      /\ \E n \in DOMAIN r \ DOMAIN undo : r[n] = u
  BY <1>1, <1>2
<1> QED BY <1>2, <1>3, <1>4 DEF r, t

(* Directories are made, and every one of them is in the journal.          *)
LEMMA MakeDirectoriesFacts ==
    ASSUME Types, MakeDirectories
    PROVE  /\ disk' \in Tree /\ WellFormed(disk') /\ disk'.files = disk.files
           /\ \E S : undo' \in Seq(S)
           /\ \A n \in DOMAIN undo : n \in DOMAIN undo' /\ undo'[n] = undo[n]
           /\ \A n \in DOMAIN undo' \ DOMAIN undo : undo'[n].op = "RemoveCreatedDir"
<1> USE PathsAssumption
<1>1. pc = "apply"
  BY DEF MakeDirectories, Op
<1>2. change.key \in Paths
  BY <1>1, ChangeFacts
<1> DEFINE target  == IF change.op = "CreateFile" THEN Above[change.key]
                      ELSE Above[change.key] \cup {change.key}
           missing == target \ disk.dirs
           blocked == target \cap FilesOf(disk) # {}
           Recorded(made) == [n \in 1..Cardinality(made) |->
                 [op |-> "RemoveCreatedDir", key |-> ParentsFirst(made)[n]]]
<1>3. PICK made \in SUBSET missing :
          /\ blocked => made = {}
          /\ \A d \in made : Above[d] \subseteq disk.dirs \cup made
          /\ disk' = [disk EXCEPT !.dirs = @ \cup made]
          /\ undo' = undo \o Recorded(made)
  BY DEF MakeDirectories
<1>4. target \subseteq Paths /\ IsFiniteSet(target)
  <2>1. IsFiniteSet(Above[change.key])
    BY <1>2, DepthAssumption
  <2>2. IsFiniteSet(Above[change.key] \cup {change.key})
    BY <2>1, FS_AddElement
  <2> QED BY <1>2, <2>1, <2>2
<1>5. made \subseteq Paths /\ Cardinality(made) \in Nat
  <2>1. made \subseteq target
    BY <1>3
  <2>2. IsFiniteSet(made)
    BY <1>4, <2>1, FS_Subset
  <2> QED BY <1>4, <2>1, <2>2, FS_CardinalityType
<1>6. made \cap FilesOf(disk) = {}
  BY <1>3
<1> DEFINE t == Recorded(made)
           T == {t[n] : n \in 1 .. Cardinality(made)}
<1>7. t \in Seq(T) /\ DOMAIN t = 1 .. Cardinality(made)
      /\ \A n \in DOMAIN t : t[n].op = "RemoveCreatedDir"
  BY <1>5
<1>8. undo' = undo \o t
  BY <1>3
<1> HIDE DEF t, T, missing, blocked, target, Recorded
<1>9. PICK S : undo \in Seq(S)
  BY DEF Types
<1>10. /\ \E U : undo' \in Seq(U)
       /\ \A n \in DOMAIN undo : n \in DOMAIN undo' /\ undo'[n] = undo[n]
       /\ \A n \in DOMAIN undo' \ DOMAIN undo : \E m \in DOMAIN t : undo'[n] = t[m]
  <2>1. /\ \E U : undo \o t \in Seq(U)
        /\ \A n \in DOMAIN undo : n \in DOMAIN (undo \o t) /\ (undo \o t)[n] = undo[n]
        /\ \A n \in DOMAIN (undo \o t) \ DOMAIN undo :
              /\ \E m \in DOMAIN t : (undo \o t)[n] = t[m]
              /\ \A k \in DOMAIN undo : k < n
        /\ \A m \in DOMAIN t : \E n \in DOMAIN (undo \o t) \ DOMAIN undo :
              (undo \o t)[n] = t[m]
    BY <1>7, <1>9, Concatenated, Zenon
  <2> QED BY <1>8, <2>1
<1>11. disk \in Tree /\ WellFormed(disk)
  BY DEF Types
<1>12. disk' \in Tree /\ disk'.files = disk.files /\ disk'.dirs = disk.dirs \cup made
  BY <1>3, <1>5, <1>11 DEF Tree
<1>13. FilesOf(disk') = FilesOf(disk)
  BY <1>12 DEF FilesOf
<1>14. WellFormed(disk')
  BY <1>3, <1>6, <1>11, <1>12, <1>13 DEF WellFormed
<1> QED BY <1>7, <1>10, <1>12, <1>14

(* A backup is taken before its file is replaced.                          *)
LEMMA SaveFacts ==
    ASSUME Types, Save, change.key \in FilesOf(disk)
    PROVE  /\ undo' = Append(undo, [op |-> "Restore", key |-> change.key,
                                    saved |-> Subtree(disk, change.key)])
           /\ \E S : undo' \in Seq(S)
           /\ \A n \in DOMAIN undo : n \in DOMAIN undo' /\ undo'[n] = undo[n]
           /\ \A n \in DOMAIN undo' \ DOMAIN undo :
                 /\ undo'[n] = [op |-> "Restore", key |-> change.key,
                                saved |-> Subtree(disk, change.key)]
                 /\ \A m \in DOMAIN undo : m < n
           /\ \E n \in DOMAIN undo' \ DOMAIN undo :
                 undo'[n] = [op |-> "Restore", key |-> change.key,
                             saved |-> Subtree(disk, change.key)]
<1> DEFINE u == [op |-> "Restore", key |-> change.key, saved |-> Subtree(disk, change.key)]
<1>1. undo' = Append(undo, u)
  BY DEF Save
<1> HIDE DEF u
<1>2. PICK S : undo \in Seq(S)
  BY DEF Types
<1>3. Append(undo, u) = undo \o <<u>> /\ <<u>> \in Seq({u}) /\ DOMAIN <<u>> = {1} /\ <<u>>[1] = u
  BY <1>2
<1> QED BY <1>1, <1>2, <1>3, Appended DEF u

(* The published change, and what the journal learns of it.                *)
LEMMA WriteFacts ==
    ASSUME Types, Write, WriteOk
    PROVE  /\ disk' = Written /\ undo' = undo \o Record
           /\ disk' \in Tree /\ WellFormed(disk')
           /\ \E S : undo' \in Seq(S)
           /\ \A n \in DOMAIN undo : n \in DOMAIN undo' /\ undo'[n] = undo[n]
           /\ \A n \in DOMAIN undo' \ DOMAIN undo :
                 Record = <<undo'[n]>> /\ \A m \in DOMAIN undo : m < n
           /\ Record # <<>> => \E n \in DOMAIN undo' \ DOMAIN undo : undo'[n] = Record[1]
           /\ \A n, m \in DOMAIN undo' \ DOMAIN undo : n = m
<1>1. pc = "apply" /\ disk' = Written /\ undo' = undo \o Record
  BY DEF Write
<1>2. disk \in Tree /\ WellFormed(disk)
  BY DEF Types
<1>3. PICK S : undo \in Seq(S)
  BY DEF Types
<1>4. disk' \in Tree /\ WellFormed(disk')
  <2>1. CASE change.op \in {"CreateFile", "ReplaceFile"}
    <3>1. /\ change.key \in Paths /\ change.bytes \in Bytes
      BY <1>1, <2>1, ChangeFacts
    <3>2. change.key \notin disk.dirs /\ Above[change.key] \cap FilesOf(disk) = {}
      BY <2>1 DEF WriteOk, Exists
    <3>3. disk' = InsertFile(disk, change.key, change.bytes)
      BY <1>1, <2>1 DEF Written
    <3> QED BY <1>2, <3>1, <3>2, <3>3, InsertFileFacts
  <2>2. CASE change.op = "CreateDirectory"
    BY <1>1, <1>2, <2>2 DEF Written
  <2>3. CASE change.op \in {"RemoveFile", "RemoveDirectory"}
    <3>1. disk' = RemoveDirectory(disk, change.key)
      BY <1>1, <2>3 DEF Written
    <3>2. change.key \in Paths
      BY <1>1, ChangeFacts
    <3> QED BY <1>2, <3>1, <3>2, RemoveDirectoryFacts
  <2> QED BY <1>1, <2>1, <2>2, <2>3, ChangeFacts
<1>5. CASE Record = <<>>
  BY <1>1, <1>3, <1>4, <1>5
<1>6. CASE Record # <<>>
  <2>1. PICK u : Record = <<u>>
    BY <1>6 DEF Record
  <2>2. <<u>> \in Seq({u}) /\ DOMAIN <<u>> = {1} /\ <<u>>[1] = u
    OBVIOUS
  <2> HIDE DEF Record
  <2> QED BY <1>1, <1>3, <1>4, <2>1, <2>2, Appended
<1> QED BY <1>5, <1>6

(* Undoing a step: what it needs to find, and the files it leaves.         *)
LEMMA UndoneFacts ==
    ASSUME Types, NEW u, EntryOk(u), UndoOk(disk, u)
    PROVE  /\ Undone(disk, u) \in Tree /\ WellFormed(Undone(disk, u))
           /\ \A p \in Paths : Undone(disk, u).files[p] =
                 IF u.op = "RemoveCreatedFile" /\ u.key = p THEN NoFile
                 ELSE IF u.op = "Restore" /\ u.saved.files[p] # NoFile THEN u.saved.files[p]
                 ELSE disk.files[p]
<1>1. disk \in Tree /\ WellFormed(disk)
  BY DEF Types
<1>2. CASE u.op = "RemoveCreatedFile"
  <2>1. u.key \in Paths /\ Undone(disk, u) = RemoveFile(disk, u.key)
    BY <1>2 DEF EntryOk, Undone
  <2> QED BY <1>1, <1>2, <2>1, RemoveFileFacts
<1>3. CASE u.op = "RemoveCreatedDir"
  <2>1. /\ u.key \in disk.dirs
        /\ Below(u.key) \cap (disk.dirs \cup FilesOf(disk)) = {}
        /\ Undone(disk, u) = [disk EXCEPT !.dirs = @ \ {u.key}]
    BY <1>3 DEF UndoOk, Undone
  <2>2. /\ Undone(disk, u) \in Tree /\ Undone(disk, u).files = disk.files
        /\ Undone(disk, u).dirs = disk.dirs \ {u.key} /\ FilesOf(Undone(disk, u)) = FilesOf(disk)
    BY <1>1, <2>1 DEF Tree, FilesOf
  <2>3. disk.dirs \subseteq Paths /\ FilesOf(disk) \subseteq Paths
    BY <1>1 DEF Tree, FilesOf, Keys
  <2>4. WellFormed(Undone(disk, u))
    BY <1>1, <2>1, <2>2, <2>3 DEF WellFormed, Below
  <2> QED BY <1>3, <2>2, <2>4
<1>4. CASE u.op = "Restore"
  <2>1. /\ u.key \in Paths /\ SavedOk(u) /\ Undone(disk, u) = Graft(disk, u.saved)
    BY <1>4 DEF EntryOk, Undone
  <2>2. /\ ParentOk(disk, u.key)
        /\ IF u.key \in u.saved.dirs
           THEN /\ u.key \notin FilesOf(disk)
                /\ Below(u.key) \cap (disk.dirs \cup FilesOf(disk)) = {}
           ELSE u.key \notin disk.dirs
    BY <1>4 DEF UndoOk
  <2>3. /\ Graft(disk, u.saved) \in Tree /\ WellFormed(Graft(disk, u.saved))
        /\ \A q \in Paths : Graft(disk, u.saved).files[q]
              = IF u.saved.files[q] # NoFile THEN u.saved.files[q] ELSE disk.files[q]
    BY <1>1, <2>1, <2>2, GraftFacts DEF SavedOk
  <2> QED BY <1>4, <2>1, <2>3
<1> QED BY <1>2, <1>3, <1>4 DEF EntryOk

(* roll_back takes the newest entry, and undoes it or leaves it behind.    *)
LEMMA RollBackFacts ==
    ASSUME Types, RollBack
    PROVE  /\ undo # <<>> /\ Len(undo) \in DOMAIN undo /\ Last(undo) = undo[Len(undo)]
           /\ EntryOk(Last(undo))
           /\ \E S : undo' \in Seq(S)
           /\ DOMAIN undo' = DOMAIN undo \ {Len(undo)}
           /\ \A n \in DOMAIN undo' : undo'[n] = undo[n] /\ n < Len(undo)
           /\ \/ UndoOk(disk, Last(undo)) /\ disk' = Undone(disk, Last(undo)) /\ left' = left
                 /\ lost' = IF UndoOverwrites(Last(undo)) THEN lost \cup {"rollback"} ELSE lost
              \/ disk' = disk /\ left' = left \cup {Last(undo)} /\ lost' = lost
<1>1. undo # <<>> /\ undo' = Front(undo)
  BY DEF RollBack, NewestFirst
<1>2. PICK S : undo \in Seq(S)
  BY DEF Types
<1>3. /\ Front(undo) \in Seq(S)
      /\ Len(undo) \in DOMAIN undo /\ Last(undo) = undo[Len(undo)]
      /\ DOMAIN Front(undo) = DOMAIN undo \ {Len(undo)}
      /\ \A n \in DOMAIN Front(undo) : Front(undo)[n] = undo[n] /\ n < Len(undo)
  BY <1>1, <1>2, TakenBack, Zenon
<1>4. EntryOk(Last(undo))
  BY <1>3 DEF Types
<1>5. \/ UndoOk(disk, Last(undo)) /\ disk' = Undone(disk, Last(undo)) /\ left' = left
         /\ lost' = IF UndoOverwrites(Last(undo)) THEN lost \cup {"rollback"} ELSE lost
      \/ disk' = disk /\ left' = left \cup {Last(undo)} /\ lost' = lost
  BY Zenon DEF RollBack, NewestFirst
<1> QED BY <1>1, <1>3, <1>4, <1>5

(* The entries a step adds to the journal.                                 *)
LEMMA NewEntryOk ==
    ASSUME Types, pc = "apply"
    PROVE  /\ EntryOk([op |-> "Restore", key |-> change.key,
                       saved |-> Subtree(disk, change.key)])
           /\ \A u : Record = <<u>> => EntryOk(u)
<1>1. disk \in Tree /\ WellFormed(disk) /\ change.key \in Paths
  BY ChangeFacts DEF Types
<1>2. EntryOk([op |-> "Restore", key |-> change.key, saved |-> Subtree(disk, change.key)])
  BY <1>1, SubtreeFacts DEF EntryOk
<1>3. EntryOk([op |-> "RemoveCreatedFile", key |-> change.key])
  BY <1>1 DEF EntryOk
<1>4. ASSUME NEW u, Record = <<u>> PROVE EntryOk(u)
  <2>1. Record # <<>>
    BY <1>4
  <2>2. \/ Record = <<[op |-> "RemoveCreatedFile", key |-> change.key]>>
        \/ Record = <<[op |-> "Restore", key |-> change.key,
                       saved |-> Subtree(disk, change.key)]>>
    BY <2>1 DEF Record
  <2>3. \/ u = [op |-> "RemoveCreatedFile", key |-> change.key]
        \/ u = [op |-> "Restore", key |-> change.key, saved |-> Subtree(disk, change.key)]
    <3> HIDE DEF Record
    <3> QED BY <1>4, <2>2
  <2> QED BY <1>2, <1>3, <2>3
<1> QED BY <1>2, <1>4

-----------------------------------------------------------------------------
(* The disk stays a file system, and the journal well made.                *)

(* The change after one that is not the last.                              *)
LEMMA NextIndex ==
    ASSUME NEW k \in Nat, NEW n \in 1 .. k, n # k
    PROVE  n + 1 \in 1 .. k
OBVIOUS

(* Every step keeps the disk a file system and the journal well made.      *)
LEMMA TypesNext == ASSUME Types, [Next]_vars PROVE Types'
<1> DEFINE Ok == \A n \in DOMAIN undo : EntryOk(undo[n])
<1>0. /\ disk \in Tree /\ base \in Tree /\ expected \in Tree
      /\ batch \in Seq(Changes) /\ batch # <<>> /\ i \in Nat /\ edits \in Nat
      /\ Len(batch) \in Nat /\ DOMAIN batch = 1 .. Len(batch)
      /\ WellFormed(disk) /\ Ok
  BY DEF Types
<1>1. CASE Begin \/ Check \/ Fault \/ Crash \/ RolledBack \/ UNCHANGED vars
  BY <1>1 DEF Types, Begin, Check, Fail, Fault, Crash, RolledBack, vars, fixed, ghosts, EntryOk, SavedOk, Running, Op
<1>2. CASE Precheck
  <2>1. Len(batch) >= 1 /\ i \in DOMAIN batch /\ step = "check"
    BY <1>0, <1>2 DEF Precheck, Types
  <2>2. /\ i' \in Nat /\ (pc' \in {"idle", "precheck", "apply"} => i' \in DOMAIN batch)
    BY <1>0, <1>2, <2>1 DEF Precheck
  <2> QED BY <1>2, <2>1, <2>2 DEF Types, Precheck, fixed, EntryOk, SavedOk
<1>3. CASE MakeDirectories
  <2>1. /\ UNCHANGED <<base, batch, expected, i, edits>> /\ pc = "apply"
        /\ pc' \in {"apply", "rollback"} /\ step' \in {"check", "save", "write"}
    BY <1>3 DEF MakeDirectories, Fail, fixed, Op, Types
  <2>2. \A n \in DOMAIN undo' : EntryOk(undo'[n])
    <3>1. \A n \in DOMAIN undo' \ DOMAIN undo : EntryOk(undo'[n])
      BY <1>3, MakeDirectoriesFacts DEF EntryOk
    <3>2. \A n \in DOMAIN undo : undo'[n] = undo[n] /\ EntryOk(undo[n])
      BY <1>0, <1>3, MakeDirectoriesFacts
    <3> QED BY <3>1, <3>2
  <2> QED BY <1>3, <2>1, <2>2, MakeDirectoriesFacts DEF Types, EntryOk, SavedOk
<1>4. CASE Save
  <2>1. /\ UNCHANGED <<base, batch, expected, i, edits, disk>> /\ pc = "apply"
        /\ pc' \in {"apply", "rollback"} /\ step' \in {"check", "save", "write"}
    BY <1>4 DEF Save, Fail, fixed, Op, Types
  <2>2. /\ \E S : undo' \in Seq(S)
        /\ \A n \in DOMAIN undo' : EntryOk(undo'[n])
    <3>1. CASE change.key \in FilesOf(disk)
      <4>1. \A n \in DOMAIN undo : undo'[n] = undo[n] /\ EntryOk(undo[n])
        BY <1>0, <1>4, <3>1, SaveFacts
      <4>2. \A n \in DOMAIN undo' \ DOMAIN undo : EntryOk(undo'[n])
        BY <1>4, <2>1, <3>1, SaveFacts, NewEntryOk
      <4> QED BY <1>4, <3>1, <4>1, <4>2, SaveFacts
    <3>2. CASE change.key \notin FilesOf(disk)
      BY <1>0, <1>4, <3>2 DEF Save, Types
    <3> QED BY <3>1, <3>2
  <2> QED BY <2>1, <2>2 DEF Types, EntryOk, SavedOk
<1>5. CASE Write
  <2>1. CASE WriteOk
    <3>1. /\ UNCHANGED <<base, batch, edits>> /\ pc = "apply" /\ i \in DOMAIN batch
          /\ step' \in {"check", "save", "write"} /\ i' \in Nat
          /\ pc' \in {"apply", "discard", "abandoned"}
          /\ pc' = "apply" => i' \in DOMAIN batch
          /\ expected' \in {expected, Apply(expected, change)}
      <4>1. pc = "apply" /\ i \in DOMAIN batch /\ step = "write"
        BY <1>5 DEF Types, Write
      <4>2. /\ UNCHANGED <<base, batch, edits>>
            /\ \/ /\ expected' = Apply(expected, change) /\ step' = "check" /\ i' = i + 1
                  /\ pc' = IF i = Len(batch) THEN "discard" ELSE pc
               \/ pc' = "abandoned" /\ UNCHANGED <<expected, step, i>>
        BY <1>5, <2>1, Zenon DEF Write, fixed
      <4>3. i # Len(batch) => i + 1 \in DOMAIN batch
        BY <1>0, <4>1, NextIndex
      <4>4. \/ i' = i + 1
            \/ i' = i
        BY <4>2
      <4>5. i' \in Nat
        BY <1>0, <4>4
      <4>6. pc' = "apply" => i' \in DOMAIN batch
        BY <4>2, <4>3
      <4> QED BY <4>1, <4>2, <4>5, <4>6 DEF Types
    <3>2. expected' \in Tree
      BY <1>0, <3>1, ApplyType, ChangeFacts
    <3>3. \A n \in DOMAIN undo' : EntryOk(undo'[n])
      <4>1. \A n \in DOMAIN undo : undo'[n] = undo[n] /\ EntryOk(undo[n])
        BY <1>0, <1>5, <2>1, WriteFacts
      <4>2. \A n \in DOMAIN undo' \ DOMAIN undo : EntryOk(undo'[n])
        BY <1>5, <2>1, <3>1, WriteFacts, NewEntryOk
      <4> QED BY <4>1, <4>2
    <3> QED BY <1>5, <2>1, <3>1, <3>2, <3>3, WriteFacts DEF Types, EntryOk, SavedOk
  <2>2. CASE ~WriteOk
    BY <1>5, <2>2 DEF Types, Write, Fail, fixed, EntryOk, SavedOk
  <2> QED BY <2>1, <2>2
<1>6. CASE Discard
  <2>1. undo' = <<>> /\ <<>> \in Seq({}) /\ DOMAIN undo' = {}
    BY <1>6 DEF Discard
  <2> QED BY <1>6, <2>1 DEF Types, Discard, fixed
<1>7. CASE RollBack
  <2>1. UNCHANGED <<base, batch, expected, pc, i, step, edits>> /\ pc = "rollback"
    BY <1>7 DEF RollBack, fixed
  <2>2. disk' \in Tree /\ WellFormed(disk')
    BY <1>0, <1>7, RollBackFacts, UndoneFacts
  <2>3. \A n \in DOMAIN undo' : EntryOk(undo'[n])
    BY <1>0, <1>7, RollBackFacts
  <2> QED BY <1>7, <2>1, <2>2, <2>3, RollBackFacts DEF Types, EntryOk, SavedOk
<1>8. ASSUME NEW e \in Changes, ExternalEdit(e) PROVE Types'
  <2>1. disk' \in Tree /\ WellFormed(disk')
    BY <1>0, <1>8, ApplyType, ApplyWellFormed DEF ExternalEdit
  <2> QED BY <1>8, <2>1 DEF Types, ExternalEdit, fixed, EntryOk, SavedOk
<1> QED BY <1>1, <1>2, <1>3, <1>4, <1>5, <1>6, <1>7, <1>8 DEF Next

-----------------------------------------------------------------------------
(* The originals stay in the project or in a backup.                       *)

(* The journal grows, by an entry that undoes nothing at p or holds what   *)
(* the disk held there.                                                    *)
LEMMA KeptGrows ==
    ASSUME NEW S, NEW q \in Seq(S), NEW T, NEW r \in Seq(T), NEW failed, NEW p,
           NEW original, NEW now, NEW after,
           KeptIn(now, q, failed, p, original),
           \A n \in DOMAIN q : n \in DOMAIN r /\ r[n] = q[n],
           \A n \in DOMAIN r \ DOMAIN q : \A m \in DOMAIN q : m < n,
           now = original /\ (\A n \in DOMAIN q : ~Affects(q[n], p)) =>
              \/ after = now /\ \A n \in DOMAIN r \ DOMAIN q : ~Affects(r[n], p)
              \/ /\ DOMAIN r \ DOMAIN q # {}
                 /\ \A n \in DOMAIN r \ DOMAIN q : Holds(r[n], p, original)
                 /\ \A n, m \in DOMAIN r \ DOMAIN q : m = n
    PROVE  KeptIn(after, r, failed, p, original)
<1>0. DOMAIN q \subseteq Nat /\ DOMAIN r \subseteq Nat
  OBVIOUS
<1>1. CASE \E u \in failed : Holds(u, p, original)
  BY <1>1 DEF KeptIn
<1>2. ASSUME NEW n \in DOMAIN q, Holds(q[n], p, original),
             \A m \in DOMAIN q : m < n => ~Affects(q[m], p)
      PROVE  KeptIn(after, r, failed, p, original)
  <2>1. ASSUME NEW m \in DOMAIN r, m < n PROVE ~Affects(r[m], p)
    <3>1. m \in DOMAIN q
      <4>1. m \notin DOMAIN q => n < m
        OBVIOUS
      <4> QED BY <1>0, <2>1, <4>1
    <3> QED BY <1>2, <2>1, <3>1
  <2> QED BY <1>2, <2>1 DEF KeptIn
<1>3. ASSUME now = original, \A n \in DOMAIN q : ~Affects(q[n], p)
      PROVE  KeptIn(after, r, failed, p, original)
  <2>1. CASE after = now /\ \A n \in DOMAIN r \ DOMAIN q : ~Affects(r[n], p)
    BY <1>3, <2>1 DEF KeptIn
  <2>2. ASSUME NEW n \in DOMAIN r \ DOMAIN q, Holds(r[n], p, original),
               \A m \in DOMAIN r \ DOMAIN q : m = n
        PROVE  KeptIn(after, r, failed, p, original)
    <3>1. \A m \in DOMAIN r : m < n => m \in DOMAIN q
      BY <1>0, <2>2
    <3> QED BY <1>3, <2>2, <3>1 DEF KeptIn
  <2> QED BY <1>3, <2>1, <2>2
<1> QED BY <1>1, <1>2, <1>3 DEF KeptIn

(* The newest entry is undone, or stays behind as a backup.                *)
LEMMA KeptUndone ==
    ASSUME NEW S, NEW q \in Seq(S), NEW r, NEW failed, NEW still, NEW p,
           NEW original, NEW now, NEW after, original # NoFile,
           KeptIn(now, q, failed, p, original),
           Len(q) \in DOMAIN q, DOMAIN r = DOMAIN q \ {Len(q)},
           \A n \in DOMAIN r : r[n] = q[n] /\ n < Len(q),
           \/ /\ still = failed
              /\ after = IF q[Len(q)].op = "RemoveCreatedFile" /\ q[Len(q)].key = p THEN NoFile
                         ELSE IF q[Len(q)].op = "Restore" /\ q[Len(q)].saved.files[p] # NoFile
                         THEN q[Len(q)].saved.files[p] ELSE now
           \/ still = failed \cup {q[Len(q)]} /\ after = now
    PROVE  KeptIn(after, r, still, p, original)
<1> DEFINE k == Len(q)
<1>0. k \in DOMAIN q /\ DOMAIN q = DOMAIN r \cup {k} /\ k \notin DOMAIN r
  OBVIOUS
<1>1. CASE \E u \in failed : Holds(u, p, original)
  BY <1>1 DEF KeptIn
<1>2. ASSUME NEW n \in DOMAIN q, Holds(q[n], p, original),
             \A m \in DOMAIN q : m < n => ~Affects(q[m], p)
      PROVE  KeptIn(after, r, still, p, original)
  <2>1. CASE n = k
    <3>1. \A m \in DOMAIN r : ~Affects(r[m], p)
      BY <1>0, <1>2, <2>1
    <3>2. after = original \/ q[k] \in still
      BY <1>2, <2>1 DEF Holds
    <3> QED BY <1>2, <2>1, <3>1, <3>2 DEF KeptIn
  <2>2. CASE n # k
    BY <1>0, <1>2, <2>2 DEF KeptIn
  <2> QED BY <2>1, <2>2
<1>3. CASE now = original /\ \A n \in DOMAIN q : ~Affects(q[n], p)
  <2>1. after = now
    BY <1>0, <1>3 DEF Affects
  <2> QED BY <1>0, <1>3, <2>1 DEF KeptIn
<1> QED BY <1>1, <1>2, <1>3 DEF KeptIn

(* Every step keeps the originals in the project or in a backup.           *)
LEMMA OriginalsNext == ASSUME Types, Originals, [Next]_vars PROVE Originals'
<1> DEFINE Needed == pc = "apply" /\ step = "write" /\ batch[i].op = "ReplaceFile" =>
                       \E n \in DOMAIN undo : Affects(undo[n], batch[i].key)
           AllKept == edits = 0 /\ pc # "done" => \A p \in FilesOf(base) : Kept(p)
           backup == [op |-> "Restore", key |-> change.key,
                      saved |-> Subtree(disk, change.key)]
<1>0. /\ Needed /\ AllKept /\ disk \in Tree /\ WellFormed(disk) /\ base \in Tree
      /\ \A p \in FilesOf(base) : p \in Paths /\ base.files[p] # NoFile
  BY DEF Types, Originals, FilesOf, Keys
<1>1. CASE Begin \/ Precheck \/ Check \/ Fault \/ Crash \/ RolledBack \/ UNCHANGED vars
  <2>1. UNCHANGED <<disk, base, undo, left, edits, batch>> /\ (pc = "done" => pc' = "done")
    BY <1>1 DEF Begin, Precheck, Check, Fail, Fault, Crash, RolledBack, vars, fixed, Running, Op
  <2>2. AllKept'
    BY <1>0, <2>1 DEF Kept, KeptIn, Holds, Affects
  <2>3. pc' = "apply" /\ step' = "write" /\ batch[i'].op = "ReplaceFile" =>
           pc = "apply" /\ step = "write" /\ i' = i
    BY <1>1 DEF Begin, Precheck, Check, Fail, Fault, Crash, RolledBack, vars, fixed, Op, change, Types
  <2>4. Needed'
    BY <1>0, <2>1, <2>3 DEF Affects
  <2> QED BY <2>2, <2>4 DEF Originals
<1>2. CASE MakeDirectories
  <2>1. /\ UNCHANGED <<base, left, edits, batch, i>> /\ pc = "apply"
        /\ change.op # "ReplaceFile"
    BY <1>2 DEF MakeDirectories, Fail, fixed, Op
  <2>2. Needed'
    BY <2>1 DEF change
  <2>3. ASSUME NEW p \in FilesOf(base), Kept(p) PROVE Kept(p)'
    <3>1. PICK S, T : undo \in Seq(S) /\ undo' \in Seq(T)
      BY <1>2, MakeDirectoriesFacts DEF Types
    <3>2. /\ disk'.files[p] = disk.files[p]
          /\ \A n \in DOMAIN undo : n \in DOMAIN undo' /\ undo'[n] = undo[n]
          /\ \A n \in DOMAIN undo' \ DOMAIN undo : ~Affects(undo'[n], p)
      BY <1>2, MakeDirectoriesFacts DEF Affects
    <3>3. \A n \in DOMAIN undo' \ DOMAIN undo : \A m \in DOMAIN undo : m < n
      BY <3>1, <3>2
    <3>4. KeptIn(disk'.files[p], undo', left, p, base.files[p])
      BY <2>3, <3>1, <3>2, <3>3, KeptGrows DEF Kept
    <3> QED BY <2>1, <3>4 DEF Kept
  <2> QED BY <1>0, <2>1, <2>2, <2>3 DEF Originals
<1>3. CASE Save /\ change.key \in FilesOf(disk)
  <2>1. UNCHANGED <<base, left, edits, batch, i, disk>> /\ pc = "apply"
    BY <1>3 DEF Save, Fail, fixed, Op
  <2>2. \A p \in Paths : backup.saved.files[p]
                           = IF p \in AtOrBelow(change.key) THEN disk.files[p] ELSE NoFile
    BY <1>0, <2>1, SubtreeFacts, ChangeFacts
  <2>3. /\ \A n \in DOMAIN undo : n \in DOMAIN undo' /\ undo'[n] = undo[n]
        /\ \A n \in DOMAIN undo' \ DOMAIN undo :
              undo'[n] = backup /\ \A m \in DOMAIN undo : m < n
        /\ \E n \in DOMAIN undo' \ DOMAIN undo : undo'[n] = backup
        /\ \E S : undo' \in Seq(S)
    BY <1>3, SaveFacts
  <2>4. backup.op = "Restore"
    OBVIOUS
  <2> HIDE DEF backup
  <2>5. Needed'
    <3>1. change.key \in Paths /\ change.key \in AtOrBelow(change.key)
      BY <2>1, ChangeFacts DEF AtOrBelow
    <3>2. Affects(backup, change.key)
      BY <1>3, <2>2, <2>4, <3>1 DEF Affects, FilesOf, Keys
    <3>3. \E n \in DOMAIN undo' : Affects(undo'[n], change.key)
      BY <2>3, <3>2
    <3> QED BY <2>1, <3>3 DEF change, Affects
  <2>6. ASSUME NEW p \in FilesOf(base), Kept(p) PROVE Kept(p)'
    <3>1. PICK S, T : undo \in Seq(S) /\ undo' \in Seq(T)
      BY <2>3 DEF Types
    <3>2. \A n, m \in DOMAIN undo' \ DOMAIN undo : m = n
      BY <1>3, <3>1, SaveFacts
    <3>3. disk.files[p] = base.files[p] =>
             Holds(backup, p, base.files[p]) \/ ~Affects(backup, p)
      BY <1>0, <2>2, <2>4 DEF Holds, Affects
    <3>4. KeptIn(disk.files[p], undo', left, p, base.files[p])
      BY <2>3, <2>6, <3>1, <3>2, <3>3, KeptGrows DEF Kept
    <3> QED BY <2>1, <3>4 DEF Kept
  <2> QED BY <1>0, <2>1, <2>5, <2>6 DEF Originals
<1>4. CASE Save /\ change.key \notin FilesOf(disk)
  BY <1>0, <1>4 DEF Originals, Save, Fail, Op, fixed, Kept, KeptIn, Holds, Affects
<1>5. CASE Write /\ WriteOk
  <2>1. UNCHANGED <<base, left, edits, batch>> /\ pc = "apply" /\ step = "write"
    BY <1>5 DEF Write, fixed
  <2>2. Needed'
    BY <1>5 DEF Write
  <2>3. ASSUME NEW p \in FilesOf(base), Kept(p) PROVE Kept(p)'
    <3>1. PICK S, T : undo \in Seq(S) /\ undo' \in Seq(T)
      BY <1>5, WriteFacts DEF Types
    <3>2. /\ \A n \in DOMAIN undo : n \in DOMAIN undo' /\ undo'[n] = undo[n]
          /\ \A n \in DOMAIN undo' \ DOMAIN undo :
                Record = <<undo'[n]>> /\ \A m \in DOMAIN undo : m < n
          /\ Record # <<>> => DOMAIN undo' \ DOMAIN undo # {}
      BY <1>5, WriteFacts
    <3>3. \A n, m \in DOMAIN undo' \ DOMAIN undo : m = n
      BY <1>5, WriteFacts
    <3>4. ASSUME disk.files[p] = base.files[p], \A n \in DOMAIN undo : ~Affects(undo[n], p)
          PROVE  \/ /\ disk'.files[p] = disk.files[p]
                    /\ \A n \in DOMAIN undo' \ DOMAIN undo : ~Affects(undo'[n], p)
                 \/ /\ DOMAIN undo' \ DOMAIN undo # {}
                    /\ \A n \in DOMAIN undo' \ DOMAIN undo :
                          Holds(undo'[n], p, base.files[p])
      <4>0. /\ change.key \in Paths /\ p \in Paths /\ disk.files[p] # NoFile
            /\ change.op \in {"CreateFile", "ReplaceFile"} => change.bytes \in Bytes
            /\ disk' = Written
        BY <1>0, <1>5, <2>1, <3>4, ChangeFacts, WriteFacts
      <4>1. CASE change.op = "CreateFile"
        <5>1. change.key \notin FilesOf(disk) /\ p # change.key
          BY <1>5, <4>0, <4>1 DEF WriteOk, Exists, FilesOf, Keys
        <5>2. Record = <<[op |-> "RemoveCreatedFile", key |-> change.key]>>
          BY <4>1 DEF Record
        <5>3. \A n \in DOMAIN undo' \ DOMAIN undo :
                 undo'[n] = [op |-> "RemoveCreatedFile", key |-> change.key]
          BY <3>2, <5>2
        <5>4. disk'.files[p] = disk.files[p]
          BY <1>0, <4>0, <4>1, <5>1 DEF Written, InsertFile, Tree, FileMap
        <5> QED BY <5>1, <5>3, <5>4 DEF Affects
      <4>2. CASE change.op = "ReplaceFile"
        <5>1. p # change.key
          BY <1>0, <2>1, <3>4, <4>2 DEF change
        <5>2. Record = <<>>
          BY <4>2 DEF Record
        <5>3. DOMAIN undo' \ DOMAIN undo = {}
          BY <3>2, <5>2
        <5>4. disk'.files[p] = disk.files[p]
          BY <1>0, <4>0, <4>2, <5>1 DEF Written, InsertFile, Tree, FileMap
        <5> QED BY <5>3, <5>4
      <4>3. CASE change.op = "CreateDirectory"
        <5>1. Record = <<>> /\ disk' = disk
          BY <4>0, <4>3 DEF Record, Written
        <5> QED BY <3>2, <5>1
      <4>4. CASE change.op \in {"RemoveFile", "RemoveDirectory"}
        <5>1. Record = <<backup>>
          BY <4>4 DEF Record
        <5>2. /\ backup.saved.files[p]
                   = IF p \in AtOrBelow(change.key) THEN disk.files[p] ELSE NoFile
              /\ backup.op = "Restore"
          BY <1>0, <4>0, SubtreeFacts
        <5>3. disk'.files[p] = IF p \in AtOrBelow(change.key) THEN NoFile ELSE disk.files[p]
          BY <1>0, <4>0, <4>4, RemoveDirectoryFacts DEF Written
        <5> HIDE DEF backup
        <5>4. \A n \in DOMAIN undo' \ DOMAIN undo : undo'[n] = backup
          BY <3>2, <5>1
        <5>5. DOMAIN undo' \ DOMAIN undo # {}
          BY <3>2, <5>1
        <5> QED BY <3>4, <5>2, <5>3, <5>4, <5>5 DEF Holds, Affects
      <4> QED BY <2>1, <4>1, <4>2, <4>3, <4>4, ChangeFacts
    <3>5. KeptIn(disk'.files[p], undo', left, p, base.files[p])
      BY <2>3, <3>1, <3>2, <3>3, <3>4, KeptGrows DEF Kept
    <3> QED BY <2>1, <3>5 DEF Kept
  <2> QED BY <1>0, <2>1, <2>2, <2>3 DEF Originals
<1>6. CASE Write /\ ~WriteOk
  BY <1>0, <1>6 DEF Originals, Write, Fail, fixed, Kept, KeptIn, Holds, Affects
<1>7. CASE Discard
  BY <1>7 DEF Originals, Discard
<1>8. CASE RollBack
  <2>1. UNCHANGED <<base, edits, batch, pc>> /\ pc = "rollback"
    BY <1>8 DEF RollBack, fixed
  <2>2. ASSUME NEW p \in FilesOf(base), Kept(p) PROVE Kept(p)'
    <3>1. PICK S : undo \in Seq(S)
      BY DEF Types
    <3>2. /\ Len(undo) \in DOMAIN undo /\ DOMAIN undo' = DOMAIN undo \ {Len(undo)}
          /\ \A n \in DOMAIN undo' : undo'[n] = undo[n] /\ n < Len(undo)
          /\ Last(undo) = undo[Len(undo)]
      BY <1>8, RollBackFacts
    <3>3. \/ /\ left' = left
             /\ disk'.files[p] =
                   IF undo[Len(undo)].op = "RemoveCreatedFile" /\ undo[Len(undo)].key = p
                   THEN NoFile
                   ELSE IF /\ undo[Len(undo)].op = "Restore"
                           /\ undo[Len(undo)].saved.files[p] # NoFile
                   THEN undo[Len(undo)].saved.files[p] ELSE disk.files[p]
          \/ left' = left \cup {undo[Len(undo)]} /\ disk'.files[p] = disk.files[p]
      BY <1>0, <1>8, RollBackFacts, UndoneFacts
    <3>4. base.files[p] # NoFile
      BY <1>0
    <3>5. KeptIn(disk'.files[p], undo', left', p, base.files[p])
      BY <2>2, <3>1, <3>2, <3>3, <3>4, KeptUndone DEF Kept
    <3> QED BY <2>1, <3>5 DEF Kept
  <2> QED BY <1>0, <2>1, <2>2 DEF Originals
<1>9. CASE \E e \in Changes : ExternalEdit(e)
  <2>1. /\ edits' # 0 /\ UNCHANGED <<pc, step, batch, i, undo>>
    BY <1>9 DEF ExternalEdit, fixed, Types
  <2>2. Needed'
    BY <1>0, <2>1 DEF Affects
  <2> QED BY <2>1, <2>2 DEF Originals
<1> QED BY <1>1, <1>2, <1>3, <1>4, <1>5, <1>6, <1>7, <1>8, <1>9 DEF Next

-----------------------------------------------------------------------------
(* Nothing is written once an entry is known to be stale.                  *)

(* Unchanged says as much as Stale asks, when the disk is what the others  *)
(* made of the snapshot.                                                   *)
LEMMA UnchangedNotStale ==
    ASSUME Types, pc = "precheck", disk = world,
           ~(FirstTouch(i) /\ ~Unchanged(base, batch[i]))
    PROVE  ~Stale(i)
<1>1. SUFFICES ASSUME Stale(i) PROVE FALSE
  OBVIOUS
<1>2. FirstTouch(i) /\ Unchanged(base, batch[i])
  BY <1>1 DEF Stale
<1>3. CASE batch[i].op \in {"ReplaceFile", "RemoveFile"}
  BY <1>1, <1>2, <1>3 DEF Stale, Unchanged, FileUnchanged
<1>4. CASE batch[i].op = "RemoveDirectory"
  BY <1>1, <1>2, <1>4 DEF Stale, Unchanged, DirectoryUnchanged
<1> QED BY <1>1, <1>3, <1>4 DEF Stale

(* Every step but a write is harmless, and a stale batch takes none.       *)
LEMMA UntouchedNext == ASSUME Types, Untouched, [Next]_vars PROVE Untouched'
<1> DEFINE Known == \E n \in DOMAIN batch : Stale(n)
           Passed == \A n \in DOMAIN batch : n < i => ~Stale(n)
<1>0. /\ pc \in {"idle", "precheck"} => disk = world /\ undo = <<>>
      /\ pc = "idle" => i = 1
      /\ pc # "idle" /\ ~late /\ Known =>
            /\ pc \in {"precheck", "failed", "crashed"}
            /\ disk = world /\ undo = <<>>
            /\ pc = "precheck" => Passed
      /\ batch \in Seq(Changes) /\ i \in Nat /\ (pc = "precheck" => i \in DOMAIN batch)
  BY DEF Untouched, Types
<1>1. ASSUME UNCHANGED <<base, batch, world>>
      PROVE  \A n \in DOMAIN batch : Stale(n)' <=> Stale(n)
  BY <1>1 DEF Stale, FirstTouch
<1>2. CASE Begin
  <2>1. /\ UNCHANGED <<base, batch, world, disk, undo, i>> /\ pc = "idle" /\ pc' = "precheck"
    BY <1>2 DEF Begin, fixed, ghosts
  <2>2. Passed'
    BY <1>0, <2>1
  <2> QED BY <1>0, <2>1, <2>2 DEF Untouched
<1>3. CASE Precheck
  <2>1. /\ UNCHANGED <<base, batch, world, disk, undo, late>> /\ pc = "precheck"
        /\ disk = world /\ undo = <<>> /\ i \in DOMAIN batch
    BY <1>0, <1>3 DEF Precheck, fixed, ghosts
  <2>2. Known' <=> Known
    BY <1>1, <2>1
  <2>3. CASE FirstTouch(i) /\ ~Unchanged(base, batch[i])
    <3>1. pc' = "failed" /\ i' = i
      BY <1>3, <2>3 DEF Precheck
    <3> QED BY <1>0, <2>1, <2>2, <3>1 DEF Untouched
  <2>4. CASE ~(FirstTouch(i) /\ ~Unchanged(base, batch[i]))
    <3>1. ~Stale(i)
      BY <2>1, <2>4, UnchangedNotStale
    <3>2. \A n \in DOMAIN batch : n \in Nat
      BY <1>0
    <3>3. CASE i < Len(batch)
      <4>1. pc' = "precheck" /\ i' = i + 1
        BY <1>3, <2>1, <2>4, <3>3 DEF Precheck
      <4>2. ASSUME ~late, Known PROVE Passed'
        <5>1. \A n \in DOMAIN batch : n < i + 1 => n < i \/ n = i
          BY <1>0, <3>2
        <5>2. \A n \in DOMAIN batch : n < i + 1 => ~Stale(n)
          BY <1>0, <2>1, <3>1, <4>2, <5>1
        <5> QED BY <1>1, <2>1, <4>1, <5>2
      <4> QED BY <1>0, <2>1, <2>2, <4>1, <4>2 DEF Untouched
    <3>4. CASE ~(i < Len(batch))
      <4>1. pc' = "apply" /\ i' = 1
        BY <1>3, <2>1, <2>4, <3>4 DEF Precheck
      <4>2. late \/ ~Known
        <5>1. \A n \in DOMAIN batch : n < i \/ n = i
          BY <1>0, <2>1, <3>4
        <5> QED BY <1>0, <2>1, <3>1, <5>1
      <4> QED BY <2>1, <2>2, <4>1, <4>2 DEF Untouched
    <3> QED BY <3>3, <3>4
  <2> QED BY <2>3, <2>4
<1>4. CASE Check \/ MakeDirectories \/ Save \/ Write \/ Fault \/ Discard \/ RollBack \/ RolledBack
  <2>1. /\ UNCHANGED <<base, batch, world, late>> /\ pc \in {"apply", "rollback", "discard"}
        /\ pc' \notin {"idle", "precheck"}
    BY <1>4 DEF Check, MakeDirectories, Save, Write, Fault, Discard, RollBack, RolledBack,
                Fail, Op, fixed, ghosts
  <2>2. late \/ ~Known
    BY <1>0, <2>1
  <2>3. Known' <=> Known
    BY <1>1, <2>1
  <2> QED BY <2>1, <2>2, <2>3 DEF Untouched
<1>5. CASE Crash
  <2>1. /\ UNCHANGED <<base, batch, world, disk, undo, i, late>> /\ pc' = "crashed" /\ pc # "idle"
    BY <1>5 DEF Crash, fixed, ghosts, Running
  <2>2. Known' <=> Known
    BY <1>1, <2>1
  <2> QED BY <1>0, <2>1, <2>2 DEF Untouched
<1>6. ASSUME NEW e \in Changes, ExternalEdit(e) PROVE Untouched'
  <2>1. /\ UNCHANGED <<pc, undo, i>> /\ (pc = "idle" \/ late')
        /\ disk' = Apply(disk, e)
        /\ disk = world => world' = Apply(world, e)
    BY <1>6 DEF ExternalEdit, Running
  <2> QED BY <1>0, <2>1 DEF Untouched
<1>7. CASE UNCHANGED vars
  <2>1. /\ UNCHANGED <<base, batch, world, disk, undo, i, late, pc>>
    BY <1>7 DEF vars
  <2>2. (Known' <=> Known) /\ (Passed' <=> Passed)
    BY <1>1, <2>1
  <2> QED BY <1>0, <2>1, <2>2 DEF Untouched
<1> QED BY <1>2, <1>3, <1>4, <1>5, <1>6, <1>7 DEF Next

-----------------------------------------------------------------------------
(* A batch that was planned can be replayed change by change.              *)

(* A non-empty set of numbers has a least element.                         *)
LEMMA LeastNat ==
    ASSUME NEW T \in SUBSET Nat, T # {}
    PROVE  \E x \in T : \A y \in T : x <= y
<1>1. PICK x \in T : \A y \in T : <<y, x>> \notin OpToRel(<, Nat)
  BY NatLessThanWellFounded, WFMin
<1>2. \A y \in T : ~(y < x)
  BY <1>1 DEF OpToRel
<1> QED BY <1>2

\* One step of the replay in Planned, after the steps in g.
Replay(g, b, changes, n) ==
    IF n = 0 THEN [ok |-> TRUE, tree |-> b]
    ELSE IF g[n-1].ok /\ Valid(g[n-1].tree, changes[n])
         THEN [ok |-> TRUE, tree |-> Apply(g[n-1].tree, changes[n])]
         ELSE [ok |-> FALSE, tree |-> g[n-1].tree]

IsReplay(g, b, changes, m) == g = [n \in 0 .. m |-> Replay(g, b, changes, n)]

(* The recursion of Planned defines a function, for any number of changes. *)
LEMMA ReplayExists ==
    ASSUME NEW b, NEW changes, NEW m \in Nat
    PROVE  \E g : IsReplay(g, b, changes, m)
<1> DEFINE E(k) == \E g : g = [n \in 0 .. k |-> Replay(g, b, changes, n)]
           T == {k \in Nat : ~E(k)}
<1>1. SUFFICES ASSUME T # {} PROVE FALSE
  BY Zenon DEF IsReplay
<1>2. PICK k \in T : \A y \in T : k <= y
  <2> HIDE DEF E
  <2> QED BY <1>1, LeastNat
<1>3. k # 0
  <2>1. SUFFICES ASSUME k = 0 PROVE E(0)
    BY <1>2
  <2> DEFINE g == [n \in 0 .. 0 |-> [ok |-> TRUE, tree |-> b]]
  <2>2. g = [n \in 0 .. 0 |-> Replay(g, b, changes, n)]
    BY DEF Replay
  <2> QED BY <2>2
<1>4. k \in Nat /\ k - 1 \in Nat /\ k - 1 \notin T
  <2> HIDE DEF T
  <2>1. T \subseteq Nat
    BY DEF T
  <2> QED BY <1>2, <1>3, <2>1
<1>5. E(k - 1)
  BY <1>4
<1>6. PICK h : h = [n \in 0 .. (k - 1) |-> Replay(h, b, changes, n)]
  BY <1>5
<1> DEFINE g == [n \in 0 .. k |-> IF n = k THEN Replay(h, b, changes, k) ELSE h[n]]
<1>7. ASSUME NEW n \in 0 .. k PROVE g[n] = Replay(g, b, changes, n)
  <2>1. CASE n = 0
    BY <1>3, <1>4, <1>6, <2>1 DEF Replay
  <2>2. CASE n # 0
    <3>1. n - 1 \in 0 .. (k - 1) /\ n - 1 \in 0 .. k /\ n - 1 # k
      BY <1>4, <2>2
    <3>2. g[n - 1] = h[n - 1]
      BY <3>1
    <3>3. Replay(g, b, changes, n) = Replay(h, b, changes, n)
      <4> HIDE DEF g
      <4> QED BY <3>2 DEF Replay
    <3>4. g[n] = IF n = k THEN Replay(h, b, changes, k) ELSE h[n]
      OBVIOUS
    <3>5. n # k => h[n] = Replay(h, b, changes, n)
      <4>1. n # k => n \in 0 .. (k - 1)
        BY <1>4
      <4> QED BY <1>6, <4>1
    <3> QED BY <3>3, <3>4, <3>5
  <2> QED BY <2>1, <2>2
<1>8. g = [n \in 0 .. k |-> g[n]]
  OBVIOUS
<1>9. g = [n \in 0 .. k |-> Replay(g, b, changes, n)]
  <2> HIDE DEF g
  <2> QED BY <1>7, <1>8
<1>10. E(k)
  <2> HIDE DEF g
  <2> QED BY <1>9
<1> QED BY <1>2, <1>10

(* A batch accepted by Planned goes through a tree for each change.        *)
LEMMA PlanExists ==
    ASSUME NEW b, NEW changes \in Seq(Changes), Planned(b, changes).ok
    PROVE  \E f : /\ f[0] = b
                  /\ \A n \in DOMAIN changes :
                        Valid(f[n-1], changes[n]) /\ f[n] = Apply(f[n-1], changes[n])
                  /\ f[Len(changes)] = Planned(b, changes).tree
<1> DEFINE L == Len(changes)
           at == CHOOSE g : IsReplay(g, b, changes, L)
<1>0. L \in Nat /\ DOMAIN changes = 1 .. L
  OBVIOUS
<1>1. at = [n \in 0 .. L |-> Replay(at, b, changes, n)]
  <2> HIDE DEF L
  <2>1. \E g : IsReplay(g, b, changes, L)
    BY <1>0, ReplayExists
  <2>2. IsReplay(at, b, changes, L)
    BY <2>1, Zenon
  <2> HIDE DEF at
  <2> QED BY <2>2, Zenon DEF IsReplay
<1>2. at[L].ok /\ Planned(b, changes) = at[L]
  BY Zenon DEF Planned, IsReplay, Replay
<1> HIDE DEF at, L
<1>3. \A n \in 0 .. L : at[n] = Replay(at, b, changes, n)
  BY <1>1, Zenon
<1>4. ASSUME NEW n \in 0 .. L, n # 0, at[n].ok
      PROVE  /\ at[n-1].ok /\ Valid(at[n-1].tree, changes[n])
             /\ at[n].tree = Apply(at[n-1].tree, changes[n])
  <2>1. at[n] = Replay(at, b, changes, n)
    BY <1>3
  <2>2. CASE at[n-1].ok /\ Valid(at[n-1].tree, changes[n])
    <3>1. at[n] = [ok |-> TRUE, tree |-> Apply(at[n-1].tree, changes[n])]
      BY <1>4, <2>1, <2>2, Zenon DEF Replay
    <3> QED BY <2>2, <3>1
  <2>3. CASE ~(at[n-1].ok /\ Valid(at[n-1].tree, changes[n]))
    <3>1. at[n] = [ok |-> FALSE, tree |-> at[n-1].tree]
      BY <1>4, <2>1, <2>3, Zenon DEF Replay
    <3>2. ~at[n].ok
      BY <3>1
    <3> QED BY <1>4, <3>2
  <2> QED BY <2>2, <2>3
<1>5. \A n \in 0 .. L : at[n].ok
  <2> DEFINE T == {k \in 0 .. L : ~at[L - k].ok}
  <2>1. SUFFICES ASSUME T # {} PROVE FALSE
    <3>1. ASSUME T = {}, NEW n \in 0 .. L PROVE at[n].ok
      <4>1. L - n \in 0 .. L /\ L - (L - n) = n
        BY <1>0
      <4> QED BY <3>1, <4>1
    <3> QED BY <3>1
  <2>2. T \subseteq Nat
    BY <1>0
  <2>3. PICK k \in T : \A y \in T : k <= y
    <3> HIDE DEF T
    <3> QED BY <2>1, <2>2, LeastNat
  <2>4. k \in 0 .. L /\ ~at[L - k].ok
    OBVIOUS
  <2>5. k # 0
    BY <1>0, <1>2, <2>4
  <2>6. k - 1 \in 0 .. L /\ k - 1 \notin T
    <3>1. k - 1 \in 0 .. L /\ ~(k <= k - 1)
      BY <1>0, <2>4, <2>5
    <3> HIDE DEF T
    <3> QED BY <2>3, <3>1
  <2>7. at[L - (k - 1)].ok
    BY <2>6
  <2>8. L - (k - 1) \in 0 .. L /\ L - (k - 1) # 0 /\ (L - (k - 1)) - 1 = L - k
    BY <1>0, <2>4, <2>5
  <2> HIDE DEF T
  <2> QED BY <1>4, <2>4, <2>7, <2>8
<1> DEFINE f == [n \in 0 .. L |-> at[n].tree]
<1>6. f[0] = b
  <2>1. 0 \in 0 .. L
    BY <1>0
  <2>2. f[0] = at[0].tree /\ at[0] = Replay(at, b, changes, 0)
    BY <1>3, <2>1
  <2>3. at[0] = [ok |-> TRUE, tree |-> b]
    BY <2>2, Zenon DEF Replay
  <2> QED BY <2>2, <2>3
<1>7. ASSUME NEW n \in DOMAIN changes
      PROVE  Valid(f[n-1], changes[n]) /\ f[n] = Apply(f[n-1], changes[n])
  <2>1. n \in 0 .. L /\ n # 0 /\ n - 1 \in 0 .. L
    BY <1>0 DEF L
  <2>2. f[n] = at[n].tree /\ f[n-1] = at[n-1].tree
    BY <2>1
  <2> HIDE DEF f
  <2> QED BY <1>4, <1>5, <2>1, <2>2
<1>8. f[Len(changes)] = Planned(b, changes).tree
  <2>1. L \in 0 .. L
    BY <1>0
  <2> QED BY <1>2, <2>1 DEF L
<1> HIDE DEF f
<1> QED BY <1>6, <1>7, <1>8

(* The entry the batch is at is valid where the plan has come to.          *)
LEMMA ChangeValid ==
    ASSUME Types, Follows, pc = "apply"
    PROVE  Valid(expected, change)
<1>1. PICK f : Plan(f) /\ expected = f[i - 1]
  BY DEF Follows, Landing
<1> QED BY <1>1 DEF Plan, Types, change

(* `expected` follows the plan from change to change.                      *)
LEMMA FollowsNext == ASSUME Types, Follows, [Next]_vars PROVE Follows'
<1>1. PICK f : /\ Plan(f)
               /\ pc \in {"idle", "precheck"} => expected = base
               /\ Landing => expected = f[i - 1]
  BY DEF Follows
<1>2. UNCHANGED <<base, batch>>
  BY DEF Next, Begin, Precheck, Check, MakeDirectories, Save, Write, Fault, Discard,
         RollBack, RolledBack, Crash, ExternalEdit, Fail, vars, fixed
<1>3. Plan(f)'
  BY <1>1, <1>2 DEF Plan
<1>4. /\ pc' \in {"idle", "precheck"} => expected' = base'
      /\ Landing' => expected' = f[i' - 1]
  <2>1. CASE Precheck
    <3>1. pc = "precheck" /\ expected' = expected /\ (Landing' => i' = 1)
          /\ pc' \in {"precheck", "apply", "failed"}
      BY <2>1 DEF Precheck, Landing
    <3>2. f[0] = base /\ 1 - 1 = 0
      BY <1>1 DEF Plan
    <3> QED BY <1>1, <1>2, <3>1, <3>2
  <2>2. CASE Write
    <3>1. pc = "apply" /\ pc' \notin {"idle", "precheck"} /\ i \in DOMAIN batch /\ i \in Nat
          /\ (Landing' => expected' = Apply(expected, change) /\ i' = i + 1) /\ Landing
      BY <2>2 DEF Write, Fail, Types, Landing
    <3>2. f[i] = Apply(f[i - 1], batch[i]) /\ (i + 1) - 1 = i
      BY <1>1, <3>1 DEF Plan
    <3> QED BY <1>1, <3>1, <3>2 DEF change
  <2>3. CASE \/ Begin \/ Check \/ MakeDirectories \/ Save \/ Fault \/ Discard \/ RollBack
             \/ RolledBack \/ Crash \/ (\E e \in Changes : ExternalEdit(e)) \/ UNCHANGED vars
    <3>1. /\ UNCHANGED <<expected, i>>
          /\ pc' \in {"idle", "precheck"} => pc \in {"idle", "precheck"}
          /\ Landing' => Landing
      BY <2>3 DEF Begin, Check, MakeDirectories, Save, Fault, Discard, RollBack, RolledBack,
                  Crash, ExternalEdit, Fail, vars, Op, Landing
    <3> QED BY <1>1, <1>2, <3>1
  <2> QED BY <2>1, <2>2, <2>3 DEF Next
<1> QED BY <1>3, <1>4 DEF Follows

-----------------------------------------------------------------------------
(* Edits of others meet the batch only where it has already been.          *)

(* An edit changes files at or below its key only.                         *)
LEMMA EditedBelow ==
    ASSUME NEW t \in Tree, NEW e \in Changes, NEW p \in Paths,
           Apply(t, e).files[p] # t.files[p]
    PROVE  p \in AtOrBelow(e.key) /\ e.key \in Paths
<1>1. e.key \in Paths /\ e.op \in {"CreateFile", "ReplaceFile", "RemoveFile",
                                   "CreateDirectory", "RemoveDirectory"}
  BY DEF Changes
<1>2. CASE e.op \in {"CreateFile", "ReplaceFile"}
  BY <1>1, <1>2 DEF Apply, InsertFile, Tree, FileMap, AtOrBelow
<1>3. CASE e.op = "RemoveFile"
  BY <1>1, <1>3 DEF Apply, RemoveFile, Tree, FileMap, AtOrBelow
<1>4. CASE e.op = "CreateDirectory"
  BY <1>1, <1>4 DEF Apply, InsertDirectory
<1>5. CASE e.op = "RemoveDirectory"
  BY <1>1, <1>5 DEF Apply, RemoveDirectory
<1> QED BY <1>1, <1>2, <1>3, <1>4, <1>5

(* Two keys with an entry below both are one above the other.              *)
LEMMA CommonBelow ==
    ASSUME NEW a \in Paths, NEW b \in Paths, NEW p \in Paths,
           p \in AtOrBelow(a), p \in AtOrBelow(b)
    PROVE  Related(a, b)
BY PathsAssumption DEF AtOrBelow, Related

(* What the batch left at a key stays its own while it goes on.            *)
LEMMA CleanGrows ==
    ASSUME NEW b, NEW k \in Nat, NEW l \in Nat, k <= l, DOMAIN b \subseteq Nat,
           NEW files, NEW u, Clean(b, k, files, u)
    PROVE  Clean(b, l, files, u)
<1>1. \A n \in DOMAIN b : n <= k => n <= l
  OBVIOUS
<1> QED BY <1>1 DEF Clean, LeftBy

(* A new entry whose backup holds clean bytes keeps the journal clean.     *)
LEMMA CleanJournalGrows ==
    ASSUME NEW S, NEW q \in Seq(S), NEW T, NEW r \in Seq(T),
           NEW b, NEW k \in Nat, NEW l \in Nat, k <= l, DOMAIN b \subseteq Nat,
           NEW files, NEW after,
           CleanJournal(b, k, files, q),
           \A n \in DOMAIN q : n \in DOMAIN r /\ r[n] = q[n],
           \A n \in DOMAIN r \ DOMAIN q : \A m \in DOMAIN q : m < n,
           \A n \in DOMAIN q : Clean(b, l, after, q[n]),
           \A n \in DOMAIN r \ DOMAIN q :
              /\ Clean(b, l, after, r[n])
              /\ r[n].op = "Restore" =>
                    /\ \A m \in DOMAIN q : Clean(b, l, r[n].saved.files, q[m])
                    /\ \A m \in DOMAIN r \ DOMAIN q : m = n
    PROVE  CleanJournal(b, l, after, r)
<1>0. DOMAIN q \subseteq Nat /\ DOMAIN r \subseteq Nat
  OBVIOUS
<1>1. ASSUME NEW n \in DOMAIN r PROVE Clean(b, l, after, r[n])
  BY <1>1
<1>2. ASSUME NEW n \in DOMAIN r, r[n].op = "Restore", NEW m \in DOMAIN r, m < n
      PROVE  Clean(b, l, r[n].saved.files, r[m])
  <2>1. CASE n \in DOMAIN q
    <3>1. m \in DOMAIN q
      <4>1. m \notin DOMAIN q => n < m
        BY <2>1
      <4> QED BY <1>0, <1>2, <4>1
    <3>2. Clean(b, k, q[n].saved.files, q[m]) /\ r[n] = q[n] /\ r[m] = q[m]
      BY <1>2, <2>1, <3>1 DEF CleanJournal
    <3> QED BY <3>2, CleanGrows
  <2>2. CASE n \notin DOMAIN q
    <3>1. m \in DOMAIN q
      BY <1>0, <1>2, <2>2
    <3> QED BY <1>2, <2>2, <3>1
  <2> QED BY <2>1, <2>2
<1> QED BY <1>1, <1>2 DEF CleanJournal

(* Only an edit after the check comes between check and write.             *)
LEMMA WindowNext == ASSUME Types, Follows, Window, [Next]_vars PROVE Window'
<1>0. /\ pc = "apply" /\ step # "check" /\ ~raced /\ batch[i].op \in Removals =>
            \A p \in Touches(batch[i]) : disk.files[p] = expected.files[p]
      /\ disk \in Tree
  BY DEF Window, Types
<1>1. CASE Check
  <2>1. /\ UNCHANGED <<disk, expected, batch, i, raced>> /\ pc = "apply"
        /\ change.op \in Removals
    BY <1>1 DEF Check, Fail, Op, fixed, ghosts, Removals
  <2>2. ASSUME pc' = "apply", NEW p \in Touches(change)
        PROVE  disk.files[p] = expected.files[p]
    <3>1. Unchanged(expected, change)
      BY <1>1, <2>2 DEF Check, Fail
    <3>2. Valid(expected, change) /\ change.key \in Paths
      BY <2>1, ChangeValid, ChangeFacts
    <3>3. CASE change.op \in {"ReplaceFile", "RemoveFile"}
      <4>1. change.key \in FilesOf(expected) /\ p = change.key
        BY <2>2, <3>2, <3>3 DEF Valid, Touches
      <4> QED BY <3>1, <3>3, <4>1 DEF Unchanged, FileUnchanged
    <3>4. CASE change.op = "RemoveDirectory"
      <4>1. change.key \in expected.dirs /\ p \in AtOrBelow(change.key)
        BY <2>2, <3>2, <3>4 DEF Valid, Touches
      <4> QED BY <3>1, <3>4, <4>1 DEF Unchanged, DirectoryUnchanged
    <3> QED BY <2>1, <3>3, <3>4 DEF Removals
  <2> QED BY <2>1, <2>2 DEF Window, change
<1>2. CASE MakeDirectories
  <2>1. UNCHANGED <<batch, i>> /\ change.op \notin Removals
    BY <1>2 DEF MakeDirectories, Op, Fail, fixed, Removals
  <2> QED BY <2>1 DEF Window, change
<1>3. CASE Save
  <2>1. (UNCHANGED <<batch, i, disk, expected, raced, pc>> \/ pc' = "rollback")
    BY <1>3 DEF Save, Op, Fail, fixed, ghosts
  <2>2. pc = "apply" /\ step = "save"
    BY <1>3 DEF Save, Op
  <2> QED BY <1>0, <2>1, <2>2 DEF Window
<1>4. CASE Write
  BY <1>4 DEF Window, Write, Fail
<1>5. CASE Fault \/ Discard \/ RollBack \/ RolledBack \/ Crash \/ Begin
  BY <1>5 DEF Window, Fault, Discard, RollBack, RolledBack, Crash, Begin, Fail
<1>6. CASE Precheck
  <2>1. step' = "check"
    BY <1>6 DEF Precheck, Types
  <2> QED BY <2>1 DEF Window
<1>7. ASSUME NEW e \in Changes, ExternalEdit(e) PROVE Window'
  <2>1. /\ UNCHANGED <<pc, step, batch, i, expected>> /\ disk' = Apply(disk, e)
        /\ raced' = (raced \/ Committed(e.key) \/ ~Valid(world, e))
    BY <1>7 DEF ExternalEdit, fixed
  <2>2. ASSUME pc = "apply", step # "check", ~raced', batch[i].op \in Removals,
               NEW p \in Touches(batch[i]), disk'.files[p] # disk.files[p]
        PROVE  FALSE
    <3>1. i \in DOMAIN batch /\ batch[i].key \in Paths
      BY <2>2, ChangeFacts DEF change
    <3>2. p \in AtOrBelow(batch[i].key) /\ p \in Paths
      BY <2>2, <3>1 DEF Touches, AtOrBelow
    <3>3. p \in AtOrBelow(e.key) /\ e.key \in Paths
      BY <1>0, <2>1, <2>2, <3>2, EditedBelow
    <3>4. Related(batch[i].key, e.key)
      BY <3>1, <3>2, <3>3, CommonBelow
    <3>5. Committed(e.key)
      BY <2>2, <3>1, <3>4 DEF Committed
    <3> QED BY <2>1, <2>2, <3>5
  <2>3. ~raced' => ~raced
    BY <2>1
  <2> QED BY <1>0, <2>1, <2>2, <2>3 DEF Window
<1>8. CASE UNCHANGED vars
  BY <1>0, <1>8 DEF Window, vars
<1> QED BY <1>1, <1>2, <1>3, <1>4, <1>5, <1>6, <1>7, <1>8 DEF Next

(* Neither a write nor an undo overwrites an edit that did not race.       *)
LEMMA LostNext ==
    ASSUME Types, LostOnlyInRace, Window, Journaled, [Next]_vars
    PROVE  LostOnlyInRace'
<1>0. lost # {} => raced
  BY DEF LostOnlyInRace
<1>1. CASE Write
  <2>1. /\ raced' = raced /\ pc = "apply" /\ step = "write"
        /\ lost' # lost => Overwrites
    BY <1>1 DEF Write, Fail, ghosts
  <2>2. Overwrites => raced
    BY <2>1 DEF Overwrites, Window, change, Removals
  <2> QED BY <1>0, <2>1, <2>2 DEF LostOnlyInRace
<1>2. CASE RollBack
  <2>1. raced' = raced /\ pc = "rollback"
    BY <1>2 DEF RollBack, ghosts
  <2> DEFINE u == Last(undo)
  <2>2. /\ Len(undo) \in DOMAIN undo /\ u = undo[Len(undo)] /\ EntryOk(u)
        /\ lost' # lost => UndoOk(disk, u) /\ UndoOverwrites(u)
    BY <1>2, RollBackFacts
  <2> HIDE DEF u
  <2>3. ASSUME ~raced, UndoOk(disk, u), UndoOverwrites(u) PROVE FALSE
    <3>1. Clean(batch, i, disk.files, u)
      BY <2>1, <2>2, <2>3 DEF Journaled, CleanJournal
    <3>2. u.op # "RemoveCreatedDir"
      BY <2>3 DEF UndoOk, UndoOverwrites, Types, WellFormed
    <3>3. /\ disk.files[u.key] # NoFile /\ disk.files[u.key] \notin BatchLeft(u.key)
          /\ u.op = "Restore" => disk.files[u.key] # u.saved.files[u.key]
      BY <2>3 DEF UndoOverwrites, FilesOf, Keys
    <3>4. BatchLeft(u.key) = LeftBy(batch, i, u.key)
      BY DEF BatchLeft, LeftBy
    <3> QED BY <3>1, <3>2, <3>3, <3>4 DEF Clean
  <2> QED BY <1>0, <2>1, <2>2, <2>3 DEF LostOnlyInRace
<1>3. CASE \/ Begin \/ Precheck \/ Check \/ MakeDirectories \/ Save \/ Fault \/ Discard
           \/ RolledBack \/ Crash \/ UNCHANGED vars
  <2>1. lost' = lost /\ raced' = raced
    BY <1>3 DEF Begin, Precheck, Check, MakeDirectories, Save, Fault, Discard, RolledBack,
                Crash, Fail, vars, ghosts
  <2> QED BY <1>0, <2>1 DEF LostOnlyInRace
<1>4. ASSUME NEW e \in Changes, ExternalEdit(e) PROVE LostOnlyInRace'
  <2>1. lost' = lost /\ raced' = (raced \/ Committed(e.key) \/ ~Valid(world, e))
    BY <1>4 DEF ExternalEdit
  <2>2. raced => raced'
    BY <2>1, Zenon
  <2> QED BY <1>0, <2>1, <2>2 DEF LostOnlyInRace
<1> QED BY <1>1, <1>2, <1>3, <1>4 DEF Next

(* Every step keeps the journal clean until an edit races.                 *)
LEMMA JournaledNext == ASSUME Types, Untouched, Journaled, [Next]_vars PROVE Journaled'
<1> DEFINE All == \A n \in DOMAIN undo : Visited(undo[n])
           backup == [op |-> "Restore", key |-> change.key,
                      saved |-> Subtree(disk, change.key)]
<1>0. /\ pc \in {"apply", "rollback"} =>
            All /\ (~raced => CleanJournal(batch, i, disk.files, undo))
      /\ disk \in Tree /\ WellFormed(disk) /\ i \in Nat /\ DOMAIN batch \subseteq Nat
      /\ \A n \in DOMAIN undo : EntryOk(undo[n])
  BY DEF Journaled, Types
\* What an entry of the journal needs to stay visited, and clean.
<1>1. ASSUME All, batch' = batch, NEW n \in DOMAIN undo, n \in DOMAIN undo', undo'[n] = undo[n],
             \A m \in DOMAIN batch : Reached(m) => Reached(m)'
      PROVE  Visited(undo[n])'
  <2>1. Visited(undo[n])
    BY <1>1
  <2> QED BY <1>1, <2>1 DEF Visited
<1>2. CASE Check \/ Fault \/ (Save /\ change.key \notin FilesOf(disk)) \/ (Write /\ ~WriteOk)
  <2>1. /\ UNCHANGED <<batch, i, disk, undo, raced>> /\ pc = "apply" /\ pc' \in {"apply", "rollback"}
        /\ \A m \in DOMAIN batch : Reached(m) => Reached(m)'
    BY <1>2 DEF Check, Fault, Save, Write, Fail, Op, fixed, ghosts, Reached
  <2>2. All'
    BY <1>0, <1>1, <2>1
  <2> QED BY <1>0, <2>1, <2>2 DEF Journaled, CleanJournal, Clean, LeftBy
<1>3. CASE MakeDirectories
  <2>1. /\ UNCHANGED <<batch, i, raced>> /\ pc = "apply" /\ pc' \in {"apply", "rollback"}
        /\ \A m \in DOMAIN batch : Reached(m) => Reached(m)'
    BY <1>3 DEF MakeDirectories, Fail, Op, fixed, ghosts, Reached
  <2>2. /\ disk'.files = disk.files
        /\ \A n \in DOMAIN undo : n \in DOMAIN undo' /\ undo'[n] = undo[n]
        /\ \A n \in DOMAIN undo' \ DOMAIN undo : undo'[n].op = "RemoveCreatedDir"
    BY <1>3, MakeDirectoriesFacts
  <2>3. PICK S, T : undo \in Seq(S) /\ undo' \in Seq(T)
    BY <1>3, MakeDirectoriesFacts DEF Types
  <2>4. \A n \in DOMAIN undo' \ DOMAIN undo : \A m \in DOMAIN undo : m < n
    BY <2>2, <2>3
  <2>5. All'
    <3>1. \A n \in DOMAIN undo' \ DOMAIN undo : Visited(undo[n])'
      BY <2>2 DEF Visited
    <3>2. \A n \in DOMAIN undo : Visited(undo[n])'
      BY <1>0, <1>1, <2>1, <2>2
    <3> QED BY <3>1, <3>2
  <2>6. ASSUME ~raced PROVE CleanJournal(batch, i, disk'.files, undo')
    <3>1. CleanJournal(batch, i, disk.files, undo)
      BY <1>0, <2>1, <2>6
    <3>2. \A n \in DOMAIN undo : Clean(batch, i, disk'.files, undo[n])
      BY <2>2, <3>1 DEF CleanJournal
    <3>3. \A n \in DOMAIN undo' \ DOMAIN undo :
             Clean(batch, i, disk'.files, undo'[n]) /\ undo'[n].op # "Restore"
      BY <2>2 DEF Clean
    <3>4. i <= i
      BY <1>0
    <3> QED BY <1>0, <2>2, <2>3, <2>4, <3>1, <3>2, <3>3, <3>4, CleanJournalGrows
  <2>7. ~raced' => CleanJournal(batch', i', disk'.files, undo')
    BY <2>1, <2>6
  <2> QED BY <2>5, <2>7 DEF Journaled
<1>4. ASSUME pc = "apply", NEW files, ~raced,
             files = Subtree(disk, change.key).files, NEW n \in DOMAIN undo
      PROVE  Clean(batch, i, files, undo[n])
  <2>1. Clean(batch, i, disk.files, undo[n]) /\ EntryOk(undo[n])
    BY <1>0, <1>4 DEF CleanJournal
  <2>2. undo[n].op # "RemoveCreatedDir" => undo[n].key \in Paths
    BY <2>1 DEF EntryOk
  <2>3. \A p \in Paths : files[p] = NoFile \/ files[p] = disk.files[p]
    BY <1>0, <1>4, SubtreeFacts, ChangeFacts
  <2> QED BY <2>1, <2>2, <2>3 DEF Clean
<1>5. CASE Save /\ change.key \in FilesOf(disk)
  <2>1. /\ UNCHANGED <<batch, i, raced, disk, pc>> /\ pc = "apply" /\ step' = "write"
        /\ \A m \in DOMAIN batch : Reached(m) => Reached(m)'
    BY <1>5 DEF Save, Fail, Op, fixed, ghosts, Reached
  <2>2. /\ \A n \in DOMAIN undo : n \in DOMAIN undo' /\ undo'[n] = undo[n]
        /\ \A n \in DOMAIN undo' \ DOMAIN undo :
              undo'[n] = backup /\ \A m \in DOMAIN undo : m < n
    BY <1>5, SaveFacts
  <2>3. PICK S, T : undo \in Seq(S) /\ undo' \in Seq(T)
    BY <1>5, SaveFacts DEF Types
  <2>4. \A n, m \in DOMAIN undo' \ DOMAIN undo : m = n
    BY <1>5, <2>3, SaveFacts
  <2>5. change.key \in Paths /\ i \in DOMAIN batch /\ change = batch[i]
    BY <2>1, ChangeFacts DEF change
  <2>6. /\ backup.op = "Restore" /\ backup.key = change.key
        /\ backup.saved = Subtree(disk, change.key)
        /\ backup.saved.files[change.key] = disk.files[change.key]
    BY <1>0, <2>5, SubtreeFacts DEF AtOrBelow
  <2> HIDE DEF backup
  <2>7. All'
    <3>1. Reached(i)'
      BY <2>1 DEF Reached
    <3>2. \A n \in DOMAIN undo' \ DOMAIN undo : Visited(undo[n])'
      BY <2>1, <2>2, <2>5, <2>6, <3>1 DEF Visited
    <3>3. \A n \in DOMAIN undo : Visited(undo[n])'
      BY <1>0, <1>1, <2>1, <2>2
    <3> QED BY <3>2, <3>3
  <2>8. ASSUME ~raced PROVE CleanJournal(batch, i, disk.files, undo')
    <3>1. CleanJournal(batch, i, disk.files, undo)
      BY <1>0, <2>1, <2>8
    <3>2. \A n \in DOMAIN undo : Clean(batch, i, disk.files, undo[n])
      BY <3>1 DEF CleanJournal
    <3>3. Clean(batch, i, disk.files, backup)
      BY <2>6 DEF Clean
    <3>4. \A n \in DOMAIN undo : Clean(batch, i, backup.saved.files, undo[n])
      BY <1>4, <2>1, <2>6, <2>8
    <3>5. i <= i
      BY <1>0
    <3> QED BY <1>0, <2>2, <2>3, <2>4, <3>1, <3>2, <3>3, <3>4, <3>5, CleanJournalGrows
  <2>9. ~raced' => CleanJournal(batch', i', disk'.files, undo')
    BY <2>1, <2>8
  <2> QED BY <2>7, <2>9 DEF Journaled
<1>6. CASE Write /\ WriteOk /\ pc' # "apply"
  <2>1. pc' \notin {"apply", "rollback"}
    BY <1>6 DEF Write
  <2> QED BY <2>1 DEF Journaled
<1>7. CASE Write /\ WriteOk /\ pc' = "apply"
  <2>1. /\ UNCHANGED <<batch, raced>> /\ pc = "apply" /\ i' = i + 1 /\ step = "write"
    BY <1>7 DEF Write, fixed, ghosts
  <2>2. /\ \A n \in DOMAIN undo : n \in DOMAIN undo' /\ undo'[n] = undo[n]
        /\ \A n \in DOMAIN undo' \ DOMAIN undo :
              Record = <<undo'[n]>> /\ \A m \in DOMAIN undo : m < n
        /\ \A n, m \in DOMAIN undo' \ DOMAIN undo : n = m
        /\ disk' = Written
    BY <1>7, WriteFacts
  <2>3. PICK S, T : undo \in Seq(S) /\ undo' \in Seq(T)
    BY <1>7, WriteFacts DEF Types
  <2>4. /\ change.key \in Paths /\ i \in DOMAIN batch /\ change = batch[i]
        /\ change.op \in {"CreateFile", "ReplaceFile", "RemoveFile",
                          "CreateDirectory", "RemoveDirectory"}
        /\ change.op \in {"CreateFile", "ReplaceFile"} => change.bytes \in Bytes
    BY <2>1, ChangeFacts DEF change
  <2>5. /\ i + 1 \in Nat /\ i <= i + 1 /\ i < i + 1
        /\ \A m \in DOMAIN batch : m < i \/ m = i => m < i + 1
    BY <1>0
  <2>6. change.op \in {"CreateFile", "ReplaceFile"} =>
           change.bytes \in LeftBy(batch, i + 1, change.key)
    BY <2>4, <2>5 DEF LeftBy
  <2>7. /\ change.op \in {"CreateFile", "ReplaceFile"} =>
              \A p \in Paths : disk'.files[p] = IF p = change.key THEN change.bytes
                                                ELSE disk.files[p]
        /\ change.op \in {"RemoveFile", "RemoveDirectory"} =>
              /\ \A p \in Paths : disk'.files[p] \in {NoFile, disk.files[p]}
              /\ disk'.files[change.key] = NoFile
        /\ change.op = "CreateDirectory" => disk' = disk
    <3>1. CASE change.op \in {"CreateFile", "ReplaceFile"}
      BY <1>0, <2>2, <2>4, <3>1 DEF Written, InsertFile, Tree, FileMap
    <3>2. CASE change.op \in {"RemoveFile", "RemoveDirectory"}
      <4>1. \A p \in Paths : disk'.files[p]
               = IF p \in AtOrBelow(change.key) THEN NoFile ELSE disk.files[p]
        BY <1>0, <2>2, <2>4, <3>2, RemoveDirectoryFacts DEF Written
      <4> QED BY <2>4, <3>2, <4>1 DEF AtOrBelow
    <3>3. CASE change.op = "CreateDirectory"
      BY <2>2, <3>3 DEF Written
    <3> QED BY <2>4, <3>1, <3>2, <3>3
  <2>8. \A p \in Paths : \/ disk'.files[p] \in {NoFile, disk.files[p]}
                         \/ disk'.files[p] \in LeftBy(batch, i + 1, p)
    BY <2>4, <2>6, <2>7
  <2>9. ASSUME NEW u, Record = <<u>>
        PROVE  /\ u.key = change.key /\ u.op # "RemoveCreatedDir"
               /\ u.op = "Restore" => u.saved = Subtree(disk, change.key)
                                      /\ disk'.files[change.key] = NoFile
               /\ Clean(batch, i + 1, disk'.files, u)
    <3>1. Record # <<>>
      BY <2>9
    <3>2. CASE change.op = "CreateFile"
      <4>1. Record = <<[op |-> "RemoveCreatedFile", key |-> change.key]>>
        BY <3>2 DEF Record
      <4>2. u = [op |-> "RemoveCreatedFile", key |-> change.key]
        <5> HIDE DEF Record
        <5> QED BY <2>9, <4>1
      <4>3. disk'.files[change.key] \in LeftBy(batch, i + 1, change.key)
        BY <2>4, <2>6, <2>7, <3>2
      <4> QED BY <4>2, <4>3 DEF Clean
    <3>3. CASE change.op \in {"RemoveFile", "RemoveDirectory"}
      <4>1. Record = <<backup>>
        BY <3>3 DEF Record
      <4>2. u = backup
        <5> HIDE DEF Record, backup
        <5> QED BY <2>9, <4>1
      <4>3. disk'.files[change.key] = NoFile
        BY <2>7, <3>3
      <4> QED BY <4>2, <4>3 DEF Clean
    <3> QED BY <2>4, <3>1, <3>2, <3>3 DEF Record
  <2>10. All'
    <3>0. PICK j \in DOMAIN batch : j = i
      BY <2>4
    <3>1. Reached(j)' /\ \A m \in DOMAIN batch : Reached(m) => Reached(m)'
      BY <1>0, <1>7, <2>1, <2>5, <3>0 DEF Reached
    <3>2. ASSUME NEW n \in DOMAIN undo' \ DOMAIN undo PROVE Visited(undo[n])'
      <4>1. batch'[j].key = undo'[n].key /\ j \in DOMAIN batch'
        BY <2>1, <2>2, <2>4, <2>9, <3>0
      <4> QED BY <3>1, <4>1 DEF Visited
    <3>3. \A n \in DOMAIN undo : Visited(undo[n])'
      BY <1>0, <1>1, <2>1, <2>2, <3>1
    <3> QED BY <3>2, <3>3
  <2>11. ASSUME ~raced PROVE CleanJournal(batch, i + 1, disk'.files, undo')
    <3>1. CleanJournal(batch, i, disk.files, undo)
      BY <1>0, <2>1, <2>11
    <3>2. ASSUME NEW n \in DOMAIN undo PROVE Clean(batch, i + 1, disk'.files, undo[n])
      <4>1. Clean(batch, i, disk.files, undo[n])
        BY <3>1 DEF CleanJournal
      <4>2. Clean(batch, i + 1, disk.files, undo[n])
        BY <1>0, <2>5, <4>1, CleanGrows
      <4>3. undo[n].op # "RemoveCreatedDir" => undo[n].key \in Paths
        BY <1>0 DEF EntryOk
      <4> QED BY <2>8, <4>2, <4>3 DEF Clean
    <3>3. \A n \in DOMAIN undo' \ DOMAIN undo : Clean(batch, i + 1, disk'.files, undo'[n])
      BY <2>2, <2>9
    <3>4. ASSUME NEW n \in DOMAIN undo' \ DOMAIN undo, undo'[n].op = "Restore",
                 NEW m \in DOMAIN undo
          PROVE  Clean(batch, i + 1, undo'[n].saved.files, undo[m])
      <4>1. undo'[n].saved = Subtree(disk, change.key)
        BY <2>2, <2>9, <3>4
      <4>2. Clean(batch, i, undo'[n].saved.files, undo[m])
        BY <1>4, <2>1, <2>11, <4>1
      <4> QED BY <1>0, <2>5, <4>2, CleanGrows
    <3> QED BY <1>0, <2>2, <2>3, <2>5, <3>1, <3>2, <3>3, <3>4, CleanJournalGrows
  <2>12. ~raced' => CleanJournal(batch', i', disk'.files, undo')
    BY <2>1, <2>11
  <2> QED BY <2>10, <2>12 DEF Journaled
<1>8. CASE RollBack
  <2>1. UNCHANGED <<batch, i, raced, pc>> /\ pc = "rollback"
    BY <1>8 DEF RollBack, fixed, ghosts
  <2> DEFINE k == Len(undo)
  <2>2. /\ k \in DOMAIN undo /\ DOMAIN undo' = DOMAIN undo \ {k} /\ Last(undo) = undo[k]
        /\ \A n \in DOMAIN undo' : undo'[n] = undo[n] /\ n < k
    BY <1>8, RollBackFacts
  <2>3. /\ EntryOk(undo[k])
        /\ \/ UndoOk(disk, undo[k]) /\ disk' = Undone(disk, undo[k])
           \/ disk' = disk
    BY <1>8, <2>2, RollBackFacts
  <2> HIDE DEF k
  <2>4. All'
    <3>1. \A m \in DOMAIN batch : Reached(m) => Reached(m)'
      BY <2>1 DEF Reached
    <3>2. \A n \in DOMAIN undo' : n \in DOMAIN undo /\ undo'[n] = undo[n]
      BY <2>2
    <3> QED BY <1>0, <1>1, <2>1, <3>1, <3>2
  <2>5. ASSUME ~raced, NEW n \in DOMAIN undo' PROVE Clean(batch, i, disk'.files, undo'[n])
    <3>1. /\ Clean(batch, i, disk.files, undo[n]) /\ undo'[n] = undo[n]
          /\ undo[k].op = "Restore" => Clean(batch, i, undo[k].saved.files, undo[n])
      BY <1>0, <2>1, <2>2, <2>5 DEF CleanJournal
    <3>2. undo[n].op # "RemoveCreatedDir" => undo[n].key \in Paths
      BY <1>0, <2>2, <2>5 DEF EntryOk
    <3>3. \A p \in Paths : \/ disk'.files[p] \in {NoFile, disk.files[p]}
                           \/ undo[k].op = "Restore" /\ disk'.files[p] = undo[k].saved.files[p]
      BY <2>3, UndoneFacts
    <3> QED BY <3>1, <3>2, <3>3 DEF Clean
  <2>6. ASSUME ~raced PROVE CleanJournal(batch, i, disk'.files, undo')
    <3>1. ASSUME NEW n \in DOMAIN undo', undo'[n].op = "Restore", NEW m \in DOMAIN undo', m < n
          PROVE  Clean(batch, i, undo'[n].saved.files, undo'[m])
      BY <1>0, <2>1, <2>2, <2>6, <3>1 DEF CleanJournal
    <3> QED BY <2>5, <2>6, <3>1 DEF CleanJournal
  <2>7. ~raced' => CleanJournal(batch', i', disk'.files, undo')
    BY <2>1, <2>6
  <2> QED BY <2>4, <2>7 DEF Journaled
<1>9. CASE Precheck
  <2>1. undo' = <<>> /\ DOMAIN undo' = {}
    BY <1>9 DEF Precheck, Untouched
  <2> QED BY <2>1 DEF Journaled, CleanJournal
<1>10. CASE Begin \/ Discard \/ RolledBack \/ Crash
  BY <1>10 DEF Journaled, Begin, Discard, RolledBack, Crash
<1>11. ASSUME NEW e \in Changes, ExternalEdit(e) PROVE Journaled'
  <2>1. /\ UNCHANGED <<pc, step, batch, i, undo>> /\ disk' = Apply(disk, e)
        /\ raced' = (raced \/ Committed(e.key) \/ ~Valid(world, e))
    BY <1>11 DEF ExternalEdit, fixed
  <2>2. ~raced' => ~raced /\ ~Committed(e.key)
    BY <2>1, Zenon
  <2>3. pc \in {"apply", "rollback"} => All'
    <3>1. \A m \in DOMAIN batch : Reached(m) => Reached(m)'
      BY <2>1 DEF Reached
    <3> QED BY <1>0, <1>1, <2>1, <3>1
  <2>4. ASSUME pc \in {"apply", "rollback"}, ~raced', NEW n \in DOMAIN undo
        PROVE  Clean(batch, i, disk'.files, undo[n])
    <3>1. Clean(batch, i, disk.files, undo[n]) /\ Visited(undo[n]) /\ EntryOk(undo[n])
      BY <1>0, <2>2, <2>4 DEF CleanJournal
    <3>2. SUFFICES ASSUME undo[n].op # "RemoveCreatedDir" PROVE disk'.files[undo[n].key]
                                                                  = disk.files[undo[n].key]
      BY <3>1 DEF Clean
    <3>3. undo[n].key \in Paths
      BY <3>1, <3>2 DEF EntryOk
    <3>4. PICK m \in DOMAIN batch : batch[m].key = undo[n].key /\ Reached(m)
      BY <3>1, <3>2 DEF Visited
    <3>5. ASSUME disk'.files[undo[n].key] # disk.files[undo[n].key] PROVE FALSE
      <4>1. undo[n].key \in AtOrBelow(e.key) /\ e.key \in Paths
        BY <1>0, <2>1, <3>3, <3>5, EditedBelow
      <4>2. undo[n].key \in AtOrBelow(undo[n].key)
        BY <3>3 DEF AtOrBelow
      <4>3. Related(undo[n].key, e.key)
        BY <3>3, <4>1, <4>2, CommonBelow
      <4>4. Committed(e.key)
        BY <2>4, <3>4, <4>3 DEF Committed, Reached
      <4> QED BY <2>2, <2>4, <4>4
    <3> QED BY <3>5
  <2>5. ASSUME pc \in {"apply", "rollback"}, ~raced'
        PROVE  CleanJournal(batch', i', disk'.files, undo')
    BY <1>0, <2>1, <2>2, <2>4, <2>5 DEF CleanJournal
  <2> QED BY <2>1, <2>3, <2>5 DEF Journaled
<1>12. CASE UNCHANGED vars
  <2>1. UNCHANGED <<disk, undo, batch, i, step, pc, raced>>
    BY <1>12 DEF vars
  <2>2. pc \in {"apply", "rollback"} => All'
    BY <1>0, <2>1 DEF Visited, Reached
  <2> QED BY <1>0, <2>1, <2>2 DEF Journaled
<1> QED BY <1>2, <1>3, <1>5, <1>6, <1>7, <1>8, <1>9, <1>10, <1>11, <1>12 DEF Next, Save

-----------------------------------------------------------------------------
(* All or nothing: what is undone, and where it leads back to.             *)

(* Directories above one key come in the order of how many of them lie     *)
(* above each.                                                             *)
LEMMA ParentsFirstFacts ==
    ASSUME NEW dirs \in SUBSET Paths, IsFiniteSet(dirs),
           \A p, q \in dirs : p = q \/ p \in Above[q] \/ q \in Above[p]
    PROVE  LET C == Cardinality(dirs)
               s == ParentsFirst(dirs)
           IN /\ C \in Nat
              /\ \A n \in 1 .. C : s[n] \in dirs
              /\ \A d \in dirs : \E n \in 1 .. C : s[n] = d
              /\ \A m, n \in 1 .. C : s[m] = s[n] => m = n
              /\ \A m, n \in 1 .. C : s[m] \in Above[s[n]] => m < n
<1> DEFINE C == Cardinality(dirs)
           s == ParentsFirst(dirs)
           rank == [d \in dirs |-> Cardinality(Above[d] \cap dirs)]
<1>1. C \in Nat
  BY FS_CardinalityType
<1>2. ASSUME NEW d \in dirs
      PROVE  IsFiniteSet(Above[d] \cap dirs) /\ rank[d] \in Nat /\ rank[d] < C
  <2>1. /\ Above[d] \cap dirs \in SUBSET dirs /\ Above[d] \cap dirs # dirs
    BY PathsAssumption
  <2>2. /\ IsFiniteSet(Above[d] \cap dirs)
        /\ Cardinality(Above[d] \cap dirs) <= C
        /\ C = Cardinality(Above[d] \cap dirs) => dirs = Above[d] \cap dirs
    BY <2>1, FS_Subset
  <2>3. Cardinality(Above[d] \cap dirs) \in Nat
    BY <2>2, FS_CardinalityType
  <2> HIDE DEF C
  <2> QED BY <1>1, <2>1, <2>2, <2>3
<1>3. ASSUME NEW p \in dirs, NEW q \in dirs, p \in Above[q]
      PROVE  rank[p] < rank[q]
  <2> DEFINE A == Above[p] \cap dirs
             B == Above[q] \cap dirs
  <2>1. A \in SUBSET B /\ A # B
    BY <1>3, PathsAssumption
  <2>2. IsFiniteSet(B) /\ Cardinality(A) \in Nat /\ Cardinality(B) \in Nat
    BY <1>2
  <2>3. Cardinality(A) <= Cardinality(B) /\ (Cardinality(B) = Cardinality(A) => B = A)
    <3> HIDE DEF A, B
    <3> QED BY <2>1, <2>2, FS_Subset
  <2>4. rank[p] = Cardinality(A) /\ rank[q] = Cardinality(B)
    OBVIOUS
  <2> HIDE DEF A, B, rank
  <2> QED BY <2>1, <2>2, <2>3, <2>4
<1> HIDE DEF C
<1>4. \A n \in 1 .. C : \E d \in dirs : rank[d] = n - 1
  <2> DEFINE T == 0 .. (C - 1)
  <2>1. \A d \in dirs : rank[d] \in T
    BY <1>1, <1>2
  <2>2. rank \in [dirs -> T]
    BY <2>1
  <2>3. \A p, q \in dirs : rank[p] = rank[q] => p = q
    <3> HIDE DEF rank
    <3>1. \A p, q \in dirs : p \in Above[q] => rank[p] < rank[q]
      BY <1>3
    <3>2. \A p \in dirs : rank[p] \in Nat
      BY <1>2
    <3> QED BY <3>1, <3>2
  <2>4. IsFiniteSet(T) /\ Cardinality(T) = C
    BY <1>1, FS_Interval
  <2> HIDE DEF T, rank
  <2>5. rank \in Injection(dirs, T)
    BY <2>2, <2>3 DEF Injection, IsInjective
  <2>6. rank \in Surjection(dirs, T)
    BY <2>4, <2>5, FS_Injection DEF C
  <2>7. \A t \in T : \E d \in dirs : rank[d] = t
    BY <2>6 DEF Surjection
  <2>8. \A n \in 1 .. C : n - 1 \in T
    BY <1>1 DEF T
  <2> QED BY <2>7, <2>8
<1>5. ASSUME NEW n \in 1 .. C PROVE s[n] \in dirs /\ rank[s[n]] = n - 1
  <2>1. PICK d \in dirs : Cardinality(Above[d] \cap dirs) = n - 1
    BY <1>4
  <2>2. s[n] = CHOOSE e \in dirs : Cardinality(Above[e] \cap dirs) = n - 1
    BY DEF ParentsFirst, C
  <2>3. s[n] \in dirs /\ Cardinality(Above[s[n]] \cap dirs) = n - 1
    BY <2>1, <2>2
  <2> HIDE DEF s
  <2> QED BY <2>3
<1> HIDE DEF s
<1>6. ASSUME NEW d \in dirs PROVE \E n \in 1 .. C : s[n] = d
  <2> HIDE DEF rank
  <2>0. rank[d] \in Nat /\ rank[d] < C
    BY <1>2
  <2>1. rank[d] + 1 \in 1 .. C /\ (rank[d] + 1) - 1 = rank[d]
    BY <1>1, <2>0
  <2>2. /\ s[rank[d] + 1] \in dirs /\ rank[s[rank[d] + 1]] = rank[d]
    BY <1>5, <2>1
  <2>3. ~(rank[d] < rank[d])
    BY <2>0
  <2>4. s[rank[d] + 1] = d
    BY <1>3, <2>2, <2>3
  <2> QED BY <2>1, <2>4
<1>7. ASSUME NEW m \in 1 .. C, NEW n \in 1 .. C, s[m] = s[n] PROVE m = n
  <2>1. m - 1 = n - 1
    BY <1>5, <1>7
  <2> QED BY <1>1, <2>1
<1>8. ASSUME NEW m \in 1 .. C, NEW n \in 1 .. C, s[m] \in Above[s[n]] PROVE m < n
  <2>1. m - 1 < n - 1
    BY <1>3, <1>5, <1>8
  <2> QED BY <1>1, <2>1
<1> QED BY <1>1, <1>5, <1>6, <1>7, <1>8 DEF C, s

(* Two trees with the same directories and the same files are one.         *)
LEMMA SameTree ==
    ASSUME NEW t \in Tree, NEW r \in Tree, t.dirs = r.dirs,
           \A p \in Paths : t.files[p] = r.files[p]
    PROVE  t = r
BY DEF Tree, FileMap

(* Putting back what a call moved aside or replaced gives the tree before. *)
LEMMA PutBack ==
    ASSUME NEW t \in Tree, WellFormed(t), NEW p \in Paths
    PROVE  LET u == [op |-> "Restore", key |-> p, saved |-> Subtree(t, p)]
               gone == RemoveDirectory(t, p)
           IN /\ Exists(t, p) => UndoOk(gone, u) /\ Undone(gone, u) = t
              /\ p \in FilesOf(t) => UndoOk(t, u) /\ Undone(t, u) = t
              /\ \A b \in Bytes : p \in FilesOf(t) =>
                    /\ UndoOk(InsertFile(t, p, b), u)
                    /\ Undone(InsertFile(t, p, b), u) = t
<1> USE PathsAssumption, BytesAssumption
<1> DEFINE s == Subtree(t, p)
           gone == RemoveDirectory(t, p)
           u == [op |-> "Restore", key |-> p, saved |-> s]
<1>1. /\ s \in Tree /\ s.dirs = t.dirs \cap AtOrBelow(p)
      /\ \A q \in Paths : s.files[q] = IF q \in AtOrBelow(p) THEN t.files[q] ELSE NoFile
  <2>1. s \in Tree
    BY DEF Subtree, Tree, FileMap
  <2> QED BY <2>1 DEF Subtree
<1>2. /\ gone \in Tree /\ gone.dirs = t.dirs \ AtOrBelow(p)
      /\ \A q \in Paths : gone.files[q] = IF q \in AtOrBelow(p) THEN NoFile ELSE t.files[q]
  <2>1. gone \in Tree
    BY RemoveDirectoryFacts
  <2> QED BY <2>1 DEF RemoveDirectory
<1>3. u.op = "Restore" /\ u.key = p /\ u.saved = s
  OBVIOUS
<1>4. ASSUME NEW r \in Tree
      PROVE  /\ Graft(r, s) \in Tree /\ Graft(r, s).dirs = r.dirs \cup s.dirs
             /\ \A q \in Paths : Graft(r, s).files[q]
                                  = IF s.files[q] # NoFile THEN s.files[q] ELSE r.files[q]
             /\ Undone(r, u) = Graft(r, s)
  <2>1. Graft(r, s) \in Tree
    BY <1>1, <1>4 DEF Graft, Tree, FileMap
  <2>2. Undone(r, u) = Graft(r, s)
    BY <1>3 DEF Undone
  <2> QED BY <2>1, <2>2 DEF Graft
<1>5. t.dirs \subseteq Paths /\ p \in AtOrBelow(p) /\ p \notin Above[p] /\ Above[p] \subseteq Paths
  BY DEF Tree, AtOrBelow
<1>6. /\ \A r : FilesOf(r) = {q \in Paths : r.files[q] # NoFile}
  BY DEF FilesOf, Keys
<1> HIDE DEF s, gone, u
<1>7. ASSUME Exists(t, p) PROVE UndoOk(gone, u) /\ Undone(gone, u) = t
  <2>1. Above[p] \subseteq t.dirs
    BY <1>7 DEF Exists, WellFormed
  <2>2. Above[p] \subseteq gone.dirs
    BY <1>2, <1>5, <2>1 DEF AtOrBelow
  <2>3. p \notin gone.dirs /\ p \notin FilesOf(gone)
    BY <1>2, <1>5, <1>6
  <2>4. Below(p) \cap (gone.dirs \cup FilesOf(gone)) = {}
    BY <1>2, <1>6 DEF AtOrBelow, Below
  <2>5. UndoOk(gone, u)
    BY <1>3, <2>2, <2>3, <2>4 DEF UndoOk, ParentOk
  <2>6. Graft(gone, s) = t
    <3>0. Graft(gone, s) \in Tree /\ Graft(gone, s).dirs = gone.dirs \cup s.dirs
      BY <1>2, <1>4
    <3>1. Graft(gone, s).dirs = t.dirs
      BY <1>1, <1>2, <3>0
    <3>2. \A q \in Paths : Graft(gone, s).files[q] = t.files[q]
      BY <1>1, <1>2, <1>4
    <3> QED BY <3>0, <3>1, <3>2, SameTree
  <2> QED BY <1>2, <1>4, <2>5, <2>6
<1>8. ASSUME p \in FilesOf(t)
      PROVE  /\ Above[p] \subseteq t.dirs /\ p \notin t.dirs /\ p \notin s.dirs
             /\ t.files[p] # NoFile
             /\ \A r \in Tree : r.dirs = t.dirs => UndoOk(r, u)
             /\ \A r \in Tree : r.dirs = t.dirs
                                /\ (\A q \in Paths : q # p => r.files[q] = t.files[q])
                                => Undone(r, u) = t
  <2>1. Above[p] \subseteq t.dirs /\ p \notin t.dirs /\ p \notin s.dirs /\ t.files[p] # NoFile
    BY <1>1, <1>6, <1>8 DEF WellFormed
  <2>2. ASSUME NEW r \in Tree, r.dirs = t.dirs PROVE UndoOk(r, u)
    BY <1>3, <2>1, <2>2 DEF UndoOk, ParentOk
  <2>3. ASSUME NEW r \in Tree, r.dirs = t.dirs, \A q \in Paths : q # p => r.files[q] = t.files[q]
        PROVE  Undone(r, u) = t
    <3>0. /\ Graft(r, s) \in Tree /\ Graft(r, s).dirs = r.dirs \cup s.dirs
          /\ Undone(r, u) = Graft(r, s)
      BY <1>4
    <3>1. Graft(r, s).dirs = t.dirs
      BY <1>1, <2>3, <3>0
    <3>2. ASSUME NEW q \in Paths PROVE Graft(r, s).files[q] = t.files[q]
      <4>1. CASE q = p
        BY <1>1, <1>4, <1>5, <2>1, <4>1
      <4>2. CASE q # p
        BY <1>1, <1>4, <2>3, <4>2
      <4> QED BY <4>1, <4>2
    <3> QED BY <3>0, <3>1, <3>2, SameTree
  <2> QED BY <2>1, <2>2, <2>3
<1>9. ASSUME p \in FilesOf(t) PROVE UndoOk(t, u) /\ Undone(t, u) = t
  BY <1>8, <1>9
<1>10. ASSUME NEW b \in Bytes, p \in FilesOf(t)
       PROVE  UndoOk(InsertFile(t, p, b), u) /\ Undone(InsertFile(t, p, b), u) = t
  <2> DEFINE r == InsertFile(t, p, b)
  <2>1. r \in Tree /\ r.dirs = t.dirs \cup Above[p]
        /\ \A q \in Paths : q # p => r.files[q] = t.files[q]
    BY DEF InsertFile, Tree, FileMap
  <2> HIDE DEF r
  <2>2. r.dirs = t.dirs
    BY <1>8, <1>10, <2>1
  <2>3. UndoOk(r, u) /\ Undone(r, u) = t
    BY <1>8, <1>10, <2>1, <2>2
  <2> QED BY <2>3 DEF r
<1> QED BY <1>7, <1>9, <1>10 DEF u, s, gone

(* A file just created is removed, and its directories stay.               *)
LEMMA TakeAway ==
    ASSUME NEW t \in Tree, NEW p \in Paths, NEW b \in Bytes,
           Above[p] \subseteq t.dirs, p \notin FilesOf(t)
    PROVE  LET u == [op |-> "RemoveCreatedFile", key |-> p]
           IN UndoOk(InsertFile(t, p, b), u) /\ Undone(InsertFile(t, p, b), u) = t
<1> USE BytesAssumption
<1> DEFINE r == InsertFile(t, p, b)
           u == [op |-> "RemoveCreatedFile", key |-> p]
<1>1. /\ r \in Tree /\ r.dirs = t.dirs
      /\ \A q \in Paths : r.files[q] = IF q = p THEN b ELSE t.files[q]
  BY DEF InsertFile, Tree, FileMap
<1>2. u.op = "RemoveCreatedFile" /\ u.key = p
  OBVIOUS
<1> HIDE DEF r, u
<1>3. UndoOk(r, u)
  BY <1>1, <1>2 DEF UndoOk, FilesOf, Keys
<1>4. Undone(r, u) = RemoveFile(r, p)
  BY <1>2 DEF Undone
<1>5. /\ RemoveFile(r, p) \in Tree /\ RemoveFile(r, p).dirs = r.dirs
      /\ \A q \in Paths : RemoveFile(r, p).files[q] = IF q = p THEN NoFile ELSE r.files[q]
  BY <1>1 DEF RemoveFile, Tree, FileMap
<1>6. t.files[p] = NoFile
  BY DEF FilesOf, Keys
<1>7. RemoveFile(r, p) = t
  BY <1>1, <1>5, <1>6, SameTree
<1> QED BY <1>3, <1>4, <1>7 DEF r, u

-----------------------------------------------------------------------------
(* The trees a rollback passes through.                                    *)

\* g leads from t back to b: g[n] is the tree once the entries after the
\* n-th are undone, and each entry finds there what it needs.
Unwinding(g, b, t, journal) ==
    /\ g[0] = b /\ g[Len(journal)] = t
    /\ \A n \in DOMAIN journal :
          UndoOk(g[n], journal[n]) /\ Undone(g[n], journal[n]) = g[n - 1]

CanUnwind(b, t, journal) == \E g : Unwinding(g, b, t, journal)

(* One more entry, which leads back to where the others start.             *)
LEMMA UnwindOne ==
    ASSUME NEW S, NEW q \in Seq(S), NEW b, NEW t, NEW r, NEW u,
           CanUnwind(b, t, q), UndoOk(r, u), Undone(r, u) = t
    PROVE  CanUnwind(b, r, q \o <<u>>)
<1>1. PICK g : Unwinding(g, b, t, q)
  BY DEF CanUnwind
<1> DEFINE L == Len(q)
           s == q \o <<u>>
           h == [n \in 0 .. (L + 1) |-> IF n = L + 1 THEN r ELSE g[n]]
<1>2. /\ L \in Nat /\ DOMAIN q = 1 .. L /\ Len(s) = L + 1 /\ DOMAIN s = 1 .. (L + 1)
      /\ s[L + 1] = u /\ \A n \in 1 .. L : s[n] = q[n]
  OBVIOUS
<1>3. g[0] = b /\ g[L] = t /\ \A n \in 1 .. L : UndoOk(g[n], q[n]) /\ Undone(g[n], q[n]) = g[n - 1]
  BY <1>1, <1>2 DEF Unwinding
<1> HIDE DEF L, s
<1>4. h[0] = b /\ h[L + 1] = r /\ h[L] = t
  BY <1>2, <1>3
<1>5. ASSUME NEW n \in DOMAIN s
      PROVE  UndoOk(h[n], s[n]) /\ Undone(h[n], s[n]) = h[n - 1]
  <2>1. CASE n = L + 1
    <3>1. n - 1 = L
      BY <1>2, <2>1
    <3> QED BY <1>2, <1>4, <2>1, <3>1
  <2>2. CASE n # L + 1
    <3>1. n \in 1 .. L /\ n - 1 \in 0 .. (L + 1) /\ n \in 0 .. (L + 1) /\ n - 1 # L + 1
      BY <1>2, <2>2
    <3>2. h[n] = g[n] /\ h[n - 1] = g[n - 1] /\ s[n] = q[n]
      BY <1>2, <2>2, <3>1
    <3> HIDE DEF h
    <3> QED BY <1>3, <3>1, <3>2
  <2> QED BY <2>1, <2>2
<1> HIDE DEF h
<1>6. Unwinding(h, b, r, s)
  BY <1>2, <1>4, <1>5 DEF Unwinding
<1> QED BY <1>6 DEF CanUnwind, s

(* The tree changes and the newest entry leads to the same tree as before. *)
LEMMA UnwindSame ==
    ASSUME NEW S, NEW q \in Seq(S), q # <<>>, NEW b, NEW t, NEW r,
           CanUnwind(b, t, q), UndoOk(r, Last(q)), Undone(r, Last(q)) = Undone(t, Last(q))
    PROVE  CanUnwind(b, r, q)
<1>1. PICK g : Unwinding(g, b, t, q)
  BY DEF CanUnwind
<1> DEFINE L == Len(q)
           h == [n \in 0 .. L |-> IF n = L THEN r ELSE g[n]]
<1>2. /\ L \in Nat /\ L # 0 /\ DOMAIN q = 1 .. L /\ Last(q) = q[L]
  BY DEF Last
<1>3. g[0] = b /\ g[L] = t /\ \A n \in 1 .. L : UndoOk(g[n], q[n]) /\ Undone(g[n], q[n]) = g[n - 1]
  BY <1>1, <1>2 DEF Unwinding
<1> HIDE DEF L
<1>4. h[0] = b /\ h[L] = r
  BY <1>2, <1>3
<1>5. ASSUME NEW n \in DOMAIN q
      PROVE  UndoOk(h[n], q[n]) /\ Undone(h[n], q[n]) = h[n - 1]
  <2>0. n \in 1 .. L /\ n - 1 \in 0 .. L /\ n - 1 # L /\ n \in 0 .. L
    BY <1>2
  <2>1. h[n - 1] = g[n - 1]
    BY <2>0
  <2>2. CASE n = L
    <3>1. h[n] = r
      BY <2>0, <2>2
    <3> HIDE DEF h
    <3> QED BY <1>2, <1>3, <2>0, <2>1, <2>2, <3>1
  <2>3. CASE n # L
    <3>1. h[n] = g[n]
      BY <2>0, <2>3
    <3> HIDE DEF h
    <3> QED BY <1>3, <2>0, <2>1, <3>1
  <2> QED BY <2>2, <2>3
<1> HIDE DEF h
<1>6. Unwinding(h, b, r, q)
  BY <1>2, <1>4, <1>5 DEF Unwinding, L
<1> QED BY <1>6 DEF CanUnwind

(* roll_back finds what the newest entry needs, and goes on from there.    *)
LEMMA UnwindBack ==
    ASSUME NEW S, NEW q \in Seq(S), q # <<>>, NEW b, NEW t, CanUnwind(b, t, q)
    PROVE  UndoOk(t, Last(q)) /\ CanUnwind(b, Undone(t, Last(q)), Front(q))
<1>1. PICK g : Unwinding(g, b, t, q)
  BY DEF CanUnwind
<1> DEFINE L == Len(q)
<1>2. /\ L \in Nat /\ L # 0 /\ DOMAIN q = 1 .. L /\ Last(q) = q[L]
  BY DEF Last
<1>3. /\ DOMAIN Front(q) = DOMAIN q \ {L}
      /\ \A n \in DOMAIN Front(q) : Front(q)[n] = q[n] /\ n < L
      /\ Front(q) \in Seq(S)
  BY TakenBack
<1>4. Len(Front(q)) = L - 1
  BY <1>2 DEF Front
<1>5. g[0] = b /\ g[L] = t /\ \A n \in 1 .. L : UndoOk(g[n], q[n]) /\ Undone(g[n], q[n]) = g[n - 1]
  BY <1>1, <1>2 DEF Unwinding
<1> HIDE DEF L
<1>6. UndoOk(t, Last(q)) /\ Undone(t, Last(q)) = g[L - 1]
  <2>1. L \in 1 .. L
    BY <1>2
  <2> QED BY <1>2, <1>5, <2>1
<1>7. Unwinding(g, b, Undone(t, Last(q)), Front(q))
  <2>1. \A n \in DOMAIN Front(q) :
           UndoOk(g[n], Front(q)[n]) /\ Undone(g[n], Front(q)[n]) = g[n - 1]
    BY <1>2, <1>3, <1>5
  <2> QED BY <1>4, <1>5, <1>6, <2>1 DEF Unwinding
<1> QED BY <1>6, <1>7 DEF CanUnwind

(* A journal taken back to its start leads nowhere else.                   *)
LEMMA UnwindEmpty == ASSUME NEW b, NEW t PROVE CanUnwind(b, t, <<>>) <=> b = t
<1>1. Len(<<>>) = 0 /\ DOMAIN <<>> = {}
  OBVIOUS
<1>2. ASSUME CanUnwind(b, t, <<>>) PROVE b = t
  BY <1>1, <1>2 DEF CanUnwind, Unwinding
<1>3. ASSUME b = t PROVE CanUnwind(b, t, <<>>)
  <2> DEFINE g == [n \in {0} |-> b]
  <2>1. g[0] = b
    OBVIOUS
  <2>2. Unwinding(g, b, t, <<>>)
    <3> HIDE DEF g
    <3> QED BY <1>1, <1>3, <2>1 DEF Unwinding
  <2> HIDE DEF g
  <2> QED BY <2>2 DEF CanUnwind
<1> QED BY <1>2, <1>3

\* The journal entries for the directories create_directories made.
MadeEntries(made) ==
    [n \in 1 .. Cardinality(made) |->
        [op |-> "RemoveCreatedDir", key |-> ParentsFirst(made)[n]]]

(* Directories added to a tree.                                            *)
LEMMA MoreDirectories ==
    ASSUME NEW t \in Tree, NEW X
    PROVE  /\ [t EXCEPT !.dirs = @ \cup X] = [dirs |-> t.dirs \cup X, files |-> t.files]
           /\ t = [dirs |-> t.dirs, files |-> t.files]
<1>1. t \in [dirs : SUBSET Paths, files : FileMap]
  BY DEF Tree
<1>2. t = [dirs |-> t.dirs, files |-> t.files]
  BY <1>1
<1> QED BY <1>1, <1>2

(* Directories taken from a tree.                                          *)
LEMMA FewerDirectories ==
    ASSUME NEW D, NEW F, NEW x
    PROVE  [[dirs |-> D, files |-> F] EXCEPT !.dirs = @ \ {x}] = [dirs |-> D \ {x}, files |-> F]
OBVIOUS

(* Directories made parents first are removed children first.              *)
LEMMA UnwindMade ==
    ASSUME NEW S, NEW q \in Seq(S), NEW b, NEW t \in Tree, WellFormed(t),
           CanUnwind(b, t, q),
           NEW made \in SUBSET Paths, IsFiniteSet(made), made \cap t.dirs = {},
           \A d, e \in made : d = e \/ d \in Above[e] \/ e \in Above[d]
    PROVE  CanUnwind(b, [t EXCEPT !.dirs = @ \cup made], q \o MadeEntries(made))
<1>1. PICK g : Unwinding(g, b, t, q)
  BY DEF CanUnwind
<1> DEFINE L == Len(q)
           C == Cardinality(made)
           p == ParentsFirst(made)
           M(k) == [dirs |-> t.dirs \cup {p[j] : j \in 1 .. k}, files |-> t.files]
           e == MadeEntries(made)
           s == q \o e
           h == [n \in 0 .. (L + C) |-> IF n < L THEN g[n] ELSE M(n - L)]
<1>2. /\ C \in Nat
      /\ \A n \in 1 .. C : p[n] \in made
      /\ \A d \in made : \E n \in 1 .. C : p[n] = d
      /\ \A m, n \in 1 .. C : p[m] = p[n] => m = n
      /\ \A m, n \in 1 .. C : p[m] \in Above[p[n]] => m < n
  BY ParentsFirstFacts
<1>3. /\ Len(e) = C /\ DOMAIN e = 1 .. C /\ e \in Seq({e[n] : n \in 1 .. C})
      /\ \A n \in 1 .. C : e[n].op = "RemoveCreatedDir" /\ e[n].key = p[n]
  BY <1>2 DEF MadeEntries
<1> HIDE DEF e, p, C
<1>4. /\ L \in Nat /\ DOMAIN q = 1 .. L /\ Len(s) = L + C /\ DOMAIN s = 1 .. (L + C)
      /\ \A n \in 1 .. L : s[n] = q[n]
      /\ \A n \in 1 .. (L + C) : n > L => s[n] = e[n - L]
  <2>1. /\ q \in Seq(S \cup {e[n] : n \in 1 .. C}) /\ e \in Seq(S \cup {e[n] : n \in 1 .. C})
    BY <1>3
  <2> QED BY <1>2, <1>3, <2>1
<1>5. g[0] = b /\ g[L] = t /\ \A n \in 1 .. L : UndoOk(g[n], q[n]) /\ Undone(g[n], q[n]) = g[n - 1]
  BY <1>1, <1>4 DEF Unwinding
<1> HIDE DEF L, s
<1>6. ASSUME NEW k \in 0 .. C
      PROVE  /\ M(k).dirs = t.dirs \cup {p[j] : j \in 1 .. k}
             /\ M(k) = [dirs |-> M(k).dirs, files |-> t.files]
             /\ FilesOf(M(k)) = FilesOf(t)
  BY DEF FilesOf
<1>7. M(0) = t
  <2>1. {p[j] : j \in 1 .. 0} = {}
    OBVIOUS
  <2> QED BY <2>1, MoreDirectories
<1>8. M(C) = [t EXCEPT !.dirs = @ \cup made]
  <2>1. {p[j] : j \in 1 .. C} = made
    BY <1>2
  <2> QED BY <2>1, MoreDirectories
<1>9. ASSUME NEW k \in 1 .. C
      PROVE  UndoOk(M(k), e[k]) /\ Undone(M(k), e[k]) = M(k - 1)
  <2>0. k \in Nat /\ k - 1 \in 0 .. C /\ k \in 0 .. C /\ 1 .. k \subseteq 1 .. C
        /\ 1 .. (k - 1) \subseteq 1 .. C /\ k \in 1 .. k /\ k \notin 1 .. (k - 1)
        /\ 1 .. k = (1 .. (k - 1)) \cup {k}
    BY <1>2
  <2>1. e[k].op = "RemoveCreatedDir" /\ e[k].key = p[k] /\ p[k] \in made /\ p[k] \in Paths
    BY <1>2, <1>3
  <2>2. p[k] \in M(k).dirs
    BY <1>6, <2>0
  <2>3. Below(p[k]) \cap (M(k).dirs \cup FilesOf(M(k))) = {}
    <3>1. ASSUME NEW x \in Below(p[k]), x \in t.dirs \cup FilesOf(t) PROVE FALSE
      <4>1. p[k] \in Above[x] /\ Above[x] \subseteq t.dirs
        BY <3>1 DEF Below, WellFormed
      <4> QED BY <2>1, <4>1
    <3>2. ASSUME NEW j \in 1 .. k, p[j] \in Below(p[k]) PROVE FALSE
      <4>1. p[k] \in Above[p[j]]
        BY <3>2 DEF Below
      <4>2. k < j /\ j \in 1 .. C
        BY <1>2, <2>0, <4>1
      <4> QED BY <2>0, <4>2
    <3>3. M(k).dirs = t.dirs \cup {p[j] : j \in 1 .. k} /\ FilesOf(M(k)) = FilesOf(t)
      BY <1>6, <2>0
    <3> HIDE DEF M
    <3> QED BY <3>1, <3>2, <3>3
  <2>4. Undone(M(k), e[k]) = [M(k) EXCEPT !.dirs = @ \ {p[k]}]
    BY <2>1 DEF Undone
  <2>5. M(k).dirs \ {p[k]} = M(k - 1).dirs
    <3>1. \A j \in 1 .. (k - 1) : p[j] # p[k]
      BY <1>2, <2>0
    <3>2. p[k] \notin t.dirs
      BY <2>1
    <3>3. /\ M(k).dirs = t.dirs \cup {p[j] : j \in 1 .. k}
          /\ M(k - 1).dirs = t.dirs \cup {p[j] : j \in 1 .. (k - 1)}
      BY <1>6, <2>0
    <3>4. {p[j] : j \in 1 .. k} = {p[j] : j \in 1 .. (k - 1)} \cup {p[k]}
      BY <2>0
    <3> HIDE DEF M
    <3> QED BY <3>1, <3>2, <3>3, <3>4
  <2>6. UndoOk(M(k), e[k])
    <3> HIDE DEF M
    <3> QED BY <2>1, <2>2, <2>3 DEF UndoOk
  <2>7. [M(k) EXCEPT !.dirs = @ \ {p[k]}] = M(k - 1)
    <3> DEFINE D == M(k).dirs
    <3>1. M(k) = [dirs |-> D, files |-> t.files] /\ M(k - 1) = [dirs |-> D \ {p[k]}, files |-> t.files]
      BY <1>6, <2>0, <2>5
    <3> HIDE DEF M, D
    <3>2. [[dirs |-> D, files |-> t.files] EXCEPT !.dirs = @ \ {p[k]}] = [dirs |-> D \ {p[k]}, files |-> t.files]
      BY FewerDirectories
    <3> QED BY <3>1, <3>2, Zenon
  <2> QED BY <2>4, <2>6, <2>7
<1> HIDE DEF M
<1>10. h[0] = b /\ h[L + C] = M(C)
  <2>1. 0 \in 0 .. (L + C) /\ L + C \in 0 .. (L + C) /\ ~(L + C < L) /\ (L + C) - L = C
    BY <1>2, <1>4
  <2>2. h[0] = IF 0 < L THEN g[0] ELSE M(0 - L)
    BY <2>1
  <2>3. 0 < L \/ (L = 0 /\ 0 - L = 0)
    BY <1>4
  <2>4. h[0] = b
    BY <1>5, <1>7, <2>2, <2>3
  <2> QED BY <2>1, <2>4
<1>11. ASSUME NEW n \in DOMAIN s
       PROVE  UndoOk(h[n], s[n]) /\ Undone(h[n], s[n]) = h[n - 1]
  <2>0. n \in 1 .. (L + C) /\ n \in 0 .. (L + C) /\ n - 1 \in 0 .. (L + C)
    BY <1>2, <1>4
  <2>1. CASE n < L + 1
    <3>1. n \in 1 .. L /\ n - 1 < L /\ s[n] = q[n]
      BY <1>2, <1>4, <2>0, <2>1
    <3>2. h[n - 1] = g[n - 1]
      BY <2>0, <3>1
    <3>3. h[n] = g[n]
      <4>1. CASE n < L
        BY <2>0, <4>1
      <4>2. CASE n = L
        <5>1. ~(n < L) /\ n - L = 0
          BY <1>4, <4>2
        <5> QED BY <1>5, <1>7, <2>0, <4>2, <5>1
      <4> QED BY <1>4, <3>1, <4>1, <4>2
    <3> HIDE DEF h
    <3> QED BY <1>5, <3>1, <3>2, <3>3
  <2>2. CASE ~(n < L + 1)
    <3>1. /\ n - L \in 1 .. C /\ ~(n < L) /\ ~(n - 1 < L) /\ (n - 1) - L = (n - L) - 1
          /\ s[n] = e[n - L]
      BY <1>2, <1>4, <2>0, <2>2
    <3>2. h[n] = M(n - L) /\ h[n - 1] = M((n - L) - 1)
      BY <2>0, <3>1
    <3> HIDE DEF h
    <3> QED BY <1>9, <3>1, <3>2
  <2> QED BY <2>1, <2>2
<1> HIDE DEF h
<1>12. Unwinding(h, b, M(C), s)
  BY <1>4, <1>10, <1>11 DEF Unwinding
<1> QED BY <1>8, <1>12 DEF CanUnwind, s, e

\* The directories create_directories is to make, where they are missing.
Target(c) == IF c.op = "CreateFile" THEN Above[c.key] ELSE Above[c.key] \cup {c.key}

(* What create_directories did, whether it went through or not.            *)
LEMMA MadeFacts ==
    ASSUME Types, MakeDirectories
    PROVE  /\ pc = "apply" /\ step = "check" /\ change.op \in {"CreateFile", "CreateDirectory"}
           /\ UNCHANGED <<base, batch, i, expected, left, edits, world, raced, lost>>
           /\ \E made \in SUBSET Paths :
                 /\ IsFiniteSet(made) /\ made \cap disk.dirs = {}
                 /\ \A d, e \in made : d = e \/ d \in Above[e] \/ e \in Above[d]
                 /\ disk' = [disk EXCEPT !.dirs = @ \cup made]
                 /\ undo' = undo \o MadeEntries(made)
                 /\ \/ /\ pc' = "apply" /\ step' = "write" /\ faults' = faults
                       /\ made = Target(change) \ disk.dirs
                    \/ /\ pc' = "rollback"
                       /\ \/ faults' = faults + 1
                          \/ /\ faults' = faults
                             /\ Target(change) \cap FilesOf(disk) # {}
<1>1. /\ pc = "apply" /\ step = "check" /\ change.op \in {"CreateFile", "CreateDirectory"}
      /\ UNCHANGED <<base, batch, i, expected, left, edits, world, raced, lost>>
  BY DEF MakeDirectories, Op, Fail, fixed, ghosts
<1>2. PICK made \in SUBSET (Target(change) \ disk.dirs) :
          /\ disk' = [disk EXCEPT !.dirs = @ \cup made]
          /\ undo' = undo \o MadeEntries(made)
          /\ \/ /\ pc' = "apply" /\ step' = "write" /\ faults' = faults
                /\ made = Target(change) \ disk.dirs
             \/ /\ pc' = "rollback"
                /\ \/ faults' = faults + 1
                   \/ /\ faults' = faults
                      /\ Target(change) \cap FilesOf(disk) # {}
  BY <1>1 DEF MakeDirectories, Target, MadeEntries, Fail
<1>3. /\ change.key \in Paths /\ Target(change) \in SUBSET Paths
      /\ \A d, e \in Target(change) : d = e \/ d \in Above[e] \/ e \in Above[d]
  <2>1. change.key \in Paths
    BY <1>1, ChangeFacts
  <2> QED BY <2>1, PathsAssumption DEF Target
<1>4. IsFiniteSet(made)
  <2>1. IsFiniteSet(Above[change.key])
    BY <1>3, DepthAssumption
  <2>2. IsFiniteSet(Above[change.key] \cup {change.key})
    BY <2>1, FS_AddElement
  <2>3. IsFiniteSet(Target(change))
    BY <2>1, <2>2 DEF Target
  <2> QED BY <1>2, <2>3, FS_Subset
<1>5. /\ made \in SUBSET Paths /\ made \cap disk.dirs = {}
      /\ \A d, e \in made : d = e \/ d \in Above[e] \/ e \in Above[d]
  BY <1>2, <1>3
<1> QED BY <1>1, <1>2, <1>4, <1>5

-----------------------------------------------------------------------------
(* A batch nobody disturbs.                                                *)

\* The disk between two system calls for c, where the plan has come to x.
Between(x, c, s) ==
    IF s = "write" /\ c.op \notin Removals
    THEN [dirs |-> x.dirs \cup Target(c), files |-> x.files]
    ELSE x

Shape ==
    /\ world \in Tree /\ faults \in Nat
    /\ WellFormed(base) /\ WellFormed(expected)
    /\ pc # "abandoned"
    /\ pc = "failed" => undo = <<>>
    /\ pc = "apply" /\ step = "save" => batch[i].op = "ReplaceFile"
    /\ pc \in {"discard", "done"} => i = Len(batch) + 1

\* Without edits of others the disk is where the plan has come to, the
\* journal leads back to the snapshot, and only a fault begins a rollback.
Course ==
    /\ world = base /\ ~raced
    /\ pc \in {"idle", "precheck"} => disk = base
    /\ pc = "apply" => disk = Between(expected, batch[i], step)
    /\ pc \in {"discard", "done"} => disk = expected
    /\ pc = "apply" /\ step = "write" /\ batch[i].op = "ReplaceFile" =>
          /\ undo # <<>> /\ batch[i].key \in FilesOf(disk)
          /\ Last(undo) = [op |-> "Restore", key |-> batch[i].key,
                           saved |-> Subtree(disk, batch[i].key)]

WayBack ==
    /\ pc = "rollback" => faults >= 1
    /\ left # {} => faults >= 2
    /\ left = {} /\ pc # "done" => CanUnwind(base, disk, undo)

Alone == edits = 0 => Course /\ WayBack

(* What the plan has checked of a change lets each of its calls through.   *)
LEMMA CallsGoThrough ==
    ASSUME NEW x \in Tree, WellFormed(x), NEW c \in Changes, Valid(x, c)
    PROVE  /\ c.op \in {"CreateFile", "CreateDirectory"} => Target(c) \cap FilesOf(x) = {}
           /\ c.op = "ReplaceFile" =>
                 /\ c.key \in FilesOf(x) /\ c.key \notin x.dirs
                 /\ Above[c.key] \cap FilesOf(x) = {}
           /\ c.op = "CreateFile" => c.key \notin x.dirs \cup Above[c.key] \cup FilesOf(x)
           /\ c.op \in {"RemoveFile", "RemoveDirectory"} =>
                 Exists(x, c.key) /\ RemoveDirectory(x, c.key) = Apply(x, c)
<1> USE PathsAssumption
<1>1. c.key \in Paths /\ c.op \in {"CreateFile", "ReplaceFile", "RemoveFile",
                                   "CreateDirectory", "RemoveDirectory"}
  BY DEF Changes
<1>2. CASE c.op \in {"CreateFile", "CreateDirectory"}
  BY <1>1, <1>2 DEF Valid, Target, InsertFileOk, InsertDirectoryOk
<1>3. CASE c.op = "ReplaceFile"
  <2>1. c.key \in FilesOf(x)
    BY <1>3 DEF Valid
  <2> QED BY <1>3, <2>1 DEF WellFormed
<1>4. CASE c.op = "RemoveDirectory"
  BY <1>4 DEF Valid, Exists, Apply
<1>5. CASE c.op = "RemoveFile"
  <2>1. c.key \in FilesOf(x) /\ c.key \notin x.dirs
    BY <1>5 DEF Valid, WellFormed
  <2>2. ASSUME NEW q \in AtOrBelow(c.key), q # c.key
        PROVE  q \notin x.dirs /\ q \notin FilesOf(x) /\ q \in Paths
    BY <2>1, <2>2 DEF WellFormed, AtOrBelow
  <2> DEFINE a == RemoveDirectory(x, c.key)
             b == RemoveFile(x, c.key)
  <2>3. /\ a \in Tree /\ a.dirs = x.dirs \ AtOrBelow(c.key)
        /\ \A q \in Paths : a.files[q] = IF q \in AtOrBelow(c.key) THEN NoFile ELSE x.files[q]
    BY <1>1, RemoveDirectoryFacts DEF RemoveDirectory
  <2>4. /\ b \in Tree /\ b.dirs = x.dirs
        /\ \A q \in Paths : b.files[q] = IF q = c.key THEN NoFile ELSE x.files[q]
    BY <1>1, RemoveFileFacts DEF RemoveFile
  <2>5. Apply(x, c) = b
    BY <1>5 DEF Apply
  <2> HIDE DEF a, b
  <2>6. a.dirs = b.dirs
    BY <2>1, <2>2, <2>3, <2>4
  <2>7. \A q \in Paths : a.files[q] = b.files[q]
    BY <1>1, <2>2, <2>3, <2>4 DEF FilesOf, Keys, AtOrBelow
  <2>8. a = b
    BY <2>3, <2>4, <2>6, <2>7, SameTree
  <2> QED BY <1>5, <2>1, <2>5, <2>8 DEF Exists, a
<1> QED BY <1>1, <1>2, <1>3, <1>4, <1>5

(* The checks of apply_change pass on the tree they were planned on.       *)
LEMMA ChecksPass ==
    ASSUME NEW x \in Tree, NEW c \in Changes, disk = x
    PROVE  Unchanged(x, c)
BY DEF Unchanged, FileUnchanged, DirectoryUnchanged

(* The call that publishes a change goes through and does what is planned. *)
LEMMA WritesPlan ==
    ASSUME Types, Shape, Follows, pc = "apply", step = "write",
           disk = Between(expected, change, step)
    PROVE  WriteOk /\ Written = Apply(expected, change)
<1>0. /\ change \in Changes /\ change.key \in Paths /\ expected \in Tree /\ WellFormed(expected)
      /\ change.op \in {"CreateFile", "ReplaceFile", "RemoveFile",
                        "CreateDirectory", "RemoveDirectory"}
      /\ change.op \in {"CreateFile", "ReplaceFile"} => change.bytes \in Bytes
      /\ Valid(expected, change) /\ change.key \notin Above[change.key]
  BY ChangeFacts, ChangeValid, PathsAssumption DEF Types, Shape
<1>1. CASE change.op = "CreateFile"
  <2>1. disk = [dirs |-> expected.dirs \cup Above[change.key], files |-> expected.files]
    BY <1>1 DEF Between, Removals, Target
  <2>2. FilesOf(disk) = FilesOf(expected) /\ disk.dirs = expected.dirs \cup Above[change.key]
        /\ disk.files = expected.files
    BY <2>1 DEF FilesOf
  <2>3. /\ Above[change.key] \cap FilesOf(expected) = {}
        /\ change.key \notin expected.dirs \cup Above[change.key] \cup FilesOf(expected)
    BY <1>0, <1>1, CallsGoThrough DEF Target
  <2>4. WriteOk
    BY <1>1, <2>2, <2>3 DEF WriteOk, Exists
  <2>5. Written = InsertFile(disk, change.key, change.bytes)
        /\ Apply(expected, change) = InsertFile(expected, change.key, change.bytes)
    BY <1>1 DEF Written, Apply
  <2>6. disk.dirs \cup Above[change.key] = expected.dirs \cup Above[change.key]
    BY <2>2
  <2>7. InsertFile(disk, change.key, change.bytes) = InsertFile(expected, change.key, change.bytes)
    BY <2>2, <2>6, Zenon DEF InsertFile
  <2> QED BY <2>4, <2>5, <2>7
<1>2. CASE change.op = "CreateDirectory"
  <2>1. disk = [dirs |-> expected.dirs \cup (Above[change.key] \cup {change.key}), files |-> expected.files]
    BY <1>2 DEF Between, Removals, Target
  <2>2. WriteOk /\ Written = disk
    BY <1>2, <2>1 DEF WriteOk, Written
  <2>3. Apply(expected, change)
          = [dirs |-> expected.dirs \cup {change.key} \cup Above[change.key], files |-> expected.files]
    BY <1>2 DEF Apply, InsertDirectory
  <2>4. expected.dirs \cup (Above[change.key] \cup {change.key})
          = expected.dirs \cup {change.key} \cup Above[change.key]
    OBVIOUS
  <2> QED BY <2>1, <2>2, <2>3, <2>4
<1>3. CASE change.op \in Removals
  <2>1. disk = expected
    BY <1>3 DEF Between
  <2>2. CASE change.op = "ReplaceFile"
    <3>1. WriteOk
      BY <1>0, <2>1, <2>2, CallsGoThrough DEF WriteOk
    <3> QED BY <2>1, <2>2, <3>1 DEF Written, Apply
  <2>3. CASE change.op \in {"RemoveFile", "RemoveDirectory"}
    <3>1. Exists(disk, change.key) /\ RemoveDirectory(disk, change.key) = Apply(expected, change)
      BY <1>0, <2>1, <2>3, CallsGoThrough
    <3> QED BY <2>3, <3>1 DEF WriteOk, Written
  <2> QED BY <1>3, <2>2, <2>3 DEF Removals
<1> QED BY <1>0, <1>1, <1>2, <1>3 DEF Removals

(* Every step keeps the plan well formed and the end of a batch in order.  *)
LEMMA ShapeNext == ASSUME Types, Follows, Untouched, Shape, [Next]_vars PROVE Shape'
<1>0. /\ world \in Tree /\ faults \in Nat /\ WellFormed(base) /\ WellFormed(expected)
      /\ pc # "abandoned" /\ (pc = "failed" => undo = <<>>)
      /\ pc = "apply" /\ step = "save" => batch[i].op = "ReplaceFile"
      /\ pc \in {"discard", "done"} => i = Len(batch) + 1
      /\ expected \in Tree
  BY DEF Shape, Types
<1>1. CASE Write
  <2>1. /\ pc = "apply" /\ step = "write" /\ UNCHANGED <<world, base, batch, faults>>
        /\ Valid(expected, change) /\ change \in Changes
    BY <1>1, ChangeFacts, ChangeValid DEF Write, Fail, fixed, ghosts
  <2>2. CASE WriteOk
    <3>1. /\ expected' = Apply(expected, change) /\ step' = "check" /\ i' = i + 1
          /\ pc' = IF i = Len(batch) THEN "discard" ELSE pc
      BY <1>1, <2>1, <2>2, Zenon DEF Write
    <3>2. WellFormed(expected')
      BY <1>0, <2>1, <3>1, ApplyWellFormed
    <3> QED BY <1>0, <2>1, <3>1, <3>2 DEF Shape
  <2>3. CASE ~WriteOk
    BY <1>0, <1>1, <2>1, <2>3 DEF Shape, Write, Fail
  <2> QED BY <2>2, <2>3
<1>2. CASE Precheck
  <2>1. /\ UNCHANGED <<world, base, expected, batch, faults, undo>> /\ step' = "check"
        /\ pc = "precheck" /\ pc' \in {"precheck", "apply", "failed"}
    BY <1>2 DEF Precheck, Types, fixed, ghosts
  <2>2. undo = <<>>
    BY <2>1 DEF Untouched
  <2> QED BY <1>0, <2>1, <2>2 DEF Shape
<1>3. CASE MakeDirectories
  <2>1. /\ UNCHANGED <<world, base, expected, batch, i>> /\ faults' \in Nat
        /\ \/ pc' = "rollback"
           \/ pc' = "apply" /\ step' = "write"
    BY <1>0, <1>3 DEF MakeDirectories, Fail, fixed, ghosts, Op
  <2> QED BY <1>0, <2>1 DEF Shape
<1>4. CASE Check
  <2>1. /\ UNCHANGED <<world, base, expected, batch, i, faults>>
        /\ \/ pc' = "rollback"
           \/ pc' = "apply" /\ (step' = "save" => change.op = "ReplaceFile")
    BY <1>4 DEF Check, Fail, fixed, ghosts, Op
  <2> QED BY <1>0, <2>1 DEF Shape, change
<1>5. CASE Save
  <2>1. /\ UNCHANGED <<world, base, expected, batch, i, faults>>
        /\ \/ pc' = "rollback"
           \/ pc' = "apply" /\ step' = "write"
    BY <1>5 DEF Save, Fail, fixed, ghosts, Op
  <2> QED BY <1>0, <2>1 DEF Shape
<1>6. CASE RollBack
  <2>1. /\ UNCHANGED <<world, base, expected, batch, i>> /\ faults' \in Nat /\ pc' = "rollback"
    <3>1. faults' = faults \/ faults' = faults + 1
      BY <1>6, Zenon DEF RollBack
    <3> QED BY <1>0, <1>6, <3>1 DEF RollBack, fixed, ghosts
  <2> QED BY <1>0, <2>1 DEF Shape
<1>7. CASE Fault \/ Discard \/ RolledBack \/ Crash \/ Begin
  BY <1>0, <1>7 DEF Shape, Fault, Discard, RolledBack, Crash, Begin, Fail, fixed, ghosts
<1>8. ASSUME NEW e \in Changes, ExternalEdit(e) PROVE Shape'
  <2>1. /\ UNCHANGED <<base, batch, pc, i, step, expected, undo, faults>>
        /\ world' = IF Valid(world, e) THEN Apply(world, e) ELSE world
    BY <1>8 DEF ExternalEdit, fixed
  <2>2. world' \in Tree
    BY <1>0, <2>1, ApplyType
  <2> QED BY <1>0, <2>1, <2>2 DEF Shape
<1>9. CASE UNCHANGED vars
  BY <1>0, <1>9 DEF Shape, vars
<1> QED BY <1>1, <1>2, <1>3, <1>4, <1>5, <1>6, <1>7, <1>8, <1>9 DEF Next

(* While nobody edits, the disk follows the plan, call by call.            *)
LEMMA CourseNext ==
    ASSUME Types, Follows, Shape, Untouched, Course, edits = 0, edits' = 0, [Next]_vars
    PROVE  Course'
<1>0. /\ world = base /\ ~raced /\ disk \in Tree /\ base \in Tree /\ expected \in Tree
      /\ WellFormed(disk) /\ WellFormed(expected) /\ WellFormed(base)
      /\ pc \in {"idle", "precheck"} => disk = base /\ step = "check" /\ expected = base
      /\ pc = "apply" => disk = Between(expected, change, step)
      /\ pc \in {"discard", "done"} => disk = expected
      /\ pc = "apply" /\ step = "write" /\ change.op = "ReplaceFile" =>
            /\ undo # <<>> /\ change.key \in FilesOf(disk)
            /\ Last(undo) = [op |-> "Restore", key |-> change.key,
                             saved |-> Subtree(disk, change.key)]
  BY DEF Course, Types, Shape, Follows, change
<1>1. ASSUME pc = "apply" PROVE change \in Changes /\ Valid(expected, change) /\ change = batch[i]
  BY <1>1, ChangeFacts, ChangeValid DEF change
<1>2. CASE Precheck
  <2>1. /\ UNCHANGED <<world, base, raced, expected, batch, disk>> /\ step' = "check"
        /\ pc = "precheck" /\ pc' \in {"precheck", "apply", "failed"}
    BY <1>2 DEF Precheck, Types, fixed, ghosts
  <2>2. Between(expected', batch'[i'], step') = expected
    BY <2>1 DEF Between
  <2> QED BY <1>0, <2>1, <2>2 DEF Course
<1>3. CASE Check
  <2>1. /\ UNCHANGED <<world, base, raced, expected, batch, disk, i>> /\ pc = "apply"
        /\ step = "check" /\ change.op \in Removals
        /\ \/ pc' = "rollback"
           \/ pc' = "apply" /\ step' = IF change.op = "ReplaceFile" THEN "save" ELSE "write"
    BY <1>3 DEF Check, Fail, fixed, ghosts, Op, Removals
  <2>2. change' = change
    BY <2>1 DEF change
  <2>3. Between(expected, change, step') = expected /\ Between(expected, change, step) = expected
    BY <2>1 DEF Between
  <2> QED BY <1>0, <2>1, <2>2, <2>3 DEF Course, change
<1>4. CASE MakeDirectories
  <2>1. /\ UNCHANGED <<world, base, raced, expected, batch, i>> /\ pc = "apply"
        /\ step = "check" /\ change.op \in {"CreateFile", "CreateDirectory"}
        /\ pc' \in {"apply", "rollback"}
    BY <1>4, MadeFacts
  <2>2. ASSUME pc' = "apply"
        PROVE  /\ step' = "write" /\ disk' = [disk EXCEPT !.dirs = @ \cup (Target(change) \ disk.dirs)]
    BY <1>4, <2>2, MadeFacts
  <2>3. disk = expected
    BY <1>0, <2>1 DEF Between
  <2>4. ASSUME pc' = "apply" PROVE disk' = Between(expected, change, "write")
    <3>1. disk' = [dirs |-> disk.dirs \cup (Target(change) \ disk.dirs), files |-> disk.files]
      BY <1>0, <2>2, <2>4, MoreDirectories
    <3>2. disk.dirs \cup (Target(change) \ disk.dirs) = expected.dirs \cup Target(change)
      BY <2>3
    <3>3. disk' = [dirs |-> expected.dirs \cup Target(change), files |-> expected.files]
      BY <2>3, <3>1, <3>2
    <3> QED BY <2>1, <3>3 DEF Between, Removals
  <2> QED BY <1>0, <2>1, <2>2, <2>4 DEF Course, change
<1>5. CASE Save
  <2>1. /\ UNCHANGED <<world, base, raced, expected, batch, i, disk>> /\ pc = "apply"
        /\ step = "save" /\ change.op = "ReplaceFile" /\ disk = expected
        /\ \/ pc' = "rollback"
           \/ pc' = "apply" /\ step' = "write" /\ change.key \in FilesOf(disk)
    BY <1>0, <1>5 DEF Save, Fail, fixed, ghosts, Op, Between
  <2>2. ASSUME pc' = "apply"
        PROVE  /\ undo' # <<>> /\ Last(undo') = [op |-> "Restore", key |-> change.key,
                                                saved |-> Subtree(disk, change.key)]
    <3> DEFINE u == [op |-> "Restore", key |-> change.key, saved |-> Subtree(disk, change.key)]
    <3>1. undo' = Append(undo, u)
      BY <1>5, <2>1, <2>2, SaveFacts
    <3>2. PICK S : undo \in Seq(S)
      BY DEF Types
    <3> HIDE DEF u
    <3>3. undo' # <<>> /\ Last(undo') = u
      BY <3>1, <3>2 DEF Last
    <3> QED BY <3>3 DEF u
  <2>3. Between(expected, change, "write") = expected
    BY <2>1 DEF Between, Removals
  <2> QED BY <1>0, <2>1, <2>2, <2>3 DEF Course, change
<1>6. CASE Write
  <2>1. /\ UNCHANGED <<world, base, raced, batch>> /\ pc = "apply" /\ step = "write"
    BY <1>6 DEF Write, Fail, fixed, ghosts
  <2>2. WriteOk /\ Written = Apply(expected, change)
    BY <1>0, <2>1, WritesPlan
  <2>3. /\ disk' = Apply(expected, change) /\ expected' = Apply(expected, change) /\ step' = "check"
        /\ pc' \in {"apply", "discard"}
    BY <1>1, <1>6, <2>1, <2>2, Zenon DEF Write
  <2>4. Between(expected', batch'[i'], step') = expected'
    BY <2>3 DEF Between
  <2> QED BY <1>0, <2>1, <2>3, <2>4 DEF Course
<1>7. CASE RollBack
  BY <1>0, <1>7 DEF RollBack, Course, fixed, ghosts
<1>8. CASE Fault \/ RolledBack \/ Crash \/ Discard \/ Begin
  BY <1>0, <1>8 DEF Course, Fault, Discard, RolledBack, Crash, Begin, Fail, fixed, ghosts
<1>9. ASSUME NEW e \in Changes, ExternalEdit(e) PROVE FALSE
  BY <1>9 DEF ExternalEdit, Types
<1>10. CASE UNCHANGED vars
  BY <1>0, <1>10 DEF Course, vars, Between, change
<1> QED BY <1>2, <1>3, <1>4, <1>5, <1>6, <1>7, <1>8, <1>9, <1>10 DEF Next

(* While nobody edits, every call leaves a journal that leads back to the  *)
(* snapshot, and only a fault keeps an undo from going through.            *)
LEMMA WayBackNext ==
    ASSUME Types, Follows, Shape, Untouched, Course, WayBack, edits = 0, edits' = 0, [Next]_vars
    PROVE  WayBack'
<1>0. /\ disk \in Tree /\ WellFormed(disk) /\ expected \in Tree /\ WellFormed(expected)
      /\ faults \in Nat /\ (pc = "rollback" => faults >= 1) /\ (left # {} => faults >= 2)
      /\ left = {} /\ pc # "done" => CanUnwind(base, disk, undo)
      /\ pc = "apply" => disk = Between(expected, change, step)
      /\ pc = "apply" /\ step = "write" /\ change.op = "ReplaceFile" =>
            /\ undo # <<>> /\ change.key \in FilesOf(disk)
            /\ Last(undo) = [op |-> "Restore", key |-> change.key,
                             saved |-> Subtree(disk, change.key)]
  BY DEF Course, WayBack, Types, Shape, change
<1>1. ASSUME pc = "apply"
      PROVE  /\ change \in Changes /\ change.key \in Paths /\ Valid(expected, change)
             /\ change.op \in {"CreateFile", "ReplaceFile", "RemoveFile",
                               "CreateDirectory", "RemoveDirectory"}
             /\ change.op \in {"CreateFile", "ReplaceFile"} => change.bytes \in Bytes
  BY <1>1, ChangeFacts, ChangeValid
<1>2. PICK S : undo \in Seq(S)
  BY DEF Types
<1> DEFINE backup == [op |-> "Restore", key |-> change.key, saved |-> Subtree(disk, change.key)]
<1>3. CASE Precheck \/ Begin \/ RolledBack
  BY <1>0, <1>3 DEF Precheck, Begin, RolledBack, fixed, WayBack
<1>4. CASE Crash \/ Discard \/ UNCHANGED vars
  BY <1>0, <1>4 DEF Crash, Discard, vars, fixed, WayBack, Running
<1>5. CASE Fault
  <2>1. faults' = faults + 1 /\ UNCHANGED <<base, disk, undo, left>> /\ pc = "apply"
    BY <1>5 DEF Fault, Fail, fixed
  <2>2. faults' >= 1 /\ (faults >= 2 => faults' >= 2)
    BY <1>0, <2>1
  <2> QED BY <1>0, <2>1, <2>2 DEF WayBack
<1>6. CASE Check
  <2>1. /\ pc = "apply" /\ step = "check" /\ change.op \in Removals
        /\ UNCHANGED <<base, disk, undo, left, faults>>
    BY <1>6 DEF Check, Fail, Op, fixed, Removals
  <2>2. disk = expected
    BY <1>0, <2>1 DEF Between
  <2>3. /\ Unchanged(expected, change)
        /\ change.op = "ReplaceFile" => change.key \in FilesOf(disk)
    BY <1>0, <1>1, <2>1, <2>2, ChecksPass, CallsGoThrough
  <2>4. pc' = "apply"
    BY <1>6, <2>1, <2>3, Zenon DEF Check
  <2> QED BY <1>0, <2>1, <2>4 DEF WayBack
<1>7. CASE MakeDirectories
  <2>1. /\ pc = "apply" /\ step = "check" /\ change.op \in {"CreateFile", "CreateDirectory"}
        /\ UNCHANGED <<base, left>>
    BY <1>7, MadeFacts
  <2>2. disk = expected
    BY <1>0, <2>1 DEF Between
  <2>3. Target(change) \cap FilesOf(disk) = {}
    BY <1>0, <1>1, <2>1, <2>2, CallsGoThrough
  <2>4. PICK made \in SUBSET Paths :
          /\ IsFiniteSet(made) /\ made \cap disk.dirs = {}
          /\ \A d, e \in made : d = e \/ d \in Above[e] \/ e \in Above[d]
          /\ disk' = [disk EXCEPT !.dirs = @ \cup made]
          /\ undo' = undo \o MadeEntries(made)
          /\ \/ pc' = "apply" /\ faults' = faults
             \/ pc' = "rollback" /\ faults' = faults + 1
    BY <1>7, <2>3, MadeFacts
  <2>5. CanUnwind(base, disk, undo) => CanUnwind(base, disk', undo')
    BY <1>0, <1>2, <2>4, UnwindMade
  <2>6. (pc' = "rollback" => faults' >= 1) /\ (faults >= 2 => faults' >= 2)
    BY <1>0, <2>4
  <2> QED BY <1>0, <2>1, <2>4, <2>5, <2>6 DEF WayBack
<1>8. CASE Save
  <2>1. /\ pc = "apply" /\ step = "save" /\ change.op = "ReplaceFile"
        /\ UNCHANGED <<base, disk, left, faults>>
    BY <1>8 DEF Save, Fail, Op, fixed
  <2>2. disk = expected
    BY <1>0, <2>1 DEF Between
  <2>3. change.key \in FilesOf(disk)
    BY <1>0, <1>1, <2>1, <2>2, CallsGoThrough
  <2>4. pc' = "apply" /\ undo' = Append(undo, backup)
    BY <1>8, <2>1, <2>3 DEF Save
  <2>5. UndoOk(disk, backup) /\ Undone(disk, backup) = disk
    BY <1>0, <1>1, <2>1, <2>3, PutBack
  <2> HIDE DEF backup
  <2>6. undo' = undo \o <<backup>>
    BY <1>2, <2>4
  <2>7. CanUnwind(base, disk, undo) => CanUnwind(base, disk, undo')
    BY <1>2, <2>5, <2>6, UnwindOne
  <2> QED BY <1>0, <2>1, <2>4, <2>7 DEF WayBack
<1>9. CASE Write
  <2>1. /\ pc = "apply" /\ step = "write" /\ UNCHANGED <<base, left, faults>>
    BY <1>9 DEF Write, Fail, fixed
  <2>2. WriteOk /\ Written = Apply(expected, change)
    BY <1>0, <2>1, WritesPlan
  <2>3. disk' = Written /\ undo' = undo \o Record /\ pc' \in {"apply", "discard"}
    BY <1>1, <1>9, <2>1, <2>2, Zenon DEF Write
  <2>4. ASSUME CanUnwind(base, disk, undo) PROVE CanUnwind(base, disk', undo')
    <3>1. CASE change.op = "CreateFile"
      <4> DEFINE u == [op |-> "RemoveCreatedFile", key |-> change.key]
      <4>1. disk' = InsertFile(disk, change.key, change.bytes) /\ undo' = undo \o <<u>>
        BY <2>3, <3>1 DEF Written, Record
      <4>2. disk.dirs = expected.dirs \cup Above[change.key] /\ change.key \notin FilesOf(disk)
        <5>1. disk = [dirs |-> expected.dirs \cup Above[change.key], files |-> expected.files]
          BY <1>0, <2>1, <3>1 DEF Between, Removals, Target
        <5> QED BY <2>2, <3>1, <5>1 DEF WriteOk, Exists
      <4>3. UndoOk(disk', u) /\ Undone(disk', u) = disk
        BY <1>0, <1>1, <2>1, <3>1, <4>1, <4>2, TakeAway
      <4> HIDE DEF u
      <4> QED BY <1>2, <2>4, <4>1, <4>3, UnwindOne
    <3>2. CASE change.op = "ReplaceFile"
      <4>1. disk' = InsertFile(disk, change.key, change.bytes) /\ Record = <<>>
        BY <2>3, <3>2 DEF Written, Record
      <4>2. undo' = undo
        BY <1>2, <2>3, <4>1
      <4>3. undo # <<>> /\ change.key \in FilesOf(disk) /\ Last(undo) = backup
        BY <1>0, <2>1, <3>2
      <4>4. UndoOk(disk', backup) /\ Undone(disk', backup) = disk /\ Undone(disk, backup) = disk
        BY <1>0, <1>1, <2>1, <3>2, <4>1, <4>3, PutBack
      <4> HIDE DEF backup
      <4>5. UndoOk(disk', Last(undo)) /\ Undone(disk', Last(undo)) = Undone(disk, Last(undo))
        BY <4>3, <4>4
      <4> QED BY <1>2, <2>4, <4>2, <4>3, <4>5, UnwindSame
    <3>3. CASE change.op = "CreateDirectory"
      <4>1. disk' = disk /\ Record = <<>>
        BY <2>3, <3>3 DEF Written, Record
      <4>2. undo' = undo
        BY <1>2, <2>3, <4>1
      <4> QED BY <2>4, <4>1, <4>2
    <3>4. CASE change.op \in {"RemoveFile", "RemoveDirectory"}
      <4>1. disk' = RemoveDirectory(disk, change.key) /\ undo' = undo \o <<backup>>
        BY <2>3, <3>4 DEF Written, Record
      <4>2. Exists(disk, change.key)
        BY <2>2, <3>4 DEF WriteOk
      <4>3. UndoOk(disk', backup) /\ Undone(disk', backup) = disk
        BY <1>0, <1>1, <2>1, <4>1, <4>2, PutBack
      <4> HIDE DEF backup
      <4> QED BY <1>2, <2>4, <4>1, <4>3, UnwindOne
    <3> QED BY <1>1, <2>1, <3>1, <3>2, <3>3, <3>4
  <2> QED BY <1>0, <2>1, <2>3, <2>4 DEF WayBack
<1>10. CASE RollBack
  <2>1. /\ pc = "rollback" /\ pc' = pc /\ base' = base /\ undo # <<>> /\ undo' = Front(undo)
    BY <1>10 DEF RollBack, NewestFirst, fixed
  <2>2. \/ UndoOk(disk, Last(undo)) /\ disk' = Undone(disk, Last(undo)) /\ UNCHANGED <<left, faults>>
        \/ ~UndoOk(disk, Last(undo)) /\ left' = left \cup {Last(undo)} /\ faults' = faults
        \/ left' = left \cup {Last(undo)} /\ faults' = faults + 1
    BY <1>10, Zenon DEF RollBack, NewestFirst
  <2>3. left = {} => UndoOk(disk, Last(undo)) /\ CanUnwind(base, Undone(disk, Last(undo)), Front(undo))
    BY <1>0, <1>2, <2>1, UnwindBack
  <2>4. left' = {} => left = {} /\ disk' = Undone(disk, Last(undo))
    BY <2>2
  <2>5. faults' >= 1 /\ (left' # {} => faults' >= 2)
    BY <1>0, <2>1, <2>2, <2>3
  <2>6. left' = {} => CanUnwind(base', disk', undo')
    BY <2>1, <2>3, <2>4
  <2> QED BY <2>1, <2>5, <2>6 DEF WayBack
<1>11. ASSUME NEW e \in Changes, ExternalEdit(e) PROVE FALSE
  BY <1>11 DEF ExternalEdit, Types
<1> QED BY <1>3, <1>4, <1>5, <1>6, <1>7, <1>8, <1>9, <1>10, <1>11 DEF Next

(* A batch nobody disturbs stays on its course, with its way back open.    *)
LEMMA AloneNext ==
    ASSUME Types, Follows, Shape, Untouched, Alone, [Next]_vars
    PROVE  Alone'
<1>1. SUFFICES ASSUME edits' = 0 PROVE Course' /\ WayBack'
  BY DEF Alone
<1>2. edits = 0
  <2>1. edits' = edits \/ edits' = edits + 1
    BY DEF Next, Begin, Precheck, Check, MakeDirectories, Save, Write, Fault, Discard,
           RollBack, RolledBack, Crash, ExternalEdit, Fail, vars
  <2> QED BY <1>1, <2>1 DEF Types
<1> QED BY <1>1, <1>2, CourseNext, WayBackNext DEF Alone

-----------------------------------------------------------------------------
(* A batch that lands.                                                     *)

\* The entries the batch is through with hold what is planned for them.
Landed ==
    Landing /\ ~raced => \A n \in DOMAIN batch :
        n < i => disk.files[batch[n].key] = expected.files[batch[n].key]

(* A write leaves the planned bytes at its key, and does elsewhere what    *)
(* the plan does.                                                          *)
LEMMA WriteLands ==
    ASSUME Types, Shape, Follows, Write, WriteOk, NEW p \in Paths,
           p = change.key \/ disk.files[p] = expected.files[p]
    PROVE  disk'.files[p] = Apply(expected, change).files[p]
<1>0. /\ pc = "apply" /\ disk \in Tree /\ WellFormed(disk) /\ expected \in Tree /\ WellFormed(expected)
      /\ disk' = Written
  BY WriteFacts DEF Types, Shape, Write
<1>1. /\ change \in Changes /\ change.key \in Paths /\ Valid(expected, change)
      /\ change.op \in {"CreateFile", "ReplaceFile", "RemoveFile",
                        "CreateDirectory", "RemoveDirectory"}
      /\ change.op \in {"CreateFile", "ReplaceFile"} => change.bytes \in Bytes
  BY <1>0, ChangeFacts, ChangeValid
<1>2. CASE change.op \in {"CreateFile", "ReplaceFile"}
  BY <1>0, <1>1, <1>2 DEF Written, Apply, InsertFile, Tree, FileMap
<1>3. CASE change.op = "CreateDirectory"
  <2>1. disk' = disk /\ Apply(expected, change).files = expected.files
    BY <1>0, <1>3 DEF Written, Apply, InsertDirectory
  <2>2. ASSUME p = change.key PROVE disk.files[p] = NoFile /\ expected.files[p] = NoFile
    <3>1. p \in disk.dirs /\ p \notin FilesOf(expected)
      BY <1>1, <1>3, <2>2 DEF WriteOk, Valid, InsertDirectoryOk
    <3> QED BY <1>0, <3>1 DEF WellFormed, FilesOf, Keys
  <2> QED BY <2>1, <2>2
<1>4. CASE change.op \in {"RemoveFile", "RemoveDirectory"}
  <2>1. Apply(expected, change) = RemoveDirectory(expected, change.key)
    BY <1>0, <1>1, <1>4, CallsGoThrough
  <2>2. disk' = RemoveDirectory(disk, change.key)
    BY <1>0, <1>4 DEF Written
  <2>3. /\ disk'.files[p] = IF p \in AtOrBelow(change.key) THEN NoFile ELSE disk.files[p]
        /\ Apply(expected, change).files[p]
              = IF p \in AtOrBelow(change.key) THEN NoFile ELSE expected.files[p]
    BY <1>0, <1>1, <2>1, <2>2, RemoveDirectoryFacts
  <2> QED BY <1>1, <2>3 DEF AtOrBelow
<1> QED BY <1>1, <1>2, <1>3, <1>4

(* What has landed stays, unless an edit races.                            *)
LEMMA LandedNext == ASSUME Types, Shape, Follows, Landed, [Next]_vars PROVE Landed'
<1>0. /\ Landing /\ ~raced => \A n \in DOMAIN batch :
             n < i => disk.files[batch[n].key] = expected.files[batch[n].key]
      /\ disk \in Tree /\ i \in Nat /\ DOMAIN batch \subseteq Nat
      /\ \A n \in DOMAIN batch : batch[n].key \in Paths
  <2>1. \A n \in DOMAIN batch : batch[n] \in Changes
    BY DEF Types
  <2>2. \A n \in DOMAIN batch : batch[n].key \in Paths
    BY <2>1 DEF Changes
  <2> QED BY <2>2 DEF Landed, Types
<1>1. CASE Write
  <2>1. CASE WriteOk
    <3>1. /\ pc = "apply" /\ UNCHANGED <<batch, raced>> /\ Valid(expected, change)
          /\ i \in DOMAIN batch /\ change = batch[i]
      BY <1>1, ChangeValid, ChangeFacts DEF Write, Fail, fixed, ghosts, change
    <3>2. expected' = Apply(expected, change) /\ i' = i + 1
      BY <1>1, <2>1, <3>1, Zenon DEF Write
    <3>3. ASSUME ~raced, NEW n \in DOMAIN batch, n < i + 1
          PROVE  disk'.files[batch[n].key] = expected'.files[batch[n].key]
      <4>1. n < i \/ n = i
        BY <1>0, <3>3
      <4>2. batch[n].key = change.key \/ disk.files[batch[n].key] = expected.files[batch[n].key]
        BY <1>0, <3>1, <3>3, <4>1 DEF Landing
      <4> QED BY <1>0, <1>1, <2>1, <3>2, <4>2, WriteLands
    <3> QED BY <3>1, <3>2, <3>3 DEF Landed
  <2>2. CASE ~WriteOk
    BY <1>1, <2>2 DEF Write, Fail, Landed, Landing
  <2> QED BY <2>1, <2>2
<1>2. CASE MakeDirectories
  <2>1. UNCHANGED <<batch, i, expected, raced>> /\ pc = "apply" /\ disk'.files = disk.files
    BY <1>2, MadeFacts, MakeDirectoriesFacts
  <2> QED BY <1>0, <2>1 DEF Landed, Landing
<1>3. CASE Precheck
  <2>1. (Landing' => i' = 1) /\ UNCHANGED batch
    BY <1>3 DEF Precheck, Landing, fixed
  <2>2. \A n \in DOMAIN batch : ~(n < 1)
    BY DEF Types
  <2> QED BY <2>1, <2>2 DEF Landed
<1>4. CASE Begin \/ Check \/ Save \/ Fault \/ Discard \/ RollBack \/ RolledBack \/ Crash \/ UNCHANGED vars
  <2>1. Landing' => Landing /\ UNCHANGED <<disk, batch, i, expected, raced>>
    BY <1>4 DEF Begin, Check, Save, Fault, Discard, RollBack, RolledBack, Crash, Fail, Op, Landing,
                vars, fixed, ghosts
  <2> QED BY <1>0, <2>1 DEF Landed
<1>5. ASSUME NEW e \in Changes, ExternalEdit(e) PROVE Landed'
  <2>1. /\ UNCHANGED <<pc, step, batch, i, expected>> /\ disk' = Apply(disk, e)
        /\ raced' = (raced \/ Committed(e.key) \/ ~Valid(world, e)) /\ (pc = "idle" \/ Running)
    BY <1>5 DEF ExternalEdit, fixed
  <2>2. ~raced' => ~raced /\ ~Committed(e.key)
    BY <2>1, Zenon
  <2>3. ASSUME Landing, ~raced', NEW n \in DOMAIN batch, n < i,
               disk'.files[batch[n].key] # disk.files[batch[n].key]
        PROVE  FALSE
    <3>1. batch[n].key \in AtOrBelow(e.key) /\ e.key \in Paths
      BY <1>0, <2>1, <2>3, EditedBelow
    <3>2. batch[n].key \in AtOrBelow(batch[n].key) /\ batch[n].key \in Paths
      BY <1>0, <2>3 DEF AtOrBelow
    <3>3. Related(batch[n].key, e.key)
      BY <3>1, <3>2, CommonBelow
    <3>4. Committed(e.key)
      BY <2>1, <2>3, <3>3 DEF Committed, Landing, Running
    <3> QED BY <2>2, <2>3, <3>4
  <2> QED BY <1>0, <2>1, <2>2, <2>3 DEF Landed, Landing
<1> QED BY <1>1, <1>2, <1>3, <1>4, <1>5 DEF Next

-----------------------------------------------------------------------------
(* A batch that fails, whoever else edits.                                 *)

\* What the file at p is after undoing u, which affects it.
Returns(u, p) == IF u.op = "RemoveCreatedFile" THEN NoFile ELSE u.saved.files[p]

\* Undoing the journal newest first leaves these bytes at p: its oldest entry
\* there returns them, or no entry affects p and they are there now.
BackTo(now, journal, p, bytes) ==
    \/ \E n \in DOMAIN journal :
          /\ Affects(journal[n], p) /\ Returns(journal[n], p) = bytes
          /\ \A m \in DOMAIN journal : m < n => ~Affects(journal[m], p)
    \/ now = bytes /\ \A n \in DOMAIN journal : ~Affects(journal[n], p)

Reversible ==
    ~raced /\ left = {} /\ pc # "done" =>
        \A p \in Paths : BackTo(disk.files[p], undo, p, world.files[p])

(* The journal grows, by an entry that undoes nothing at p or returns what *)
(* the disk held there.                                                    *)
LEMMA BackGrows ==
    ASSUME NEW S, NEW q \in Seq(S), NEW T, NEW r \in Seq(T), NEW p,
           NEW bytes, NEW now, NEW after,
           BackTo(now, q, p, bytes),
           \A n \in DOMAIN q : n \in DOMAIN r /\ r[n] = q[n],
           \A n \in DOMAIN r \ DOMAIN q : \A m \in DOMAIN q : m < n,
           now = bytes /\ (\A n \in DOMAIN q : ~Affects(q[n], p)) =>
              \/ after = now /\ \A n \in DOMAIN r \ DOMAIN q : ~Affects(r[n], p)
              \/ /\ DOMAIN r \ DOMAIN q # {}
                 /\ \A n \in DOMAIN r \ DOMAIN q : Affects(r[n], p) /\ Returns(r[n], p) = bytes
                 /\ \A n, m \in DOMAIN r \ DOMAIN q : m = n
    PROVE  BackTo(after, r, p, bytes)
<1>0. DOMAIN q \subseteq Nat /\ DOMAIN r \subseteq Nat
  OBVIOUS
<1>1. ASSUME NEW n \in DOMAIN q, Affects(q[n], p), Returns(q[n], p) = bytes,
             \A m \in DOMAIN q : m < n => ~Affects(q[m], p)
      PROVE  BackTo(after, r, p, bytes)
  <2>1. ASSUME NEW m \in DOMAIN r, m < n PROVE ~Affects(r[m], p)
    <3>1. m \in DOMAIN q
      <4>1. m \notin DOMAIN q => n < m
        OBVIOUS
      <4> QED BY <1>0, <2>1, <4>1
    <3> QED BY <1>1, <2>1, <3>1
  <2> QED BY <1>1, <2>1 DEF BackTo
<1>2. ASSUME now = bytes, \A n \in DOMAIN q : ~Affects(q[n], p)
      PROVE  BackTo(after, r, p, bytes)
  <2>1. CASE after = now /\ \A n \in DOMAIN r \ DOMAIN q : ~Affects(r[n], p)
    BY <1>2, <2>1 DEF BackTo
  <2>2. ASSUME NEW n \in DOMAIN r \ DOMAIN q, Affects(r[n], p), Returns(r[n], p) = bytes,
               \A m \in DOMAIN r \ DOMAIN q : m = n
        PROVE  BackTo(after, r, p, bytes)
    <3>1. \A m \in DOMAIN r : m < n => m \in DOMAIN q
      BY <1>0, <2>2
    <3> QED BY <1>2, <2>2, <3>1 DEF BackTo
  <2> QED BY <1>2, <2>1, <2>2
<1> QED BY <1>1, <1>2 DEF BackTo

(* The newest entry is undone.                                             *)
LEMMA BackUndone ==
    ASSUME NEW S, NEW q \in Seq(S), NEW r, NEW p, NEW bytes, NEW now, NEW after,
           BackTo(now, q, p, bytes),
           Len(q) \in DOMAIN q, DOMAIN r = DOMAIN q \ {Len(q)},
           \A n \in DOMAIN r : r[n] = q[n] /\ n < Len(q),
           after = IF Affects(q[Len(q)], p) THEN Returns(q[Len(q)], p) ELSE now
    PROVE  BackTo(after, r, p, bytes)
<1> DEFINE k == Len(q)
<1>0. k \in DOMAIN q /\ DOMAIN q = DOMAIN r \cup {k} /\ k \notin DOMAIN r
  OBVIOUS
<1>1. ASSUME NEW n \in DOMAIN q, Affects(q[n], p), Returns(q[n], p) = bytes,
             \A m \in DOMAIN q : m < n => ~Affects(q[m], p)
      PROVE  BackTo(after, r, p, bytes)
  <2>1. CASE n = k
    <3>1. \A m \in DOMAIN r : ~Affects(r[m], p)
      BY <1>0, <1>1, <2>1
    <3> QED BY <1>1, <2>1, <3>1 DEF BackTo
  <2>2. CASE n # k
    BY <1>0, <1>1, <2>2 DEF BackTo
  <2> QED BY <2>1, <2>2
<1>2. CASE now = bytes /\ \A n \in DOMAIN q : ~Affects(q[n], p)
  BY <1>0, <1>2 DEF BackTo
<1> QED BY <1>1, <1>2 DEF BackTo

(* An edit does the same to a file wherever it finds it the same.          *)
LEMMA ApplyAlike ==
    ASSUME NEW t \in Tree, NEW r \in Tree, NEW e \in Changes, NEW p \in Paths,
           t.files[p] = r.files[p]
    PROVE  Apply(t, e).files[p] = Apply(r, e).files[p]
<1>1. e.key \in Paths /\ e.op \in {"CreateFile", "ReplaceFile", "RemoveFile",
                                   "CreateDirectory", "RemoveDirectory"}
  BY DEF Changes
<1>2. CASE e.op \in {"CreateFile", "ReplaceFile"}
  BY <1>1, <1>2 DEF Apply, InsertFile, Tree, FileMap
<1>3. CASE e.op = "RemoveFile"
  BY <1>1, <1>3 DEF Apply, RemoveFile, Tree, FileMap
<1>4. CASE e.op = "CreateDirectory"
  BY <1>1, <1>4 DEF Apply, InsertDirectory
<1>5. CASE e.op = "RemoveDirectory"
  BY <1>1, <1>5 DEF Apply, RemoveDirectory
<1> QED BY <1>1, <1>2, <1>3, <1>4, <1>5

(* Every step keeps each file on its way back to what the others made of   *)
(* it, unless an edit races or an undo fails.                              *)
LEMMA ReversibleNext ==
    ASSUME Types, Shape, Originals, Untouched, Journaled, Reversible, [Next]_vars
    PROVE  Reversible'
<1> DEFINE Back(p) == BackTo(disk.files[p], undo, p, world.files[p])
           backup == [op |-> "Restore", key |-> change.key,
                      saved |-> Subtree(disk, change.key)]
<1>0. /\ ~raced /\ left = {} /\ pc # "done" => \A p \in Paths : Back(p)
      /\ disk \in Tree /\ WellFormed(disk) /\ world \in Tree
      /\ \A n \in DOMAIN undo : EntryOk(undo[n])
      /\ pc = "apply" /\ step = "write" /\ change.op = "ReplaceFile" =>
            \E n \in DOMAIN undo : Affects(undo[n], change.key)
  BY DEF Types, Shape, Reversible, Originals, change
<1>1. CASE Begin \/ Precheck \/ Check \/ Fault \/ Crash \/ RolledBack \/ UNCHANGED vars
  <2>1. UNCHANGED <<disk, undo, left, world, raced>> /\ (pc = "done" => pc' = "done")
    BY <1>1 DEF Begin, Precheck, Check, Fail, Fault, Crash, RolledBack, vars, ghosts, Running, Op
  <2> QED BY <1>0, <2>1 DEF Reversible, BackTo, Affects, Returns
<1>2. CASE (Save /\ change.key \notin FilesOf(disk)) \/ (Write /\ ~WriteOk)
  <2>1. UNCHANGED <<disk, undo, left, world, raced>> /\ pc = "apply"
    BY <1>2 DEF Save, Write, Fail, ghosts, Op
  <2> QED BY <1>0, <2>1 DEF Reversible, BackTo, Affects, Returns
<1>3. CASE MakeDirectories
  <2>1. UNCHANGED <<left, world, raced>> /\ pc = "apply"
    BY <1>3, MadeFacts
  <2>2. PICK S, T : undo \in Seq(S) /\ undo' \in Seq(T)
    BY <1>3, MakeDirectoriesFacts DEF Types
  <2>3. /\ disk'.files = disk.files
        /\ \A n \in DOMAIN undo : n \in DOMAIN undo' /\ undo'[n] = undo[n]
        /\ \A p : \A n \in DOMAIN undo' \ DOMAIN undo : ~Affects(undo'[n], p)
    BY <1>3, MakeDirectoriesFacts DEF Affects
  <2>4. \A n \in DOMAIN undo' \ DOMAIN undo : \A m \in DOMAIN undo : m < n
    BY <2>2, <2>3
  <2>5. ASSUME NEW p \in Paths, Back(p)
        PROVE  BackTo(disk'.files[p], undo', p, world.files[p])
    BY <2>2, <2>3, <2>4, <2>5, BackGrows
  <2> QED BY <1>0, <2>1, <2>5 DEF Reversible
<1>4. CASE Save /\ change.key \in FilesOf(disk)
  <2>1. UNCHANGED <<left, world, raced, disk>> /\ pc = "apply"
    BY <1>4 DEF Save, Fail, ghosts, Op
  <2>2. \A p \in Paths : backup.saved.files[p]
                           = IF p \in AtOrBelow(change.key) THEN disk.files[p] ELSE NoFile
    BY <1>0, <2>1, SubtreeFacts, ChangeFacts
  <2>3. /\ \A n \in DOMAIN undo : n \in DOMAIN undo' /\ undo'[n] = undo[n]
        /\ \A n \in DOMAIN undo' \ DOMAIN undo :
              undo'[n] = backup /\ \A m \in DOMAIN undo : m < n
        /\ \E n \in DOMAIN undo' \ DOMAIN undo : undo'[n] = backup
    BY <1>4, SaveFacts
  <2>4. backup.op = "Restore"
    OBVIOUS
  <2> HIDE DEF backup
  <2>5. PICK S, T : undo \in Seq(S) /\ undo' \in Seq(T)
    BY <1>4, SaveFacts DEF Types
  <2>6. \A n, m \in DOMAIN undo' \ DOMAIN undo : m = n
    BY <1>4, <2>5, SaveFacts
  <2>7. ASSUME NEW p \in Paths, Back(p)
        PROVE  BackTo(disk.files[p], undo', p, world.files[p])
    <3>1. disk.files[p] = world.files[p] =>
             \/ ~Affects(backup, p)
             \/ Affects(backup, p) /\ Returns(backup, p) = world.files[p]
      BY <2>2, <2>4 DEF Returns, Affects
    <3> QED BY <2>3, <2>5, <2>6, <2>7, <3>1, BackGrows
  <2> QED BY <1>0, <2>1, <2>7 DEF Reversible
<1>5. CASE Write /\ WriteOk
  <2>1. UNCHANGED <<left, world, raced>> /\ pc = "apply" /\ step = "write"
    BY <1>5 DEF Write, ghosts
  <2>2. PICK S, T : undo \in Seq(S) /\ undo' \in Seq(T)
    BY <1>5, WriteFacts DEF Types
  <2>3. /\ \A n \in DOMAIN undo : n \in DOMAIN undo' /\ undo'[n] = undo[n]
        /\ \A n \in DOMAIN undo' \ DOMAIN undo :
              Record = <<undo'[n]>> /\ \A m \in DOMAIN undo : m < n
        /\ Record # <<>> => DOMAIN undo' \ DOMAIN undo # {}
    BY <1>5, WriteFacts
  <2>4. \A n, m \in DOMAIN undo' \ DOMAIN undo : m = n
    BY <1>5, WriteFacts
  <2>5. /\ change.key \in Paths /\ disk' = Written
        /\ change.op \in {"CreateFile", "ReplaceFile", "RemoveFile",
                          "CreateDirectory", "RemoveDirectory"}
        /\ change.op \in {"CreateFile", "ReplaceFile"} => change.bytes \in Bytes
    BY <1>5, <2>1, ChangeFacts, WriteFacts
  <2>6. ASSUME NEW p \in Paths, \A n \in DOMAIN undo : ~Affects(undo[n], p)
        PROVE  \/ /\ disk'.files[p] = disk.files[p]
                  /\ \A n \in DOMAIN undo' \ DOMAIN undo : ~Affects(undo'[n], p)
               \/ /\ DOMAIN undo' \ DOMAIN undo # {}
                  /\ \A n \in DOMAIN undo' \ DOMAIN undo :
                        Affects(undo'[n], p) /\ Returns(undo'[n], p) = disk.files[p]
    <3>1. CASE change.op = "CreateFile"
      <4> DEFINE u == [op |-> "RemoveCreatedFile", key |-> change.key]
      <4>1. disk.files[change.key] = NoFile
        BY <1>5, <2>5, <3>1 DEF WriteOk, Exists, FilesOf, Keys
      <4>2. Record = <<u>> /\ u.op = "RemoveCreatedFile" /\ u.key = change.key
        BY <3>1 DEF Record
      <4> HIDE DEF u
      <4>3. /\ DOMAIN undo' \ DOMAIN undo # {}
            /\ \A n \in DOMAIN undo' \ DOMAIN undo : undo'[n] = u
        BY <2>3, <4>2
      <4>4. p # change.key => disk'.files[p] = disk.files[p] /\ ~Affects(u, p)
        BY <1>0, <2>5, <3>1, <4>2 DEF Written, InsertFile, Tree, FileMap, Affects
      <4>5. p = change.key => Affects(u, p) /\ Returns(u, p) = disk.files[p]
        BY <4>1, <4>2 DEF Affects, Returns
      <4> QED BY <4>3, <4>4, <4>5
    <3>2. CASE change.op = "ReplaceFile"
      <4>1. p # change.key
        BY <1>0, <2>1, <2>6, <3>2
      <4>2. Record = <<>>
        BY <3>2 DEF Record
      <4>3. DOMAIN undo' \ DOMAIN undo = {}
        BY <2>3, <4>2
      <4>4. disk'.files[p] = disk.files[p]
        BY <1>0, <2>5, <3>2, <4>1 DEF Written, InsertFile, Tree, FileMap
      <4> QED BY <4>3, <4>4
    <3>3. CASE change.op = "CreateDirectory"
      <4>1. Record = <<>> /\ disk' = disk
        BY <2>5, <3>3 DEF Record, Written
      <4> QED BY <2>3, <4>1
    <3>4. CASE change.op \in {"RemoveFile", "RemoveDirectory"}
      <4>1. Record = <<backup>>
        BY <3>4 DEF Record
      <4>2. /\ backup.saved.files[p]
                 = IF p \in AtOrBelow(change.key) THEN disk.files[p] ELSE NoFile
            /\ backup.op = "Restore"
        BY <1>0, <2>5, SubtreeFacts
      <4>3. disk'.files[p] = IF p \in AtOrBelow(change.key) THEN NoFile ELSE disk.files[p]
        BY <1>0, <2>5, <3>4, RemoveDirectoryFacts DEF Written
      <4> HIDE DEF backup
      <4>4. /\ DOMAIN undo' \ DOMAIN undo # {}
            /\ \A n \in DOMAIN undo' \ DOMAIN undo : undo'[n] = backup
        BY <2>3, <4>1
      <4> QED BY <4>2, <4>3, <4>4 DEF Returns, Affects
    <3> QED BY <2>5, <3>1, <3>2, <3>3, <3>4
  <2>7. ASSUME NEW p \in Paths, Back(p)
        PROVE  BackTo(disk'.files[p], undo', p, world.files[p])
    BY <2>2, <2>3, <2>4, <2>6, <2>7, BackGrows
  <2> QED BY <1>0, <2>1, <2>7 DEF Reversible
<1>6. CASE Discard
  BY <1>6 DEF Reversible, Discard
<1>7. CASE RollBack
  <2>1. UNCHANGED <<world, raced, pc>> /\ pc = "rollback"
    BY <1>7 DEF RollBack, ghosts
  <2>2. /\ Len(undo) \in DOMAIN undo /\ DOMAIN undo' = DOMAIN undo \ {Len(undo)}
        /\ \A n \in DOMAIN undo' : undo'[n] = undo[n] /\ n < Len(undo)
        /\ EntryOk(undo[Len(undo)])
        /\ left' = {} => left = {} /\ UndoOk(disk, undo[Len(undo)])
                         /\ disk' = Undone(disk, undo[Len(undo)])
    BY <1>7, RollBackFacts
  <2>3. PICK S : undo \in Seq(S)
    BY DEF Types
  <2>4. ASSUME left' = {}, NEW p \in Paths, Back(p)
        PROVE  BackTo(disk'.files[p], undo', p, world.files[p])
    <3> DEFINE u == undo[Len(undo)]
    <3>1. disk'.files[p] = IF u.op = "RemoveCreatedFile" /\ u.key = p THEN NoFile
                           ELSE IF u.op = "Restore" /\ u.saved.files[p] # NoFile
                           THEN u.saved.files[p] ELSE disk.files[p]
      BY <2>2, <2>4, UndoneFacts
    <3>2. disk'.files[p] = IF Affects(u, p) THEN Returns(u, p) ELSE disk.files[p]
      <4> HIDE DEF u
      <4> QED BY <3>1 DEF Affects, Returns
    <3> QED BY <2>2, <2>3, <2>4, <3>2, BackUndone
  <2> QED BY <1>0, <2>1, <2>2, <2>4 DEF Reversible
<1>8. ASSUME NEW e \in Changes, ExternalEdit(e) PROVE Reversible'
  <2>1. /\ UNCHANGED <<pc, step, batch, i, undo, left>> /\ disk' = Apply(disk, e)
        /\ raced' = (raced \/ Committed(e.key) \/ ~Valid(world, e))
        /\ world' = IF Valid(world, e) THEN Apply(world, e) ELSE world
        /\ (pc = "idle" \/ Running)
    BY <1>8 DEF ExternalEdit, fixed
  <2>2. ~raced' => ~raced /\ ~Committed(e.key) /\ world' = Apply(world, e)
    BY <2>1, Zenon
  \* An edit that does not race falls on no file the journal would change.
  <2>3. ASSUME ~raced', NEW p \in Paths, NEW n \in DOMAIN undo, Affects(undo[n], p),
               p \in AtOrBelow(e.key), e.key \in Paths
        PROVE  FALSE
    <3>1. pc \in {"apply", "rollback"}
      <4>1. undo # <<>>
        BY <2>3
      <4> QED BY <2>1, <4>1 DEF Untouched, Running
    <3>2. EntryOk(undo[n]) /\ Visited(undo[n]) /\ undo[n].op # "RemoveCreatedDir"
      BY <1>0, <2>3, <3>1 DEF Journaled, Affects
    <3>3. undo[n].key \in Paths /\ p \in AtOrBelow(undo[n].key)
      BY <2>3, <3>2 DEF EntryOk, SavedOk, Affects, AtOrBelow, FilesOf, Keys
    <3>4. Related(undo[n].key, e.key)
      BY <2>3, <3>3, CommonBelow
    <3>5. PICK m \in DOMAIN batch : batch[m].key = undo[n].key /\ Reached(m)
      BY <3>2 DEF Visited
    <3>6. Committed(e.key)
      BY <3>1, <3>4, <3>5 DEF Committed, Reached
    <3> QED BY <2>2, <2>3, <3>6
  <2>4. ASSUME ~raced', NEW p \in Paths, Back(p)
        PROVE  BackTo(disk'.files[p], undo, p, world'.files[p])
    <3>1. CASE \A n \in DOMAIN undo : ~Affects(undo[n], p)
      <4>1. disk.files[p] = world.files[p]
        BY <2>4, <3>1 DEF BackTo
      <4>2. disk'.files[p] = world'.files[p]
        BY <1>0, <2>1, <2>2, <2>4, <4>1, ApplyAlike
      <4> QED BY <3>1, <4>2 DEF BackTo
    <3>2. CASE \E n \in DOMAIN undo : Affects(undo[n], p)
      <4>1. world'.files[p] = world.files[p]
        BY <1>0, <2>2, <2>3, <2>4, <3>2, EditedBelow
      <4> QED BY <2>4, <3>2, <4>1 DEF BackTo
    <3> QED BY <3>1, <3>2
  <2>5. ASSUME ~raced', left = {}, pc # "done", NEW p \in Paths
        PROVE  BackTo(disk'.files[p], undo, p, world'.files[p])
    BY <1>0, <2>2, <2>4, <2>5
  <2> QED BY <2>1, <2>5 DEF Reversible
<1> QED BY <1>1, <1>2, <1>3, <1>4, <1>5, <1>6, <1>7, <1>8 DEF Next

-----------------------------------------------------------------------------
(* The theorems.                                                           *)

BInv == Shape /\ Alone /\ Landed /\ Reversible

(* A batch that has not begun has changed nothing.                         *)
LEMMA InitIInv == ASSUME Init PROVE IInv
<1>1. batch \in Seq(Changes) /\ batch # <<>>
  <2>1. PICK n \in 1 .. MaxBatch : batch \in [1 .. n -> Changes]
    BY DEF Init, Batches
  <2>2. n \in Nat /\ n # 0
    BY BoundsAssumption
  <2> QED BY <2>1, <2>2
<1>2. /\ undo = <<>> /\ DOMAIN undo = {} /\ undo \in Seq({}) /\ 1 \in DOMAIN batch
      /\ Planned(base, batch).ok
  BY <1>1 DEF Init
<1>3. Types
  BY <1>1, <1>2 DEF Init, Types
<1>4. Originals
  BY <1>2 DEF Init, Originals, Kept, KeptIn
<1>5. Untouched
  BY DEF Init, Untouched
<1>6. Follows
  <2>1. \E f : /\ f[0] = base
               /\ \A n \in DOMAIN batch :
                     Valid(f[n-1], batch[n]) /\ f[n] = Apply(f[n-1], batch[n])
               /\ f[Len(batch)] = Planned(base, batch).tree
    BY <1>1, <1>2, PlanExists
  <2> QED BY <2>1 DEF Follows, Plan, Init, Landing
<1>7. Guarded
  BY DEF Init, Guarded, LostOnlyInRace, Window, Journaled
<1> QED BY <1>3, <1>4, <1>5, <1>6, <1>7 DEF IInv

(* Every step of apply_sync, and all that happens around it, keeps the     *)
(* invariant.                                                              *)
LEMMA NextIInv == ASSUME IInv, [Next]_vars PROVE IInv'
BY TypesNext, OriginalsNext, UntouchedNext, FollowsNext, WindowNext, LostNext, JournaledNext
   DEF IInv, Guarded

(* Nothing to undo, nothing disturbed.                                     *)
LEMMA InitBInv == ASSUME Init, IInv PROVE BInv
<1>1. /\ undo = <<>> /\ DOMAIN undo = {} /\ base \in Tree /\ WellFormed(base)
      /\ disk = base /\ world = base /\ expected = base /\ pc = "idle"
      /\ i = 1 /\ step = "check" /\ left = {} /\ faults = 0 /\ raced = FALSE
  BY DEF Init
<1>2. Shape
  BY <1>1 DEF Shape
<1>3. Alone
  <2>1. CanUnwind(base, disk, undo)
    BY <1>1, UnwindEmpty
  <2> QED BY <1>1, <2>1 DEF Alone, Course, WayBack
<1>4. Landed /\ Reversible
  BY <1>1 DEF Landed, Landing, Reversible, BackTo
<1> QED BY <1>2, <1>3, <1>4 DEF BInv

(* Every step keeps the way forward and the way back.                      *)
LEMMA NextBInv == ASSUME IInv, BInv, [Next]_vars PROVE BInv'
BY ShapeNext, AloneNext, LandedNext, ReversibleNext DEF IInv, Guarded, BInv

(* The journal, the disk and the plan of a batch fit together at every     *)
(* step of apply_sync, whoever else edits, fails or dies.                  *)
THEOREM Invariance == Spec => [](IInv /\ BInv)
<1>1. Init => IInv /\ BInv
  BY InitIInv, InitBInv
<1>2. IInv /\ BInv /\ [Next]_vars => (IInv /\ BInv)'
  BY NextIInv, NextBInv
<1> QED BY <1>1, <1>2, PTL DEF Spec

(* Whatever apply_change writes and roll_back undoes, in whatever order    *)
(* the edits of others fall between, no file is left below a file or in a  *)
(* directory that is gone.                                                 *)
THEOREM DiskStaysFileSystem == Spec => [](disk \in Tree /\ WellFormed(disk))
<1>1. IInv => disk \in Tree /\ WellFormed(disk)
  BY DEF IInv, Types
<1> QED BY Invariance, <1>1, PTL

(* Until the batch has landed, the original bytes of every file are in the *)
(* project or in a backup that the journal of apply_sync still names.      *)
THEOREM OriginalsAlwaysRecoverable == Spec => []OriginalsRecoverable
<1>1. ASSUME IInv PROVE OriginalsRecoverable
  <2>1. SUFFICES ASSUME edits = 0, pc # "done", NEW p \in FilesOf(base)
                 PROVE  \/ disk.files[p] = base.files[p]
                        \/ \E u \in ToSet(undo) \cup left :
                              u.op = "Restore" /\ u.saved.files[p] = base.files[p]
    BY DEF OriginalsRecoverable
  <2>2. KeptIn(disk.files[p], undo, left, p, base.files[p])
    BY <1>1, <2>1 DEF IInv, Originals, Kept
  <2>3. \A n \in DOMAIN undo : undo[n] \in ToSet(undo)
    BY DEF ToSet
  <2> QED BY <2>2, <2>3 DEF KeptIn, Holds
<1> QED BY Invariance, <1>1, PTL

(* A batch that replaces or removes an entry which was stale before it     *)
(* began never writes, not even the entries before that one.  (A batch     *)
(* that creates one which exists by then may: KnownStaleNeverWritten.)     *)
THEOREM CheckedStaleStaysUnwritten == Spec => []CheckedStaleNeverWritten
<1>1. ASSUME IInv PROVE CheckedStaleNeverWritten
  BY <1>1 DEF IInv, Untouched, CheckedStaleNeverWritten
<1> QED BY Invariance, <1>1, PTL

(* Writing and rolling back overwrite the edit of another process only if  *)
(* that edit came after apply_change had checked its entry.                *)
THEOREM EditsLostOnlyInRace == Spec => []LostOnlyInRace
<1>1. IInv => LostOnlyInRace
  BY DEF IInv, Guarded
<1> QED BY Invariance, <1>1, PTL

(* A batch lands as planned or leaves the files as it found them, each     *)
(* with what other processes did meanwhile to entries apply_change had not *)
(* yet reached; left alone with one fault at most, roll_back undoes all.   *)
THEOREM BatchesAreAllOrNothing == Spec => []AllOrNothing
<1>1. ASSUME IInv, BInv PROVE AllOrNothing
  <2>1. SUFFICES ASSUME ~raced
                 PROVE  /\ edits = 0 /\ faults <= 1 => left = {}
                        /\ pc \in {"failed", "abandoned"} /\ left = {} =>
                              disk.files = world.files /\ (edits = 0 => disk = base)
                        /\ pc = "done" /\ edits = 0 => disk = Planned(base, batch).tree
                        /\ pc = "done" => \A n \in DOMAIN batch :
                              disk.files[batch[n].key]
                                = Planned(base, batch).tree.files[batch[n].key]
    BY DEF AllOrNothing
  <2>2. ASSUME edits = 0, faults <= 1 PROVE left = {}
    BY <1>1, <2>2 DEF BInv, Alone, WayBack, Shape
  <2>3. ASSUME pc \in {"failed", "abandoned"}, left = {}
        PROVE  disk.files = world.files /\ (edits = 0 => disk = base)
    <3>1. pc = "failed" /\ undo = <<>> /\ DOMAIN undo = {}
      BY <1>1, <2>3 DEF BInv, Shape
    <3>2. \A p \in Paths : disk.files[p] = world.files[p]
      BY <1>1, <2>1, <2>3, <3>1 DEF BInv, Reversible, BackTo
    <3>3. disk.files \in FileMap /\ world.files \in FileMap
      BY <1>1 DEF IInv, BInv, Types, Shape, Tree
    <3>4. disk.files = world.files
      BY <3>2, <3>3 DEF FileMap
    <3>5. ASSUME edits = 0 PROVE disk = base
      BY <1>1, <2>3, <3>1, <3>5, UnwindEmpty DEF BInv, Alone, WayBack
    <3> QED BY <3>4, <3>5
  <2>4. ASSUME pc = "done" PROVE expected = Planned(base, batch).tree /\ i = Len(batch) + 1
    <3>1. i = Len(batch) + 1 /\ batch \in Seq(Changes)
      BY <1>1, <2>4 DEF BInv, Shape, IInv, Types
    <3>2. i - 1 = Len(batch)
      BY <3>1
    <3> QED BY <1>1, <2>4, <3>1, <3>2 DEF IInv, Follows, Plan, Landing
  <2>5. ASSUME pc = "done", edits = 0 PROVE disk = Planned(base, batch).tree
    BY <1>1, <2>4, <2>5 DEF BInv, Alone, Course
  <2>6. ASSUME pc = "done", NEW n \in DOMAIN batch
        PROVE  disk.files[batch[n].key] = Planned(base, batch).tree.files[batch[n].key]
    <3>1. n < i
      BY <1>1, <2>4, <2>6 DEF IInv, Types
    <3> QED BY <1>1, <2>1, <2>4, <2>6, <3>1 DEF BInv, Landed, Landing
  <2> QED BY <2>2, <2>3, <2>5, <2>6
<1> QED BY Invariance, <1>1, PTL
=============================================================================
