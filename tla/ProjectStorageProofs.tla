------------------------ MODULE ProjectStorageProofs ------------------------
(***************************************************************************)
(* The safety of ProjectStorage for every set of paths and contents and    *)
(* every bound.  The inductive invariant joins what readers see            *)
(* (CurrentIsBuild) with what an open transaction is about to publish      *)
(* (PreviewIsPublished): the second is what carries the first over a       *)
(* commit, whose last step rebuilds a tree nobody has validated.           *)
(***************************************************************************)
EXTENDS ProjectStorage, TLAPS

-----------------------------------------------------------------------------
(* Trees: what a change and the merge of unsaved text preserve. *)

(* Applying a change to a tree gives a tree (apply_changes).               *)
LEMMA ApplyType ==
    ASSUME NEW t \in Tree, NEW c \in Changes
    PROVE  Apply(t, c) \in Tree
<1> USE PathsAssumption, BytesAssumption
<1>1. CASE c.op \in {"CreateFile", "ReplaceFile"}
  <2>1. c.key \in Paths /\ c.bytes \in Bytes
    BY <1>1 DEF Changes
  <2>2. InsertFile(t, c.key, c.bytes) \in Tree
    BY <2>1 DEF InsertFile, Tree, FileMap
  <2> QED BY <1>1, <2>2 DEF Apply
<1>2. CASE c.op = "RemoveFile"
  BY <1>2 DEF Apply, RemoveFile, Tree, FileMap, Changes
<1>3. CASE c.op = "CreateDirectory"
  BY <1>3 DEF Apply, InsertDirectory, Tree, Changes
<1>4. CASE c.op = "RemoveDirectory"
  BY <1>4 DEF Apply, RemoveDirectory, Tree, FileMap, Changes
<1> QED BY <1>1, <1>2, <1>3, <1>4 DEF Changes

(* A change that validates keeps the tree well formed: entries never lose  *)
(* their parents and no key becomes both file and directory.               *)
LEMMA ApplyWellFormed ==
    ASSUME NEW t \in Tree, WellFormed(t), NEW c \in Changes, Valid(t, c)
    PROVE  WellFormed(Apply(t, c))
<1> USE PathsAssumption, BytesAssumption
<1> DEFINE p == c.key
<1>0. p \in Paths
  BY DEF Changes
<1>1. CASE c.op \in {"CreateFile", "ReplaceFile"}
  <2>1. c.bytes \in Bytes /\ c.bytes # NoFile
    BY <1>1 DEF Changes
  <2>2. p \notin t.dirs /\ Above[p] \cap FilesOf(t) = {}
    BY <1>0, <1>1 DEF Valid, InsertFileOk, RemoveFile, FilesOf, Keys, Tree, FileMap
  <2>3. Apply(t, c) = InsertFile(t, p, c.bytes)
    BY <1>1 DEF Apply
  <2>4. /\ FilesOf(InsertFile(t, p, c.bytes)) = FilesOf(t) \cup {p}
        /\ InsertFile(t, p, c.bytes).dirs = t.dirs \cup Above[p]
    BY <1>0, <2>1 DEF InsertFile, FilesOf, Keys, Tree, FileMap
  <2> QED BY <1>0, <2>2, <2>3, <2>4 DEF WellFormed
<1>2. CASE c.op = "RemoveFile"
  BY <1>0, <1>2 DEF Apply, RemoveFile, WellFormed, FilesOf, Keys, Tree, FileMap
<1>3. CASE c.op = "CreateDirectory"
  <2>1. ({p} \cup Above[p]) \cap FilesOf(t) = {}
    BY <1>3 DEF Valid, InsertDirectoryOk
  <2>2. /\ Apply(t, c).dirs = t.dirs \cup {p} \cup Above[p]
        /\ FilesOf(Apply(t, c)) = FilesOf(t)
    BY <1>3 DEF Apply, InsertDirectory, FilesOf, Tree
  <2> QED BY <1>0, <2>1, <2>2 DEF WellFormed
<1>4. CASE c.op = "RemoveDirectory"
  <2>1. /\ Apply(t, c).dirs = t.dirs \ AtOrBelow(p)
        /\ FilesOf(Apply(t, c)) = FilesOf(t) \ AtOrBelow(p)
    BY <1>0, <1>4 DEF Apply, RemoveDirectory, FilesOf, Keys, Tree, FileMap
  <2>2. \A q \in Paths : q \notin AtOrBelow(p) => Above[q] \cap AtOrBelow(p) = {}
    BY <1>0 DEF AtOrBelow
  <2> QED BY <2>1, <2>2 DEF WellFormed, FilesOf, Keys, Tree
<1> QED BY <1>1, <1>2, <1>3, <1>4 DEF Changes

(* Laying unsaved text that fits over a well-formed base gives a           *)
(* well-formed tree (build_current).                                       *)
LEMMA BuildWellFormed ==
    ASSUME NEW saved \in Tree, WellFormed(saved),
           NEW text \in FileMap, BuildOk(saved, text)
    PROVE  /\ BuildCurrent(saved, text) \in Tree
           /\ WellFormed(BuildCurrent(saved, text))
<1> USE PathsAssumption, BytesAssumption
<1> DEFINE t == BuildCurrent(saved, text)
           K == Keys(text)
           H == Hidden(text)
           D == {d \in Paths : \E p \in K : d \in Above[p]}
<1>1. t \in Tree
  BY DEF BuildCurrent, Tree, FileMap
<1>2. t.dirs = (saved.dirs \ H) \cup D
  BY DEF BuildCurrent
<1>3. FilesOf(t) = K \cup (FilesOf(saved) \ H)
  BY DEF BuildCurrent, FilesOf, Keys, Tree, FileMap
<1>4. K \subseteq H
  BY DEF Hidden, AtOrBelow, Keys
<1>5. D \cap H = {}
  <2> SUFFICES ASSUME NEW d \in D, d \in H PROVE FALSE
    OBVIOUS
  <2>1. PICK p \in K : d \in Above[p]
    OBVIOUS
  <2>2. PICK q \in K : d = q \/ q \in Above[d]
    BY DEF Hidden, AtOrBelow
  <2>3. q \in Above[p]
    BY <2>1, <2>2 DEF Keys
  <2> QED BY <2>3 DEF BuildOk
<1>6. D \cap FilesOf(saved) = {}
  BY DEF BuildOk
<1>7. \A q \in Paths : q \notin H => Above[q] \cap H = {}
  BY DEF Hidden, AtOrBelow, Keys
<1>8. \A d \in D : Above[d] \subseteq D
  BY DEF Keys
<1>9. FilesOf(t) \cap t.dirs = {}
  BY <1>2, <1>3, <1>4, <1>5, <1>6 DEF WellFormed
<1>10. ASSUME NEW q \in t.dirs \cup FilesOf(t) PROVE Above[q] \subseteq t.dirs
  <2>0. q \in Paths
    BY <1>1 DEF Tree, FilesOf, Keys
  <2>1. CASE q \in K
    BY <2>0, <2>1, <1>2
  <2>2. CASE q \in D
    BY <2>2, <1>8, <1>2
  <2>3. CASE q \in (saved.dirs \cup FilesOf(saved)) \ H
    BY <2>0, <2>3, <1>7, <1>2 DEF WellFormed
  <2> QED BY <1>2, <1>3, <2>1, <2>2, <2>3
<1> QED BY <1>1, <1>9, <1>10 DEF WellFormed

(* Dropping entries twice drops their union.                               *)
LEMMA WithoutTwice ==
    ASSUME NEW text \in FileMap, NEW D, NEW E
    PROVE  /\ Without(text, D) \in FileMap
           /\ Without(Without(text, D), E) = Without(text, D \cup E)
           /\ Keys(Without(text, D)) = Keys(text) \ D
BY DEF Without, FileMap, Keys

(* The heart of the matter: a change that validates both on the merged     *)
(* tree and on the base commutes with the merge, provided the overlay      *)
(* entries it replaces are dropped.                                        *)
LEMMA ApplyBuild ==
    ASSUME NEW saved \in Tree, WellFormed(saved),
           NEW text \in FileMap, BuildOk(saved, text),
           NEW c \in Changes,
           Valid(saved, c), Valid(BuildCurrent(saved, text), c)
    PROVE  LET rest == Without(text, Drops(c)) IN
           /\ BuildOk(Apply(saved, c), rest)
           /\ Apply(BuildCurrent(saved, text), c)
                 = BuildCurrent(Apply(saved, c), rest)
<1> USE PathsAssumption, BytesAssumption
<1> DEFINE t == BuildCurrent(saved, text)
           p == c.key
           rest == Without(text, Drops(c))
           K == Keys(text)
           H == Hidden(text)
           D == {d \in Paths : \E q \in K : d \in Above[q]}
<1>0. p \in Paths
  BY DEF Changes
<1>1. /\ t \in Tree
      /\ WellFormed(t)
  BY BuildWellFormed
<1>2. /\ t.dirs = (saved.dirs \ H) \cup D
      /\ t.files = [q \in Paths |-> IF text[q] # NoFile THEN text[q]
                                    ELSE IF q \in H THEN NoFile ELSE saved.files[q]]
  BY DEF BuildCurrent
<1>3. FilesOf(t) = K \cup (FilesOf(saved) \ H)
  BY <1>2 DEF FilesOf, Keys, Tree, FileMap
<1>4. /\ rest \in FileMap
      /\ Keys(rest) = K \ Drops(c)
  BY WithoutTwice
<1>5. \A q \in K : Above[q] \cap (K \cup FilesOf(saved)) = {}
  BY DEF BuildOk
<1>6. CASE c.op \in {"CreateFile", "ReplaceFile"}
  <2> DEFINE b == Apply(saved, c)
  <2>0. Drops(c) = {p} /\ c.bytes \in Bytes /\ c.bytes # NoFile
    BY <1>6 DEF Drops, Changes
  <2>1. /\ p \notin saved.dirs
        /\ Above[p] \cap FilesOf(saved) = {}
        /\ Below(p) \cap FilesOf(saved) = {}
    BY <1>0, <1>6 DEF Valid, InsertFileOk, RemoveFile, FilesOf, Keys, Tree, FileMap, Below
  <2>2. /\ Above[p] \cap FilesOf(t) = {}
        /\ Below(p) \cap FilesOf(t) = {}
    BY <1>0, <1>1, <1>6
       DEF Valid, InsertFileOk, RemoveFile, FilesOf, Keys, Tree, FileMap, Below
  <2>3. /\ b = [dirs |-> saved.dirs \cup Above[p],
                files |-> [saved.files EXCEPT ![p] = c.bytes]]
        /\ Apply(t, c) = [dirs |-> t.dirs \cup Above[p],
                          files |-> [t.files EXCEPT ![p] = c.bytes]]
        /\ FilesOf(b) = FilesOf(saved) \cup {p}
    BY <1>0, <1>6, <2>0 DEF Apply, InsertFile, FilesOf, Keys, Tree, FileMap
  <2>4. \A q \in K : p \notin Above[q]
    BY <1>3, <2>2 DEF Below, Keys
  <2>5. BuildOk(b, rest)
    <3>1. Keys(rest) = K \ {p} /\ FilesOf(b) = FilesOf(saved) \cup {p}
      BY <1>4, <2>0, <2>3
    <3>2. ASSUME NEW q \in Keys(rest)
          PROVE  Above[q] \cap (Keys(rest) \cup FilesOf(b)) = {}
      <4>1. q \in K /\ p \notin Above[q]
        BY <2>4, <3>1
      <4>2. Above[q] \cap (K \cup FilesOf(saved)) = {}
        BY <1>5, <4>1
      <4> QED BY <3>1, <4>1, <4>2
    <3> QED BY <3>2 DEF BuildOk
  <2>6. saved.dirs \cap AtOrBelow(p) = {}
    BY <1>0, <2>1 DEF AtOrBelow, WellFormed
  <2>7. \A q \in Paths : q \notin AtOrBelow(p) => (q \in H <=> q \in Hidden(rest))
    BY <1>4, <2>0 DEF Hidden, AtOrBelow
  <2>8. (Above[p] \cup {p}) \cap Hidden(rest) = {}
    BY <1>0, <1>3, <1>4, <2>0, <2>2 DEF Hidden, AtOrBelow
  <2>9. BuildCurrent(b, rest).dirs = t.dirs \cup Above[p]
    <3>1. BuildCurrent(b, rest).dirs =
            ((saved.dirs \cup Above[p]) \ Hidden(rest))
               \cup {d \in Paths : \E q \in K \ {p} : d \in Above[q]}
      <4>1. BuildCurrent(b, rest).dirs = (b.dirs \ Hidden(rest))
               \cup {d \in Paths : \E q \in Keys(rest) : d \in Above[q]}
        BY DEF BuildCurrent
      <4>2. b.dirs = saved.dirs \cup Above[p]
        BY <2>3
      <4> QED BY <4>1, <4>2, <1>4, <2>0, <2>3
    <3>2. saved.dirs \ Hidden(rest) = saved.dirs \ H
      BY <2>6, <2>7 DEF Tree
    <3> QED BY <1>0, <1>2, <2>8, <3>1, <3>2
  <2>10. BuildCurrent(b, rest).files = [t.files EXCEPT ![p] = c.bytes]
    <3> DEFINE f == BuildCurrent(b, rest).files
               g == [t.files EXCEPT ![p] = c.bytes]
    <3>1. f = [q \in Paths |-> IF rest[q] # NoFile THEN rest[q]
                               ELSE IF q \in Hidden(rest) THEN NoFile
                               ELSE b.files[q]]
      BY DEF BuildCurrent
    <3>2. ASSUME NEW q \in Paths PROVE f[q] = g[q]
      <4>1. rest[q] = IF q = p THEN NoFile ELSE text[q]
        BY <2>0 DEF Without
      <4>2. CASE q = p
        BY <4>1, <4>2, <3>1, <2>3, <2>8, <1>0, <1>2 DEF Tree, FileMap
      <4>3. CASE q # p /\ q \in AtOrBelow(p)
        <5>1. saved.files[q] = NoFile /\ text[q] = NoFile
          BY <4>3, <2>1, <2>4 DEF AtOrBelow, Below, FilesOf, Keys
        <5> QED BY <4>1, <4>3, <5>1, <3>1, <2>3, <1>2 DEF Tree, FileMap
      <4>4. CASE q \notin AtOrBelow(p)
        <5>1. q # p /\ (q \in H <=> q \in Hidden(rest))
          BY <4>4, <2>7, <1>0 DEF AtOrBelow
        <5> QED BY <4>1, <5>1, <3>1, <2>3, <1>2 DEF Tree, FileMap
      <4> QED BY <4>2, <4>3, <4>4
    <3>3. g = [q \in Paths |-> g[q]]
      BY <1>2
    <3> QED BY <3>1, <3>2, <3>3
  <2>11. BuildCurrent(b, rest) = [dirs |-> BuildCurrent(b, rest).dirs,
                                 files |-> BuildCurrent(b, rest).files]
    BY DEF BuildCurrent
  <2> QED BY <2>3, <2>5, <2>9, <2>10, <2>11
<1>7. CASE c.op = "RemoveFile"
  <2> DEFINE b == Apply(saved, c)
  <2>0. Drops(c) = {p} /\ p \in FilesOf(saved) /\ p \in FilesOf(t)
    BY <1>7 DEF Drops, Valid
  <2>1. /\ b = [dirs |-> saved.dirs, files |-> [saved.files EXCEPT ![p] = NoFile]]
        /\ Apply(t, c) = [dirs |-> t.dirs, files |-> [t.files EXCEPT ![p] = NoFile]]
        /\ FilesOf(b) = FilesOf(saved) \ {p}
    BY <1>0, <1>7 DEF Apply, RemoveFile, FilesOf, Keys, Tree, FileMap
  <2>2. BuildOk(b, rest)
    BY <1>4, <1>5, <2>0, <2>1 DEF BuildOk
  <2>3. /\ saved.dirs \cap AtOrBelow(p) = {}
        /\ Below(p) \cap FilesOf(saved) = {}
        /\ Above[p] \subseteq saved.dirs
    BY <1>0, <2>0 DEF WellFormed, AtOrBelow, Below
  <2>4. \A q \in Paths : q \notin AtOrBelow(p) => (q \in H <=> q \in Hidden(rest))
    BY <1>4, <2>0 DEF Hidden, AtOrBelow
  <2>5. Above[p] \cap K = {}
    BY <1>1, <1>3, <2>0 DEF WellFormed
  <2>6. Above[p] \cap Hidden(rest) = {}
    BY <1>0, <1>4, <2>5 DEF Hidden, AtOrBelow
  <2>7. BuildCurrent(b, rest).dirs = t.dirs
    <3>1. BuildCurrent(b, rest).dirs =
            (saved.dirs \ Hidden(rest))
               \cup {d \in Paths : \E q \in K \ {p} : d \in Above[q]}
      <4>1. BuildCurrent(b, rest).dirs = (b.dirs \ Hidden(rest))
               \cup {d \in Paths : \E q \in Keys(rest) : d \in Above[q]}
        BY DEF BuildCurrent
      <4>2. b.dirs = saved.dirs
        BY <2>1
      <4> QED BY <4>1, <4>2, <1>4, <2>0, <2>1
    <3>2. saved.dirs \ Hidden(rest) = saved.dirs \ H
      BY <2>3, <2>4 DEF Tree
    <3> QED BY <1>0, <1>2, <2>3, <2>6, <3>1, <3>2
  <2>8. BuildCurrent(b, rest).files = [t.files EXCEPT ![p] = NoFile]
    <3> DEFINE f == BuildCurrent(b, rest).files
               g == [t.files EXCEPT ![p] = NoFile]
    <3>1. f = [q \in Paths |-> IF rest[q] # NoFile THEN rest[q]
                               ELSE IF q \in Hidden(rest) THEN NoFile
                               ELSE b.files[q]]
      BY DEF BuildCurrent
    <3>2. ASSUME NEW q \in Paths PROVE f[q] = g[q]
      <4>1. rest[q] = IF q = p THEN NoFile ELSE text[q]
        BY <2>0 DEF Without
      <4>2. CASE q = p
        BY <4>1, <4>2, <3>1, <2>1, <1>0, <1>2 DEF Tree, FileMap
      <4>3. CASE q # p /\ q \in AtOrBelow(p)
        <5>1. saved.files[q] = NoFile
          BY <4>3, <2>3 DEF AtOrBelow, Below, FilesOf, Keys
        <5> QED BY <4>1, <4>3, <5>1, <3>1, <2>1, <1>2 DEF Tree, FileMap
      <4>4. CASE q \notin AtOrBelow(p)
        <5>1. q # p /\ (q \in H <=> q \in Hidden(rest))
          BY <4>4, <2>4, <1>0 DEF AtOrBelow
        <5> QED BY <4>1, <5>1, <3>1, <2>1, <1>2 DEF Tree, FileMap
      <4> QED BY <4>2, <4>3, <4>4
    <3>3. g = [q \in Paths |-> g[q]]
      BY <1>2
    <3> QED BY <3>1, <3>2, <3>3
  <2>9. BuildCurrent(b, rest) = [dirs |-> BuildCurrent(b, rest).dirs,
                                files |-> BuildCurrent(b, rest).files]
    BY DEF BuildCurrent
  <2> QED BY <2>1, <2>2, <2>7, <2>8, <2>9
<1>8. CASE c.op = "CreateDirectory"
  <2> DEFINE b == Apply(saved, c)
  <2>0. rest = text
    BY <1>8 DEF Drops, Without, FileMap
  <2>1. /\ b = [dirs |-> saved.dirs \cup {p} \cup Above[p], files |-> saved.files]
        /\ Apply(t, c) = [dirs |-> t.dirs \cup {p} \cup Above[p], files |-> t.files]
    BY <1>8 DEF Apply, InsertDirectory
  <2>2. BuildOk(b, rest)
    <3>1. b.files = saved.files
      BY <2>1
    <3> QED BY <2>0, <3>1 DEF BuildOk, FilesOf
  <2>3. ({p} \cup Above[p]) \cap K = {}
    BY <1>3, <1>8 DEF Valid, InsertDirectoryOk
  <2>4. ({p} \cup Above[p]) \cap H = {}
    BY <1>0, <2>3 DEF Hidden, AtOrBelow
  <2>5. BuildCurrent(b, rest).dirs = t.dirs \cup {p} \cup Above[p]
    <3>1. BuildCurrent(b, rest).dirs = ((saved.dirs \cup {p} \cup Above[p]) \ H) \cup D
      <4>1. BuildCurrent(b, rest).dirs = (b.dirs \ Hidden(rest))
               \cup {d \in Paths : \E q \in Keys(rest) : d \in Above[q]}
        BY DEF BuildCurrent
      <4>2. b.dirs = saved.dirs \cup {p} \cup Above[p]
        BY <2>1
      <4> QED BY <4>1, <4>2, <2>0, <2>1
    <3> QED BY <3>1, <1>0, <1>2, <2>4
  <2>6. BuildCurrent(b, rest).files = t.files
    BY <2>0, <2>1, <1>2 DEF BuildCurrent
  <2>7. BuildCurrent(b, rest) = [dirs |-> BuildCurrent(b, rest).dirs,
                                files |-> BuildCurrent(b, rest).files]
    BY DEF BuildCurrent
  <2> QED BY <2>1, <2>2, <2>5, <2>6, <2>7
<1>9. CASE c.op = "RemoveDirectory"
  <2> DEFINE b == Apply(saved, c)
             A == AtOrBelow(p)
  <2>0. Drops(c) = A /\ p \in saved.dirs /\ p \in t.dirs
    BY <1>9 DEF Drops, Valid
  <2>1. /\ b = [dirs |-> saved.dirs \ A,
                files |-> [q \in Paths |-> IF q \in A THEN NoFile ELSE saved.files[q]]]
        /\ Apply(t, c) = [dirs |-> t.dirs \ A,
                files |-> [q \in Paths |-> IF q \in A THEN NoFile ELSE t.files[q]]]
        /\ FilesOf(b) = FilesOf(saved) \ A
    BY <1>0, <1>9 DEF Apply, RemoveDirectory, FilesOf, Keys, Tree, FileMap
  <2>2. BuildOk(b, rest)
    BY <1>4, <1>5, <2>0, <2>1 DEF BuildOk
  <2>3. \A q \in Paths \ A : q \in H <=> q \in Hidden(rest)
    BY <1>0, <1>4, <2>0 DEF Hidden, AtOrBelow
  <2>4. \A q \in K \ A : Above[q] \cap A = {}
    BY <1>0 DEF AtOrBelow, Keys
  <2>5. p \notin K
    BY <1>1, <1>3, <2>0 DEF WellFormed
  <2>6. ASSUME NEW d \in D \ A, d \notin {e \in Paths : \E q \in K \ A : e \in Above[q]}
        PROVE  d \in saved.dirs \ H
    <3>1. PICK k \in K : d \in Above[k]
      OBVIOUS
    <3>2. k \in A /\ k \in Paths /\ d \in Paths
      BY <2>6, <3>1 DEF Keys
    <3>3. p \in Above[k]
      BY <2>5, <3>2 DEF AtOrBelow
    <3>4. d # p /\ p \notin Above[d]
      BY <3>2 DEF AtOrBelow
    <3>5. d \in Above[p]
      BY <3>1, <3>2, <3>3, <3>4
    <3>6. d \in saved.dirs
      BY <2>0, <3>5 DEF WellFormed
    <3>7. d \notin H
      BY <1>5, <3>1, <3>2 DEF Hidden, AtOrBelow
    <3> QED BY <3>6, <3>7
  <2>7. BuildCurrent(b, rest).dirs = t.dirs \ A
    <3>1. BuildCurrent(b, rest).dirs =
            ((saved.dirs \ A) \ Hidden(rest))
               \cup {d \in Paths : \E q \in K \ A : d \in Above[q]}
      <4>1. BuildCurrent(b, rest).dirs = (b.dirs \ Hidden(rest))
               \cup {d \in Paths : \E q \in Keys(rest) : d \in Above[q]}
        BY DEF BuildCurrent
      <4>2. b.dirs = saved.dirs \ A
        BY <1>9 DEF Apply, RemoveDirectory
      <4> QED BY <4>1, <4>2, <1>4, <2>0, <2>1
    <3>2. (saved.dirs \ A) \ Hidden(rest) = (saved.dirs \ A) \ H
      BY <2>3 DEF Tree
    <3> QED BY <1>2, <2>4, <2>6, <3>1, <3>2
  <2>8. BuildCurrent(b, rest).files =
          [q \in Paths |-> IF q \in A THEN NoFile ELSE t.files[q]]
    <3> DEFINE f == BuildCurrent(b, rest).files
    <3>1. f = [q \in Paths |-> IF rest[q] # NoFile THEN rest[q]
                               ELSE IF q \in Hidden(rest) THEN NoFile
                               ELSE b.files[q]]
      BY DEF BuildCurrent
    <3>2. ASSUME NEW q \in Paths
          PROVE  f[q] = IF q \in A THEN NoFile ELSE t.files[q]
      <4>1. rest[q] = IF q \in A THEN NoFile ELSE text[q]
        BY <2>0 DEF Without
      <4>2. b.files[q] = IF q \in A THEN NoFile ELSE saved.files[q]
        BY <1>9 DEF Apply, RemoveDirectory
      <4>3. f[q] = IF rest[q] # NoFile THEN rest[q]
                   ELSE IF q \in Hidden(rest) THEN NoFile ELSE b.files[q]
        BY <3>1
      <4> QED BY <4>1, <4>2, <4>3, <2>3, <1>2
    <3> QED BY <3>1, <3>2
  <2>9. BuildCurrent(b, rest) = [dirs |-> BuildCurrent(b, rest).dirs,
                                files |-> BuildCurrent(b, rest).files]
    BY DEF BuildCurrent
  <2> QED BY <2>1, <2>2, <2>7, <2>8, <2>9
<1> QED BY <1>6, <1>7, <1>8, <1>9 DEF Changes

-----------------------------------------------------------------------------
(* The storage. *)

IInv ==
    /\ TypeOK
    /\ WellFormed(source)
    /\ TreesWellFormed
    /\ CurrentIsBuild
    /\ PreviewIsPublished
    /\ RevisionIdentifiesTree

(* The tree with no entries is a well-formed tree (CodeTree::default).     *)
LEMMA EmptyTreeWellFormed == EmptyTree \in Tree /\ WellFormed(EmptyTree)
BY DEF EmptyTree, Tree, FileMap, WellFormed, FilesOf, Keys

(* With no unsaved text the merged tree is the base itself.                *)
LEMMA BuildNothing ==
    ASSUME NEW b \in Tree, NEW o \in FileMap, Keys(o) = {}
    PROVE  BuildOk(b, o) /\ BuildCurrent(b, o) = b
<1>1. \A q \in Paths : o[q] = NoFile
  BY DEF Keys
<1>2. Hidden(o) = {}
  BY DEF Hidden
<1>3. /\ BuildCurrent(b, o).dirs = b.dirs
      /\ BuildCurrent(b, o).files = b.files
  BY <1>1, <1>2 DEF BuildCurrent, Tree, FileMap
<1>4. BuildCurrent(b, o) = [dirs |-> BuildCurrent(b, o).dirs,
                            files |-> BuildCurrent(b, o).files]
  BY DEF BuildCurrent
<1> QED BY <1>3, <1>4 DEF BuildOk, Tree

(* Staging a change adds what it drops to what the batch drops.            *)
LEMMA DroppedAppend ==
    ASSUME NEW s \in Seq(Changes), NEW ch \in Changes
    PROVE  DroppedBy(Append(s, ch)) = DroppedBy(s) \cup Drops(ch)
<1>1. Drops(ch) \subseteq Paths
  BY DEF Drops, Changes, AtOrBelow
<1>2. /\ Append(s, ch) \in Seq(Changes)
      /\ DOMAIN Append(s, ch) = DOMAIN s \cup {Len(s) + 1}
      /\ \A i \in DOMAIN s : Append(s, ch)[i] = s[i] /\ i \in DOMAIN Append(s, ch)
      /\ Append(s, ch)[Len(s) + 1] = ch
  OBVIOUS
<1> QED BY <1>1, <1>2 DEF DroppedBy

(* One staged change keeps the preview equal to what commit publishes, or  *)
(* the replay on base refuses it.                                          *)
LEMMA StageKeepsPreview ==
    ASSUME NEW p \in Tree, NEW b \in Tree, WellFormed(b),
           NEW o \in FileMap, NEW s \in Seq(Changes), NEW ch \in Changes,
           BuildOk(b, Without(o, DroppedBy(s))),
           p = BuildCurrent(b, Without(o, DroppedBy(s))),
           Valid(p, ch), Valid(b, ch)
    PROVE  LET rest == Without(o, DroppedBy(Append(s, ch))) IN
           /\ BuildOk(Apply(b, ch), rest)
           /\ Apply(p, ch) = BuildCurrent(Apply(b, ch), rest)
<1>1. Without(o, DroppedBy(s)) \in FileMap
  BY WithoutTwice
<1>2. Without(Without(o, DroppedBy(s)), Drops(ch))
        = Without(o, DroppedBy(Append(s, ch)))
  BY WithoutTwice, DroppedAppend
<1> QED BY <1>1, <1>2, ApplyBuild

(* The invariant holds when a project is opened (ProjectStorage::open).    *)
LEMMA InitIInv == Init => IInv
<1> SUFFICES ASSUME Init PROVE IInv
  OBVIOUS
<1>1. /\ source \in Tree /\ WellFormed(source)
      /\ overlay \in FileMap /\ Keys(overlay) = {}
  BY DEF Init, FileMap, Keys
<1>2. TypeOK
  <2>1. views \in [Clients -> View] /\ staged \in Seq(Changes)
    BY <1>1 DEF Init, View
  <2>2. revision \in 0..MaxRevision
    BY BoundsAssumption DEF Init
  <2> QED BY <1>1, <2>1, <2>2, EmptyTreeWellFormed DEF Init, TypeOK
<1>3. CurrentIsBuild
  BY <1>1, BuildNothing DEF Init, CurrentIsBuild
<1>4. TreesWellFormed
  BY <1>1, EmptyTreeWellFormed DEF Init, TreesWellFormed
<1>5. PreviewIsPublished
  BY DEF Init, PreviewIsPublished
<1>6. RevisionIdentifiesTree
  BY DEF Init, RevisionIdentifiesTree
<1> QED BY <1>1, <1>2, <1>3, <1>4, <1>5, <1>6 DEF IInv

(* An edit of the files behind the storage moves only the source.          *)
LEMMA ExternalEditIInv ==
    ASSUME IInv, NEW ch \in Changes, ExternalEdit(ch) PROVE IInv'
<1>1. source' \in Tree /\ WellFormed(source')
  BY ApplyType, ApplyWellFormed DEF IInv, TypeOK, ExternalEdit
<1> QED BY <1>1
   DEF IInv, ExternalEdit, storageVars, txVars, TypeOK, TreesWellFormed, CurrentIsBuild,
       PreviewIsPublished, RevisionIdentifiesTree, Dropped

(* Taking a view records the revision together with its tree.              *)
LEMMA TakeViewIInv ==
    ASSUME IInv, NEW c \in Clients, TakeView(c) PROVE IInv'
<1>1. views' \in [Clients -> View]
  <2>1. [revision |-> revision, tree |-> current] \in View
    BY BoundsAssumption DEF IInv, TypeOK, View
  <2> QED BY <2>1 DEF IInv, TypeOK, TakeView
<1>2. TypeOK'
  BY <1>1 DEF IInv, TypeOK, TakeView, storageVars, txVars
<1>3. RevisionIdentifiesTree'
  <2> SUFFICES ASSUME NEW d \in Clients
               PROVE  /\ views'[d].revision <= revision'
                      /\ views'[d].revision = revision' => views'[d].tree = current'
    BY DEF RevisionIdentifiesTree
  <2>1. revision' = revision /\ current' = current /\ revision \in Nat
    BY BoundsAssumption DEF TakeView, storageVars, IInv, TypeOK
  <2>2. CASE d = c
    <3>1. views'[d] = [revision |-> revision, tree |-> current]
      BY <2>2 DEF TakeView, IInv, TypeOK
    <3> QED BY <2>1, <3>1
  <2>3. CASE d # c
    <3>1. views'[d] = views[d]
      BY <2>3 DEF TakeView, IInv, TypeOK
    <3> QED BY <2>1, <3>1 DEF IInv, RevisionIdentifiesTree
  <2> QED BY <2>2, <2>3
<1> QED BY <1>2, <1>3
   DEF IInv, TakeView, storageVars, txVars, TreesWellFormed, CurrentIsBuild,
       PreviewIsPublished, Dropped

(* A new revision leaves every view held by a client behind.               *)
LEMMA NewRevision ==
    ASSUME IInv, revision' = revision + 1, views' = views
    PROVE  RevisionIdentifiesTree'
<1> SUFFICES ASSUME NEW d \in Clients
             PROVE  /\ views'[d].revision <= revision'
                    /\ views'[d].revision = revision' => views'[d].tree = current'
  BY DEF RevisionIdentifiesTree
<1>1. views[d].revision \in Nat /\ revision \in Nat /\ views[d].revision <= revision
  BY BoundsAssumption DEF IInv, TypeOK, View, RevisionIdentifiesTree
<1> QED BY <1>1

(* refresh, set_overlays and remove_overlay publish a merge that was built *)
(* before anything was assigned.                                           *)
LEMMA PublishIInv ==
    ASSUME IInv, ~txOpen, revision < MaxRevision,
           NEW b \in Tree, WellFormed(b), NEW o \in FileMap, BuildOk(b, o),
           base' = b, overlay' = o, current' = BuildCurrent(b, o),
           revision' = revision + 1, shadowed' \subseteq Paths,
           source' = source, UNCHANGED txVars, views' = views
    PROVE  IInv'
<1>1. BuildCurrent(b, o) \in Tree /\ WellFormed(BuildCurrent(b, o))
  BY BuildWellFormed
<1>2. revision' \in 0..MaxRevision
  BY BoundsAssumption DEF IInv, TypeOK
<1>3. TypeOK'
  BY <1>1, <1>2 DEF IInv, TypeOK, txVars
<1>4. TreesWellFormed'
  BY <1>1 DEF IInv, TreesWellFormed, txVars
<1>5. CurrentIsBuild'
  BY DEF CurrentIsBuild
<1>6. PreviewIsPublished'
  BY DEF PreviewIsPublished, txVars
<1>7. RevisionIdentifiesTree'
  BY NewRevision
<1> QED BY <1>3, <1>4, <1>5, <1>6, <1>7 DEF IInv

(* refresh publishes a snapshot as base and leaves the overlay alone.      *)
LEMMA RefreshIInv == ASSUME IInv, Refresh PROVE IInv'
<1>1. source \in Tree /\ WellFormed(source) /\ overlay \in FileMap
  BY DEF IInv, TypeOK
<1>2. shadowed' \subseteq Paths
  BY DEF Refresh, ShadowedBy, Keys
<1> QED BY <1>1, <1>2, PublishIInv DEF Refresh

(* A refresh that finds the same tree changes diagnostics only.            *)
LEMMA RefreshUnchangedIInv == ASSUME IInv, RefreshUnchanged PROVE IInv'
<1>1. shadowed' \subseteq Paths
  BY DEF RefreshUnchanged, ShadowedBy, Keys
<1> QED BY <1>1
   DEF IInv, RefreshUnchanged, txVars, TypeOK, TreesWellFormed, CurrentIsBuild,
       PreviewIsPublished, RevisionIdentifiesTree, Dropped

(* set_overlays publishes the merge it has just checked.                   *)
LEMMA SetOverlaysIInv ==
    ASSUME IInv, NEW c \in Clients, NEW entries \in FileMap, SetOverlays(c, entries)
    PROVE  IInv'
<1>1. base \in Tree /\ WellFormed(base) /\ shadowed \subseteq Paths
  BY DEF IInv, TypeOK, TreesWellFormed
<1>2. Overlaid(entries) \in FileMap
  BY DEF Overlaid, FileMap, IInv, TypeOK
<1> QED BY <1>1, <1>2, PublishIInv DEF SetOverlays

(* remove_overlay publishes the merge without one entry.                   *)
LEMMA RemoveOverlayIInv ==
    ASSUME IInv, NEW c \in Clients, NEW p \in Paths, RemoveOverlay(c, p)
    PROVE  IInv'
<1>1. base \in Tree /\ WellFormed(base) /\ shadowed \subseteq Paths
  BY DEF IInv, TypeOK, TreesWellFormed
<1>2. Without(overlay, {p}) \in FileMap
  BY WithoutTwice DEF IInv, TypeOK
<1> QED BY <1>1, <1>2, PublishIInv DEF RemoveOverlay

(* A transaction starts from the tree that is current.                     *)
LEMMA BeginTransactionIInv ==
    ASSUME IInv, NEW c \in Clients, BeginTransaction(c) PROVE IInv'
<1>1. TypeOK'
  BY DEF IInv, TypeOK, BeginTransaction, storageVars
<1>2. TreesWellFormed'
  BY DEF IInv, TreesWellFormed, BeginTransaction, storageVars
<1>3. PreviewIsPublished'
  <2>1. DroppedBy(<<>>) = {}
    BY DEF DroppedBy
  <2>2. Without(overlay, {}) = overlay
    BY DEF Without, IInv, TypeOK, FileMap
  <2>3. /\ overlay' = overlay /\ plan' = base /\ preview' = current
        /\ Dropped' = {}
    BY <2>1 DEF BeginTransaction, storageVars, Dropped
  <2>4. BuildOk(base, overlay) /\ current = BuildCurrent(base, overlay)
    BY DEF IInv, CurrentIsBuild
  <2> QED BY <2>2, <2>3, <2>4 DEF PreviewIsPublished
<1> QED BY <1>1, <1>2, <1>3
   DEF IInv, BeginTransaction, storageVars, CurrentIsBuild, RevisionIdentifiesTree

(* What staging does to preview and plan, for one change.                  *)
LEMMA StageTrees ==
    ASSUME NEW p \in Tree, WellFormed(p), NEW b \in Tree, WellFormed(b),
           NEW ch \in Changes, Valid(p, ch)
    PROVE  /\ Apply(p, ch) \in Tree /\ WellFormed(Apply(p, ch))
           /\ Apply(b, ch) \in Tree
           /\ Valid(b, ch) => WellFormed(Apply(b, ch))
BY ApplyType, ApplyWellFormed

(* stage extends preview and batch together.                               *)
LEMMA StageIInv == ASSUME IInv, NEW ch \in Changes, Stage(ch) PROVE IInv'
<1>1. /\ preview \in Tree /\ WellFormed(preview)
      /\ plan \in Tree /\ WellFormed(plan)
      /\ staged \in Seq(Changes) /\ overlay \in FileMap /\ planOk \in BOOLEAN
  BY DEF IInv, TypeOK, TreesWellFormed
<1>2. /\ preview' = Apply(preview, ch) /\ Valid(preview, ch)
      /\ staged' = Append(staged, ch) /\ overlay' = overlay
  BY DEF Stage, storageVars
<1>3. preview' \in Tree /\ WellFormed(preview')
  BY <1>1, <1>2, StageTrees
<1>4. plan' \in Tree /\ WellFormed(plan')
  BY <1>1, <1>2, StageTrees DEF Stage
<1>5. staged' \in Seq(Changes)
  BY <1>1, <1>2
<1>6. planOk' \in BOOLEAN
  BY <1>1 DEF Stage
<1>7. TypeOK'
  BY <1>3, <1>4, <1>5, <1>6 DEF IInv, TypeOK, Stage, storageVars
<1>8. TreesWellFormed'
  BY <1>3, <1>4 DEF IInv, TreesWellFormed, Stage, storageVars
<1>9. PreviewIsPublished'
  <2> SUFFICES ASSUME planOk'
               PROVE  LET rest == Without(overlay', Dropped')
                      IN BuildOk(plan', rest) /\ preview' = BuildCurrent(plan', rest)
    BY DEF PreviewIsPublished
  <2>1. planOk /\ Valid(plan, ch) /\ plan' = Apply(plan, ch) /\ txOpen
    BY DEF Stage
  <2>2. /\ BuildOk(plan, Without(overlay, DroppedBy(staged)))
        /\ preview = BuildCurrent(plan, Without(overlay, DroppedBy(staged)))
    BY <2>1 DEF IInv, PreviewIsPublished, Dropped
  <2>3. /\ BuildOk(plan', Without(overlay, DroppedBy(staged')))
        /\ preview' = BuildCurrent(plan', Without(overlay, DroppedBy(staged')))
    BY <1>1, <1>2, <2>1, <2>2, StageKeepsPreview
  <2> QED BY <1>2, <2>3 DEF Dropped
<1> QED BY <1>7, <1>8, <1>9
   DEF IInv, Stage, storageVars, CurrentIsBuild, RevisionIdentifiesTree

(* stage_changes is two stages in one.                                     *)
LEMMA StageChangesIInv ==
    ASSUME IInv, NEW c1 \in Changes, NEW c2 \in Changes, StageChanges(c1, c2)
    PROVE  IInv'
<1> DEFINE mid == Apply(plan, c1)
           pmid == Apply(preview, c1)
<1>1. /\ preview \in Tree /\ WellFormed(preview)
      /\ plan \in Tree /\ WellFormed(plan)
      /\ staged \in Seq(Changes) /\ overlay \in FileMap /\ planOk \in BOOLEAN
  BY DEF IInv, TypeOK, TreesWellFormed
<1>2. /\ Valid(preview, c1) /\ Valid(pmid, c2) /\ preview' = Apply(pmid, c2)
      /\ staged' = Append(Append(staged, c1), c2) /\ overlay' = overlay
      /\ Append(staged, c1) \in Seq(Changes)
  BY <1>1 DEF StageChanges, storageVars
<1>3. /\ pmid \in Tree /\ WellFormed(pmid) /\ mid \in Tree
      /\ Valid(plan, c1) => WellFormed(mid)
  BY <1>1, <1>2, StageTrees
<1>4. preview' \in Tree /\ WellFormed(preview')
  BY <1>2, <1>3, ApplyType, ApplyWellFormed
<1>5. plan' \in Tree /\ WellFormed(plan')
  <2>1. CASE planOk /\ Valid(plan, c1) /\ Valid(mid, c2)
    <3>1. plan' = Apply(mid, c2)
      BY <2>1 DEF StageChanges
    <3> QED BY <2>1, <3>1, <1>3, ApplyType, ApplyWellFormed
  <2>2. CASE ~(planOk /\ Valid(plan, c1) /\ Valid(mid, c2))
    BY <1>1, <2>2 DEF StageChanges
  <2> QED BY <2>1, <2>2
<1>6. staged' \in Seq(Changes)
  BY <1>2
<1>7. planOk' \in BOOLEAN
  BY <1>1 DEF StageChanges
<1>8. TypeOK'
  BY <1>4, <1>5, <1>6, <1>7 DEF IInv, TypeOK, StageChanges, storageVars
<1>9. TreesWellFormed'
  BY <1>4, <1>5 DEF IInv, TreesWellFormed, StageChanges, storageVars
<1>10. PreviewIsPublished'
  <2> SUFFICES ASSUME planOk'
               PROVE  LET rest == Without(overlay', Dropped')
                      IN BuildOk(plan', rest) /\ preview' = BuildCurrent(plan', rest)
    BY DEF PreviewIsPublished
  <2>1. /\ planOk /\ Valid(plan, c1) /\ Valid(mid, c2) /\ txOpen
        /\ plan' = Apply(mid, c2)
    BY DEF StageChanges
  <2>2. /\ BuildOk(plan, Without(overlay, DroppedBy(staged)))
        /\ preview = BuildCurrent(plan, Without(overlay, DroppedBy(staged)))
    BY <2>1 DEF IInv, PreviewIsPublished, Dropped
  <2>3. /\ BuildOk(mid, Without(overlay, DroppedBy(Append(staged, c1))))
        /\ pmid = BuildCurrent(mid, Without(overlay, DroppedBy(Append(staged, c1))))
    BY <1>1, <1>2, <2>1, <2>2, StageKeepsPreview
  <2>4. /\ BuildOk(plan', Without(overlay, DroppedBy(staged')))
        /\ preview' = BuildCurrent(plan', Without(overlay, DroppedBy(staged')))
    <3> DEFINE s1 == Append(staged, c1)
    <3>1. /\ mid \in Tree /\ WellFormed(mid) /\ pmid \in Tree
          /\ s1 \in Seq(Changes) /\ overlay \in FileMap
      BY <1>1, <1>2, <1>3, <2>1
    <3>2. /\ BuildOk(mid, Without(overlay, DroppedBy(s1)))
          /\ pmid = BuildCurrent(mid, Without(overlay, DroppedBy(s1)))
      BY <2>3
    <3>3. Valid(pmid, c2) /\ Valid(mid, c2)
      BY <1>2, <2>1
    <3>4. staged' = Append(s1, c2) /\ preview' = Apply(pmid, c2) /\ plan' = Apply(mid, c2)
      BY <1>2, <2>1
    <3> HIDE DEF mid, pmid, s1
    <3>5. /\ BuildOk(Apply(mid, c2), Without(overlay, DroppedBy(Append(s1, c2))))
          /\ Apply(pmid, c2)
               = BuildCurrent(Apply(mid, c2), Without(overlay, DroppedBy(Append(s1, c2))))
      BY <3>1, <3>2, <3>3, StageKeepsPreview
    <3> QED BY <3>4, <3>5
  <2> QED BY <1>2, <2>4 DEF Dropped
<1> QED BY <1>8, <1>9, <1>10
   DEF IInv, StageChanges, storageVars, CurrentIsBuild, RevisionIdentifiesTree

(* A closed transaction holds nothing.                                     *)
LEMMA CloseType ==
    ASSUME CloseTransaction
    PROVE  /\ txOpen' \in BOOLEAN /\ planOk' \in BOOLEAN /\ staged' \in Seq(Changes)
           /\ preview' \in Tree /\ plan' \in Tree
<1>1. <<>> \in Seq(Changes)
  OBVIOUS
<1> QED BY <1>1, EmptyTreeWellFormed DEF CloseTransaction

(* A dropped, empty or refused transaction leaves the storage alone.       *)
LEMMA EndWithoutCommitIInv == ASSUME IInv, EndWithoutCommit PROVE IInv'
<1>1. TypeOK'
  BY CloseType DEF IInv, TypeOK, EndWithoutCommit, storageVars
<1>2. TreesWellFormed'
  BY EmptyTreeWellFormed
     DEF IInv, TreesWellFormed, EndWithoutCommit, CloseTransaction, storageVars
<1> QED BY <1>1, <1>2
   DEF IInv, EndWithoutCommit, CloseTransaction, storageVars, CurrentIsBuild,
       PreviewIsPublished, RevisionIdentifiesTree

(* A commit publishes the tree its transaction previewed, so its final     *)
(* rebuild cannot fail.                                                    *)
LEMMA CommitPublishesPreview ==
    ASSUME IInv, Commit
    PROVE  /\ BuildOk(base', overlay')
           /\ current' = BuildCurrent(base', overlay')
           /\ current' = preview
<1>1. /\ BuildOk(plan, Without(overlay, Dropped))
      /\ preview = BuildCurrent(plan, Without(overlay, Dropped))
  BY DEF IInv, PreviewIsPublished, Commit
<1> QED BY <1>1 DEF Commit

(* commit publishes the preview and leaves no unsaved text that hides it.  *)
LEMMA CommitIInv == ASSUME IInv, Commit PROVE IInv'
<1>1. /\ plan \in Tree /\ WellFormed(plan) /\ base \in Tree /\ source \in Tree
      /\ preview \in Tree /\ WellFormed(preview) /\ overlay \in FileMap
  BY DEF IInv, TypeOK, TreesWellFormed
<1>2. Persisted \in Tree
  BY <1>1, PathsAssumption DEF Persisted, Tree, FileMap
<1>3. source' \in Tree /\ WellFormed(source')
  BY <1>2 DEF Commit, PersistOk
<1>4. overlay' \in FileMap
  BY <1>1, WithoutTwice DEF Commit
<1>5. revision' \in 0..MaxRevision
  BY BoundsAssumption DEF Commit, IInv, TypeOK
<1>6. TypeOK'
  <2>1. current' \in Tree
    BY <1>1, CommitPublishesPreview
  <2> QED BY <1>1, <1>3, <1>4, <1>5, <2>1, CloseType DEF IInv, TypeOK, Commit
<1>7. TreesWellFormed'
  BY <1>1, EmptyTreeWellFormed, CommitPublishesPreview
     DEF TreesWellFormed, Commit, CloseTransaction
<1>8. CurrentIsBuild'
  BY CommitPublishesPreview DEF CurrentIsBuild
<1>9. PreviewIsPublished'
  BY DEF PreviewIsPublished, Commit, CloseTransaction
<1>10. RevisionIdentifiesTree'
  BY NewRevision DEF Commit
<1> QED BY <1>3, <1>6, <1>7, <1>8, <1>9, <1>10 DEF IInv

(* Every operation of the storage preserves the invariant.                 *)
LEMMA NextIInv == IInv /\ [Next]_vars => IInv'
<1> SUFFICES ASSUME IInv, [Next]_vars PROVE IInv'
  OBVIOUS
<1>1. CASE UNCHANGED vars
  BY <1>1 DEF vars, IInv, TypeOK, TreesWellFormed, CurrentIsBuild, PreviewIsPublished,
              RevisionIdentifiesTree, Dropped
<1>2. CASE Next
  BY <1>2, ExternalEditIInv, TakeViewIInv, RefreshIInv, RefreshUnchangedIInv,
     SetOverlaysIInv, RemoveOverlayIInv, BeginTransactionIInv, StageIInv,
     StageChangesIInv, EndWithoutCommitIInv, CommitIInv DEF Next
<1> QED BY <1>1, <1>2

(* The inductive invariant holds in every reachable state.                 *)
THEOREM Invariance == Spec => []IInv
BY InitIInv, NextIInv, PTL DEF Spec

(* Every variable keeps its type.                                          *)
THEOREM TypeCorrect == Spec => []TypeOK
<1>1. IInv => TypeOK
  BY DEF IInv
<1> QED BY <1>1, Invariance, PTL

(* Whatever the order of overlays, refreshes and commits, every tree a     *)
(* reader can obtain has its parents and no key is file and directory.     *)
THEOREM TreesAlwaysWellFormed == Spec => []TreesWellFormed
<1>1. IInv => TreesWellFormed
  BY DEF IInv
<1> QED BY <1>1, Invariance, PTL

(* The published tree is the unsaved text over the base, and the rebuild   *)
(* at the end of commit never fails with base and revision published.      *)
THEOREM CurrentAlwaysBuild == Spec => []CurrentIsBuild
<1>1. IInv => CurrentIsBuild
  BY DEF IInv
<1> QED BY <1>1, Invariance, PTL

(* What a transaction validated is what its commit publishes.              *)
THEOREM PreviewAlwaysPublished == Spec => []PreviewIsPublished
<1>1. IInv => PreviewIsPublished
  BY DEF IInv
<1> QED BY <1>1, Invariance, PTL

(* A revision names one tree: check_revision is a sound optimistic lock.   *)
THEOREM RevisionAlwaysIdentifiesTree == Spec => []RevisionIdentifiesTree
<1>1. IInv => RevisionIdentifiesTree
  BY DEF IInv
<1> QED BY <1>1, Invariance, PTL

(* Unsaved text is given up only by remove_overlay, which shows the base   *)
(* file under it, or by a commit that replaces it with a tree its owner    *)
(* previewed.                                                              *)
THEOREM UnsavedTextKept == Spec => UnsavedTextNotLost
<1> DEFINE A == \A p \in Keys(overlay) :
          overlay'[p] = NoFile =>
              \/ base' = base /\ current'.files[p] = base.files[p]
              \/ txOpen /\ p \in Dropped /\ current' = preview
<1>1. IInv /\ [Next]_vars => [A]_vars
  <2> SUFFICES ASSUME IInv, Next, NEW p \in Keys(overlay), overlay'[p] = NoFile
               PROVE  \/ base' = base /\ current'.files[p] = base.files[p]
                      \/ txOpen /\ p \in Dropped /\ current' = preview
    OBVIOUS
  <2>0. p \in Paths /\ overlay[p] # NoFile
    BY DEF Keys
  <2>1. CASE overlay' = overlay
    BY <2>0, <2>1
  <2>2. ASSUME NEW c \in Clients, NEW entries \in FileMap, SetOverlays(c, entries)
        PROVE  FALSE
    BY <2>0, <2>2 DEF SetOverlays, Overlaid
  <2>3. ASSUME NEW c \in Clients, NEW q \in Paths, RemoveOverlay(c, q)
        PROVE  base' = base /\ current'.files[p] = base.files[p]
    <3>1. p = q
      BY <2>0, <2>3 DEF RemoveOverlay, Without
    <3> DEFINE rest == Without(overlay, {p})
    <3>2. overlay \in FileMap /\ BuildOk(base, overlay)
      BY DEF IInv, TypeOK, CurrentIsBuild
    <3>3. Keys(rest) = Keys(overlay) \ {p} /\ rest[p] = NoFile
      BY <2>0, <3>2, WithoutTwice DEF Without
    <3>4. p \notin Hidden(rest)
      BY <3>2, <3>3 DEF Hidden, AtOrBelow, BuildOk
    <3>5. base' = base /\ current' = BuildCurrent(base, rest)
      BY <2>3, <3>1 DEF RemoveOverlay
    <3>6. BuildCurrent(base, rest).files[p] = base.files[p]
      BY <2>0, <3>3, <3>4 DEF BuildCurrent
    <3> QED BY <3>5, <3>6
  <2>4. CASE Commit
    <3>1. p \in Dropped
      BY <2>0, <2>4 DEF Commit, Without
    <3> QED BY <2>4, <3>1, CommitPublishesPreview DEF Commit
  <2> QED BY <2>1, <2>2, <2>3, <2>4
      DEF Next, ExternalEdit, TakeView, RefreshUnchanged, Refresh, BeginTransaction,
          Stage, StageChanges, EndWithoutCommit, storageVars
<1> QED BY <1>1, Invariance, PTL DEF Spec, UnsavedTextNotLost
=============================================================================
