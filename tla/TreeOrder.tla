------------------------------ MODULE TreeOrder ------------------------------
(***************************************************************************)
(* The ordered-map algorithms under CodeTree, with paths as the sequences  *)
(* of names they are (value.rs) and trees as sorted key sequences.  The    *)
(* code finds what lies below a directory by scanning a key range until a  *)
(* key no longer starts with it, decides whether a new file has entries    *)
(* below it from the single next key, and lays the overlay over the base   *)
(* one key at a time in key order.  CodeTree states the same results over  *)
(* sets; here the two are compared on every tree that CodeTree::new builds *)
(* from a bounded number of entries.                                       *)
(***************************************************************************)
EXTENDS CodeTree, SequencesExt

CONSTANTS
    MaxEntries,     \* bound on the entries handed to CodeTree::new
    MaxOverlay      \* bound on the unsaved files

VARIABLES
    tree,       \* the tree under construction
    supplied,   \* CodeTree::new's supplied_dirs
    entries,    \* how many entries were consumed
    overlay

vars == <<tree, supplied, entries, overlay>>

(* The derived Ord of RelativePath: segment by segment, a prefix first.    *)
Lt(p, q) ==
    \/ IsStrictPrefix(p, q)
    \/ \E i \in DOMAIN p \cap DOMAIN q :
          p[i] < q[i] /\ \A j \in 1..(i-1) : p[j] = q[j]

(* A set as the sequence of its elements in an order that is total on it.  *)
InOrder(S, Less(_, _)) ==
    [i \in 1..Cardinality(S) |->
        CHOOSE k \in S : Cardinality({l \in S : Less(l, k)}) = i - 1]

Sorted(keys) == InOrder(keys, Lt)

(* range(from..).take_while(starts_with(key)) over a sorted key sequence.  *)
TakeWhileBelow(keys, key) ==
    LET stop == {i \in DOMAIN keys : ~IsPrefix(key, keys[i])}
    IN IF stop = {} THEN keys
       ELSE SubSeq(keys, 1, (CHOOSE i \in stop : \A j \in stop : i <= j) - 1)

RangeFrom(keys, key) == SelectSeq(Sorted(keys), LAMBDA k : k = key \/ Lt(key, k))

(* Mutated form: the scan looks at every key, not at a range of them.      *)
ScanFromStart(keys, key) == TakeWhileBelow(Sorted(keys), key)

(* descendant_files / directories_under of a non-root key.                 *)
Scan(keys, key) == TakeWhileBelow(RangeFrom(keys, key), key)

DescendantFiles(t, key)  == Scan(FilesOf(t), key)
DirectoriesUnder(t, key) == Scan(t.dirs, key)

(* Mutated form: the range includes its lower bound.                       *)
KeysAfterOrAt(t, key) == RangeFrom(FilesOf(t), key)

(* The keys strictly after key, of which insert_file reads the first.      *)
KeysAfter(t, key) == SelectSeq(Sorted(FilesOf(t)), LAMBDA k : Lt(key, k))

NextKeyBelow(t, key) ==
    LET after == KeysAfter(t, key)
    IN after # <<>> /\ IsPrefix(key, Head(after))

(* insert_file_with_parents, as it decides.                                *)
ScanInsertOk(t, key) ==
    /\ key \notin t.dirs
    /\ \A d \in Above[key] : d \notin FilesOf(t)
    /\ ~NextKeyBelow(t, key)

(* remove_directory, as it collects what to remove.                        *)
ScanRemoveDirectory(t, key) ==
    [dirs  |-> t.dirs \ ToSet(DirectoriesUnder(t, key)),
     files |-> [q \in Paths |-> IF q \in ToSet(DescendantFiles(t, key))
                                THEN NoFile ELSE t.files[q]]]

(* One turn of build_current's loop.                                       *)
OverlayKey(acc, key, bytes) ==
    LET cleared == RemoveFile(ScanRemoveDirectory(acc.tree, key), key)
    IN IF acc.ok /\ ScanInsertOk(cleared, key)
       THEN [ok |-> TRUE, tree |-> InsertFile(cleared, key, bytes)]
       ELSE [acc EXCEPT !.ok = FALSE]

FoldBuild(base, unsaved) ==
    FoldLeft(LAMBDA acc, key : OverlayKey(acc, key, unsaved[key]),
             [ok |-> TRUE, tree |-> base], Sorted(Keys(unsaved)))

-----------------------------------------------------------------------------
Init ==
    /\ tree = EmptyTree
    /\ supplied = {}
    /\ entries = 0
    /\ overlay = [p \in Paths |-> NoFile]

(* CodeTree::new consumes Entry::Directory: an explicit duplicate is an    *)
(* error, a directory some earlier entry implied is not.                   *)
NewDirectory(p) ==
    /\ entries < MaxEntries
    /\ Keys(overlay) = {}
    /\ p \notin supplied
    /\ InsertDirectoryOk(tree, p)
    /\ supplied' = supplied \cup {p}
    /\ tree' = InsertDirectory(tree, p)
    /\ entries' = entries + 1
    /\ UNCHANGED overlay

NewFile(p, bytes) ==
    /\ entries < MaxEntries
    /\ Keys(overlay) = {}
    /\ p \notin FilesOf(tree)
    /\ ScanInsertOk(tree, p)
    /\ tree' = InsertFile(tree, p, bytes)
    /\ entries' = entries + 1
    /\ UNCHANGED <<supplied, overlay>>

(* Any unsaved files, to be laid over the finished tree.                   *)
Overlay(p, bytes) ==
    /\ Cardinality(Keys(overlay)) < MaxOverlay
    /\ overlay[p] = NoFile
    /\ overlay' = [overlay EXCEPT ![p] = bytes]
    /\ UNCHANGED <<tree, supplied, entries>>

Next ==
    \E p \in Paths :
        \/ NewDirectory(p)
        \/ \E bytes \in Bytes : NewFile(p, bytes) \/ Overlay(p, bytes)

Spec == Init /\ [][Next]_vars

-----------------------------------------------------------------------------
(* The loop over the overlay in key order fails exactly when the unsaved   *)
(* keys do not fit, and otherwise yields the merge over sets: its result   *)
(* does not depend on the order of the keys, and the key-range scans by    *)
(* which it clears a key miss no descendant.                               *)
FoldIsBuild ==
    LET built == FoldBuild(tree, overlay)
    IN /\ built.ok <=> BuildOk(tree, overlay)
       /\ built.ok => built.tree = BuildCurrent(tree, overlay)

(* "The new file's would-be descendants are contiguous right after it:     *)
(* checking the single next key covers them all"                           *)
(* (insert_file_with_parents): the next key tells for every path whether   *)
(* some file lies below it.                                                *)
NextKeyFindsDescendants ==
    \A p \in Paths : NextKeyBelow(tree, p) <=> \E f \in FilesOf(tree) : p \in Above[f]

=============================================================================
