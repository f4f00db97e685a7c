--------------------------- MODULE ProjectStorage ---------------------------
(***************************************************************************)
(* The aggregate root of jals-storage (storage.rs): project source, editor *)
(* overlay, revision, and the transaction that edits them.  The storage is *)
(* a single-owner value, so its operations are serial: an open Transaction *)
(* holds the &mut borrow and keeps every other operation out.  The files   *)
(* behind the source backend have no such owner and change at any time.    *)
(*                                                                         *)
(* An operation that returns Err before it assigns anything is a           *)
(* stuttering step and has no action of its own, except where the error    *)
(* consumes the transaction.                                               *)
(***************************************************************************)
EXTENDS CodeTree

CONSTANTS
    Clients,        \* callers that remember a ProjectView between operations
    MaxRevision,    \* bound on the revision counter (u64 in the code)
    MaxStaged       \* bound on the changes staged by one transaction

ASSUME BoundsAssumption == MaxRevision \in Nat /\ MaxStaged \in Nat

VARIABLES
    source,     \* what the backend persists (memory, or the files on disk)
    base,       \* ProjectStorage.base: the last snapshot, plus commits
    overlay,    \* ProjectStorage.overlay: unsaved text, NoFile when none
    current,    \* ProjectStorage.current: the tree every view shares
    revision,   \* ProjectStorage.revision
    shadowed,   \* the ExternalChangeShadowed diagnostics of the last refresh
    txOpen,     \* a Transaction holds the storage
    staged,     \* Transaction.staged
    preview,    \* Transaction.preview
    plan,       \* base with staged replayed on it: commit's next_base
    planOk,     \* FALSE once that replay has failed
    views       \* the ProjectView each client holds

vars == <<source, base, overlay, current, revision, shadowed,
          txOpen, staged, preview, plan, planOk, views>>

storageVars == <<base, overlay, current, revision, shadowed>>
txVars      == <<txOpen, staged, preview, plan, planOk>>

View == [revision : Nat, tree : Tree]

TypeOK ==
    /\ source \in Tree /\ base \in Tree /\ current \in Tree
    /\ preview \in Tree /\ plan \in Tree
    /\ overlay \in FileMap
    /\ revision \in 0..MaxRevision
    /\ shadowed \subseteq Paths
    /\ txOpen \in BOOLEAN /\ planOk \in BOOLEAN
    /\ staged \in Seq(Changes)
    /\ views \in [Clients -> View]

-----------------------------------------------------------------------------
(* ProjectStorage::open on a source that holds any well-formed tree.       *)
Init ==
    /\ source \in {t \in Tree : WellFormed(t)}
    /\ base = source /\ current = source
    /\ overlay = [p \in Paths |-> NoFile]
    /\ revision = 0
    /\ shadowed = {}
    /\ txOpen = FALSE /\ staged = <<>>
    /\ preview = EmptyTree /\ plan = EmptyTree /\ planOk = TRUE
    /\ views = [c \in Clients |-> [revision |-> 0, tree |-> source]]

(* Another process edits the project's files, one entry at a time.         *)
ExternalEdit(ch) ==
    /\ Valid(source, ch)
    /\ source' = Apply(source, ch)
    /\ UNCHANGED <<storageVars, txVars, views>>

(* A client reads: ProjectStorage::view.                                   *)
TakeView(c) ==
    /\ ~txOpen
    /\ views' = [views EXCEPT ![c] = [revision |-> revision, tree |-> current]]
    /\ UNCHANGED <<source, storageVars, txVars>>

(* check_revision, with the revision of the view the client acts on.       *)
CheckRevision(c) == views[c].revision = revision

(* Overlay keys whose file differs between the old base and the snapshot.  *)
ShadowedBy(snapshot) ==
    {p \in Keys(overlay) : base.files[p] # snapshot.files[p]}

(* refresh, when the snapshot is the base again: only diagnostics change.  *)
RefreshUnchanged ==
    /\ ~txOpen
    /\ source = base
    /\ shadowed' = ShadowedBy(source)
    /\ UNCHANGED <<source, base, overlay, current, revision, txVars, views>>

(* Mutated form: an external change beats the unsaved text over it.        *)
RefreshDropsShadowed ==
    LET kept == Without(overlay, ShadowedBy(source)) IN
    /\ ~txOpen
    /\ revision < MaxRevision
    /\ source # base
    /\ BuildOk(source, kept)
    /\ base' = source
    /\ overlay' = kept
    /\ current' = BuildCurrent(source, kept)
    /\ revision' = revision + 1
    /\ shadowed' = ShadowedBy(source)
    /\ UNCHANGED <<source, txVars, views>>

(* refresh of a changed snapshot.  When the overlay cannot be laid over it *)
(* the refresh fails and publishes nothing, its diagnostics included.      *)
Refresh ==
    /\ ~txOpen
    /\ revision < MaxRevision
    /\ source # base
    /\ BuildOk(source, overlay)
    /\ base' = source
    /\ current' = BuildCurrent(source, overlay)
    /\ revision' = revision + 1
    /\ shadowed' = ShadowedBy(source)
    /\ UNCHANGED <<source, overlay, txVars, views>>

(* The overlay with a batch of entries inserted.                           *)
Overlaid(entries) ==
    [p \in Paths |-> IF entries[p] # NoFile THEN entries[p] ELSE overlay[p]]

SetOverlays(c, entries) ==
    /\ ~txOpen
    /\ revision < MaxRevision
    /\ CheckRevision(c)
    /\ Keys(entries) # {}
    /\ Keys(entries) \cap current.dirs = {}
    /\ BuildOk(base, Overlaid(entries))
    /\ overlay' = Overlaid(entries)
    /\ current' = BuildCurrent(base, Overlaid(entries))
    /\ revision' = revision + 1
    /\ UNCHANGED <<source, base, shadowed, txVars, views>>

(* Mutated form: the tree changes under an unchanged revision.             *)
RemoveOverlaySilently(c, p) ==
    /\ ~txOpen
    /\ CheckRevision(c)
    /\ p \in Keys(overlay)
    /\ overlay' = Without(overlay, {p})
    /\ current' = BuildCurrent(base, Without(overlay, {p}))
    /\ UNCHANGED <<source, base, revision, shadowed, txVars, views>>

RemoveOverlay(c, p) ==
    /\ ~txOpen
    /\ revision < MaxRevision
    /\ CheckRevision(c)
    /\ p \in Keys(overlay)
    /\ BuildOk(base, Without(overlay, {p}))
    /\ overlay' = Without(overlay, {p})
    /\ current' = BuildCurrent(base, Without(overlay, {p}))
    /\ revision' = revision + 1
    /\ UNCHANGED <<source, base, shadowed, txVars, views>>

-----------------------------------------------------------------------------
(* Transactions                                                            *)

BeginTransaction(c) ==
    /\ ~txOpen
    /\ CheckRevision(c)
    /\ txOpen' = TRUE
    /\ staged' = <<>>
    /\ preview' = current
    /\ plan' = base
    /\ planOk' = TRUE
    /\ UNCHANGED <<source, storageVars, views>>

(* Transaction::stage: the change is validated against the preview only.   *)
(* commit replays staged on base; base cannot move while the transaction   *)
(* borrows the storage, so the replay is carried along one change at a     *)
(* time.  A batch (stage_changes) is the same as its changes one by one,   *)
(* except that a rejected batch stages none of them.                       *)
Stage(ch) ==
    /\ txOpen
    /\ Len(staged) < MaxStaged
    /\ Valid(preview, ch)
    /\ preview' = Apply(preview, ch)
    /\ staged' = Append(staged, ch)
    /\ planOk' = (planOk /\ Valid(plan, ch))
    /\ plan' = IF planOk /\ Valid(plan, ch) THEN Apply(plan, ch) ELSE plan
    /\ UNCHANGED <<source, storageVars, txOpen, views>>

StageChanges(c1, c2) ==
    LET mid == Apply(plan, c1) IN
    /\ txOpen
    /\ Len(staged) + 2 <= MaxStaged
    /\ Valid(preview, c1) /\ Valid(Apply(preview, c1), c2)
    /\ preview' = Apply(Apply(preview, c1), c2)
    /\ staged' = staged \o <<c1, c2>>
    /\ planOk' = (planOk /\ Valid(plan, c1) /\ Valid(mid, c2))
    /\ plan' = IF planOk /\ Valid(plan, c1) /\ Valid(mid, c2)
               THEN Apply(mid, c2) ELSE plan
    /\ UNCHANGED <<source, storageVars, txOpen, views>>

(* The overlay entries and the files a staged batch replaces.              *)
DroppedBy(batch) == {p \in Paths : \E i \in DOMAIN batch : p \in Drops(batch[i])}
Dropped == DroppedBy(staged)
Touched == {p \in Paths : \E i \in DOMAIN staged : p \in Touches(staged[i])}

(* SourceBackend::apply, as the aggregate sees it: the difference between  *)
(* base and plan, written over whatever the source holds now.  Module      *)
(* NativeSource has the steps.                                             *)
Persisted ==
    LET written == {p \in Keys(plan.files) : plan.files[p] # base.files[p]}
        made    == plan.dirs \ base.dirs
    IN [dirs  |-> (source.dirs \ (base.dirs \ plan.dirs)) \cup made
                      \cup {d \in Paths : \E p \in written \cup made : d \in Above[p]},
        files |-> [p \in Paths |->
                      IF plan.files[p] # base.files[p] THEN plan.files[p]
                      ELSE source.files[p]]]

(* The backend refuses what would overwrite an external edit, and the file *)
(* system what has nowhere to go.                                          *)
PersistOk ==
    /\ \A p \in Touched : source.files[p] = base.files[p]
    /\ \A i \in DOMAIN staged : staged[i].op = "RemoveDirectory" =>
          \A p \in AtOrBelow(staged[i].key) : p \in source.dirs <=> p \in base.dirs
    /\ WellFormed(Persisted)

CloseTransaction ==
    /\ txOpen' = FALSE
    /\ staged' = <<>>
    /\ preview' = EmptyTree
    /\ plan' = EmptyTree
    /\ planOk' = TRUE

(* The transaction ends without publishing: it is dropped, it staged       *)
(* nothing, the replay on base fails, or the backend reports an error.     *)
EndWithoutCommit ==
    /\ txOpen
    /\ CloseTransaction
    /\ UNCHANGED <<source, storageVars, views>>

(* Mutated form: the commit keeps the overlay entries it replaced.         *)
CommitKeepsOverlay ==
    /\ txOpen
    /\ staged # <<>>
    /\ planOk
    /\ PersistOk
    /\ revision < MaxRevision
    /\ source' = Persisted
    /\ base' = plan
    /\ revision' = revision + 1
    /\ current' = IF BuildOk(plan, overlay) THEN BuildCurrent(plan, overlay) ELSE current
    /\ CloseTransaction
    /\ UNCHANGED <<overlay, shadowed, views>>

(* commit: persist, drop the overlay entries the changes replace, publish  *)
(* base and revision, and only then rebuild the current tree.  A rebuild   *)
(* that fails returns Err and leaves the old tree under the new revision.  *)
Commit ==
    LET survivors == Without(overlay, Dropped) IN
    /\ txOpen
    /\ staged # <<>>
    /\ planOk
    /\ PersistOk
    /\ revision < MaxRevision
    /\ source' = Persisted
    /\ overlay' = survivors
    /\ base' = plan
    /\ revision' = revision + 1
    /\ current' = IF BuildOk(plan, survivors)
                  THEN BuildCurrent(plan, survivors) ELSE current
    /\ CloseTransaction
    /\ UNCHANGED <<shadowed, views>>

Next ==
    \/ \E ch \in Changes : ExternalEdit(ch) \/ Stage(ch)
    \/ RefreshUnchanged
    \/ Refresh
    \/ \E c \in Clients :
          \/ TakeView(c)
          \/ BeginTransaction(c)
          \/ \E entries \in FileMap : SetOverlays(c, entries)
          \/ \E p \in Paths : RemoveOverlay(c, p)
    \/ \E c1, c2 \in Changes : StageChanges(c1, c2)
    \/ Commit
    \/ EndWithoutCommit

Spec == Init /\ [][Next]_vars

-----------------------------------------------------------------------------
(* Correctness                                                             *)

(* Every tree a reader can obtain is a tree: no key is both file and       *)
(* directory and no entry lacks its parent directories, whatever mix of    *)
(* overlays, refreshes and commits produced it (insert_*_with_parents).    *)
TreesWellFormed ==
    /\ WellFormed(base)
    /\ WellFormed(current)
    /\ WellFormed(preview)
    /\ WellFormed(plan)

(* The published tree is always the unsaved text laid over the base, and   *)
(* laying it over never fails: build_current is Ok for the state we hold.  *)
(* In particular the rebuild that ends commit cannot fail after base and   *)
(* revision were already published.                                        *)
CurrentIsBuild ==
    /\ BuildOk(base, overlay)
    /\ current = BuildCurrent(base, overlay)

(* Staging validates against the preview, commit publishes base with the   *)
(* changes replayed under the surviving overlay.  Whenever the replay      *)
(* succeeds the two are the same tree: what was validated is what is       *)
(* published.                                                              *)
PreviewIsPublished ==
    txOpen /\ planOk =>
        LET survivors == Without(overlay, Dropped)
        IN BuildOk(plan, survivors) /\ preview = BuildCurrent(plan, survivors)

(* Two views that carry the same revision show the same tree, so an        *)
(* operation that passes check_revision acts on the tree its caller read.  *)
RevisionIdentifiesTree ==
    \A c \in Clients :
        /\ views[c].revision <= revision
        /\ views[c].revision = revision => views[c].tree = current

(* An editor buffer is given up only for content its owner asked for: when *)
(* an overlay entry disappears, either the tree now shows the base file    *)
(* under it (remove_overlay) or a transaction the caller staged on the     *)
(* tree with that text in it (commit); a refresh never drops one.          *)
UnsavedTextNotLost ==
    [][\A p \in Keys(overlay) :
          overlay'[p] = NoFile =>
              \/ base' = base /\ current'.files[p] = base.files[p]
              \/ txOpen /\ p \in Dropped /\ current' = preview]_vars

(* Transaction.preview is documented as "the current tree with every       *)
(* staged change applied, so each new change validates against the state   *)
(* it would commit into": a validated change would then never be refused   *)
(* by the replay that commit does.                                         *)
ValidatedChangesReplay == txOpen => planOk
=============================================================================
