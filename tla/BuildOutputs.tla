---------------------------- MODULE BuildOutputs ----------------------------
(***************************************************************************)
(* What a root build script leaves behind (jals-build, build_script.rs;    *)
(* jals-project, task.rs).  A build snapshots the project, replays the     *)
(* cached result of its script or evaluates the script, runs the task plan *)
(* the script declared, commits all the changes in one transaction, and    *)
(* then records in the cache what it generated.  Files generated below the *)
(* output root are known to later builds only through that record; source  *)
(* trees published into exclusive roots are known through an ownership     *)
(* file written in the same transaction.  Two processes (a command and the *)
(* language server) may build one project at once, a user edits it, and    *)
(* `jals clean` removes what builds left.                                  *)
(*                                                                         *)
(* Bytes are named by the input they were made from, so what a script or   *)
(* a task writes is the value of the project's input.  A commit is one     *)
(* step that is refused when an entry it touches is not as the snapshot    *)
(* had it (NativeSource), or is cut short by a crash.                      *)
(***************************************************************************)
EXTENDS Integers, Sequences, FiniteSets, SequencesExt

CONSTANTS
  Builders,    \* processes
  Outs,        \* files below target/jals/build/script/out
  Roots,       \* directories below a source root
  Scripts,     \* what the configured build.java may be, NoScript included
  NoScript,
  Tracks,      \* script -> "all" or "declared": its rerunIfChanged calls
  Does,        \* script -> features -> [writes, texts, trees]
  Requests,    \* how a build may be asked for: features, apply, blocked
  Inputs,      \* values of the project's tracked input
  MaxBuilds,   \* bound on builds and cleans
  MaxEvents    \* bound on edits, crashes, failing persists and cache losses

ASSUME BuildOutputsAssumption ==
  /\ NoScript \in Scripts
  /\ Tracks \in [Scripts -> {"all", "declared"}]
  /\ \A s \in Scripts, request \in Requests :
       Does[s][request.features]
         \in [writes : SUBSET Outs, texts : SUBSET Outs, trees : SUBSET Roots]
  /\ IsFiniteSet(Outs) /\ IsFiniteSet(Roots)
  /\ {"none", "user", "mixed"} \cap Inputs = {}
  /\ {MaxBuilds, MaxEvents} \subseteq Nat

VARIABLES
  disk,       \* [out, tree, owned]: output files, trees, the ownership file
  project,    \* [script, input]
  indexed,    \* the cached state the index names, or NoState
  artifacts,  \* the cached output bytes
  proc,       \* builder -> the build or clean it is in
  wrote,      \* history: who wrote each output file
  built,      \* history: the trees that builds published
  degraded,   \* history: a record of what was generated may be missing
  forgotten,  \* history: a commit was cut short, a clean met a build, OverlappingGap
  settled,    \* history: the project as the last commit left it
  builds, events

vars == <<disk, project, indexed, artifacts, proc, wrote, built, degraded, forgotten,
          settled, builds, events>>
history == <<wrote, built, degraded, forgotten, settled>>
counters == <<builds, events>>

NoState == [script |-> "none"]
Idle == [pc |-> "idle"]
NotSettled == [features |-> "none"]
Contents == Inputs \cup {"none", "user", "mixed"}
NoOutputs == [o \in {} |-> "none"]
Nothing == [writes |-> {}, texts |-> {}, trees |-> {}]

Init ==
  /\ disk = [out |-> [o \in Outs |-> "none"], tree |-> [r \in Roots |-> "none"], owned |-> {}]
  /\ project \in [script : Scripts, input : Inputs]
  /\ indexed = NoState
  /\ artifacts = {}
  /\ proc = [p \in Builders |-> Idle]
  /\ wrote = [o \in Outs |-> "none"]
  /\ built = {}
  /\ degraded = FALSE
  /\ forgotten = FALSE
  /\ settled = NotSettled
  /\ builds = 0 /\ events = 0

-----------------------------------------------------------------------------
(* The cached state. *)

Plan(does) == [trees |-> does.trees, texts |-> does.texts]

\* fingerprint_inputs: the script, the features, and the declared file or else
\* every project file outside target/jals, the published trees included.
FingerprintUntracked(view, features) ==
  [script |-> view.script, features |-> features, files |-> <<>>]

Fingerprint(view, features) ==
  [script |-> view.script, features |-> features,
   files |-> IF Tracks[view.script] = "declared" THEN <<view.input>>
             ELSE <<view.input, view.disk.tree>>]

\* load_cached_build_script: the outputs of the last recorded build whose bytes
\* are still in the cache.
Recovered ==
  IF indexed = NoState THEN NoOutputs
  ELSE [o \in {q \in DOMAIN indexed.outputs : <<q, indexed.outputs[q]>> \in artifacts}
          |-> indexed.outputs[o]]

Hit(view, features) ==
  /\ indexed # NoState
  /\ indexed.fingerprint = Fingerprint(view, features)
  /\ DOMAIN Recovered = DOMAIN indexed.outputs

\* prepare_build_script.  A hit recovers nothing and has no state to record.
Prepared(view, features) ==
  IF Hit(view, features)
  THEN [outputs |-> indexed.outputs, does |-> indexed.does, recovered |-> NoOutputs,
        state |-> NoState]
  ELSE LET does == Does[view.script][features]
           outputs == [o \in does.writes |-> view.input]
       IN [outputs |-> outputs, does |-> does, recovered |-> Recovered,
           state |-> [script |-> view.script, does |-> does, outputs |-> outputs,
                      fingerprint |-> Fingerprint(view, features)]]

-----------------------------------------------------------------------------
(* The changes a build commits, each an entry and its new bytes. *)

Change(kind, key, bytes, by) == [kind |-> kind, key |-> key, bytes |-> bytes, by |-> by]

\* The changes of f, a function on the keys to change, in some order.
Listed(f) == LET s == SetToSeq(DOMAIN f) IN [i \in DOMAIN s |-> f[s[i]]]

\* published_text_changes: equal bytes are nothing to do, unless they are a
\* former output that would be removed.
TextsAlways(view, prep) == prep.does.texts

Texts(view, prep) ==
  {o \in prep.does.texts :
     \/ view.disk.out[o] # view.input
     \/ o \in DOMAIN prep.recovered \ DOMAIN prep.outputs}

TextChanges(view, prep) ==
  Listed([o \in Texts(view, prep) |-> Change("out", o, view.input, "text")])

\* reconcile_output_changes: write what is new, remove what is no longer
\* generated as long as it has the bytes a build gave it.  A path that a text
\* claims is not removed.
RemovableUnchecked(view, prep) ==
  {o \in DOMAIN prep.recovered \ DOMAIN prep.outputs :
     o \notin Texts(view, prep) /\ view.disk.out[o] # "none"}

Removable(view, prep) ==
  {o \in DOMAIN prep.recovered \ DOMAIN prep.outputs :
     o \notin Texts(view, prep) /\ view.disk.out[o] = prep.recovered[o]}

Writable(view, prep) == {o \in DOMAIN prep.outputs : view.disk.out[o] # prep.outputs[o]}

OutputChanges(view, prep) ==
  Listed([o \in Writable(view, prep) |-> Change("out", o, prep.outputs[o], "script")])
  \o Listed([o \in Removable(view, prep) |-> Change("out", o, "none", "script")])

\* published_trees_match.
Matches(d, owners) == \A w \in owners : d.tree[w.root] = w.tree

\* publication_changes: every root owned before or declared now is replaced as
\* a whole, and the ownership file is written last.
Owners(view, does) ==
  {[root |-> r, plan |-> Plan(does), tree |-> view.input] : r \in does.trees}

\* Each tree is written file by file, and the trees one after the other.
TreeChanges(view, does) ==
  LET s == SetToSeq(does.trees)
  IN [n \in 1..(2 * Len(s)) |->
        Change("tree", s[(n + 1) \div 2], IF n % 2 = 1 THEN "mixed" ELSE view.input, "task")]

Replaced(view, does) ==
  {r \in {w.root : w \in view.disk.owned} \cup does.trees : view.disk.tree[r] # "none"}

PublicationChanges(view, does) ==
  LET owners == Owners(view, does)
  IN IF view.disk.owned = owners /\ Matches(view.disk, owners) THEN <<>>
     ELSE Listed([r \in Replaced(view, does) |-> Change("tree", r, "none", "task")])
          \o TreeChanges(view, does)
          \o <<Change("owned", "owned", owners, "task")>>

\* plan_publications_current.
PublicationsCurrent(view, does) ==
  IF view.disk.owned = {} THEN does.trees \cup does.texts = {}
  ELSE /\ {w.root : w \in view.disk.owned} = does.trees
       /\ \A w \in view.disk.owned : w.plan = Plan(does)
       /\ Matches(view.disk, view.disk.owned)

(* The files after some changes: the last change of each entry decides. *)

To(changes, kind, key) ==
  {i \in DOMAIN changes : changes[i].kind = kind /\ changes[i].key = key}

LastTo(changes, kind, key) ==
  LET at == To(changes, kind, key) IN changes[CHOOSE i \in at : \A j \in at : j <= i]

After(changes, kind, key, before) ==
  IF To(changes, kind, key) = {} THEN before ELSE LastTo(changes, kind, key).bytes

AllApplied(d, changes) ==
  [out   |-> [o \in Outs |-> After(changes, "out", o, d.out[o])],
   tree  |-> [r \in Roots |-> After(changes, "tree", r, d.tree[r])],
   owned |-> After(changes, "owned", "owned", d.owned)]

Entry(d, c) ==
  CASE c.kind = "out"   -> d.out[c.key]
    [] c.kind = "tree"  -> d.tree[c.key]
    [] c.kind = "owned" -> d.owned

-----------------------------------------------------------------------------
(* A build: BuildTaskExecutor::execute_root. *)

Overlapping == \E p \in Builders : proc[p].pc # "idle"
Cleaning == \E p \in Builders : proc[p].pc = "clean"

\* History: a build that begins while another runs, and one of them sees an
\* owned root without its tree.  Republishing such a tree writes the ownership
\* file it found, so the other build's removal of that file is not refused.
OverlappingGap ==
  LET gap(d) == \E w \in d.owned : d.tree[w.root] = "none"
  IN \E p \in Builders : /\ proc[p].pc \in {"opened", "planned"}
                         /\ gap(disk) \/ gap(proc[p].view.disk)

\* The process opens its storage.  Its session is new.
Begin(p, request) ==
  /\ proc[p].pc = "idle"
  /\ builds < MaxBuilds
  /\ builds' = builds + 1
  /\ proc' = [proc EXCEPT ![p] =
       [pc |-> "opened", request |-> request,
        view |-> [disk |-> disk, script |-> project.script, input |-> project.input]]]
  /\ degraded' = (degraded \/ Overlapping)
  /\ forgotten' = (forgotten \/ Cleaning \/ OverlappingGap)
  /\ UNCHANGED <<disk, project, indexed, artifacts, wrote, built, settled, events>>

Event == events < MaxEvents /\ events' = events + 1
End(p) == proc' = [proc EXCEPT ![p] = Idle]

\* The script throws, a task fails, or two writers claim one path.
Refuse(p) ==
  /\ proc[p].pc \in {"opened", "planned"}
  /\ End(p)
  /\ UNCHANGED <<disk, project, indexed, artifacts, history, counters>>

\* reject_blocked_roots: an open document below a root defers the build.
Blocked(view, request, does) ==
  IF view.script = NoScript
  THEN request.blocked \cap {w.root : w \in view.disk.owned} # {}
  ELSE ~PublicationsCurrent(view, does) /\ request.blocked \cap does.trees # {}

\* A build that only analyses (apply is FALSE) publishes no trees.
BuildChanges(view, request, prep) ==
  OutputChanges(view, prep)
  \o (IF request.apply THEN PublicationChanges(view, prep.does) ELSE <<>>)
  \o TextChanges(view, prep)

\* Prepare the script, run its plan and collect the changes.
PlanBuild(p) ==
  /\ proc[p].pc = "opened"
  /\ LET b == proc[p]
         prep == IF b.view.script = NoScript
                 THEN [outputs |-> NoOutputs, does |-> Nothing, recovered |-> NoOutputs,
                       state |-> NoState]
                 ELSE Prepared(b.view, b.request.features)
     IN /\ ~Blocked(b.view, b.request, prep.does)
        /\ DOMAIN prep.outputs \cap prep.does.texts = {}
        /\ proc' = [proc EXCEPT ![p] =
             [pc |-> "planned", request |-> b.request, view |-> b.view,
              outputs |-> prep.outputs, state |-> prep.state,
              changes |-> BuildChanges(b.view, b.request, prep)]]
  /\ UNCHANGED <<disk, project, indexed, artifacts, history, counters>>

\* The backend refuses a batch that touches an entry changed since the snapshot.
Stale(p) ==
  \E c \in ToSet(proc[p].changes) : Entry(disk, c) # Entry(proc[p].view.disk, c)

\* The last writer of each output among some changes.
WroteBy(changes) ==
  [o \in Outs |->
     IF To(changes, "out", o) = {} THEN wrote[o]
     ELSE LET c == LastTo(changes, "out", o) IN IF c.bytes = "none" THEN "none" ELSE c.by]

BuiltBy(changes) ==
  LET put == {c.key : c \in {d \in ToSet(changes) : d.kind = "tree" /\ d.bytes # "none"}}
      gone == {c.key : c \in {d \in ToSet(changes) : d.kind = "tree" /\ d.bytes = "none"}}
  IN (built \ gone) \cup put

\* A build request, the project it was made in, and files.
Asked(p, d) ==
  [features |-> proc[p].request.features, apply |-> proc[p].request.apply,
   script |-> proc[p].view.script, input |-> proc[p].view.input, disk |-> d]

Commit(p) ==
  /\ proc[p].pc = "planned"
  /\ ~Stale(p)
  /\ disk' = AllApplied(disk, proc[p].changes)
  /\ wrote' = WroteBy(proc[p].changes)
  /\ built' = BuiltBy(proc[p].changes)
  /\ settled' = IF disk = proc[p].view.disk THEN Asked(p, disk') ELSE NotSettled
  /\ proc' = [proc EXCEPT ![p].pc = "committed"]
  /\ UNCHANGED <<project, indexed, artifacts, degraded, forgotten, counters>>

\* The process dies while its batch is written.
CrashInCommit(p, landed) ==
  /\ Event
  /\ proc[p].pc = "planned"
  /\ ~Stale(p)
  /\ LET prefix == SubSeq(proc[p].changes, 1, landed) IN
     /\ disk' = AllApplied(disk, prefix)
     /\ wrote' = WroteBy(prefix)
     /\ built' = BuiltBy(prefix)
  /\ End(p)
  /\ degraded' = TRUE
  /\ forgotten' = TRUE
  /\ UNCHANGED <<project, indexed, artifacts, settled, builds>>

\* PreparedBuildScript::persist: the outputs, the state, and the index last
\* (Lowering has the steps of that order).  A replayed state is not recorded.
PersistAlwaysNothing(p) ==
  /\ proc[p].pc = "committed"
  /\ End(p)
  /\ UNCHANGED <<disk, project, indexed, artifacts, history, counters>>

Persist(p) ==
  /\ proc[p].pc = "committed"
  /\ LET s == proc[p].state IN
     /\ indexed' = IF s = NoState THEN indexed ELSE s
     /\ artifacts' = artifacts \cup (IF s = NoState THEN {}
                                     ELSE {<<o, s.outputs[o]>> : o \in DOMAIN s.outputs})
  /\ End(p)
  /\ UNCHANGED <<disk, project, history, counters>>

\* The process dies before it, or the cache cannot be written: a warning.
NotPersisted(p) ==
  /\ Event
  /\ proc[p].pc = "committed"
  /\ End(p)
  /\ degraded' = TRUE
  /\ UNCHANGED <<disk, project, indexed, artifacts, wrote, built, forgotten, settled, builds>>

-----------------------------------------------------------------------------
(* `jals clean`: the owned roots one by one, then the build directory with the *)
(* outputs and the ownership file.  The cache stays.                           *)

BeginClean(p) ==
  /\ proc[p].pc = "idle"
  /\ builds < MaxBuilds
  /\ builds' = builds + 1
  /\ proc' = [proc EXCEPT ![p] = [pc |-> "clean", todo |-> {w.root : w \in disk.owned}]]
  /\ degraded' = (degraded \/ Overlapping)
  /\ forgotten' = (forgotten \/ Overlapping)
  /\ UNCHANGED <<disk, project, indexed, artifacts, wrote, built, settled, events>>

CleanRoot(p, r) ==
  /\ proc[p].pc = "clean"
  /\ r \in proc[p].todo
  /\ disk' = [disk EXCEPT !.tree[r] = "none"]
  /\ built' = built \ {r}
  /\ proc' = [proc EXCEPT ![p].todo = @ \ {r}]
  /\ UNCHANGED <<project, indexed, artifacts, wrote, degraded, forgotten, settled, counters>>

CleanedBuild == [disk EXCEPT !.out = [o \in Outs |-> "none"], !.owned = {}]

CleanBuildDirFirst(p) ==
  /\ proc[p].pc = "clean"
  /\ disk' = CleanedBuild
  /\ wrote' = [o \in Outs |-> "none"]
  /\ IF proc[p].todo = {} THEN End(p) ELSE UNCHANGED proc
  /\ UNCHANGED <<project, indexed, artifacts, built, degraded, forgotten, settled, counters>>

CleanBuildDir(p) ==
  /\ proc[p].pc = "clean"
  /\ proc[p].todo = {}
  /\ disk' = CleanedBuild
  /\ wrote' = [o \in Outs |-> "none"]
  /\ End(p)
  /\ UNCHANGED <<project, indexed, artifacts, built, degraded, forgotten, settled, counters>>

\* A directory cannot be removed, or the process is stopped part-way through it.
CleanStops(p) ==
  /\ Event
  /\ proc[p].pc = "clean"
  /\ \/ disk' = disk
     \/ \E r \in proc[p].todo : disk.tree[r] # "none" /\ disk' = [disk EXCEPT !.tree[r] = "mixed"]
     \/ proc[p].todo = {} /\ \E o \in Outs : disk' = [disk EXCEPT !.out[o] = "none"]
     \/ proc[p].todo = {} /\ disk' = [disk EXCEPT !.owned = {}]
  /\ wrote' = [o \in Outs |-> IF disk'.out[o] = "none" THEN "none" ELSE wrote[o]]
  /\ End(p)
  /\ UNCHANGED <<project, indexed, artifacts, built, degraded, forgotten, settled, builds>>

-----------------------------------------------------------------------------
(* The user and the cache directory. *)

Edit ==
  /\ Event
  /\ UNCHANGED <<indexed, artifacts, proc, degraded, forgotten, settled, builds>>

EditProject ==
  /\ Edit
  /\ \/ \E s \in Scripts : project' = [project EXCEPT !.script = s]
     \/ \E i \in Inputs : project' = [project EXCEPT !.input = i]
  /\ project' # project
  /\ UNCHANGED <<disk, wrote, built>>

\* A file below the output root is edited or deleted by hand.
EditOutput(o, bytes) ==
  /\ Edit
  /\ disk.out[o] # bytes
  /\ disk' = [disk EXCEPT !.out[o] = bytes]
  /\ wrote' = [wrote EXCEPT ![o] = IF bytes = "none" THEN "none" ELSE "user"]
  /\ UNCHANGED <<project, built>>

EditTree(r, bytes) ==
  /\ Edit
  /\ disk.tree[r] # bytes
  /\ disk' = [disk EXCEPT !.tree[r] = bytes]
  /\ built' = IF bytes = "none" THEN built \ {r} ELSE built
  /\ UNCHANGED <<project, wrote>>

\* Part of the cache is deleted or damaged: lookups are verified, so either reads
\* as absent.
LoseCache ==
  /\ Event
  /\ \/ indexed # NoState /\ indexed' = NoState /\ UNCHANGED artifacts
     \/ \E a \in artifacts : artifacts' = artifacts \ {a} /\ UNCHANGED indexed
  /\ degraded' = TRUE
  /\ UNCHANGED <<disk, project, proc, wrote, built, forgotten, settled, builds>>

Next ==
  \/ \E p \in Builders :
       \/ \E request \in Requests : Begin(p, request)
       \/ Refuse(p) \/ PlanBuild(p) \/ Commit(p) \/ Persist(p) \/ NotPersisted(p)
       \/ proc[p].pc = "planned" /\ \E n \in 0..(Len(proc[p].changes) - 1) : CrashInCommit(p, n)
       \/ BeginClean(p) \/ CleanBuildDir(p) \/ CleanStops(p)
       \/ \E r \in Roots : CleanRoot(p, r)
  \/ EditProject
  \/ \E o \in Outs, bytes \in {"none", "user"} : EditOutput(o, bytes)
  \/ \E r \in Roots, bytes \in {"none", "user"} : EditTree(r, bytes)
  \/ LoseCache

Spec == Init /\ [][Next]_vars

-----------------------------------------------------------------------------
(* Properties. *)

\* The shape of the state.
TypeOK ==
  /\ disk.out \in [Outs -> Contents]
  /\ disk.tree \in [Roots -> Contents]
  /\ \A w \in disk.owned : w.root \in Roots
  /\ project \in [script : Scripts, input : Inputs]
  /\ \A p \in Builders : proc[p].pc \in {"idle", "opened", "planned", "committed", "clean"}
  /\ wrote \in [Outs -> {"none", "user", "script", "text"}]
  /\ built \subseteq Roots

\* A step in which p's build commits.
Commits(p) == proc[p].pc = "planned" /\ proc'[p].pc = "committed"

\* What a build of p's snapshot in an empty project would produce.
Wanted(p) ==
  IF proc[p].view.script = NoScript THEN Nothing
  ELSE Does[proc[p].view.script][proc[p].request.features]

\* A committed build leaves what a build from nothing would have produced from
\* the same snapshot, whether the script ran or was replayed, after crashes,
\* damaged caches, hand edits and builds with other features (README of
\* jals-build: "A matching cache hit restores outputs and all directives without
\* evaluating the script"), except where the user writes meanwhile.
BuildsLikeNew ==
  [][\A p \in Builders : Commits(p) =>
       LET v == proc[p].view
           retired == {w.root : w \in v.disk.owned} \ Wanted(p).trees
       IN /\ \A o \in Wanted(p).writes \cup Wanted(p).texts :
               disk.out[o] = v.disk.out[o] => disk'.out[o] = v.input
          /\ \A r \in Wanted(p).trees \cup retired :
               proc[p].request.apply /\ disk.tree[r] = v.disk.tree[r] =>
                 disk'.tree[r] = IF r \in retired THEN "none" ELSE v.input]_vars

\* As long as every build could record what it did and none overlapped, no file
\* a script generated outlives the build after which the script no longer
\* generates it, also when a text task, a clean or a time without script comes
\* between (reconcile_output_changes).
StaleOutputsRemoved ==
  [][\A p \in Builders : Commits(p) /\ ~degraded /\ proc[p].view.script # NoScript =>
       \A o \in Outs : wrote'[o] = "script" => o \in Wanted(p).writes]_vars

\* "Unknown or externally modified stale files are never deleted" (README of
\* jals-build): a build removes no output file that the user wrote, also when
\* the user saves it while the build runs.
ForeignOutputsKept ==
  [][\A p \in Builders : Commits(p) =>
       \A o \in Outs : wrote[o] = "user" => disk'.out[o] # "none"]_vars

\* A tree that builds published stays on record until it is gone, so that some
\* later build or clean removes it: the ownership file is what two builds with
\* different plans conflict on, and what a clean deletes last.
TreesRecorded ==
  ~forgotten => \A r \in built : \E w \in disk.owned : w.root = r

\* "Matching generated trees are no-ops, so watched-file feedback does not
\* continuously regenerate them" (README of jals-lsp): the next build of an
\* untouched project writes nothing.
SecondBuildWritesNothing ==
  [][\A p \in Builders :
       Commits(p) /\ ~degraded /\ settled = Asked(p, proc[p].view.disk) =>
         proc[p].changes = <<>>]_vars

\* "Exclusive physical source-tree publication is deferred ... while an open
\* document lies below the destination" (README of jals-lsp).
OpenTreesKept ==
  [][\A p \in Builders : Commits(p) =>
       \A r \in proc[p].request.blocked : disk'.tree[r] = disk.tree[r]]_vars

=============================================================================
