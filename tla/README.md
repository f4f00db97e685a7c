# A formal model of jals

jals is a Java toolchain in Rust: formatter, linter, language server, build
tool, compiler and decompiler over one set of crates. Most of it is pure,
sequential computation over syntax trees and class files. This directory
models the part that is not: the code that keeps state, shares it between
processes and tasks, and has to survive failures.

## 1. Inventory

| Component | Where | State it keeps | Operations that change it | Interacts with |
|---|---|---|---|---|
| Project tree | `jals-storage/src/tree.rs`, `value.rs` | ordered map of files, ordered set of directories | `new`, `insert_*_with_parents`, `remove_file`, `remove_directory` | every reader of a project |
| Project storage | `jals-storage/src/storage.rs` | base snapshot, editor overlay, current tree, revision, one open transaction | `open`, `refresh`, `set_overlay(s)`, `remove_overlay`, `transaction`, `stage*`, `commit` | source backend; editor, build and language server hold it |
| Native source backend | `jals-storage/src/native.rs` | the files of the project, an undo journal while a batch is written | `snapshot`, `apply` | other processes editing the same files |
| Artifact cache | `jals-storage/src/cache.rs`, `native.rs` | write-once files, an advisory index, materialized copies | `publish`, `record_index`, `indexed_key`, `lookup*`, `open_verified*`, `materialize_file` | shared by every jals process of a user |
| Frontend lowering | `jals-frontend/src/driver.rs`, `key.rs` | emitted files, a manifest and a pointer in the cache | `Driver::lower` | artifact cache |
| Language server, workspaces | `jals-lsp/src/actor.rs` | one slot per project (loading, ready, active assembly, rerun flag), generation, feature selection | `did_open`, `did_close`, `watched_files_changed`, `set_feature_selection`, `workspace_ready`, the spawned assembly | client, disk, build script and task publication |
| Language server, documents | `jals-lsp/src/actor.rs`, `state.rs`, `server.rs` | document store, groups, last published diagnostics, token baselines | `did_change` (coalesced), routing, republication, requests | editor core, workspaces |
| Executor | `jals-exec/src` | worker pool, reply channels | `spawn`, `fan_out`, `yield` | everything that runs in parallel |
| Test runner | `jals-build/src/test_runner.rs` | permits, failure count, one process per running test | `run_tests`: start, wait, judge, retry, skip | executor, JVM processes |
| Build outputs | `jals-build/src/build_script.rs`, `clean.rs`, `jals-project/src/task.rs` | generated files, published trees, the ownership file, the cached state of the script | `prepare_build_script`, `execute_root`, `publish_prepared_build_script`, `persist`, `jals clean` | storage, cache, user, other builds |
| Rest of the build | the rest of `jals-build/src` | | compiling, packaging, remapping | cache, executor |
| Project graph | the rest of `jals-project/src` | resolved graph | `discover`, `resolve_native`, task execution | storage, cache, classpath |
| Version resolver | `jals-resolve/src` | the choices, requirements, features and two queues of a pass; the pins that lead to the next | `resolve`: passes over the graph until one confirms its own choices (no backtracking) | a provider of versions |
| Classpath | `jals-classpath/src` | `jals.lock`, downloads, Maven metadata | the two registry passes of a build, `update`, fetch, retry | resolver, cache |
| Everything else | `jals-syntax`, `jals-fmt`, `jals-lint`, `jals-hir`, `jals-classfile`, `jals-decompile`, `jals-javac`, `jals-config`, `jals-editor`, `jals-native`, `jals-platform`, `jals-progress`, `jals-cli`, `jals-playground`, `editors`, `crates/jinja` | none that outlives a call, or user interface | pure functions | |

**What is hard about it.**

- The files behind a project belong to everybody. The storage holds a snapshot,
  unsaved text on top of it, and transactions validated on the two together but
  persisted against the snapshot alone, while other processes go on editing.
- A batch of changes is several system calls. One may fail, another process may
  get between any two of them, the process may die with its journal in memory.
- The cache directory is shared without locks. Its only primitives are "hard
  link, fails if the name exists" and "rename over".
- A lowering publishes several artifacts and then a certificate for them; the
  order is the whole protocol.
- Parallel work runs on threads that share one receiver behind a mutex and are
  woken by unparking; a lost reply or wake-up hangs the caller.
- The language server runs assemblies beside its actor. What an assembly read,
  what changed since, which watcher events are still under way and what the
  build itself wrote all meet in one queue.
- The actor reads ahead in that queue to coalesce edits, and moves documents
  between analyses whenever a project loads; requests must not notice.
- The resolver corrects a choice when a requirement arrives after it was made,
  by starting over with other pins, against a registry that can change under it;
  the lock that results must not depend on which build wrote it.
- A build knows what an earlier one generated only by two records, one committed
  with the files and one written to the cache after them, while the user, a clean
  and a second build go on changing the files.
- The test runner counts permits and failures on several threads while processes
  end, hang or die at any moment.

**What makes each correct.** Storage: views are snapshots named by their
revision, the current tree is always the merge of base and overlay, what a
transaction previewed is what it publishes, unsaved text is not lost. Native
source: all or nothing, never over a stale file, the original always
recoverable. Cache: the right bytes or an error, no partial file, every pointer
backed. Lowering: a manifest certifies its files, and races are absorbed. Language
server: one assembly per project, settled means current, a good workspace is not
replaced by a fallback, and the server comes to rest; a request is answered from
the text it was asked about, and what the client shows is current. Executor: one outcome per job, in order, and every job ends. Resolver: a
finished graph meets its requirements and is the closure of its roots, and the
loop ends. Lock: only an edit or an update moves it. Build
outputs: what a build from nothing would leave, and nothing of the user's removed. Test runner: no permit lost,
`--max-fail` overshoots by what was running, and the books balance.

## 2. Modules

| Module | Models | Used by |
|---|---|---|
| `CodeTree` | a tree as a set of directories and a partial function from paths to contents; the changes, what they require and do; the merge of overlay and base | all storage modules |
| `TreeOrder` | the same operations as the code computes them on sorted keys: range scans, the next-key test, the key-ordered overlay loop | – |
| `ProjectStorage` | the aggregate: one action per operation | – |
| `NativeSource` | `apply_sync`, one system call per step | – |
| `ArtifactCache` | the cache on its native backend, one system call per step | `Lowering` |
| `Lowering` | `Driver::lower`, composed with the cache | – |
| `LspWorkspaces` | the actor, the assembly tasks, client, user and disk | – |
| `LspDocuments` | the actor's queues, open documents, routing, diagnostics, requests | – |
| `FanOut` | what `Exec::fan_out` promises, as an abstract specification | `FanOutPool` |
| `FanOutPool` | `fan_out` on the worker threads of the native runtime; implements `FanOut` | – |
| `Resolver` | one resolution of `jals-resolve`, step by step, and what it promises | `Resolution`, `RegistryLock` |
| `Resolution` | one resolution of any job while the registry grows | – |
| `RegistryLock` | builds, updates and manifest edits over one `jals.lock`; composes two resolver passes per command | – |
| `TestRun` | the process test runner | – |
| `BuildOutputs` | what root builds and cleans leave behind: generated files, published trees, the records of both | – |
| `ProjectStorageProofs`, `NativeSourceProofs`, `LoweringProofs`, `LspWorkspacesProofs`, `LspDocumentsProofs`, `ExecutorProofs` (`FanOutPool` and `TestRun`), `ResolverProofs`, `BuildOutputsProofs` | theorems (section 4) | – |
| `*MC` | instances | runs |

Conventions. A definition that names a *mutated form* (directly before the
definition it resembles, with a longer name) is a plausible bug of that
definition. No specification uses it; each property is shown to notice one of
them. Comments name the functions of the code; `PROJECT.json` maps every
definition to its lines.

### Project tree (`CodeTree`, `TreeOrder`)

`CodeTree` abstracts a path to an element of `Paths` with its set `Above[p]` of
proper ancestors. All the code asks of paths (`starts_with`, ancestors) can be
said with it. A file map is total, with `NoFile` for absence. `Valid` and `Apply`
are the cases of `apply_changes`. `BuildOk` and `BuildCurrent` are
`build_current`: an overlay file needs ancestors that are no files (in the base
or among the unsaved ones), and hides whatever the base has at or below its path.

The code computes these on `BTreeMap` ranges. `TreeOrder` has paths as sequences
of names with the derived lexicographic order and compares the algorithms with
`CodeTree`: a subtree is a contiguous key range, whether something lies below a
new file is decided by the next key, and laying overlay files one at a time in
key order gives the merge that `BuildCurrent` defines without an order.

### Project storage (`ProjectStorage`)

The storage has one owner, so operations are atomic; `Transaction` borrows it
mutably, so while `txOpen` only staging and ending are enabled. `ExternalEdit`
changes `source` at any time, also during a transaction. `plan` and `planOk`
carry along the replay on base that `commit` does at its end, one change at a
time instead of all at once; each change is validated and applied alike either
way. `commit` assigns base,
overlay and revision and *then* rebuilds `current`, whose failure would leave a
new revision with the old tree: the action keeps that order and that outcome, and
`CurrentIsBuild` says it does not happen. Operations that fail before assigning
anything are stuttering steps.

### Native source backend (`NativeSource`)

`Precheck` walks the write set, then for each change `Check`, `Save` or
`MakeDirectories`, `Write`; an error enters `rollback`, which pops the journal
newest first and remembers in `left` what could not be undone. The precheck looks,
as the code does, at entries that are replaced or removed and not at those that are
created; the link or mkdir of a create fails by itself. Between any two
steps `ExternalEdit`, `Fault` (a call fails without effect) and `Crash` can
happen. `world` (what the files would be without the batch), `raced`, `late` and
`lost` are history variables for the properties and guard nothing. The directories
above a new file are made in one step: an edit or a crash falls before or after all
of them, and a mkdir that fails, or meets what another process made in between, is a
fault that leaves the ones before it made.

### Artifact cache and lowering (`ArtifactCache`, `Lowering`)

`call[p]` is the program counter and locals of the operation process `p` is in.
`CreateOnce` is the hard link of a complete temporary file; `CompareWinner` and
`CompareRival` the comparison after it failed; `Open`/`Verify` read through one
handle. `Tamper` replaces or deletes what has been published, or overwrites a
pointer. SHA-256 is taken to be injective.

`Lowering` extends the cache: its actions start cache operations and consume
their results, and the cache's own steps interleave freely. What a frontend
computes is any tree (two runs may differ), so that a cached answer can be
compared with the trees really emitted.

### Language server workspaces (`LspWorkspaces`)

The actor takes commands from `queue` in order, one action per command kind. An
assembly is a task with three points at which it touches the world: it snapshots
the project (`ReadProject`), runs the script and publishes (`RunScript`), reads
dependencies (`AssembleGraph`). It then reports through the queue. Versions of
files are counters, so "made from what is on disk" is equality of counters.
`watched_project_action` is kept as a function of the kinds of changed paths and
the watch policy, including that a slot without a policy treats a path outside
its root as nobody's. A publication wakes the watcher like an edit.

Two error paths end nowhere in the code, and so in the model. A refresh that fails is
discarded (`state.rs:177`) and leaves the workspace as it was; the ghost `unread`
remembers it. A first load that fails without a fallback is given a bare workspace,
which opens the root once more and panics when it cannot (`state.rs:322`); the guard
around the command catches the panic, and the slot stays loading with an assembly
that has ended (`Stuck`). From then on no event starts another one.

### Language server documents (`LspDocuments`)

`channel` is the command channel and `pending` what the coalescer set aside;
`run` serves `pending` first. `DidChange` applies one change, `Drain` moves the
whole channel into `pending`, `Coalesce` applies the changes of the same document
at its head, `FinishChange` publishes once: other tasks may send between any two
of these, and the actor serves nothing else until the last. A text is the number
of the client input that made it. An analysis is not computed but named: which
workspace answers (`by`), with which siblings, from which text. `RefreshAndPublish`,
`Forget`, `Mount` and `InstallWorkspace` are the functions of `actor.rs` on the
triple of overlays, detached groups and shown diagnostics. How an assembly comes to
run is `LspWorkspaces`; here its completion is one more command, with any of the
results it may bring. A slot whose bare workspace panicked is `"stuck"`: it gets no
further completion, and its documents stay in their groups.

### Resolver, resolutions and the lock (`Resolver`, `Resolution`, `RegistryLock`)

A requirement is the set of versions it matches, an id a version and a source. A
pass has the two queues of the code: `ProcessPackages` drains the package queue as
one batch (roots are checked, candidates listed, versions chosen, edges discovered),
`ExpandFeatures` takes one name from the feature queue only when the former is
empty, `Validate` compares choices with requirements and ends the loop or starts
the next pass from the corrected choices. Candidate lists and summaries are
remembered across passes, as in the code. `Candidates` is the Maven provider: an
exact requirement is answered without reading the index. `Resolution` starts from
any job of a family; `Publish` adds a release at any moment and the provider may
fail at any read.

`RegistryLock` runs commands one after another: a selected pass, then, when the
manifest has optional or dev entries outside the selection, a full pass in which
everything is active; the lock comes from the last pass, the classpath from the
first. `fresh` (the file was written for this manifest) is a history variable.

### Test runner (`TestRun`)

One `pc` per test follows `run_one`: begin, acquire a permit under the mutex or
wait on the condition, re-check the failure limit, spawn, wait by polling, read the
clock, judge, retry or count, announce, release, notify. The test's process ends in
any way at any time; a waiter may wake without notification, and a job that just
arrived may take a permit ahead of the notified one.

### Build outputs (`BuildOutputs`)

A build is five steps of a process: `Begin` takes the snapshot, `PlanBuild`
replays the cached script or evaluates it and collects the changes (generated
files, published trees with the ownership file last, published texts), `Commit`
applies them in one transaction or is refused because an entry changed, `Persist`
records the state. A clean reads the ownership file and removes directories one by
one. The bytes a script or a task makes are named by the input they were made from,
so that a stale replay shows; a tree half-written is `"mixed"`. The steps of a
commit are `NativeSource`, those of `Persist` follow the order checked in
`Lowering`. Every process starts with an empty session, as the command line and the
language server do, so there are no `session.outputs` to merge into the known ones
(`build_script.rs:1951`). A commit is refused when a tree that was absent in the
snapshot exists; the code refuses only when a file of the same name does, and the
properties exclude that case. `wrote`, `built`, `degraded`, `forgotten` and `settled` are
history variables.

### Executor (`FanOut`, `FanOutPool`)

`FanOut` states the promise of `Exec::fan_out` in four actions: a call is
submitted, its jobs settle in any order, the call finishes with the results in
input order or with the first panic in input order once all have settled, or it is
dropped and its jobs settle all the same. How a job ends is fixed by `outcome`,
chosen at the start.

`FanOutPool` has the channel of orders, the mutex around its receiver, the workers
with their park token, the wakers, and the collection loop of the caller.
Dispatching is one step because its loop has no await and the channel is
unbounded. `KeepsPromise` is the abstract specification instantiated
(`Promise == INSTANCE FanOut WITH ...`) with the pool's variables, `settled` being a
history variable that records the replies.

## 3. Runs

| Run | Instance | Shows |
|---|---|---|
| `storage` | paths `a`, `a/b`; 2 contents; 1 client; 4 revisions; 3 staged changes | the storage invariants below, in any order of operations and external edits |
| `tree_order` | 2 names, depth 3, trees of 2 entries, 2 overlay files | the ordered-map algorithms compute the set definitions |
| `native_source` | paths `a`, `a/b`, `c`; every planned batch of up to 3 changes; 1 edit, 1 fault, a crash anywhere | atomicity and recoverability of a batch |
| `artifact_cache` | 2 processes, 1 provenance, 2 contents, 1 limit, 2 damages | verified reads and create-once races |
| `lowering` | 2 processes, 1 lowering of 2 files with 2 texts, 2 distinct outputs, 1 damage | the manifest protocol |
| `lsp_workspaces` | 1 project, 2 selections, 3 user actions, 2 failures | the workspace lifecycle with failed assemblies; termination of the feedback between publication and watcher |
| `lsp_documents` | 2 documents of one directory, 4 client inputs of which 3 requests, 2 assemblies; the second document owned, not owned or the build script | queues, routing, republication, token baselines |
| `fan_out` | calls of 2 and 1 jobs, 2 workers, any job may panic or wait | the pool implements the promise; every dispatched job ends, no caller hangs |
| `resolution` | 3 packages of up to 2 versions, every combination of the requirements and features of two families, 5 rounds | a finished resolution is right, and every resolution finishes |
| `registry_lock` | 2 commands, 4 manifests, 12 universes of 2 versions, 4 rounds | the life of `jals.lock` |
| `test_run` | 4 tests, 4 workers, 3 sets of options | permits, failure budget, accounting, termination |
| `build_outputs` | 2 processes, 3 builds or cleans, 2 output files, 2 roots, 3 scripts (one is none), 2 inputs, 2 feature sets, 2 events out of edits, crashes, failed records and lost caches | what builds and cleans leave behind |

**The properties.**

- `TreesWellFormed`: no entry without its parents, no key both file and directory.
- `CurrentIsBuild`: the shared tree is the merge of base and overlay, and the
  merge is defined. The rebuild at the end of `commit` therefore cannot fail.
- `PreviewIsPublished`: when the replay succeeds, the preview is the tree that
  gets published, although the two are computed from different trees.
- `RevisionIdentifiesTree`: one revision, one tree: `check_revision` is a sound
  optimistic lock.
- `UnsavedTextNotLost`: an overlay entry goes only for its owner's sake.
- `FoldIsBuild`: the overlay loop, with its key ranges, computes the merge.
- `NextKeyFindsDescendants`: the one key after a path tells whether a file lies below.
- `AllOrNothing`, `CheckedStaleNeverWritten`, `LostOnlyInRace`,
  `OriginalsRecoverable`: a batch leaves the planned tree or the files it found, and
  the one `?` in `apply_sync` that skips the rollback is unreachable (a directory the
  batch made can go although another process put a file into it and removed it
  again, so of directories this is said only when nobody else works in them); an entry to be replaced or removed that is stale at the start stops the batch before
  it writes (one to be created does not, see `KnownStaleNeverWritten` in section 5);
  an edit is lost only in the documented window; after a crash the original of
  every file is in place or in a backup.
- `NeverWrongBytes`, `StoredAreVerified`, `IndexBacked`: readers get the bytes of
  their key or an error even in a damaged directory; in an undamaged one, files are
  complete from the moment they are named, and pointers are backed.
- `ManifestCertifies`, `CachedTreeWasEmitted`, `RacesNeverFail`: whoever sees a
  manifest sees its files; a cached answer was emitted by a frontend; races of
  lowerings are absorbed.
- `OneAssemblyPerProject`: script runs of a project never overlap, and a slot waits
  for an assembly that does not exist only when its bare workspace could not be opened.
- `SettledIsCurrent`: when nothing is queued, running or undelivered, a workspace
  whose last assembly succeeded reflects the selection and the files, the sources
  unless the last refresh could not read them.
- `LastGoodKept`: a failed assembly never replaces a full workspace.
- `ComesToRest`: once the user stops, everything does, and no slot waits but those whose
  bare workspace could not be opened.
- `KeepsPromise`: the pool gives callers what `FanOut` says.
- `AllSettle`: no wake-up is lost between a poll and the park of its thread, and
  queued jobs run to their end after drops and shutdown.
- `RequestSeesItsText`: an answer is computed from the text the client had when it
  asked, whatever the coalescer read ahead.
- `ShownIsCurrent`: what the client shows came from the current text, by the
  analysis that answers now, with the siblings it has now. The comment on
  `republish` says that no test would catch a mistake here.
- `DeltaFitsBaseline`: a token delta starts from the set the client holds under the
  id it named.
- `RequirementsMet`: a finished graph meets every requirement and source of every
  edge in it, the late ones too.
- `ResolvesClosure`: it is the least closure of the roots under active edges and
  features, defined without queues or order.
- `Ends`: every resolution finishes or is refused within the round budget.
- `LockStaysPut`: once written for a manifest, the lock is moved by no selection,
  scope or release, and no build of that manifest is refused.
- `ClasspathIsLocked`: a build that keeps its lock compiles against its versions.
- `PermitsHold`, `FailureBudget`, `Accounted`: permits are conserved, at most
  threads − 1 failures beyond `--max-fail`, and at the end verdicts, counts and
  announcements agree.
- `AllDone`: with a deadline a run ends even when every test hangs.
- `BuildsLikeNew`: a committed build leaves what a build from nothing would, whether
  the script ran or was replayed, except where the user writes meanwhile.
- `StaleOutputsRemoved`: when every build could record itself and none overlapped,
  a generated file goes with the build that no longer generates it.
- `ForeignOutputsKept`: no build removes a file the user has written, also one saved
  while the build runs.
- `TreesRecorded`: a published tree stays in the ownership file until it is gone, so
  that something can remove it (the exceptions are under Findings).
- `SecondBuildWritesNothing`: building an untouched project again writes nothing.
  `ComesToRest` relies on it: publications wake the watcher.

**Why the bounds are enough.** `a`, `a/b` is the smallest set of paths on which
files, directories, ancestors and hidden entries meet, and `c` adds an entry
unrelated to them, so that a batch can have a failing change beside a landed one.
Three changes allow create–replace–remove of one path and a directory replaced by
a file and back. Four revisions let a view grow stale across an overlay, a refresh
and a commit. Two contents distinguish changed from unchanged. Two processes are
what a create-once race needs, and the third only repeats the second's role. Two
damages let a file be swapped and swapped back between two steps of one reader.
Two outputs of one lowering give two manifests competing for one pointer. For the
language server, three user actions cover opening, an edit or a new selection, and one
more while the assembly (or its rerun) runs; two failures make one fail on each side
of a good assembly. One project suffices for its lifecycle: slots share only the
selection and the generation, and a completion is matched against its own slot's
assembly. For documents, two in one directory are what a group with a survivor
needs, four inputs hold open–change–ask–close or two opens with a change and a
question, and two assemblies move a document into a project and out again.

For `fan_out`, two jobs are what an order of replies and a first panic need, and two
workers what competing for the lock needs; a worker drives at least two jobs in
some behaviours, so left-over park tokens occur.

For `resolution`, two versions make a choice that can be corrected, and three
packages a requirement that arrives late from the correction's own consequences;
the features of the second family forward around a cycle, turn optional
dependencies on by name and by default, and reach back to a root. Five rounds are
more than any converging job of the instance needs, and jobs whose corrections undo
one another do run out of them. Two commands are a lock written and a lock met.
Four tests on two permits let jobs wait, be notified and be overtaken while the
limit is reached; the other options give a retry on one permit, and a run without
deadline or capture. For `build_outputs`, three builds are one that generates, one
that stops generating, and one beside or after them; the scripts move a path from the
script to a text task and a tree to another root, the features turn both off, and two
events let the user delete and rewrite a file, or a crash follow an edit. The two
processes, and the two inputs, are symmetric.

**Fairness.** `LspWorkspaces` (`ComesToRest`): weak fairness of the actor (its loop
serves the queue until the server ends), of the assembly tasks (the executor polls
every spawned task and a panic is caught and reported) and of the client delivering
watcher events. The user is under no fairness. Failures are bounded, but each is
reported. `FanOutPool` (`AllSettle`): the runtime polls a caller with pending
replies, the operating system runs threads and gives a free lock to some waiter (not
to each), and what a job waits for happens. Starting and dropping calls, shutdown
and spurious wake-ups are under no fairness. `Resolution` (`Ends`): weak fairness of the resolver's own steps, spelled out
(`<>[]Running => []<><<ResolverStep>>_rvars`: a resolution that runs can always take
a step) because TLC evaluates that form quickly; releases and provider failures are
not owed. `TestRun` (`AllDone`): each job's thread runs and its
deadline passes; processes owe nothing and the semaphore is not fair, which is why
the property needs a deadline.

**Deadlock checking** is off where the modelled activity really ends: a batch is
written (`NativeSource`), the bounded user stops (`LspWorkspaces`, `LspDocuments`),
the workers exit (`FanOutPool`), a resolution, the commands, the tests or the builds
are over (`Resolution`, `RegistryLock`, `TestRun`, `BuildOutputs`). On elsewhere.

## 4. Proofs

Every theorem holds for all values of the constants: any paths, contents,
processes, documents, projects, tests and calls, and any value of the bounds. A
proof module extends the module it is about; its header says what the invariant
says, and it has one lemma per action (or group of actions), on top of lemmas about
the operators.

| Module | Theorem | Statement |
|---|---|---|
| `ProjectStorageProofs` | `TypeCorrect` | `Spec => []TypeOK` |
| | `TreesAlwaysWellFormed` | `Spec => []TreesWellFormed` |
| | `CurrentAlwaysBuild` | `Spec => []CurrentIsBuild` |
| | `PreviewAlwaysPublished` | `Spec => []PreviewIsPublished` |
| | `RevisionAlwaysIdentifiesTree` | `Spec => []RevisionIdentifiesTree` |
| | `UnsavedTextKept` | `Spec => UnsavedTextNotLost` (steps) |
| `NativeSourceProofs` | `DiskStaysFileSystem` | `Spec => [](disk \in Tree /\ WellFormed(disk))` |
| | `OriginalsAlwaysRecoverable` | `Spec => []OriginalsRecoverable` |
| | `CheckedStaleStaysUnwritten` | `Spec => []CheckedStaleNeverWritten` |
| | `EditsLostOnlyInRace` | `Spec => []LostOnlyInRace` |
| | `BatchesAreAllOrNothing` | `Spec => []AllOrNothing` |
| `LoweringProofs` | `CacheInvariance` | `CacheSpec => []CacheInv` |
| | `ReadsNeverWrong` | `CacheSpec => []NeverWrongBytes` |
| | `StoredAlwaysVerified` | `CacheSpec => []StoredAreVerified` |
| | `IndexAlwaysBacked` | `CacheSpec => []IndexBacked` |
| | `ArtifactsWrittenOnce` | `CacheSpec => WriteOnce`: only damage from outside the program ever changes an artifact that is stored (steps) |
| | `LoweringInvariance` | `Spec => []LowInv` |
| | `ManifestAlwaysCertifies` | `Spec => []ManifestCertifies` |
| | `CachedTreeAlwaysEmitted` | `Spec => []CachedTreeWasEmitted` |
| | `RacesAlwaysAbsorbed` | `Spec => []RacesNeverFail` |
| `LspWorkspacesProofs` | `AssembliesNeverOverlap` | `Spec => []OneAssemblyPerProject` |
| | `SettledAlwaysCurrent` | `Spec => []SettledIsCurrent` |
| | `LastGoodAlwaysKept` | `Spec => LastGoodKept` (steps) |
| `LspDocumentsProofs` | `RequestsSeeTheirText` | `Spec => []RequestSeesItsText` |
| | `ShownAlwaysCurrent` | `Spec => []ShownIsCurrent` |
| | `DeltasFitTheirBaseline` | `Spec => []DeltaFitsBaseline` |
| `ExecutorProofs` | `PoolKeepsPromise` | `Spec => KeepsPromise`: the pool implements `FanOut`, which states no fairness |
| | `PermitsAlwaysHold` | `RunSpec => []PermitsHold` |
| | `FailuresWithinBudget` | `RunSpec => []FailureBudget` |
| | `AlwaysAccounted` | `RunSpec => []Accounted` |
| `ResolverProofs` | `RequirementsAlwaysMet` | `Spec => []RequirementsMet` |
| `BuildOutputsProofs` | `TypeCorrect` | `Spec => []TypeOK` |
| | `TreesStayRecorded` | `Spec => []TreesRecorded` |
| | `BuildsAlwaysLikeNew` | `Spec => BuildsLikeNew` (steps) |
| | `StaleOutputsAlwaysRemoved` | `Spec => StaleOutputsRemoved` (steps) |
| | `ForeignOutputsAlwaysKept` | `Spec => ForeignOutputsKept` (steps) |
| | `SecondBuildsWriteNothing` | `Spec => SecondBuildWritesNothing` (steps) |

`ProjectStorageProofs` begins with the lemmas on trees: a valid
change keeps a tree well-formed (`ApplyWellFormed`), the merge of a well-formed base
with an overlay that fits is well-formed (`BuildWellFormed`), and a change that is
valid on both commutes with the merge once the overlay entries it drops are gone.

### Assumptions

Each is an `ASSUME` of the module that declares the constants, and TLC evaluates it
on every instance.

| Assumption | Says |
|---|---|
| `PathsAssumption`, `BytesAssumption` (`CodeTree`) | ancestors are irreflexive and transitive and those of one path form a chain; `NoFile` is no content |
| `DepthAssumption` (`NativeSource`) | a path has finitely many ancestors |
| `BoundsAssumption` (`ProjectStorage`, `NativeSource`) | the bounds are numbers |
| `CacheAssumption`, `LoweringAssumption` | `None` and `Garbage` are no contents and sizes are numbers; a provenance is a lowering or a member, never both, and a content is a tree or a text |
| `RootsAssumption` | projects are numbered and finitely many; the default selection is one there is; the bounds are numbers |
| `DocumentsAssumption`, `NoneAssumption` (`LspDocuments`) | finitely many documents; what a project owns and its script lie below its root; `None` is no document and no analysis |
| `PoolAssumption` | widths are numbers; there is a worker |
| `TestRunAssumption` | finitely many tests; at least one worker and one thread; the options are numbers and switches |
| `ResolverAssumption`, `JobsAssumption` (`Resolution`) | the names are in a finite order; versions are finitely many positive numbers; there is a round; every declared dependency and every root names a package there is, and a dependency has a source |
| `BuildOutputsAssumption` | there may be no script; what a script does lies in the output files and the roots, which are finitely many; no input is named like the absence of a file, the user's bytes or a half-written tree; the bounds are numbers |

### The arguments

None of the properties is inductive as it stands; each module strengthens it, and TLC
has checked the strengthening on the module's instance. (Two parts of it TLC cannot
evaluate, because they say that some function or record exists: `CanUnwind` of the
native source, whose executable form, undoing the journal step by step, was checked
instead, and the preparation in `PlanOk` of the build outputs.)

- **Project storage.** The invariant is the conjunction of the state invariants and
  `WellFormed(source)`. `CurrentIsBuild` after a commit needs `PreviewIsPublished`
  before it: a commit knows only that the replay succeeded on base, and the relation
  of preview and plan says that the merge with the surviving overlay exists.
  `PreviewIsPublished` starts from `CurrentIsBuild` when a transaction begins and is
  carried through each staged change by the commutation lemma. `TreesWellFormed`
  needs `WellFormed(source)`, because a refresh adopts the source.
- **Native source.** `Originals`: for every original file, the *oldest* journal entry
  that would change it holds its bytes, or nothing in the journal touches it and it is
  in place, or its backup is among those that could not be put back. (That *some*
  backup holds it is not inductive: a batch may replace a file twice, and undoing
  newest first ends with the oldest.) `Untouched`: until the precheck has passed every
  stale entry nothing was written. `Follows`: the tree the code expects is the one the
  plan has reached, so no change turns out to be invalid. `Guarded`: between its check
  and its write an entry is as it was checked, and what an undo replaces is the
  batch's own, unless an edit raced. That the plan exists at all, a recursive
  function, follows by the least counterexample (`ReplayExists`). `AllOrNothing` is two
  arguments. Without edits of others (`Alone`) the disk is exactly where the plan has
  come to, between two calls included (`Course`), and the journal can be unwound from
  there to the snapshot, every undo going through (`WayBack`); a rollback therefore
  begins with one fault and gives something up only at a second. With edits, each
  entry is followed by itself: it will be undone to what the other processes made of
  it, because the oldest journal entry that affects it returns that (`Reversible`), and
  the entries the batch is through with hold what was planned (`Landed`). Directories
  are made parents first, so that unwinding removes them children first
  (`ParentsFirstFacts`).
- **Artifact cache and lowering.** What a result promises is decided several steps
  before it is returned, so `CacheInv` says for every step of an operation what its
  process already knows (`CallSafe`) and, while nobody damages the directory, what is
  in it (`CallBacked`, `DirectoryBacked`). `LowInv` adds the phase of each lowering:
  which artifacts it has published before it writes its manifest, and that the trees
  named by a stored manifest were emitted by that lowering. The cache's actions are
  shown once and lifted (`InsideStep`).
- **Workspaces.** `Alone` says where the one assembly of a project is: a task, or a
  report in the queue, with the generation the slot waits for, or nowhere when the slot
  is stuck. `Tracked` says of every
  change of the files what will make the server look again: an event on its way, a
  rerun that is due, or an assembly that has not read the files yet. `SettledIsCurrent`
  is the case in which none of these is left.
- **Documents.** `Sequenced` reads the two queues as one: every request in it was made
  about the text that the commands before it lead to from the actor's text, and the
  client's text is what all of them lead to. Setting commands aside and coalescing
  keep it because the former moves nothing and the latter takes only from the head.
  `Routed` says of every document but the one being changed that the analysis that
  answers for it holds its text, that no other does, and that it is shown as that
  analysis sees it. One lemma each shows that forgetting, mounting and refreshing a
  document keep the others right, because the survivors of its group are published
  again; the refresh of many is a fold over a set, for which `WalkExists` and
  `RefreshAllFacts` do the induction by the least counterexample.
- **Fan-out.** A job is in one place at a time (`Once`), has not ended while it is
  queued or driven (`Outstands`), and what has ended and left the reply channel is in
  its slot (`Collected`). Every step of the pool is then a step of `FanOut` or leaves
  its variables alone; the call's return is the one that needs all of it.
- **Test runner.** `PermitsHold` is inductive given the types. The failure budget must
  count the tests that may still fail (`Budget`), and the reports balance because they
  do at every step of every job (`Books`, `Ledger`).
- **Resolver.** A requirement may arrive after its target was chosen, so what a pass
  ends with is right for a reason that spans two passes. `Linked`: every edge met so
  far is counted in the requirements on its target, names the one source of its
  target, and its target is chosen or queued. `Picked`: a choice is the pin whenever
  the pin meets the requirements *now*; requirements only grow, so it met them when
  the choice was made. `Rooted`: a root is its own choice and meets the requirements,
  or is queued for its check. A corrected choice meets the requirements; if the
  corrected choices are the pins, `Picked` says that the pass had chosen them already,
  so nothing was corrected (`ValidatedMet`). One lemma per step of the code shows that
  seeding, draining the package queue and expanding features keep a pass sound; each
  rests on `EnqueueSound`, what recording the edges of a package does. The three loops
  are recursive functions, whose existence and invariant are shown by the least
  counterexample (`KeepingExists`, `SeedingExists`, `FindingExists`).
- **Build outputs.** The changes of a build are a concatenation of five lists; its
  effect on an entry is that of the last change to it. `OutAfter`, `TreeAfter` and
  `OwnedAfter` say which one that is, and `CommitFacts` what a commit therefore leaves
  of every entry and found there. `BuildsLikeNew` then needs only that a replayed
  state is the one that would have been evaluated (`StateOk`, `HitFacts`).
  `TreesRecorded` needs `Trees`: a build under way that saw an owned root as empty is
  alone, and a clean under way has every published tree still before it. The records
  of generated files are needed one build later, so `Known` follows a generated file
  from the commit that wrote it to the state about to be recorded, to the index, and
  to the plan of the next build, which changes the file or generates it again.
  `Settled` says of the last commit that it left what was asked, so that a plan made
  of it has no change. That a removed file has no user's bytes rests on `Users`.

### Only model-checked

Liveness (`ComesToRest`, `AllSettle`, `Ends`, `AllDone`) needs
fairness and `ENABLED`, which the prover does not handle. `FoldIsBuild` and
`NextKeyFindsDescendants` (`TreeOrder`)
are about sorting and folds over sorted keys: the prover has no induction scheme for
them, and the one way used here, the least counterexample on a number, has to be
spelled out for every fold. `ResolvesClosure` compares the two queues with a least
fixed point that is computed by a bounded iteration, and `LockStaysPut` and
`ClasspathIsLocked` compare whole resolutions with each other, for which they would
need it. These five are checked on their instances only.

## 5. Findings

The passing runs show what holds. In these places the code differs from what its
comments or documentation say. Each is a definition of its module; naming it in the
module's cfg (as a property when it is temporal, else as an invariant)
makes TLC show the behaviour. The first two are claims of comments of which a passing
run checks, and a theorem proves, the part that holds.

| Definition | What the code does |
|---|---|
| `NativeSource!KnownStaleNeverWritten` | `require_preconditions` checks nothing for changes that create an entry (`native.rs:287`). A batch that replaces `a` and creates `c`, where `c` has appeared on disk before, writes `a`, is refused at `c` and rolls `a` back; the comment says that the pass "guarantees a known-stale later entry never causes an earlier entry to be written and rolled back" (`native.rs:261`). For entries that are replaced or removed it does (`CheckedStaleNeverWritten`), and nothing is lost. |
| `LspWorkspaces!SlotReachesTerminalState` | The assembly task turns a panic into a failure "so the slot always reaches a terminal state" (`actor.rs:945`), but a failure without a fallback is answered by `ProjectWorkspace::bare`, which panics in the actor when the root is gone or unreadable (`state.rs:322`). The slot stays loading, and later events only set its rerun flag. TLC shows it under the fairness of `Spec`. `OneAssemblyPerProject` and `ComesToRest` hold with the exception of such slots. |
| `ProjectStorage!ValidatedChangesReplay` | A change is validated on base plus overlay and replayed on base alone (`storage.rs:409`). Replacing or removing a file that exists only as unsaved text is accepted when staged and refused at commit, while the comment on `Transaction.preview` says changes validate "against the state it would commit into". Nothing is damaged: `PreviewIsPublished` holds whenever the replay succeeds. |
| `NativeSource!RollbackKeepsEdits` | A rollback renames the backup over the path without looking (`native.rs:531`), so an edit saved there after the batch's write is overwritten; the contract of `SourceBackend::apply` speaks of refusing to clobber concurrent edits. |
| `LspWorkspaces!SettledDependenciesAreCurrent` | A slot that loads for the first time has no watch policy. A change in a path dependency outside the root is ignored (`actor.rs:803`) even after the running assembly has read the old version. |
| `LspWorkspaces!PublicationDeferred` | The open documents that defer a publication are collected when the assembly is spawned (`actor.rs:930`); one opened later does not defer it. |
| `LspDocuments!RefreshReadsClosedFiles` | Closing a document leaves its overlay in the project's index, and a refresh from disk keeps overlays: the file is read from its last unsaved text until the next full assembly. |
| `RegistryLock!ResultIsPinned` | The classpath comes from the selected pass and the lock from the full pass. Without a lock, the two may choose different versions, so the first build compiles against a version its own `jals.lock` does not name. |
| `Resolver!RefusalIsReal` (in `Resolution.cfg`, with `Jobs <- MCStableJobs`) | The Maven provider answers an exact requirement, which every plain POM version is, with that one version (`maven.rs:958`), and the resolver remembers the list for the whole resolution. When a correction replaces the package that asked, the next pass is refused for want of a version that the registry does list. The contract of `Provider::candidates` says that implementations "return *all* versions for the source"; with one that does, the instance has no such refusal. |
| `BuildOutputs!OpenTreesKept` | Before a build publishes, only the roots of its own plan are compared with the open documents (`task.rs:449`). A root the previous plan owned is removed with an open document below it, while `jals-lsp/README.md` says that publication is deferred "while an open document lies below the destination". |
| `TestRun!TimedOutWasKilled` | A process that ends between the poll and the reading of the clock is reported as timed out and killed (`test_runner.rs:408`). |

A published tree can lose its record, and is then never removed by a build or a
clean: when the process dies between writing the first tree and the ownership file,
when a build commits between a clean's reading of the ownership file and its removal
of the build directory, and when two builds overlap in a project whose tree was
deleted by hand (one publishes it again with the ownership file it found, the other,
planned on the same ownership file, removes that file). `TreesRecorded` excludes these
three by `forgotten`. Likewise a generated file is never removed when its build could
not be recorded, or when a build began before the previous one was (`degraded`).
Texts published by a former plan are recorded nowhere and stay until a clean.

Three more things the models made visible, for which no property is stated. While a
workspace is installed, each open document is published before the overlays of later
ones are set; the last publication is current, the ones before it may not be. The
lock is a preference of the first pass only: a later pass starts from the corrected
choices, and a pin that was corrected away does not come back when its reason goes.
When a root member is seeded, its feature request replaces what an earlier member's
edges had asked of it (`seed_roots`).

## 6. Not modelled, and why

- Parsers, formatter, linter, name resolution, class files, compiler and
  decompiler: pure functions over whole languages, too data-heavy for a model
  checker and tested on corpora by the repository. They are by far the largest part
  of the code, so the modules here stand for a small share of its lines.
- In `value.rs`, the parsing of names. In `native.rs`, the directory scan (scopes,
  symbolic links, encodings) and the snapshot in two phases; `ProjectStorage`
  takes a snapshot in one step.
- In the cache, `materialize_tree`, the in-memory backend (each operation one
  step), and the derivation of provenances.
- A backend error that leaves part of a batch behind (an incomplete rollback) is,
  to `ProjectStorage`, an `EndWithoutCommit` beside external edits.
- In the language server, `jals.toml` diagnostics, a build script below a source root,
  panics in document commands other than that of the bare workspace (the guard abandons
  the command half-way), the replies of an actor that has ended (`server.rs:140`), and
  what an analysis answers.
- In the test runner, I/O errors of waiting for and killing a process (the test fails
  without an exit code, its process may go on) and a panic of a job.
- In the resolver, checksums and `SummaryMismatch`, warnings, parsing of versions and
  of lock files, `resolve_workspace`, and git, path and direct sources beyond being
  sources; in the classpath, downloads, retries, POM inheritance, the fallback when
  metadata cannot be read, and the language server's resolution, which has no lock.
- In the build, the evaluation of a script and its limits, dependency scripts, the
  tasks and their memoization, sessions that outlive a build and
  `clear_build_script_outputs` (the playground), a changed script path, the graph walk
  of `jals-project`, and the wasm test runner.
- In the executor, `fan_out` on the runtimes without threads (`fan_out_sequential` in
  `yields.rs`: jobs one after another on the caller; nothing catches a panic there, so
  it unwinds at once and later jobs never run, while the documentation of `fan_out`
  says it is resumed "after all jobs settle"); the handle of a spawned task, `join_ordered` and the yield
  counters; a thread that cannot be started; the end of the process, which stops
  workers wherever they are.

## 7. Plan

1. **Done**: `CodeTree`, `ProjectStorage`, `TreeOrder`, `NativeSource`,
   `ArtifactCache`, `Lowering`, `LspWorkspaces`, `LspDocuments`, `FanOutPool`,
   `Resolver` with `Resolution` and `RegistryLock`, `TestRun`, `BuildOutputs`; the
   proofs of section 4.
2. **Proofs**: the resolver's `ResolvesClosure`, `RegistryLock`, and the fold of
   `TreeOrder`.
3. **Storage, continued**: the two-phase snapshot of the native source against
   concurrent edits; an abstract all-or-nothing persistence implemented by
   `NativeSource` and used by `ProjectStorage`'s commit.
4. **Build**: dependency scripts, task memoization and the graph walk of
   `jals-project`.
5. **Executor**: the completion guard of spawned tasks (`task.rs`), `join_ordered`,
   the runtimes without threads.
