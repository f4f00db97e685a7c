--------------------------- MODULE LspWorkspaces ---------------------------
(***************************************************************************)
(* The workspace lifecycle of the language server (jals-lsp, actor.rs).    *)
(* One actor task owns all state and serves one FIFO of commands.  A       *)
(* project is assembled on a spawned task that reads the disk while the    *)
(* actor goes on serving, may publish generated sources, and reports back  *)
(* through the same FIFO.  Meanwhile the user opens files, changes the     *)
(* feature selection and edits the disk, of which the client tells the     *)
(* server some time later.                                                 *)
(*                                                                         *)
(* A definition placed before one whose name its own name begins with is a *)
(* plausible bug of it; no specification uses it, the runs check that it   *)
(* would be noticed.                                                       *)
(***************************************************************************)
EXTENDS Naturals, Sequences, FiniteSets

CONSTANTS
    Roots,       \* project roots, numbered in the order of Actor.workspaces
    Selections,  \* build-feature selections of the client
    DefaultSelection,
    MaxInputs,   \* bound on everything the user does
    MaxFailures, \* bound on the assemblies that fail
    None

ASSUME RootsAssumption ==
    /\ Roots \subseteq Nat
    /\ IsFiniteSet(Roots)
    /\ DefaultSelection \in Selections
    /\ MaxInputs \in Nat /\ MaxFailures \in Nat

\* What a watched path is to a project: an authored Java file, an input that
\* needs a new assembly (manifest, script, classpath, anything unknown), or
\* a dependency outside the project root.
Kinds == {"source", "input", "dep"}

\* Documents the editor opens: an ordinary one, and one below the directory
\* into which the project's build tasks publish sources.
Docs == {"plain", "published"}

VARIABLES
    disk,        \* per project and kind, how often the files have changed
    output,      \* what the published source tree was generated from
    unseen,      \* watcher events the client has not delivered yet
    queue,       \* the commands the actor has not processed
    tasks,       \* the assemblies running
    slot,        \* Actor.workspaces
    open,        \* Actor.store: the documents open below each root
    selection,   \* Actor.feature_selection
    generation,  \* Actor.workspace_assembly_generation
    inputs,      \* how many things the user did
    failures     \* how many assemblies failed

vars == <<disk, output, unseen, queue, tasks, slot, open, selection, generation,
          inputs, failures>>

actorState == <<slot, open, selection, generation>>

\* A workspace remembers which selection and which files it was made from.
Workspace == [kind : {"full", "fallback", "bare"}, sel : Selections, seen : [Kinds -> Nat]]

\* ProjectWatchPolicy: "narrow" refreshes on a source change, "wide" is a
\* script that declared no inputs.
Policies == {"narrow", "wide"}

\* WorkspaceSlot.  `active` and `rerun` are the Option<WorkspaceAssembly>.
\* Two ghosts: `ended`, what became of the last completed assembly, and
\* `unread`, whether the last refresh from disk failed.
Slot == [state : {"absent", "loading", "ready"}, active : Nat, rerun : BOOLEAN,
         workspace : Workspace \cup {None}, policy : Policies \cup {None},
         ended : {"none", "ok", "failed", "panicked"}, unread : BOOLEAN]

Absent == [state |-> "absent", active |-> 0, rerun |-> FALSE, workspace |-> None,
           policy |-> None, ended |-> "none", unread |-> FALSE]

Init ==
    /\ disk = [r \in Roots |-> [k \in Kinds |-> 0]]
    /\ output = [r \in Roots |-> None]
    /\ unseen = [r \in Roots |-> {}]
    /\ queue = <<>>
    /\ tasks = {}
    /\ slot = [r \in Roots |-> Absent]
    /\ open = [r \in Roots |-> {}]
    /\ selection = DefaultSelection
    /\ generation = 0
    /\ inputs = 0
    /\ failures = 0

-----------------------------------------------------------------------------
(* The user and the client.                                                *)

UserActs == inputs < MaxInputs /\ inputs' = inputs + 1 /\ UNCHANGED failures

Send(cmd) == queue' = Append(queue, cmd)

Edit(r, k) ==
    /\ UserActs
    /\ disk' = [disk EXCEPT ![r][k] = @ + 1]
    /\ unseen' = [unseen EXCEPT ![r] = @ \cup {k}]
    /\ UNCHANGED <<output, queue, tasks, actorState>>

\* The client batches watcher events and reports every one of them.
Notify(r) ==
    /\ unseen[r] # {}
    /\ Send([op |-> "watched", root |-> r, kinds |-> unseen[r]])
    /\ unseen' = [unseen EXCEPT ![r] = {}]
    /\ UNCHANGED <<disk, output, tasks, actorState, inputs, failures>>

\* The client opens and closes a document in turn; `open` lags behind it by
\* the commands still queued.
Pending(op, r, d) == \E i \in DOMAIN queue : queue[i] = [op |-> op, root |-> r, doc |-> d]

OpenDoc(r, d) ==
    /\ UserActs
    /\ d \notin open[r] /\ ~Pending("open", r, d)
    /\ Send([op |-> "open", root |-> r, doc |-> d])
    /\ UNCHANGED <<disk, output, unseen, tasks, actorState>>

CloseDoc(r, d) ==
    /\ UserActs
    /\ d \in open[r] /\ ~Pending("close", r, d)
    /\ Send([op |-> "close", root |-> r, doc |-> d])
    /\ UNCHANGED <<disk, output, unseen, tasks, actorState>>

Configure(s) ==
    /\ UserActs
    /\ Send([op |-> "select", sel |-> s])
    /\ UNCHANGED <<disk, output, unseen, tasks, actorState>>

-----------------------------------------------------------------------------
(* A spawned assembly.                                                     *)

\* spawn_workspace_assembly captures the selection and the open documents.
Assembly(r, gen, sel, docs) ==
    [root |-> r, gen |-> gen, sel |-> sel, blocked |-> "published" \in docs,
     at |-> "spawned", seen |-> [k \in Kinds |-> 0]]

Advance(t, u) == tasks' = (tasks \ {t}) \cup {u}

\* The completed assembly t re-enters the command queue.
Report(t, seen, outcome, policy) ==
    /\ tasks' = tasks \ {t}
    /\ Send([op |-> "ready", root |-> t.root, gen |-> t.gen, outcome |-> outcome,
             sel |-> t.sel, seen |-> seen, policy |-> policy])

\* Read the manifest and snapshot the project's files.
ReadProject(t) ==
    /\ t.at = "spawned"
    /\ Advance(t, [t EXCEPT !.at = "script", !.seen = [disk[t.root] EXCEPT !["dep"] = 0]])
    /\ UNCHANGED <<disk, output, unseen, queue, actorState, inputs, failures>>

Generated(t) == [sel |-> t.sel, input |-> t.seen["input"]]

\* Does the script's publication write the generated tree?
Publishes(t) == ~t.blocked /\ output[t.root] # Generated(t)

RunScriptWaiting(t) ==
    /\ t.at = "script"
    /\ ~t.blocked
    /\ Advance(t, [t EXCEPT !.at = "graph"])
    /\ \/ /\ Publishes(t)
          /\ output' = [output EXCEPT ![t.root] = Generated(t)]
          /\ \E k \in {"source", "input"} : unseen' = [unseen EXCEPT ![t.root] = @ \cup {k}]
       \/ UNCHANGED <<output, unseen>>
    /\ UNCHANGED <<disk, queue, actorState, inputs, failures>>

\* Run the build script and its tasks.  Writing the tree is seen by the
\* watcher like any other change, as a source or as an unknown input
\* depending on where the tree lies.  A script that fails or is blocked
\* leaves the files alone and does not stop the assembly.
RunScript(t) ==
    /\ t.at = "script"
    /\ Advance(t, [t EXCEPT !.at = "graph"])
    /\ \/ /\ Publishes(t)
          /\ output' = [output EXCEPT ![t.root] = Generated(t)]
          /\ \E k \in {"source", "input"} : unseen' = [unseen EXCEPT ![t.root] = @ \cup {k}]
       \/ UNCHANGED <<output, unseen>>
    /\ UNCHANGED <<disk, queue, actorState, inputs, failures>>

Fails == failures < MaxFailures /\ failures' = failures + 1

\* Discover the dependency graph and read its inputs.
AssembleGraph(t) ==
    /\ t.at = "graph"
    /\ Advance(t, [t EXCEPT !.at = "finish", !.seen["dep"] = disk[t.root]["dep"]])
    /\ UNCHANGED <<disk, output, unseen, queue, actorState, inputs, failures>>

\* Lower the graph and stage what navigation needs.  A failed graph still
\* offers a fallback made of the root project alone.
FinishAssembly(t) ==
    /\ t.at = "finish"
    /\ \E outcome \in {"full", "fallback"}, policy \in Policies :
          /\ Report(t, t.seen, outcome, policy)
          /\ IF outcome = "full" THEN UNCHANGED failures ELSE Fails
    /\ UNCHANGED <<disk, output, unseen, actorState, inputs>>

\* An unreadable manifest, a storage that does not open, or a panic.
FailAssembly(t) ==
    /\ Fails
    /\ Report(t, t.seen, "bare", None)
    /\ UNCHANGED <<disk, output, unseen, actorState, inputs>>

-----------------------------------------------------------------------------
(* The actor: one action per command.                                      *)

Received(op) ==
    /\ queue # <<>>
    /\ Head(queue).op = op
    /\ queue' = Tail(queue)
    /\ UNCHANGED <<disk, output, unseen, inputs, failures>>

RequestReassemblyOverlapping(rs, sel) ==
    LET live == {r \in rs : slot[r].state # "absent"}
        gen(r) == generation + Cardinality({q \in live : q <= r})
    IN  /\ slot' = [r \in Roots |->
                       IF r \in live
                       THEN [slot[r] EXCEPT !.active = gen(r), !.rerun = FALSE]
                       ELSE slot[r]]
        /\ tasks' = tasks \cup {Assembly(r, gen(r), sel, open[r]) : r \in live}
        /\ generation' = generation + Cardinality(live)

\* request_workspace_reassembly for each of rs in order: a busy project is
\* marked to run again, the others get a new assembly.
RequestReassembly(rs, sel) ==
    LET live == {r \in rs : slot[r].state # "absent"}
        busy == {r \in live : slot[r].active # 0}
        fresh == live \ busy
        gen(r) == generation + Cardinality({q \in fresh : q <= r})
    IN  /\ slot' = [r \in Roots |->
                       IF r \in busy THEN [slot[r] EXCEPT !.rerun = TRUE]
                       ELSE IF r \in fresh
                       THEN [slot[r] EXCEPT !.active = gen(r), !.rerun = FALSE]
                       ELSE slot[r]]
        /\ tasks' = tasks \cup {Assembly(r, gen(r), sel, open[r]) : r \in fresh}
        /\ generation' = generation + Cardinality(fresh)

\* did_open and ensure_workspace_for: the first document of a project
\* starts its assembly.
DidOpen ==
    /\ Received("open")
    /\ LET r == Head(queue).root
           docs == open[r] \cup {Head(queue).doc}
       IN  /\ open' = [open EXCEPT ![r] = docs]
           /\ IF slot[r].state = "absent"
              THEN /\ slot' = [slot EXCEPT ![r].state = "loading", ![r].active = generation + 1]
                   /\ tasks' = tasks \cup {Assembly(r, generation + 1, selection, docs)}
                   /\ generation' = generation + 1
              ELSE UNCHANGED <<slot, tasks, generation>>
    /\ UNCHANGED selection

DidClose ==
    /\ Received("close")
    /\ open' = [open EXCEPT ![Head(queue).root] = @ \ {Head(queue).doc}]
    /\ UNCHANGED <<tasks, slot, selection, generation>>

\* watched_project_action.  Without a policy every change below the root
\* reassembles, and a path outside of it is nobody's.
WatchedAction(kinds, policy) ==
    IF \/ "input" \in kinds
       \/ "dep" \in kinds /\ policy # None
       \/ "source" \in kinds /\ policy # "narrow"
    THEN "reassemble"
    ELSE IF "source" \in kinds THEN "refresh" ELSE "ignore"

\* A refresh of a project being assembled is upgraded to a reassembly.
ActionWhileActive(action, s) ==
    IF action = "refresh" /\ s.active # 0 THEN "reassemble" ELSE action

\* refresh_workspace_from_disk.  Its error is discarded and leaves the
\* project as it was.
Refresh(r) ==
    \/ slot' = [slot EXCEPT ![r].workspace.seen["source"] = disk[r]["source"],
                            ![r].unread = FALSE]
    \/ slot' = [slot EXCEPT ![r].unread = TRUE]

WatchedFilesChanged ==
    /\ Received("watched")
    /\ LET r == Head(queue).root
           action == IF slot[r].state = "absent"
                     THEN "ignore"
                     ELSE ActionWhileActive(WatchedAction(Head(queue).kinds, slot[r].policy),
                                            slot[r])
       IN  \/ /\ action = "reassemble"
              /\ RequestReassembly({r}, selection)
           \/ /\ action = "refresh"
              /\ Refresh(r)
              /\ UNCHANGED <<tasks, generation>>
           \/ /\ action = "ignore"
              /\ UNCHANGED <<tasks, slot, generation>>
    /\ UNCHANGED <<open, selection>>

SetFeatureSelection ==
    /\ Received("select")
    /\ LET sel == Head(queue).sel
       IN  IF sel = selection
           THEN UNCHANGED <<tasks, slot, selection, generation>>
           ELSE /\ selection' = sel
                /\ RequestReassembly(Roots, sel)
    /\ UNCHANGED open

\* What workspace_ready does with a completion nobody has overtaken.
InstallAlways(s, done) ==
    [s EXCEPT !.state = "ready", !.active = 0, !.policy = done.policy,
       !.workspace = [kind |-> done.outcome, sel |-> done.sel, seen |-> done.seen],
       !.unread = FALSE, !.ended = IF done.outcome = "full" THEN "ok" ELSE "failed"]

\* A failure leaves a loaded workspace as it was and gives a loading one
\* its fallback.
Install(s, done) ==
    IF done.outcome # "full" /\ s.state = "ready"
    THEN [s EXCEPT !.active = 0, !.ended = "failed"]
    ELSE [s EXCEPT !.state = "ready", !.active = 0, !.policy = done.policy,
            !.workspace = [kind |-> done.outcome, sel |-> done.sel, seen |-> done.seen],
            !.unread = FALSE, !.ended = IF done.outcome = "full" THEN "ok" ELSE "failed"]

\* An assembly without a fallback leaves it to ProjectWorkspace::bare to
\* open the root once more, which panics when it cannot be read.  The guard
\* around the command catches that; the slot stays as it was.
NeedsBare(s, done) == done.outcome = "bare" /\ s.state = "loading"

WorkspaceReadyForgetful ==
    /\ Received("ready")
    /\ slot' = [slot EXCEPT ![Head(queue).root] =
                   [Install(@, Head(queue)) EXCEPT !.rerun = FALSE]]
    /\ UNCHANGED <<tasks, open, selection, generation>>

WorkspaceReady ==
    /\ Received("ready")
    /\ LET done == Head(queue)
           s == slot[done.root]
       IN  IF s.active # done.gen
           THEN UNCHANGED <<tasks, slot, generation>>
           ELSE IF s.rerun
           THEN /\ slot' = [slot EXCEPT ![done.root].active = generation + 1,
                                        ![done.root].rerun = FALSE]
                /\ tasks' = tasks \cup
                     {Assembly(done.root, generation + 1, selection, open[done.root])}
                /\ generation' = generation + 1
           ELSE /\ \/ slot' = [slot EXCEPT ![done.root] = Install(s, done)]
                   \/ /\ NeedsBare(s, done)
                      /\ slot' = [slot EXCEPT ![done.root].ended = "panicked"]
                /\ UNCHANGED <<tasks, generation>>
    /\ UNCHANGED <<open, selection>>

-----------------------------------------------------------------------------
Actor == DidOpen \/ DidClose \/ WatchedFilesChanged \/ SetFeatureSelection \/ WorkspaceReady

TaskSteps ==
    \E t \in tasks : \/ ReadProject(t) \/ RunScript(t) \/ AssembleGraph(t)
                     \/ FinishAssembly(t) \/ FailAssembly(t)

User ==
    \/ \E r \in Roots, k \in Kinds : Edit(r, k)
    \/ \E r \in Roots, d \in Docs : OpenDoc(r, d) \/ CloseDoc(r, d)
    \/ \E s \in Selections : Configure(s)

Client == \E r \in Roots : Notify(r)

Next == Actor \/ TaskSteps \/ Client \/ User

\* The actor loop and the executor keep running, the client delivers its
\* events; the user need do nothing.
Spec == Init /\ [][Next]_vars /\ WF_vars(Actor) /\ WF_vars(TaskSteps) /\ WF_vars(Client)

-----------------------------------------------------------------------------
Command ==
    [op : {"open", "close"}, root : Roots, doc : Docs]
    \cup [op : {"watched"}, root : Roots, kinds : SUBSET Kinds]
    \cup [op : {"select"}, sel : Selections]
    \cup [op : {"ready"}, root : Roots, gen : Nat, outcome : {"full", "fallback", "bare"},
          sel : Selections, seen : [Kinds -> Nat], policy : Policies \cup {None}]

\* The shape of the state; only a loaded slot holds a workspace, and only a
\* slot with an assembly may ask to run again.
TypeOK ==
    /\ disk \in [Roots -> [Kinds -> Nat]]
    /\ output \in [Roots -> [sel : Selections, input : Nat] \cup {None}]
    /\ unseen \in [Roots -> SUBSET Kinds]
    /\ \A i \in DOMAIN queue : queue[i] \in Command
    /\ \A t \in tasks : t.root \in Roots /\ t.gen \in 1 .. generation
    /\ slot \in [Roots -> Slot]
    /\ \A r \in Roots : /\ (slot[r].state = "ready") = (slot[r].workspace # None)
                        /\ (slot[r].state = "loading") => (slot[r].active # 0)
                        /\ slot[r].rerun => (slot[r].active # 0)
    /\ open \in [Roots -> SUBSET Docs]
    /\ selection \in Selections
    /\ generation \in Nat
    /\ inputs \in 0 .. MaxInputs
    /\ failures \in 0 .. MaxFailures

\* The completions of r that are waiting in the queue.
Completions(r) == {i \in DOMAIN queue : queue[i].op = "ready" /\ queue[i].root = r}

\* The slot of a project whose first load failed and whose bare workspace
\* could not be opened: it has an active assembly, but none is running.
Stuck(s) == s.ended = "panicked"

\* "Script executions never overlap for a project"
\* (request_workspace_reassembly): at any time a project has at most one
\* assembly running or reported, it is the one its slot waits for, and a
\* slot waits for an assembly that does not exist only when its bare
\* workspace could not be opened.
OneAssemblyPerProject ==
    \A r \in Roots :
        LET running == {t \in tasks : t.root = r}
        IN  /\ Cardinality(running) + Cardinality(Completions(r))
                   = (IF slot[r].active = 0 \/ Stuck(slot[r]) THEN 0 ELSE 1)
            /\ \A t \in running : t.gen = slot[r].active
            /\ \A i \in Completions(r) : queue[i].gen = slot[r].active

\* Nothing is queued, running or undelivered.
Quiet == queue = <<>> /\ tasks = {} /\ \A r \in Roots : unseen[r] = {}

\* When everything has settled, a project whose last assembly succeeded was
\* made from the selection in force and from the project files as they are
\* on disk, whatever changed while assemblies were running; of the sources
\* this is so when they could be read the last time they changed.
SettledIsCurrent ==
    Quiet => \A r \in Roots :
        slot[r].state = "ready" /\ slot[r].ended = "ok" =>
            /\ slot[r].workspace.sel = selection
            /\ slot[r].workspace.seen["input"] = disk[r]["input"]
            /\ ~slot[r].unread => slot[r].workspace.seen["source"] = disk[r]["source"]

\* "Local path roots are watched for reassembly" (jals-build/README.md):
\* the same of the dependencies outside the project root.
SettledDependenciesAreCurrent ==
    Quiet => \A r \in Roots :
        slot[r].state = "ready" /\ slot[r].ended = "ok" =>
            slot[r].workspace.seen["dep"] = disk[r]["dep"]

\* The fallback of a failed assembly "is installed only for an initial load,
\* never over a last-good workspace" (WorkspaceAssemblyFailure).
LastGoodKept ==
    [][\A r \in Roots :
         slot[r].state = "ready" /\ slot[r].workspace.kind = "full"
             => slot'[r].state = "ready" /\ slot'[r].workspace.kind = "full"]_vars

\* "Exclusive physical source-tree publication is deferred ... while an open
\* document lies below the destination" (jals-lsp/README.md).
PublicationDeferred ==
    [][\A r \in Roots : output'[r] # output[r] => "published" \notin open[r]]_vars

\* "Watched-file feedback does not continuously regenerate" the published
\* trees (jals-lsp/README.md), and every assembly is accounted for: once the
\* user stops, the server comes to rest with no slot waiting, except those
\* whose bare workspace could not be opened.
ComesToRest ==
    <>[](Quiet /\ \A r \in Roots : slot[r].active = 0 \/ Stuck(slot[r]))

\* "Turn a panic into an ordinary failure so the slot always reaches a
\* terminal state" (spawn_workspace_assembly): a project that is loading
\* gets loaded.  The assembly always reports, but the panic of the bare
\* workspace comes after that, in the actor, and leaves the slot loading.
SlotReachesTerminalState ==
    \A r \in Roots : slot[r].state = "loading" ~> slot[r].state = "ready"
=============================================================================
