------------------------- MODULE LspWorkspacesProofs -------------------------
(***************************************************************************)
(* The safety of LspWorkspaces for any number of projects and selections,  *)
(* and however often the user acts and assemblies fail.  The invariant     *)
(* says where the one assembly of a project is (Alone) and, for every      *)
(* change of its files, what will make the server look at it again: an     *)
(* event on its way, a run yet to come, or an assembly that has not read   *)
(* the files yet (Tracked).                                                *)
(***************************************************************************)
EXTENDS LspWorkspaces, FiniteSetTheorems, TLAPS

\* A spawned assembly.
Job == [root : Roots, gen : Nat \ {0}, sel : Selections, blocked : BOOLEAN,
        at : {"spawned", "script", "graph", "finish"}, seen : [Kinds -> Nat]]

Types ==
    /\ disk \in [Roots -> [Kinds -> Nat]]
    /\ unseen \in [Roots -> SUBSET Kinds]
    /\ queue \in Seq(Command)
    /\ tasks \in SUBSET Job
    /\ slot \in [Roots -> Slot]
    /\ open \in [Roots -> SUBSET Docs]
    /\ selection \in Selections
    /\ generation \in Nat

\* What the state of a slot says of its workspace and its assembly.
Shape(s) ==
    /\ s.state = "ready" => s.workspace \in Workspace
    /\ s.state = "loading" => s.active # 0
    /\ s.state = "absent" => s.active = 0
    /\ Stuck(s) => s.state = "loading"

IsDone(cmd, r) == cmd.op = "ready" /\ cmd.root = r

\* The one assembly of a project is running or reported, and its slot waits
\* for it; a slot that is stuck waits for none.
Alone(r) ==
    /\ \A t, u \in tasks : t.root = r /\ u.root = r => t = u
    /\ \A i, j \in DOMAIN queue : IsDone(queue[i], r) /\ IsDone(queue[j], r) => i = j
    /\ \A t \in tasks, i \in DOMAIN queue : ~(t.root = r /\ IsDone(queue[i], r))
    /\ \A t \in tasks : t.root = r => t.gen = slot[r].active
    /\ \A i \in DOMAIN queue : IsDone(queue[i], r) =>
          queue[i].gen = slot[r].active /\ slot[r].active # 0
    /\ slot[r].active # 0 => \/ \E t \in tasks : t.root = r
                             \/ \E i \in DOMAIN queue : IsDone(queue[i], r)
                             \/ Stuck(slot[r])
    /\ Stuck(slot[r]) => /\ \A t \in tasks : t.root # r
                         /\ \A i \in DOMAIN queue : ~IsDone(queue[i], r)

\* The server will hear of a change of the files of kind k.
Noted(r, k) ==
    \/ k \in unseen[r]
    \/ \E i \in DOMAIN queue : /\ queue[i].op = "watched" /\ queue[i].root = r
                               /\ k \in queue[i].kinds

Settled(s) == s.state = "ready" /\ s.ended = "ok" /\ s.active = 0

\* Whatever ends up in the slot was made from the files as they are, unless
\* something will make the project run again or the sources could not be
\* read.
Tracked(r, k) ==
    Noted(r, k) \/
    /\ Settled(slot[r]) => \/ slot[r].workspace.seen[k] = disk[r][k]
                           \/ k = "source" /\ slot[r].unread
    /\ ~slot[r].rerun => \A t \in tasks :
          t.root = r => t.at = "spawned" \/ t.seen[k] = disk[r][k]
    /\ ~slot[r].rerun => \A i \in DOMAIN queue :
          IsDone(queue[i], r) /\ queue[i].outcome = "full" => queue[i].seen[k] = disk[r][k]

\* The same of the selection, which the actor itself changes.
Selected(r) ==
    /\ Settled(slot[r]) => slot[r].workspace.sel = selection
    /\ ~slot[r].rerun => \A t \in tasks : t.root = r => t.sel = selection
    /\ ~slot[r].rerun => \A i \in DOMAIN queue :
          IsDone(queue[i], r) => queue[i].sel = selection

Watched == {"source", "input"}

\* What holds of one project.
Good(r) ==
    /\ Shape(slot[r])
    /\ Alone(r)
    /\ Selected(r)
    /\ \A k \in Watched : Tracked(r, k)

IInv == Types /\ \A r \in Roots : Good(r)

-----------------------------------------------------------------------------
(* Command queues: the actor takes the head, everybody appends.            *)

(* Taking a command leaves the others in their order.                      *)
LEMMA PopFacts ==
    ASSUME Types, queue # <<>>, queue' = Tail(queue)
    PROVE  /\ queue' \in Seq(Command)
           /\ 1 \in DOMAIN queue /\ Head(queue) = queue[1] /\ Head(queue) \in Command
           /\ \A i \in DOMAIN queue' :
                 /\ i + 1 \in DOMAIN queue /\ i + 1 # 1 /\ queue'[i] = queue[i + 1]
                 /\ i \in Nat
           /\ \A j \in DOMAIN queue : j # 1 =>
                 \E i \in DOMAIN queue' : i + 1 = j /\ queue'[i] = queue[j]
<1>1. queue \in Seq(Command) /\ Len(queue) \in Nat /\ Len(queue) # 0
  BY DEF Types
<1>2. /\ DOMAIN queue = 1 .. Len(queue)
      /\ DOMAIN queue' = 1 .. (Len(queue) - 1)
      /\ \A i \in 1 .. (Len(queue) - 1) : queue'[i] = queue[i + 1]
      /\ queue' \in Seq(Command)
  BY <1>1
<1>3. ASSUME NEW j \in DOMAIN queue, j # 1
      PROVE  \E i \in DOMAIN queue' : i + 1 = j /\ queue'[i] = queue[j]
  <2>1. j - 1 \in DOMAIN queue' /\ (j - 1) + 1 = j
    BY <1>1, <1>2, <1>3
  <2> QED BY <1>2, <2>1
<1>4. 1 \in DOMAIN queue /\ Head(queue) = queue[1] /\ Head(queue) \in Command
  BY <1>1, <1>2
<1>5. \A i \in DOMAIN queue' : /\ i + 1 \in DOMAIN queue /\ i + 1 # 1
                               /\ queue'[i] = queue[i + 1] /\ i \in Nat
  BY <1>1, <1>2
<1> QED BY <1>2, <1>3, <1>4, <1>5

(* Sending a command moves none of the others.                             *)
LEMMA PushFacts ==
    ASSUME Types, NEW cmd \in Command, Send(cmd)
    PROVE  /\ queue' \in Seq(Command)
           /\ \A i \in DOMAIN queue : i \in DOMAIN queue' /\ queue'[i] = queue[i]
           /\ \E n \in DOMAIN queue' :
                 /\ n \notin DOMAIN queue /\ queue'[n] = cmd
                 /\ \A i \in DOMAIN queue' : i \in DOMAIN queue \/ i = n
<1>1. queue \in Seq(Command) /\ Len(queue) \in Nat
  BY DEF Types
<1>2. /\ queue' \in Seq(Command)
      /\ DOMAIN queue = 1 .. Len(queue)
      /\ DOMAIN queue' = 1 .. (Len(queue) + 1)
      /\ \A i \in 1 .. Len(queue) : queue'[i] = queue[i]
      /\ queue'[Len(queue) + 1] = cmd
  BY <1>1 DEF Send
<1>3. Len(queue) + 1 \in DOMAIN queue' /\ Len(queue) + 1 \notin DOMAIN queue
  BY <1>1, <1>2
<1> QED BY <1>1, <1>2, <1>3

(* The slot and the assembly of a project, typed.                          *)
LEMMA SlotTypes ==
    ASSUME Types, NEW r \in Roots
    PROVE  slot[r] \in Slot /\ slot[r].active \in Nat
BY DEF Types, Slot

(* The server starts without projects, assemblies or commands.             *)
LEMMA InitIInv == Init => IInv
<1> SUFFICES ASSUME Init PROVE IInv
  OBVIOUS
<1>1. Absent \in Slot
  BY DEF Absent, Slot
<1>2. disk \in [Roots -> [Kinds -> Nat]]
  BY DEF Init
<1>3. Types
  BY <1>1, <1>2, RootsAssumption DEF Init, Types
<1>4. DOMAIN queue = {}
  BY DEF Init
<1>5. \A r \in Roots : Good(r)
  BY <1>4 DEF Init, Good, Shape, Absent, Alone, Selected, Settled, Tracked, Stuck
<1> QED BY <1>3, <1>5 DEF IInv

-----------------------------------------------------------------------------
(* The user and the client.                                                *)

(* A command other than a completion enters the queue.                     *)
LEMMA PushIInv ==
    ASSUME IInv, NEW cmd \in Command, cmd.op # "ready", Send(cmd),
           UNCHANGED <<disk, tasks, slot, open, selection, generation>>,
           unseen' \in [Roots -> SUBSET Kinds],
           \A r \in Roots, k \in Watched : Noted(r, k) => Noted(r, k)'
    PROVE  IInv'
<1>1. Types'
  BY PushFacts DEF IInv, Types
<1>2. /\ \A i \in DOMAIN queue : i \in DOMAIN queue' /\ queue'[i] = queue[i]
      /\ \A i \in DOMAIN queue' : queue'[i].op = "ready" =>
            i \in DOMAIN queue /\ queue'[i] = queue[i]
  BY PushFacts DEF IInv
<1>3. ASSUME NEW r \in Roots PROVE Good(r)'
  <2>1. Good(r)
    BY DEF IInv
  <2>2. Shape(slot[r])'
    BY <2>1 DEF Good, Shape, Stuck
  <2>3. Alone(r)'
    BY <1>2, <2>1 DEF Good, Alone, IsDone, Stuck
  <2>4. Selected(r)'
    BY <1>2, <2>1 DEF Good, Selected, Settled, IsDone
  <2>5. \A k \in Watched : Tracked(r, k)'
    BY <1>2, <2>1 DEF Good, Tracked, Settled, IsDone
  <2> QED BY <2>2, <2>3, <2>4, <2>5 DEF Good
<1> QED BY <1>1, <1>3 DEF IInv

(* The client opens or closes a document.                                  *)
LEMMA OpenDocIInv ==
    ASSUME IInv, NEW r \in Roots, NEW d \in Docs, OpenDoc(r, d) \/ CloseDoc(r, d)
    PROVE  IInv'
<1>1. PICK op \in {"open", "close"} : Send([op |-> op, root |-> r, doc |-> d])
  BY DEF OpenDoc, CloseDoc
<1> DEFINE cmd == [op |-> op, root |-> r, doc |-> d]
<1>2. cmd \in Command /\ cmd.op # "ready"
  BY <1>1 DEF Command
<1>3. /\ UNCHANGED <<disk, unseen, tasks, slot, open, selection, generation>>
      /\ unseen' \in [Roots -> SUBSET Kinds]
  BY DEF OpenDoc, CloseDoc, actorState, IInv, Types
<1>4. \A q \in Roots, k \in Watched : Noted(q, k) => Noted(q, k)'
  BY <1>1, <1>2, <1>3, PushFacts DEF Noted, IInv
<1> QED BY <1>1, <1>2, <1>3, <1>4, PushIInv

(* The user changes the feature selection.                                 *)
LEMMA ConfigureIInv ==
    ASSUME IInv, NEW s \in Selections, Configure(s)
    PROVE  IInv'
<1> DEFINE cmd == [op |-> "select", sel |-> s]
<1>1. cmd \in Command /\ cmd.op # "ready" /\ Send(cmd)
  BY DEF Command, Configure
<1>2. /\ UNCHANGED <<disk, unseen, tasks, slot, open, selection, generation>>
      /\ unseen' \in [Roots -> SUBSET Kinds]
  BY DEF Configure, actorState, IInv, Types
<1>3. \A q \in Roots, k \in Watched : Noted(q, k) => Noted(q, k)'
  BY <1>1, <1>2, PushFacts DEF Noted, IInv
<1> QED BY <1>1, <1>2, <1>3, PushIInv

(* The client delivers its events: none is lost between the watcher and    *)
(* the queue.                                                              *)
LEMMA NotifyIInv ==
    ASSUME IInv, NEW r \in Roots, Notify(r)
    PROVE  IInv'
<1> DEFINE cmd == [op |-> "watched", root |-> r, kinds |-> unseen[r]]
<1>1. /\ cmd \in Command /\ cmd.op = "watched" /\ cmd.root = r /\ cmd.kinds = unseen[r]
      /\ Send(cmd)
  BY DEF Command, Notify, IInv, Types
<1>2. /\ UNCHANGED <<disk, tasks, slot, open, selection, generation>>
      /\ unseen' \in [Roots -> SUBSET Kinds]
      /\ \A q \in Roots : q # r => unseen'[q] = unseen[q]
  BY DEF Notify, actorState, IInv, Types
<1> HIDE DEF cmd
<1>3. ASSUME NEW q \in Roots, NEW k \in Watched, Noted(q, k) PROVE Noted(q, k)'
  <2>1. PICK n \in DOMAIN queue' : queue'[n] = cmd
    BY <1>1, PushFacts DEF IInv
  <2>2. \A i \in DOMAIN queue : i \in DOMAIN queue' /\ queue'[i] = queue[i]
    BY <1>1, PushFacts DEF IInv
  <2>3. CASE k \in unseen[q]
    BY <1>1, <1>2, <2>1, <2>3 DEF Noted
  <2>4. CASE k \notin unseen[q]
    BY <1>3, <2>2, <2>4 DEF Noted
  <2> QED BY <2>3, <2>4
<1> QED BY <1>1, <1>2, <1>3, PushIInv

(* An edit is noted the moment it happens.                                 *)
LEMMA EditIInv ==
    ASSUME IInv, NEW r \in Roots, NEW k \in Kinds, Edit(r, k)
    PROVE  IInv'
<1>1. /\ UNCHANGED <<queue, tasks, slot, open, selection, generation>>
      /\ disk' = [disk EXCEPT ![r][k] = @ + 1]
      /\ unseen' = [unseen EXCEPT ![r] = @ \cup {k}]
  BY DEF Edit, actorState
<1>2. disk' \in [Roots -> [Kinds -> Nat]] /\ unseen' \in [Roots -> SUBSET Kinds]
  BY <1>1 DEF IInv, Types
<1>3. Types'
  BY <1>1, <1>2 DEF IInv, Types
<1>4. ASSUME NEW q \in Roots PROVE Good(q)'
  <2>1. Good(q)
    BY DEF IInv
  <2>2. Shape(slot[q])' /\ Alone(q)' /\ Selected(q)'
    BY <1>1, <2>1 DEF Good, Shape, Alone, Selected, Settled, IsDone, Stuck
  <2>3. ASSUME NEW j \in Watched PROVE Tracked(q, j)'
    <3>1. CASE Noted(q, j)
      <4>1. Noted(q, j)'
        BY <1>1, <3>1 DEF Noted, IInv, Types
      <4> QED BY <4>1 DEF Tracked
    <3>2. CASE q = r /\ j = k
      <4>1. Noted(q, j)'
        BY <1>1, <3>2 DEF Noted, IInv, Types
      <4> QED BY <4>1 DEF Tracked
    <3>3. CASE ~(q = r /\ j = k) /\ ~Noted(q, j)
      <4>1. disk'[q][j] = disk[q][j]
        BY <1>1, <3>3 DEF IInv, Types, Watched, Kinds
      <4>2. Tracked(q, j)
        BY <2>1 DEF Good
      <4> QED BY <1>1, <3>3, <4>1, <4>2 DEF Tracked, Settled, IsDone
    <3> QED BY <3>1, <3>2, <3>3
  <2> QED BY <2>2, <2>3 DEF Good
<1> QED BY <1>3, <1>4 DEF IInv

-----------------------------------------------------------------------------
(* Spawned assemblies.                                                     *)

(* An assembly goes on: it stays the only one, and what it has read is     *)
(* what it had read or what is on disk.                                    *)
LEMMA AdvanceIInv ==
    ASSUME IInv, NEW t \in tasks, NEW u \in Job, Advance(t, u),
           u.root = t.root, u.gen = t.gen, u.sel = t.sel,
           \A k \in Watched : \/ u.seen[k] = disk[t.root][k]
                              \/ t.at # "spawned" /\ u.seen[k] = t.seen[k],
           UNCHANGED <<disk, queue, slot, open, selection, generation>>,
           unseen' \in [Roots -> SUBSET Kinds],
           \A r \in Roots : unseen[r] \subseteq unseen'[r]
    PROVE  IInv'
<1>1. Types'
  BY DEF IInv, Types, Advance
<1>2. ASSUME NEW r \in Roots PROVE Good(r)'
  <2>1. Good(r)
    BY DEF IInv
  <2>2. Shape(slot[r])'
    BY <2>1 DEF Good, Shape, Stuck
  <2>3. Alone(r)'
    <3>1. \A v \in tasks' : v.root = r =>
            v = u \/ (v \in tasks /\ v # t)
      BY DEF Advance
    <3>2. u.root = r => t.root = r /\ \A v \in tasks : v.root = r => v = t
      BY <2>1 DEF Good, Alone
    <3>3. u \in tasks' /\ \A v \in tasks : v # t => v \in tasks'
      BY DEF Advance
    <3>4. \A v, w \in tasks' : v.root = r /\ w.root = r => v = w
      BY <2>1, <3>1, <3>2 DEF Good, Alone
    <3>5. \A v \in tasks', i \in DOMAIN queue : ~(v.root = r /\ IsDone(queue[i], r))
      BY <2>1, <3>1, <3>2 DEF Good, Alone
    <3>6. \A v \in tasks' : v.root = r => v.gen = slot[r].active
      BY <2>1, <3>1, <3>2 DEF Good, Alone
    <3>7. (\E v \in tasks : v.root = r) => (\E v \in tasks' : v.root = r)
      BY <3>3
    <3>8. Stuck(slot[r]) => \A v \in tasks' : v.root # r
      BY <2>1, <3>1, <3>2 DEF Good, Alone
    <3> QED BY <2>1, <3>4, <3>5, <3>6, <3>7, <3>8 DEF Good, Alone, IsDone, Stuck
  <2>4. Selected(r)'
    <3>1. \A v \in tasks' : v = u \/ v \in tasks
      BY DEF Advance
    <3> QED BY <2>1, <3>1 DEF Good, Selected, Settled, IsDone
  <2>5. ASSUME NEW k \in Watched PROVE Tracked(r, k)'
    <3>1. Noted(r, k) => Noted(r, k)'
      BY DEF Noted
    <3>2. \A v \in tasks' : v = u \/ v \in tasks
      BY DEF Advance
    <3>3. CASE Noted(r, k)
      BY <3>1, <3>3 DEF Tracked
    <3>4. CASE ~Noted(r, k)
      <4>1. Tracked(r, k)
        BY <2>1 DEF Good
      <4>2. ~slot[r].rerun => \A v \in tasks' :
              v.root = r => v.at = "spawned" \/ v.seen[k] = disk[r][k]
        BY <3>2, <3>4, <4>1 DEF Tracked
      <4> QED BY <3>4, <4>1, <4>2 DEF Tracked, Settled, IsDone
    <3> QED BY <3>3, <3>4
  <2> QED BY <2>2, <2>3, <2>4, <2>5 DEF Good
<1> QED BY <1>1, <1>2 DEF IInv

(* An assembly takes its snapshot of the project.                          *)
LEMMA ReadProjectIInv ==
    ASSUME IInv, NEW t \in tasks, ReadProject(t)
    PROVE  IInv'
<1> DEFINE seen == [disk[t.root] EXCEPT !["dep"] = 0]
           u == [t EXCEPT !.at = "script", !.seen = seen]
<1>1. t \in Job /\ t.root \in Roots
  BY DEF IInv, Types, Job
<1>2. seen \in [Kinds -> Nat] /\ \A k \in Watched : seen[k] = disk[t.root][k]
  BY <1>1 DEF IInv, Types, Watched, Kinds
<1>3. /\ u \in Job /\ u.root = t.root /\ u.gen = t.gen /\ u.sel = t.sel /\ u.seen = seen
  BY <1>1, <1>2 DEF Job
<1>4. Advance(t, u)
  BY DEF ReadProject
<1>5. /\ UNCHANGED <<disk, queue, slot, open, selection, generation>>
      /\ unseen' \in [Roots -> SUBSET Kinds]
      /\ \A r \in Roots : unseen[r] \subseteq unseen'[r]
  BY DEF ReadProject, actorState, IInv, Types
<1> HIDE DEF u, seen
<1> QED BY <1>2, <1>3, <1>4, <1>5, AdvanceIInv

(* The watcher sees what a script publishes: that only adds events.        *)
LEMMA RunScriptIInv ==
    ASSUME IInv, NEW t \in tasks, RunScript(t)
    PROVE  IInv'
<1> DEFINE u == [t EXCEPT !.at = "graph"]
<1>1. t \in Job /\ t.root \in Roots /\ t.at = "script"
  BY DEF IInv, Types, Job, RunScript
<1>2. /\ u \in Job /\ u.root = t.root /\ u.gen = t.gen /\ u.sel = t.sel
      /\ u.seen = t.seen
  BY <1>1 DEF Job
<1>3. Advance(t, u)
  BY DEF RunScript
<1>4. UNCHANGED <<disk, queue, slot, open, selection, generation>>
  BY DEF RunScript, actorState
<1>5. /\ unseen' \in [Roots -> SUBSET Kinds]
      /\ \A r \in Roots : unseen[r] \subseteq unseen'[r]
  <2>1. unseen \in [Roots -> SUBSET Kinds]
    BY DEF IInv, Types
  <2>2. CASE UNCHANGED unseen
    BY <2>1, <2>2
  <2>3. ASSUME NEW k \in {"source", "input"}, unseen' = [unseen EXCEPT ![t.root] = @ \cup {k}]
        PROVE  /\ unseen' \in [Roots -> SUBSET Kinds]
               /\ \A r \in Roots : unseen[r] \subseteq unseen'[r]
    BY <1>1, <2>1, <2>3 DEF Kinds
  <2> QED BY <2>2, <2>3 DEF RunScript
<1> HIDE DEF u
<1> QED BY <1>1, <1>2, <1>3, <1>4, <1>5, AdvanceIInv

(* An assembly reads the dependencies.                                     *)
LEMMA AssembleGraphIInv ==
    ASSUME IInv, NEW t \in tasks, AssembleGraph(t)
    PROVE  IInv'
<1> DEFINE u == [t EXCEPT !.at = "finish", !.seen["dep"] = disk[t.root]["dep"]]
<1>1. t \in Job /\ t.root \in Roots /\ t.at = "graph"
  BY DEF IInv, Types, Job, AssembleGraph
<1>2. disk[t.root]["dep"] \in Nat
  BY <1>1 DEF IInv, Types, Kinds
<1>3. /\ u \in Job /\ u.root = t.root /\ u.gen = t.gen /\ u.sel = t.sel
      /\ u.seen = [t.seen EXCEPT !["dep"] = disk[t.root]["dep"]]
  BY <1>1, <1>2 DEF Job
<1>4. \A k \in Watched : u.seen[k] = t.seen[k]
  BY <1>1, <1>3 DEF Job, Watched, Kinds
<1>5. Advance(t, u)
  BY DEF AssembleGraph
<1>6. /\ UNCHANGED <<disk, queue, slot, open, selection, generation>>
      /\ unseen' \in [Roots -> SUBSET Kinds]
      /\ \A r \in Roots : unseen[r] \subseteq unseen'[r]
  BY DEF AssembleGraph, actorState, IInv, Types
<1> HIDE DEF u
<1> QED BY <1>1, <1>3, <1>4, <1>5, <1>6, AdvanceIInv

(* A completed assembly stops running as its report enters the queue.      *)
LEMMA ReportIInv ==
    ASSUME IInv, NEW t \in tasks, NEW outcome \in {"full", "fallback", "bare"},
           NEW policy \in Policies \cup {None}, Report(t, t.seen, outcome, policy),
           outcome = "full" => t.at # "spawned",
           UNCHANGED <<disk, unseen, slot, open, selection, generation>>
    PROVE  IInv'
<1> DEFINE cmd == [op |-> "ready", root |-> t.root, gen |-> t.gen, outcome |-> outcome,
                   sel |-> t.sel, seen |-> t.seen, policy |-> policy]
<1>1. t \in Job /\ t.root \in Roots
  BY DEF IInv, Types, Job
<1>2. /\ cmd \in Command /\ cmd.op = "ready" /\ cmd.root = t.root /\ cmd.gen = t.gen
      /\ cmd.outcome = outcome /\ cmd.sel = t.sel /\ cmd.seen = t.seen
  BY <1>1 DEF Job, Command
<1>3. Send(cmd) /\ tasks' = tasks \ {t}
  BY DEF Report
<1> HIDE DEF cmd
<1>4. Types'
  BY <1>2, <1>3, PushFacts DEF IInv, Types
<1>5. \A i \in DOMAIN queue : i \in DOMAIN queue' /\ queue'[i] = queue[i]
  BY <1>2, <1>3, PushFacts DEF IInv
<1>6. PICK n \in DOMAIN queue' :
        /\ n \notin DOMAIN queue /\ queue'[n] = cmd
        /\ \A i \in DOMAIN queue' : i \in DOMAIN queue \/ i = n
  BY <1>2, <1>3, PushFacts DEF IInv
<1>7. ASSUME NEW r \in Roots PROVE Good(r)'
  <2>1. Good(r)
    BY DEF IInv
  <2>2. Shape(slot[r])'
    BY <2>1 DEF Good, Shape, Stuck
  <2>3. IsDone(queue'[n], r) <=> t.root = r
    BY <1>2, <1>6 DEF IsDone
  <2>4. t.root = r => /\ \A i \in DOMAIN queue : ~IsDone(queue[i], r)
                      /\ \A v \in tasks : v.root = r => v = t
                      /\ t.gen = slot[r].active
    BY <2>1 DEF Good, Alone
  <2>5. Alone(r)'
    <3>1. \A v, w \in tasks' : v.root = r /\ w.root = r => v = w
      BY <1>3, <2>1 DEF Good, Alone
    <3>2. \A i, j \in DOMAIN queue' : IsDone(queue'[i], r) /\ IsDone(queue'[j], r) => i = j
      BY <1>5, <1>6, <2>1, <2>3, <2>4 DEF Good, Alone
    <3>3. \A v \in tasks', i \in DOMAIN queue' : ~(v.root = r /\ IsDone(queue'[i], r))
      BY <1>3, <1>5, <1>6, <2>1, <2>3, <2>4 DEF Good, Alone
    <3>4. \A v \in tasks' : v.root = r => v.gen = slot[r].active
      BY <1>3, <2>1 DEF Good, Alone
    <3>5. \A i \in DOMAIN queue' : IsDone(queue'[i], r) =>
            queue'[i].gen = slot[r].active /\ slot[r].active # 0
      BY <1>1, <1>2, <1>5, <1>6, <2>1, <2>3, <2>4 DEF Good, Alone, Job
    <3>6. slot[r].active # 0 => \/ \E v \in tasks' : v.root = r
                                \/ \E i \in DOMAIN queue' : IsDone(queue'[i], r)
                                \/ Stuck(slot[r])
      BY <1>3, <1>5, <1>6, <2>1, <2>3 DEF Good, Alone
    <3>7. Stuck(slot[r]) => /\ \A v \in tasks' : v.root # r
                            /\ \A i \in DOMAIN queue' : ~IsDone(queue'[i], r)
      BY <1>3, <1>5, <1>6, <2>1, <2>3 DEF Good, Alone
    <3> QED BY <3>1, <3>2, <3>3, <3>4, <3>5, <3>6, <3>7 DEF Alone, IsDone, Stuck
  <2>6. Selected(r)'
    <3>1. ~slot[r].rerun => \A i \in DOMAIN queue' :
            IsDone(queue'[i], r) => queue'[i].sel = selection
      BY <1>2, <1>5, <1>6, <2>1, <2>3 DEF Good, Selected
    <3> QED BY <1>3, <2>1, <3>1 DEF Good, Selected, Settled, IsDone
  <2>7. ASSUME NEW k \in Watched PROVE Tracked(r, k)'
    <3>1. Noted(r, k) => Noted(r, k)'
      BY <1>5 DEF Noted
    <3>2. CASE Noted(r, k)
      BY <3>1, <3>2 DEF Tracked
    <3>3. CASE ~Noted(r, k)
      <4>1. Tracked(r, k)
        BY <2>1 DEF Good
      <4>2. ~slot[r].rerun => \A i \in DOMAIN queue' :
              IsDone(queue'[i], r) /\ queue'[i].outcome = "full"
                => queue'[i].seen[k] = disk[r][k]
        BY <1>2, <1>5, <1>6, <2>3, <3>3, <4>1 DEF Tracked
      <4> QED BY <1>3, <3>3, <4>1, <4>2 DEF Tracked, Settled, IsDone
    <3> QED BY <3>2, <3>3
  <2> QED BY <2>2, <2>5, <2>6, <2>7 DEF Good
<1> QED BY <1>4, <1>7 DEF IInv

(* An assembly reports to the actor.                                       *)
LEMMA FinishIInv ==
    ASSUME IInv, NEW t \in tasks, FinishAssembly(t) \/ FailAssembly(t)
    PROVE  IInv'
<1>1. UNCHANGED <<disk, unseen, slot, open, selection, generation>>
  BY DEF FinishAssembly, FailAssembly, actorState
<1>2. CASE FinishAssembly(t)
  BY <1>1, <1>2, ReportIInv DEF FinishAssembly
<1>3. CASE FailAssembly(t)
  BY <1>1, <1>3, ReportIInv DEF FailAssembly
<1> QED BY <1>2, <1>3

-----------------------------------------------------------------------------
(* The actor takes the next command.  What that means for one project:     *)

Popped == queue # <<>> /\ queue' = Tail(queue) /\ UNCHANGED <<disk, unseen>>

(* The assemblies of r are the same before and after a step.               *)
SameJobs(r) == \A t \in tasks \cup tasks' : t.root = r => t \in tasks /\ t \in tasks'

(* What is left of the queue, entry by entry.                              *)
LEMMA PoppedFacts ==
    ASSUME IInv, Popped
    PROVE  /\ Head(queue) = queue[1] /\ 1 \in DOMAIN queue
           /\ \A i \in DOMAIN queue' :
                 i + 1 \in DOMAIN queue /\ i + 1 # 1 /\ queue'[i] = queue[i + 1] /\ i \in Nat
           /\ \A j \in DOMAIN queue : j # 1 =>
                 \E i \in DOMAIN queue' : i + 1 = j /\ queue'[i] = queue[j]
BY PopFacts DEF Popped, IInv

(* The command was no completion of r and started nothing for it.          *)
LEMMA AloneKept ==
    ASSUME IInv, Popped, NEW r \in Roots, slot'[r].active = slot[r].active,
           slot'[r].ended = slot[r].ended, SameJobs(r), ~IsDone(Head(queue), r)
    PROVE  Alone(r)'
<1>1. Alone(r)
  BY DEF IInv, Good
<1>2. /\ \A t \in tasks' : t.root = r => t \in tasks
      /\ \A t \in tasks : t.root = r => t \in tasks'
  BY DEF SameJobs
<1>3. \A t, u \in tasks' : t.root = r /\ u.root = r => t = u
  BY <1>1, <1>2 DEF Alone
<1>4. \A i, j \in DOMAIN queue' : IsDone(queue'[i], r) /\ IsDone(queue'[j], r) => i = j
  <2> SUFFICES ASSUME NEW i \in DOMAIN queue', NEW j \in DOMAIN queue',
                      IsDone(queue'[i], r), IsDone(queue'[j], r)
               PROVE  i = j
    OBVIOUS
  <2>1. i + 1 = j + 1
    BY <1>1, PoppedFacts DEF Alone
  <2> QED BY PoppedFacts, <2>1
<1>5. \A t \in tasks', i \in DOMAIN queue' : ~(t.root = r /\ IsDone(queue'[i], r))
  BY <1>1, <1>2, PoppedFacts DEF Alone
<1>6. \A t \in tasks' : t.root = r => t.gen = slot[r].active
  BY <1>1, <1>2 DEF Alone
<1>7. \A i \in DOMAIN queue' : IsDone(queue'[i], r) =>
          queue'[i].gen = slot[r].active /\ slot[r].active # 0
  BY <1>1, PoppedFacts DEF Alone
<1>8. slot[r].active # 0 => \/ \E t \in tasks' : t.root = r
                            \/ \E i \in DOMAIN queue' : IsDone(queue'[i], r)
                            \/ Stuck(slot[r])
  BY <1>1, <1>2, PoppedFacts DEF Alone
<1>9. Stuck(slot[r]) => /\ \A t \in tasks' : t.root # r
                        /\ \A i \in DOMAIN queue' : ~IsDone(queue'[i], r)
  BY <1>1, <1>2, PoppedFacts DEF Alone
<1> QED BY <1>3, <1>4, <1>5, <1>6, <1>7, <1>8, <1>9 DEF Alone, IsDone, Stuck

(* Only the events of the command itself are used up.                      *)
LEMMA NotedKept ==
    ASSUME IInv, Popped, NEW r \in Roots, NEW k \in Watched, Noted(r, k),
           ~(Head(queue).op = "watched" /\ Head(queue).root = r /\ k \in Head(queue).kinds)
    PROVE  Noted(r, k)'
<1>1. CASE k \in unseen[r]
  BY <1>1 DEF Noted, Popped
<1>2. ASSUME NEW j \in DOMAIN queue, queue[j].op = "watched", queue[j].root = r,
             k \in queue[j].kinds
      PROVE  Noted(r, k)'
  <2>1. j # 1
    BY <1>2, PoppedFacts
  <2> QED BY <1>2, <2>1, PoppedFacts DEF Noted
<1> QED BY <1>1, <1>2 DEF Noted

(* The command was about something else.                                   *)
LEMMA KeepRoot ==
    ASSUME IInv, Popped, NEW r \in Roots, slot'[r] = slot[r], UNCHANGED selection,
           SameJobs(r), ~IsDone(Head(queue), r),
           \A k \in Watched : ~( /\ Head(queue).op = "watched" /\ Head(queue).root = r
                                 /\ k \in Head(queue).kinds )
    PROVE  Good(r)'
<1>1. Good(r)
  BY DEF IInv
<1>2. \A t \in tasks' : t.root = r => t \in tasks
  BY DEF SameJobs
<1>3. Shape(slot[r])' /\ Alone(r)'
  BY <1>1, AloneKept DEF Good, Shape, Stuck
<1>4. Selected(r)'
  BY <1>1, <1>2, PoppedFacts DEF Good, Selected, Settled, IsDone
<1>5. ASSUME NEW k \in Watched PROVE Tracked(r, k)'
  <2>1. CASE Noted(r, k)
    BY <2>1, NotedKept DEF Tracked
  <2>2. CASE ~Noted(r, k)
    <3>1. Tracked(r, k)
      BY <1>1 DEF Good
    <3> QED BY <1>2, <2>2, <3>1, PoppedFacts DEF Tracked, Settled, IsDone, Popped
  <2> QED BY <2>1, <2>2
<1> QED BY <1>3, <1>4, <1>5 DEF Good

(* A project without an assembly has nothing to keep.                      *)
LEMMA AbsentRoot ==
    ASSUME IInv, Popped, NEW r \in Roots, slot'[r] = slot[r], slot[r].state = "absent",
           SameJobs(r), ~IsDone(Head(queue), r)
    PROVE  Good(r)'
<1>1. Good(r) /\ Types
  BY DEF IInv
<1>2. slot[r].active = 0
  BY <1>1 DEF Good, Shape
<1>3. \A t \in tasks' : t.root # r
  BY <1>1, <1>2 DEF SameJobs, Good, Alone, Types, Job
<1>4. \A i \in DOMAIN queue' : ~IsDone(queue'[i], r)
  BY <1>1, <1>2, PoppedFacts DEF Good, Alone
<1>5. Shape(slot[r])' /\ Alone(r)'
  BY <1>1, AloneKept DEF Good, Shape, Stuck
<1>6. Selected(r)' /\ \A k \in Watched : Tracked(r, k)'
  BY <1>3, <1>4 DEF Selected, Tracked, Settled, IsDone
<1> QED BY <1>5, <1>6 DEF Good

(* The project is busy and will run again: whatever changed will be read.  *)
LEMMA RerunRoot ==
    ASSUME IInv, Popped, NEW r \in Roots, slot[r].active # 0,
           slot'[r] = [slot[r] EXCEPT !.rerun = TRUE],
           SameJobs(r), ~IsDone(Head(queue), r)
    PROVE  Good(r)'
<1>1. Good(r) /\ Types
  BY DEF IInv
<1>2. /\ slot'[r].rerun = TRUE /\ slot'[r].active = slot[r].active
      /\ slot'[r].state = slot[r].state /\ slot'[r].workspace = slot[r].workspace
      /\ slot'[r].ended = slot[r].ended
  BY <1>1, SlotTypes DEF Slot
<1>3. Shape(slot[r])' /\ Alone(r)'
  BY <1>1, <1>2, AloneKept DEF Good, Shape, Stuck
<1>4. Selected(r)' /\ \A k \in Watched : Tracked(r, k)'
  BY <1>2 DEF Selected, Tracked, Settled
<1> QED BY <1>3, <1>4 DEF Good

(* A new assembly starts: it has the selection and has read nothing yet.   *)
LEMMA SpawnRoot ==
    ASSUME IInv, Popped, NEW r \in Roots, NEW u \in Job,
           u.root = r, u.sel = selection', u.at = "spawned",
           slot'[r].active = u.gen, Shape(slot'[r]), ~Stuck(slot'[r]),
           \A t \in tasks' : t.root = r <=> t = u, u \in tasks',
           \A i \in DOMAIN queue : IsDone(queue[i], r) => i = 1
    PROVE  Good(r)'
<1>1. /\ u.gen # 0
      /\ \A i \in DOMAIN queue' : ~IsDone(queue'[i], r)
  <2>1. \A i \in DOMAIN queue' :
            i + 1 \in DOMAIN queue /\ i + 1 # 1 /\ queue'[i] = queue[i + 1]
    BY PopFacts DEF Popped, IInv
  <2>2. \A i \in DOMAIN queue' : ~IsDone(queue'[i], r)
    BY <2>1
  <2> QED BY <2>2 DEF Job
<1>2. Shape(slot[r])'
  BY DEF Shape, Stuck
<1>3. Alone(r)'
  BY <1>1 DEF Alone, IsDone, Stuck
<1>4. Selected(r)' /\ \A k \in Watched : Tracked(r, k)'
  BY <1>1 DEF Selected, Tracked, Settled, IsDone
<1> QED BY <1>2, <1>3, <1>4 DEF Good

(* An assembly that is spawned has its root, a positive generation and the *)
(* selection it was given.                                                 *)
LEMMA AssemblyFacts ==
    ASSUME NEW r \in Roots, NEW g \in Nat \ {0}, NEW sel \in Selections,
           NEW docs \in SUBSET Docs
    PROVE  /\ Assembly(r, g, sel, docs) \in Job
           /\ Assembly(r, g, sel, docs).root = r /\ Assembly(r, g, sel, docs).gen = g
           /\ Assembly(r, g, sel, docs).sel = sel
           /\ Assembly(r, g, sel, docs).at = "spawned"
BY DEF Assembly, Job

(* request_workspace_reassembly: a project that is running is marked, the  *)
(* others get one new assembly each.                                       *)
LEMMA RequestIInv ==
    ASSUME IInv, Popped, NEW rs \in SUBSET Roots, NEW sel \in Selections,
           RequestReassembly(rs, sel), selection' = sel, UNCHANGED open,
           Head(queue).op # "ready",
           \A r \in Roots \ rs : /\ sel = selection
                                 /\ Head(queue).op = "watched" => Head(queue).root # r
    PROVE  IInv'
<1> DEFINE live == {r \in rs : slot[r].state # "absent"}
           busy == {r \in live : slot[r].active # 0}
           fresh == live \ busy
           gen(r) == generation + Cardinality({q \in fresh : q <= r})
           job(r) == Assembly(r, gen(r), sel, open[r])
<1>1. /\ slot' = [r \in Roots |->
                       IF r \in busy THEN [slot[r] EXCEPT !.rerun = TRUE]
                       ELSE IF r \in fresh
                       THEN [slot[r] EXCEPT !.active = gen(r), !.rerun = FALSE]
                       ELSE slot[r]]
      /\ tasks' = tasks \cup {job(r) : r \in fresh}
      /\ generation' = generation + Cardinality(fresh)
  BY DEF RequestReassembly
<1>2. Types /\ generation \in Nat /\ slot \in [Roots -> Slot] /\ open \in [Roots -> SUBSET Docs]
  BY DEF IInv, Types
<1>3. fresh \subseteq Roots /\ IsFiniteSet(fresh) /\ Cardinality(fresh) \in Nat
  BY RootsAssumption, FS_Subset, FS_CardinalityType
<1>4. ASSUME NEW r \in fresh PROVE gen(r) \in Nat \ {0}
  <2> DEFINE below == {q \in fresh : q <= r}
  <2>1. r \in Nat /\ r \in below
    BY <1>3, <1>4, RootsAssumption
  <2>2. IsFiniteSet(below) /\ Cardinality(below) \in Nat
    BY <1>3, FS_Subset, FS_CardinalityType
  <2>3. Cardinality(below) # 0
    BY <2>1, <2>2, FS_EmptySet
  <2> QED BY <1>2, <2>2, <2>3
<1> HIDE DEF gen
<1>5. ASSUME NEW r \in fresh
      PROVE  /\ job(r) \in Job /\ job(r).root = r /\ job(r).gen = gen(r)
             /\ job(r).sel = sel /\ job(r).at = "spawned"
  BY <1>2, <1>3, <1>4, <1>5, AssemblyFacts
<1> HIDE DEF job
<1>6. slot' \in [Roots -> Slot]
  <2>1. ASSUME NEW r \in Roots
        PROVE  /\ [slot[r] EXCEPT !.rerun = TRUE] \in Slot
               /\ r \in fresh => [slot[r] EXCEPT !.active = gen(r), !.rerun = FALSE] \in Slot
    BY <1>2, <1>4 DEF Slot
  <2> HIDE DEF fresh, busy
  <2> QED BY <1>1, <1>2, <2>1
<1>7. /\ \A t : t \in tasks' <=> t \in tasks \/ \E r \in fresh : t = job(r)
      /\ tasks' \in SUBSET Job
      /\ generation' \in Nat
  <2> HIDE DEF fresh
  <2>1. \A t : t \in tasks' <=> t \in tasks \/ \E r \in fresh : t = job(r)
    BY <1>1
  <2>2. tasks' \in SUBSET Job
    BY <1>2, <1>5, <2>1 DEF Types
  <2>3. generation' \in Nat
    <3>1. generation' = generation + Cardinality(fresh)
      BY <1>1
    <3> QED BY <1>2, <1>3, <3>1
  <2> QED BY <2>1, <2>2, <2>3
<1>8. Types'
  <2>1. queue' \in Seq(Command)
    BY <1>2, PopFacts DEF Popped
  <2> QED BY <1>2, <1>6, <1>7, <2>1 DEF Types, Popped
<1>9. ASSUME NEW r \in Roots PROVE Good(r)'
  <2>1. Good(r) /\ ~IsDone(Head(queue), r)
    BY DEF IInv, IsDone
  <2>2. r \notin fresh => SameJobs(r)
    <3> SUFFICES ASSUME r \notin fresh, NEW t \in tasks \cup tasks', t.root = r
                 PROVE  t \in tasks /\ t \in tasks'
      BY DEF SameJobs
    <3> QED BY <1>1, <1>5
  <2>3. CASE r \in busy
    <3>1. r \notin fresh /\ slot[r].active # 0 /\ slot'[r] = [slot[r] EXCEPT !.rerun = TRUE]
      BY <1>1, <2>3
    <3> QED BY <2>1, <2>2, <3>1, RerunRoot
  <2>4. CASE r \in fresh
    <3>1. /\ slot[r].active = 0 /\ slot[r].state # "absent"
          /\ slot'[r] = [slot[r] EXCEPT !.active = gen(r), !.rerun = FALSE]
      BY <1>1, <2>4
    <3>2. /\ slot'[r].active = gen(r) /\ slot'[r].state = slot[r].state
          /\ slot'[r].workspace = slot[r].workspace /\ slot'[r].ended = slot[r].ended
      BY <1>2, <3>1 DEF Slot
    <3>3. Shape(slot'[r]) /\ ~Stuck(slot'[r])
      BY <1>4, <2>1, <2>4, <3>1, <3>2 DEF Good, Shape, Stuck
    <3>4. \A t \in tasks : t.root # r
      BY <1>2, <2>1, <3>1 DEF Good, Alone, Types, Job
    <3>5. \A i \in DOMAIN queue : ~IsDone(queue[i], r)
      BY <2>1, <3>1 DEF Good, Alone
    <3>6. job(r) \in tasks' /\ \A t \in tasks' : t.root = r <=> t = job(r)
      <4> HIDE DEF fresh, busy
      <4> QED BY <1>5, <1>7, <2>4, <3>4
    <3> QED BY <1>5, <2>4, <3>2, <3>3, <3>5, <3>6, SpawnRoot
  <2>5. CASE r \notin busy /\ r \notin fresh
    <3>1. slot'[r] = slot[r] /\ SameJobs(r)
      BY <1>1, <2>2, <2>5
    <3>2. CASE r \in rs
      <4>1. slot[r].state = "absent"
        BY <2>5, <3>2
      <4> QED BY <2>1, <3>1, <4>1, AbsentRoot
    <3>3. CASE r \notin rs
      BY <2>1, <3>1, <3>3, KeepRoot
    <3> QED BY <3>2, <3>3
  <2> QED BY <2>3, <2>4, <2>5
<1> QED BY <1>9, <1>8 DEF IInv

(* What a step of the actor leaves to be shown of the types.               *)
LEMMA PoppedTypes ==
    ASSUME IInv, Popped, tasks' \in SUBSET Job, slot' \in [Roots -> Slot],
           open' \in [Roots -> SUBSET Docs], selection' \in Selections,
           generation' \in Nat
    PROVE  Types'
<1>1. queue' \in Seq(Command)
  BY PopFacts DEF IInv, Popped
<1> QED BY <1>1 DEF IInv, Types, Popped

(* The actor opens a document and may create its slot.                     *)
LEMMA DidOpenIInv ==
    ASSUME IInv, DidOpen
    PROVE  IInv'
<1>1. Popped /\ Types /\ Head(queue).op = "open"
  BY DEF DidOpen, Received, Popped, IInv
<1>2. Head(queue) \in Command
  BY <1>1, PopFacts DEF Popped
<1>3. PICK r \in Roots : r = Head(queue).root /\ Head(queue).doc \in Docs
  BY <1>1, <1>2 DEF Command
<1> DEFINE docs == open[r] \cup {Head(queue).doc}
           u == Assembly(r, generation + 1, selection, docs)
<1>4. docs \in SUBSET Docs /\ open' \in [Roots -> SUBSET Docs] /\ UNCHANGED selection
  BY <1>1, <1>3 DEF Types, DidOpen
<1>5. \A q \in Roots : ~IsDone(Head(queue), q) /\ Good(q)
  BY <1>1 DEF IsDone, IInv
<1>6. CASE slot[r].state # "absent"
  <2>1. UNCHANGED <<slot, tasks, generation>>
    BY <1>3, <1>6 DEF DidOpen
  <2>2. Types'
    BY <1>1, <1>4, <2>1, PoppedTypes DEF Types
  <2>3. \A q \in Roots : SameJobs(q)
    BY <2>1 DEF SameJobs
  <2>4. \A q \in Roots : Good(q)'
    BY <1>1, <1>4, <1>5, <2>1, <2>3, KeepRoot
  <2> QED BY <2>2, <2>4 DEF IInv
<1>7. CASE slot[r].state = "absent"
  <2> DEFINE s == [slot[r] EXCEPT !.state = "loading", !.active = generation + 1]
  <2>1. /\ slot' = [slot EXCEPT ![r] = s]
        /\ tasks' = tasks \cup {u}
        /\ generation' = generation + 1
    BY <1>3, <1>7 DEF DidOpen
  <2>2. /\ u \in Job /\ u.root = r /\ u.sel = selection /\ u.at = "spawned"
        /\ u.gen = generation + 1
    BY <1>1, <1>3, <1>4, AssemblyFacts DEF Types
  <2>3. /\ s \in Slot /\ s.active = generation + 1 /\ s.state = "loading"
        /\ s.ended = slot[r].ended
    <3>1. slot[r] \in Slot /\ generation + 1 \in Nat
      BY <1>1 DEF Types
    <3> QED BY <3>1 DEF Slot
  <2>4. slot[r].active = 0
    BY <1>3, <1>5, <1>7 DEF Good, Shape
  <2>5. /\ \A t \in tasks : t.root # r
        /\ \A i \in DOMAIN queue : ~IsDone(queue[i], r)
    BY <1>1, <1>3, <1>5, <2>4 DEF Good, Alone, Types, Job
  <2> HIDE DEF u, s, docs
  <2>6. Types'
    BY <1>1, <1>3, <1>4, <2>1, <2>2, <2>3, PoppedTypes DEF Types
  <2>7. slot'[r] = s /\ \A q \in Roots : q # r => slot'[q] = slot[q]
    BY <1>1, <1>3, <2>1 DEF Types
  <2>8. /\ Shape(slot'[r]) /\ ~Stuck(slot'[r])
        /\ slot'[r].active = u.gen /\ u.sel = selection'
    BY <1>1, <1>3, <1>4, <1>5, <1>7, <2>2, <2>3, <2>7 DEF Good, Shape, Types, Stuck
  <2>9. u \in tasks' /\ \A t \in tasks' : t.root = r <=> t = u
    BY <2>1, <2>2, <2>5
  <2>10. Good(r)'
    BY <1>1, <1>3, <2>2, <2>5, <2>8, <2>9, SpawnRoot
  <2>11. ASSUME NEW q \in Roots, q # r PROVE Good(q)'
    <3>1. SameJobs(q)
      BY <2>1, <2>2, <2>11 DEF SameJobs
    <3> QED BY <1>1, <1>4, <1>5, <2>7, <2>11, <3>1, KeepRoot
  <2> QED BY <2>6, <2>10, <2>11 DEF IInv
<1> QED BY <1>6, <1>7

(* The actor closes a document.                                            *)
LEMMA DidCloseIInv ==
    ASSUME IInv, DidClose
    PROVE  IInv'
<1>1. /\ Popped /\ Types /\ Head(queue).op = "close"
      /\ UNCHANGED <<tasks, slot, selection, generation>>
  BY DEF DidClose, Received, Popped, IInv
<1>2. open' \in [Roots -> SUBSET Docs]
  BY <1>1 DEF DidClose, Types
<1>3. Types'
  BY <1>1, <1>2, PoppedTypes DEF Types
<1>4. \A q \in Roots : SameJobs(q) /\ ~IsDone(Head(queue), q)
  BY <1>1 DEF SameJobs, IsDone
<1>5. \A q \in Roots : Good(q)'
  BY <1>1, <1>4, KeepRoot
<1> QED BY <1>3, <1>5 DEF IInv

(* The actor adopts a selection and starts loaded projects anew.           *)
LEMMA SetFeatureSelectionIInv ==
    ASSUME IInv, SetFeatureSelection
    PROVE  IInv'
<1>1. Popped /\ Types /\ Head(queue).op = "select" /\ UNCHANGED open
  BY DEF SetFeatureSelection, Received, Popped, IInv
<1>2. Head(queue) \in Command
  BY <1>1, PopFacts DEF Popped
<1>3. Head(queue).sel \in Selections
  BY <1>1, <1>2 DEF Command
<1>4. CASE Head(queue).sel = selection
  <2>1. UNCHANGED <<tasks, slot, selection, generation>>
    BY <1>4 DEF SetFeatureSelection
  <2>2. Types'
    BY <1>1, <2>1, PoppedTypes DEF Types
  <2>3. \A q \in Roots : SameJobs(q) /\ ~IsDone(Head(queue), q)
    BY <1>1, <2>1 DEF SameJobs, IsDone
  <2>4. \A q \in Roots : Good(q)'
    BY <1>1, <2>1, <2>3, KeepRoot
  <2> QED BY <2>2, <2>4 DEF IInv
<1>5. CASE Head(queue).sel # selection
  <2>1. selection' = Head(queue).sel /\ RequestReassembly(Roots, Head(queue).sel)
    BY <1>5 DEF SetFeatureSelection
  <2> QED BY <1>1, <1>3, <2>1, RequestIInv
<1> QED BY <1>4, <1>5

(* What a refresh leaves in the slot of a loaded project.                  *)
LEMMA RefreshFacts ==
    ASSUME Types, NEW r \in Roots, slot[r].state = "ready", Shape(slot[r]), Refresh(r)
    PROVE  /\ slot' \in [Roots -> Slot]
           /\ \A q \in Roots : q # r => slot'[q] = slot[q]
           /\ slot'[r].state = "ready" /\ slot'[r].active = slot[r].active
           /\ slot'[r].ended = slot[r].ended
           /\ slot'[r].workspace \in Workspace
           /\ slot'[r].workspace.kind = slot[r].workspace.kind
           /\ slot'[r].workspace.sel = slot[r].workspace.sel
           /\ slot'[r].workspace.seen["input"] = slot[r].workspace.seen["input"]
           /\ slot'[r].unread \/ slot'[r].workspace.seen["source"] = disk[r]["source"]
<1> DEFINE w == slot[r].workspace
           seen == [w.seen EXCEPT !["source"] = disk[r]["source"]]
           v == [w EXCEPT !.seen = seen]
<1>1. slot[r] \in Slot /\ slot \in [Roots -> Slot]
  BY DEF Types
<1>2. w \in Workspace /\ w.seen \in [Kinds -> Nat] /\ disk[r] \in [Kinds -> Nat]
  BY DEF Shape, Workspace, Types
<1>3. /\ seen \in [Kinds -> Nat] /\ seen["source"] = disk[r]["source"]
      /\ seen["input"] = w.seen["input"]
  BY <1>2 DEF Kinds
<1>4. \/ slot' = [slot EXCEPT ![r] = [slot[r] EXCEPT !.workspace = v, !.unread = FALSE]]
      \/ slot' = [slot EXCEPT ![r] = [slot[r] EXCEPT !.unread = TRUE]]
  BY DEF Refresh
<1> HIDE DEF seen
<1>5. v \in Workspace /\ v.seen = seen /\ v.sel = w.sel /\ v.kind = w.kind
  BY <1>2, <1>3 DEF Workspace
<1> HIDE DEF v
<1>6. CASE slot' = [slot EXCEPT ![r] = [slot[r] EXCEPT !.workspace = v, !.unread = FALSE]]
  <2> DEFINE n == [slot[r] EXCEPT !.workspace = v, !.unread = FALSE]
  <2>1. /\ n \in Slot /\ n.state = slot[r].state /\ n.active = slot[r].active
        /\ n.ended = slot[r].ended /\ n.workspace = v
    BY <1>1, <1>5 DEF Slot
  <2> HIDE DEF n
  <2>2. slot' = [slot EXCEPT ![r] = n]
    BY <1>6 DEF n
  <2>3. slot' \in [Roots -> Slot] /\ slot'[r] = n /\ \A q \in Roots : q # r => slot'[q] = slot[q]
    BY <1>1, <2>1, <2>2
  <2> QED BY <1>3, <1>5, <2>1, <2>3
<1>7. CASE slot' = [slot EXCEPT ![r] = [slot[r] EXCEPT !.unread = TRUE]]
  <2> DEFINE n == [slot[r] EXCEPT !.unread = TRUE]
  <2>1. /\ n \in Slot /\ n.state = slot[r].state /\ n.active = slot[r].active
        /\ n.ended = slot[r].ended /\ n.workspace = w /\ n.unread
    BY <1>1 DEF Slot
  <2> HIDE DEF n
  <2>2. slot' = [slot EXCEPT ![r] = n]
    BY <1>7 DEF n
  <2>3. slot' \in [Roots -> Slot] /\ slot'[r] = n /\ \A q \in Roots : q # r => slot'[q] = slot[q]
    BY <1>1, <2>1, <2>2
  <2> QED BY <1>2, <2>1, <2>3
<1> QED BY <1>4, <1>6, <1>7

(* A loaded and idle project re-reads its sources, or fails to.            *)
LEMMA RefreshRoot ==
    ASSUME IInv, Popped, NEW r \in Roots, slot[r].state = "ready", slot[r].active = 0,
           Head(queue).op = "watched", Head(queue).root = r, "input" \notin Head(queue).kinds,
           Refresh(r), UNCHANGED <<tasks, selection>>
    PROVE  slot' \in [Roots -> Slot] /\ Good(r)'
<1>1. Good(r) /\ Types /\ slot[r] \in Slot /\ slot \in [Roots -> Slot]
  BY DEF IInv, Types
<1>2. /\ slot' \in [Roots -> Slot]
      /\ slot'[r].workspace \in Workspace /\ slot'[r].workspace.sel = slot[r].workspace.sel
      /\ slot'[r].workspace.seen["input"] = slot[r].workspace.seen["input"]
      /\ slot'[r].unread \/ slot'[r].workspace.seen["source"] = disk[r]["source"]
      /\ slot'[r].state = "ready" /\ slot'[r].active = 0 /\ slot'[r].ended = slot[r].ended
  BY <1>1, RefreshFacts DEF Good
<1>3. /\ \A t \in tasks : t.root # r
      /\ \A i \in DOMAIN queue : ~IsDone(queue[i], r)
  BY <1>1 DEF Good, Alone, Types, Job
<1>4. \A i \in DOMAIN queue' : ~IsDone(queue'[i], r)
  BY <1>3, PoppedFacts
<1>5. Shape(slot[r])' /\ Alone(r)'
  BY <1>1, <1>2, <1>3, <1>4 DEF Good, Shape, Alone, IsDone, Stuck
<1>6. Selected(r)'
  BY <1>1, <1>2, <1>3, <1>4 DEF Good, Selected, Settled, IsDone
<1>7. ASSUME NEW k \in Watched PROVE Tracked(r, k)'
  <2>1. CASE k = "source"
    BY <1>2, <1>3, <1>4, <2>1 DEF Tracked, Settled, IsDone, Popped
  <2>2. CASE k = "input"
    <3>1. CASE Noted(r, k)
      BY <2>2, <3>1, NotedKept DEF Tracked
    <3>2. CASE ~Noted(r, k)
      <4>1. Tracked(r, k)
        BY <1>1 DEF Good
      <4> QED BY <1>2, <1>3, <1>4, <2>2, <3>2, <4>1 DEF Tracked, Settled, IsDone, Popped
    <3> QED BY <3>1, <3>2
  <2> QED BY <2>1, <2>2 DEF Watched
<1> QED BY <1>2, <1>5, <1>6, <1>7 DEF Good

(* The actor sorts watched changes into restarts and refreshes.            *)
LEMMA WatchedFilesChangedIInv ==
    ASSUME IInv, WatchedFilesChanged
    PROVE  IInv'
<1>1. /\ Popped /\ Types /\ Head(queue).op = "watched"
      /\ UNCHANGED <<open, selection>>
  BY DEF WatchedFilesChanged, Received, Popped, IInv
<1>2. Head(queue) \in Command
  BY <1>1, PopFacts DEF Popped
<1>3. PICK r \in Roots : r = Head(queue).root
  BY <1>1, <1>2 DEF Command
<1> DEFINE kinds == Head(queue).kinds
           action == IF slot[r].state = "absent" THEN "ignore"
                     ELSE ActionWhileActive(WatchedAction(kinds, slot[r].policy), slot[r])
<1>4. \/ action = "reassemble" /\ RequestReassembly({r}, selection)
      \/ /\ action = "refresh"
         /\ Refresh(r)
         /\ UNCHANGED <<tasks, generation>>
      \/ action = "ignore" /\ UNCHANGED <<tasks, slot, generation>>
  BY <1>3 DEF WatchedFilesChanged
<1>5. /\ Good(r) /\ selection \in Selections
      /\ \A q \in Roots : ~IsDone(Head(queue), q)
  BY <1>1 DEF IInv, IsDone, Types
<1>6. CASE action = "reassemble"
  <2>1. RequestReassembly({r}, selection)
    BY <1>4, <1>6
  <2>2. \A q \in Roots \ {r} : Head(queue).root # q
    BY <1>3
  <2> QED BY <1>1, <1>5, <2>1, <2>2, RequestIInv
<1>7. CASE action = "refresh"
  <2>1. /\ slot[r].state # "absent" /\ slot[r].active = 0 /\ "input" \notin kinds
    BY <1>7 DEF ActionWhileActive, WatchedAction
  <2>2. slot[r].state = "ready"
    <3>1. slot[r].state \in {"absent", "loading", "ready"}
      BY <1>1, SlotTypes DEF Slot
    <3> QED BY <1>5, <2>1, <3>1 DEF Good, Shape
  <2>3. Refresh(r) /\ UNCHANGED <<tasks, generation>>
    BY <1>4, <1>7
  <2>4. slot' \in [Roots -> Slot] /\ Good(r)'
    BY <1>1, <1>3, <2>1, <2>2, <2>3, RefreshRoot
  <2>5. Types'
    BY <1>1, <2>3, <2>4, PoppedTypes DEF Types
  <2>6. ASSUME NEW q \in Roots, q # r PROVE Good(q)'
    <3>1. slot'[q] = slot[q] /\ SameJobs(q)
      BY <1>1, <1>5, <2>2, <2>3, <2>6, RefreshFacts DEF Good, SameJobs
    <3> QED BY <1>1, <1>3, <1>5, <2>6, <3>1, KeepRoot
  <2> QED BY <2>4, <2>5, <2>6 DEF IInv
<1>8. CASE action = "ignore"
  <2>1. UNCHANGED <<tasks, slot, generation>>
    BY <1>4, <1>8
  <2>2. Types'
    BY <1>1, <2>1, PoppedTypes DEF Types
  <2>3. ASSUME NEW q \in Roots PROVE Good(q)'
    <3>1. SameJobs(q) /\ slot'[q] = slot[q]
      BY <2>1 DEF SameJobs
    <3>2. CASE slot[q].state = "absent"
      BY <1>1, <1>5, <3>1, <3>2, AbsentRoot
    <3>3. CASE slot[q].state # "absent"
      <4>1. q = r => "input" \notin kinds /\ "source" \notin kinds
        BY <1>8, <3>3 DEF ActionWhileActive, WatchedAction
      <4>2. \A k \in Watched : ~(Head(queue).root = q /\ k \in Head(queue).kinds)
        BY <1>3, <4>1 DEF Watched
      <4> QED BY <1>1, <1>5, <3>1, <4>2, KeepRoot
    <3> QED BY <3>2, <3>3
  <2> QED BY <2>2, <2>3 DEF IInv
<1> QED BY <1>4, <1>6, <1>7, <1>8

(* What workspace_ready puts into a slot when nothing asked for another    *)
(* run.                                                                    *)
LEMMA InstallFacts ==
    ASSUME NEW s \in Slot, Shape(s), NEW done \in Command, done.op = "ready"
    PROVE  /\ Install(s, done) \in Slot
           /\ Install(s, done).state = "ready" /\ Install(s, done).active = 0
           /\ Shape(Install(s, done)) /\ ~Stuck(Install(s, done))
           /\ Install(s, done).ended = "ok" =>
                 /\ done.outcome = "full"
                 /\ Install(s, done).workspace.sel = done.sel
                 /\ Install(s, done).workspace.seen = done.seen
<1> DEFINE w == [kind |-> done.outcome, sel |-> done.sel, seen |-> done.seen]
<1>1. /\ w \in Workspace /\ w.sel = done.sel /\ w.seen = done.seen
      /\ done.policy \in Policies \cup {None}
  BY DEF Command, Workspace
<1> HIDE DEF w
<1>2. CASE done.outcome # "full" /\ s.state = "ready"
  <2>1. Install(s, done) = [s EXCEPT !.active = 0, !.ended = "failed"]
    BY <1>2 DEF Install
  <2> DEFINE n == [s EXCEPT !.active = 0, !.ended = "failed"]
  <2>2. /\ n \in Slot /\ n.active = 0 /\ n.ended = "failed" /\ n.state = s.state
        /\ n.workspace = s.workspace
    BY DEF Slot
  <2> HIDE DEF n
  <2>3. Install(s, done) = n
    BY <2>1 DEF n
  <2> QED BY <1>2, <2>2, <2>3 DEF Shape, Stuck
<1>3. CASE ~(done.outcome # "full" /\ s.state = "ready")
  <2> DEFINE e == IF done.outcome = "full" THEN "ok" ELSE "failed"
  <2>1. Install(s, done) = [s EXCEPT !.state = "ready", !.active = 0,
                              !.policy = done.policy, !.workspace = w,
                              !.unread = FALSE, !.ended = e]
    BY <1>3 DEF Install, w
  <2>2. e \in {"ok", "failed"} /\ (e = "ok" => done.outcome = "full")
    OBVIOUS
  <2> HIDE DEF e
  <2> DEFINE n == [s EXCEPT !.state = "ready", !.active = 0, !.policy = done.policy,
                            !.workspace = w, !.unread = FALSE, !.ended = e]
  <2>3. /\ n \in Slot /\ n.active = 0 /\ n.ended = e /\ n.state = "ready"
        /\ n.workspace = w
    BY <1>1, <2>2 DEF Slot
  <2> HIDE DEF n
  <2>4. Install(s, done) = n
    BY <2>1 DEF n
  <2> QED BY <1>1, <2>2, <2>3, <2>4 DEF Shape, Stuck
<1> QED BY <1>2, <1>3

(* A completion that nobody has overtaken is installed: it was made from   *)
(* what its reports say, and that is what is in force.                     *)
LEMMA InstallRoot ==
    ASSUME IInv, Popped, NEW r \in Roots, IsDone(Head(queue), r), ~slot[r].rerun,
           slot'[r] = Install(slot[r], Head(queue)), UNCHANGED <<tasks, selection>>
    PROVE  Good(r)'
<1>1. Good(r) /\ Types /\ slot[r] \in Slot
  BY DEF IInv, Types
<1>2. Head(queue) \in Command /\ Head(queue).op = "ready"
  BY <1>1, PopFacts DEF Popped, IsDone
<1>3. /\ slot'[r].state = "ready" /\ slot'[r].active = 0 /\ Shape(slot'[r])
      /\ ~Stuck(slot'[r])
      /\ slot'[r].ended = "ok" =>
            /\ Head(queue).outcome = "full"
            /\ slot'[r].workspace.sel = Head(queue).sel
            /\ slot'[r].workspace.seen = Head(queue).seen
  BY <1>1, <1>2, InstallFacts DEF Good
<1>4. /\ \A t \in tasks : t.root # r
      /\ \A i \in DOMAIN queue : IsDone(queue[i], r) => i = 1
  BY <1>1, PoppedFacts DEF Good, Alone
<1>5. \A i \in DOMAIN queue' : ~IsDone(queue'[i], r)
  BY <1>4, PoppedFacts
<1>6. Shape(slot[r])' /\ Alone(r)'
  BY <1>3, <1>4, <1>5 DEF Shape, Alone, IsDone, Stuck
<1>7. Selected(r)'
  BY <1>1, <1>3, <1>4, <1>5, PoppedFacts DEF Good, Selected, Settled, IsDone
<1>8. ASSUME NEW k \in Watched PROVE Tracked(r, k)'
  <2>1. CASE Noted(r, k)
    BY <1>2, <2>1, NotedKept DEF Tracked
  <2>2. CASE ~Noted(r, k)
    <3>1. Tracked(r, k)
      BY <1>1 DEF Good
    <3>2. Settled(slot'[r]) => slot'[r].workspace.seen[k] = disk[r][k]
      BY <1>3, <2>2, <3>1, PoppedFacts DEF Tracked, Settled
    <3> QED BY <1>4, <1>5, <3>2 DEF Tracked, Settled, IsDone, Popped
  <2> QED BY <2>1, <2>2
<1> QED BY <1>6, <1>7, <1>8 DEF Good

(* The bare workspace of a project that is loading cannot be opened: the   *)
(* completion is gone and nothing runs for the project.                    *)
LEMMA StuckRoot ==
    ASSUME IInv, Popped, NEW r \in Roots, IsDone(Head(queue), r),
           slot[r].state = "loading",
           slot' = [slot EXCEPT ![r] = [slot[r] EXCEPT !.ended = "panicked"]],
           UNCHANGED <<tasks, selection>>
    PROVE  slot' \in [Roots -> Slot] /\ Good(r)'
<1>1. Good(r) /\ Types /\ slot[r] \in Slot /\ slot \in [Roots -> Slot]
  BY DEF IInv, Types
<1> DEFINE n == [slot[r] EXCEPT !.ended = "panicked"]
<1>2. /\ n \in Slot /\ n.state = "loading" /\ n.active = slot[r].active
      /\ n.ended = "panicked"
  BY <1>1 DEF Slot
<1> HIDE DEF n
<1>3. slot' = [slot EXCEPT ![r] = n]
  BY DEF n
<1>4. slot' \in [Roots -> Slot] /\ slot'[r] = n
  BY <1>1, <1>2, <1>3
<1>5. /\ \A t \in tasks : t.root # r
      /\ \A i \in DOMAIN queue : IsDone(queue[i], r) => i = 1
  BY <1>1, PoppedFacts DEF Good, Alone
<1>6. \A i \in DOMAIN queue' : ~IsDone(queue'[i], r)
  BY <1>5, PoppedFacts
<1>7. Shape(slot[r])' /\ Alone(r)'
  BY <1>1, <1>2, <1>4, <1>5, <1>6 DEF Good, Shape, Alone, IsDone, Stuck
<1>8. Selected(r)'
  BY <1>2, <1>4, <1>5, <1>6 DEF Selected, Settled, IsDone
<1>9. \A k \in Watched : Tracked(r, k)'
  BY <1>2, <1>4, <1>5, <1>6 DEF Tracked, Settled, IsDone
<1> QED BY <1>4, <1>7, <1>8, <1>9 DEF Good

(* The actor takes up the result of an assembly, or drops a stale one.     *)
LEMMA WorkspaceReadyIInv ==
    ASSUME IInv, WorkspaceReady
    PROVE  IInv'
<1>1. /\ Popped /\ Types /\ Head(queue).op = "ready" /\ UNCHANGED <<open, selection>>
  BY DEF WorkspaceReady, Received, Popped, IInv
<1>2. Head(queue) \in Command
  BY <1>1, PopFacts DEF Popped
<1>3. PICK r \in Roots : r = Head(queue).root
  BY <1>1, <1>2 DEF Command
<1>4. /\ Good(r) /\ slot[r] \in Slot /\ IsDone(Head(queue), r)
      /\ slot \in [Roots -> Slot] /\ generation \in Nat
      /\ selection \in Selections /\ open[r] \in SUBSET Docs
      /\ \A q \in Roots : q # r => ~IsDone(Head(queue), q)
  BY <1>1, <1>3 DEF IInv, Types, IsDone
<1>5. /\ Head(queue).gen = slot[r].active /\ slot[r].active # 0
      /\ \A t \in tasks : t.root # r
      /\ \A i \in DOMAIN queue : IsDone(queue[i], r) => i = 1
      /\ ~Stuck(slot[r])
  BY <1>1, <1>4, PoppedFacts DEF Good, Alone
<1>6. CASE slot[r].rerun
  <2> DEFINE u == Assembly(r, generation + 1, selection, open[r])
             s == [slot[r] EXCEPT !.active = generation + 1, !.rerun = FALSE]
  <2>1. /\ slot' = [slot EXCEPT ![r] = s]
        /\ tasks' = tasks \cup {u}
        /\ generation' = generation + 1
    BY <1>3, <1>5, <1>6 DEF WorkspaceReady
  <2>2. /\ u \in Job /\ u.root = r /\ u.sel = selection /\ u.at = "spawned"
        /\ u.gen = generation + 1
    <3>1. generation + 1 \in Nat \ {0} /\ selection \in Selections /\ open[r] \in SUBSET Docs
      BY <1>4
    <3> QED BY <3>1, AssemblyFacts
  <2>3. /\ s \in Slot /\ s.active = generation + 1 /\ s.state = slot[r].state
        /\ s.workspace = slot[r].workspace /\ s.ended = slot[r].ended
    <3>1. generation + 1 \in Nat /\ slot[r] \in Slot
      BY <1>4
    <3> QED BY <3>1 DEF Slot
  <2> HIDE DEF u, s
  <2>4. Types'
    BY <1>1, <1>4, <2>1, <2>2, <2>3, PoppedTypes DEF Types
  <2>5. slot'[r] = s /\ \A q \in Roots : q # r => slot'[q] = slot[q]
    BY <1>4, <2>1
  <2>6. /\ Shape(slot'[r]) /\ ~Stuck(slot'[r])
        /\ slot'[r].active = u.gen /\ u.sel = selection'
    BY <1>1, <1>4, <1>5, <2>2, <2>3, <2>5 DEF Good, Shape, Stuck
  <2>7. u \in tasks' /\ \A t \in tasks' : t.root = r <=> t = u
    BY <1>5, <2>1, <2>2
  <2>8. Good(r)'
    BY <1>1, <1>5, <2>2, <2>6, <2>7, SpawnRoot
  <2>9. ASSUME NEW q \in Roots, q # r PROVE Good(q)'
    <3>1. SameJobs(q)
      BY <2>1, <2>2, <2>9 DEF SameJobs
    <3> QED BY <1>1, <1>4, <2>5, <2>9, <3>1, KeepRoot
  <2> QED BY <2>4, <2>8, <2>9 DEF IInv
<1> DEFINE n == [slot[r] EXCEPT !.ended = "panicked"]
<1>7. ~slot[r].rerun =>
         /\ UNCHANGED <<tasks, generation>>
         /\ \/ slot' = [slot EXCEPT ![r] = Install(slot[r], Head(queue))]
            \/ slot[r].state = "loading" /\ slot' = [slot EXCEPT ![r] = n]
  BY <1>3, <1>5 DEF WorkspaceReady, NeedsBare
<1>8. CASE ~slot[r].rerun /\ slot' = [slot EXCEPT ![r] = Install(slot[r], Head(queue))]
  <2>1. /\ slot' = [slot EXCEPT ![r] = Install(slot[r], Head(queue))]
        /\ UNCHANGED <<tasks, generation>>
    BY <1>7, <1>8
  <2>2. Install(slot[r], Head(queue)) \in Slot
    BY <1>1, <1>2, <1>4, InstallFacts DEF Good
  <2>3. /\ slot'[r] = Install(slot[r], Head(queue))
        /\ \A q \in Roots : q # r => slot'[q] = slot[q]
    BY <1>4, <2>1
  <2>4. Types'
    BY <1>1, <1>4, <2>1, <2>2, PoppedTypes DEF Types
  <2>5. Good(r)'
    BY <1>1, <1>4, <1>8, <2>1, <2>3, InstallRoot
  <2>6. ASSUME NEW q \in Roots, q # r PROVE Good(q)'
    <3>1. SameJobs(q)
      BY <2>1 DEF SameJobs
    <3> QED BY <1>1, <1>4, <2>3, <2>6, <3>1, KeepRoot
  <2> QED BY <2>4, <2>5, <2>6 DEF IInv
<1>9. CASE /\ ~slot[r].rerun /\ slot[r].state = "loading"
           /\ slot' = [slot EXCEPT ![r] = n]
  <2>1. slot' \in [Roots -> Slot] /\ Good(r)' /\ UNCHANGED <<tasks, generation>>
    BY <1>1, <1>4, <1>7, <1>9, StuckRoot
  <2>2. Types'
    BY <1>1, <1>4, <2>1, PoppedTypes DEF Types
  <2>3. ASSUME NEW q \in Roots, q # r PROVE Good(q)'
    <3>1. slot'[q] = slot[q] /\ SameJobs(q)
      BY <1>4, <1>9, <2>1, <2>3 DEF SameJobs
    <3> QED BY <1>1, <1>4, <2>3, <3>1, KeepRoot
  <2> QED BY <2>1, <2>2, <2>3 DEF IInv
<1> QED BY <1>6, <1>7, <1>8, <1>9

-----------------------------------------------------------------------------
(* The invariant and what follows from it.                                 *)

(* Every step of actor, assemblies, client, user and disk keeps the        *)
(* invariant.                                                              *)
LEMMA NextIInv ==
    ASSUME IInv, [Next]_vars
    PROVE  IInv'
<1>1. CASE Actor
  BY <1>1, DidOpenIInv, DidCloseIInv, WatchedFilesChangedIInv, SetFeatureSelectionIInv,
     WorkspaceReadyIInv DEF Actor
<1>2. CASE TaskSteps
  BY <1>2, ReadProjectIInv, RunScriptIInv, AssembleGraphIInv, FinishIInv DEF TaskSteps
<1>3. CASE Client
  BY <1>3, NotifyIInv DEF Client
<1>4. CASE User
  BY <1>4, EditIInv, OpenDocIInv, ConfigureIInv DEF User
<1>5. CASE UNCHANGED vars
  <2>1. UNCHANGED <<disk, unseen, queue, tasks, slot, open, selection, generation>>
    BY <1>5 DEF vars
  <2>2. Types'
    BY <2>1 DEF IInv, Types
  <2>3. \A r \in Roots : Good(r)'
    BY <2>1 DEF IInv, Good, Shape, Alone, Selected, Tracked, Noted, Settled, IsDone,
                  Stuck
  <2> QED BY <2>2, <2>3 DEF IInv
<1> QED BY <1>1, <1>2, <1>3, <1>4, <1>5 DEF Next

(* The invariant holds in every reachable state.                           *)
THEOREM Invariance == Spec => []IInv
BY InitIInv, NextIInv, PTL DEF Spec

(* "Script executions never overlap for a project": a project has at most  *)
(* one assembly running or reported, the one its slot waits for; a slot    *)
(* waits for nothing only when its bare workspace could not be opened.     *)
THEOREM AssembliesNeverOverlap == Spec => []OneAssemblyPerProject
<1>1. IInv => OneAssemblyPerProject
  <2> SUFFICES ASSUME IInv, NEW r \in Roots
               PROVE  LET running == {t \in tasks : t.root = r}
                      IN  /\ Cardinality(running) + Cardinality(Completions(r))
                                = (IF slot[r].active = 0 \/ Stuck(slot[r]) THEN 0 ELSE 1)
                          /\ \A t \in running : t.gen = slot[r].active
                          /\ \A i \in Completions(r) : queue[i].gen = slot[r].active
    BY DEF OneAssemblyPerProject
  <2> DEFINE running == {t \in tasks : t.root = r}
             done == Completions(r)
  <2>1. Alone(r) /\ Types
    BY DEF IInv, Good
  <2>2. /\ \A t, u \in running : t = u
        /\ \A i, j \in done : i = j
        /\ running = {} \/ done = {}
        /\ \A t \in running : t.gen = slot[r].active /\ slot[r].active # 0
        /\ \A i \in done : queue[i].gen = slot[r].active /\ slot[r].active # 0
        /\ slot[r].active # 0 => running # {} \/ done # {} \/ Stuck(slot[r])
        /\ Stuck(slot[r]) => running = {} /\ done = {}
    BY <2>1 DEF Alone, Completions, IsDone, Types, Job
  <2> HIDE DEF running, done
  <2>3. Cardinality({}) = 0 /\ \A x : Cardinality({x}) = 1
    BY FS_EmptySet, FS_Singleton
  <2>4. /\ Cardinality(running) = IF running = {} THEN 0 ELSE 1
        /\ Cardinality(done) = IF done = {} THEN 0 ELSE 1
    <3>1. ASSUME NEW S, \A x, y \in S : x = y
          PROVE  Cardinality(S) = IF S = {} THEN 0 ELSE 1
      <4>1. CASE S = {}
        BY <2>3, <4>1
      <4>2. CASE S # {}
        <5>1. PICK x \in S : TRUE
          BY <4>2
        <5>2. S = {x}
          BY <3>1, <5>1
        <5> QED BY <2>3, <4>2, <5>2
      <4> QED BY <4>1, <4>2
    <3> QED BY <2>2, <3>1
  <2>5. Cardinality(running) + Cardinality(done)
           = (IF slot[r].active = 0 \/ Stuck(slot[r]) THEN 0 ELSE 1)
    BY <2>2, <2>4
  <2> QED BY <2>2, <2>5 DEF running, done
<1> QED BY <1>1, Invariance, PTL

(* When everything has settled, a project whose last assembly succeeded    *)
(* was made from the selection in force and the project files as they are  *)
(* on disk; of the sources, unless the last refresh could not read them.   *)
THEOREM SettledAlwaysCurrent == Spec => []SettledIsCurrent
<1>1. IInv => SettledIsCurrent
  <2> SUFFICES ASSUME IInv, Quiet, NEW r \in Roots,
                      slot[r].state = "ready", slot[r].ended = "ok"
               PROVE  /\ slot[r].workspace.sel = selection
                      /\ slot[r].workspace.seen["input"] = disk[r]["input"]
                      /\ ~slot[r].unread =>
                            slot[r].workspace.seen["source"] = disk[r]["source"]
    BY DEF SettledIsCurrent
  <2>1. DOMAIN queue = {} /\ tasks = {} /\ unseen[r] = {} /\ Good(r)
    BY DEF Quiet, IInv
  <2>2. slot[r].active = 0
    BY <2>1 DEF Good, Alone, Shape
  <2>3. Settled(slot[r])
    BY <2>2 DEF Settled
  <2>4. \A k \in Watched : ~Noted(r, k) /\ Tracked(r, k)
    BY <2>1 DEF Noted, Good
  <2> QED BY <2>1, <2>3, <2>4 DEF Good, Selected, Tracked, Watched
<1> QED BY <1>1, Invariance, PTL

(* A loaded workspace that was assembled in full.                          *)
LastGood(s) == s.state = "ready" /\ s.workspace.kind = "full"

(* The fallback of a failed assembly is never installed over a last-good   *)
(* workspace, and neither a new run nor a refresh of the sources takes one *)
(* away.                                                                   *)
THEOREM LastGoodAlwaysKept == Spec => LastGoodKept
<1>1. ASSUME IInv, [Next]_vars, NEW r \in Roots, LastGood(slot[r])
      PROVE  LastGood(slot'[r])
  <2>1. /\ Types /\ slot[r] \in Slot /\ slot \in [Roots -> Slot]
        /\ slot[r].state = "ready" /\ Shape(slot[r])
    BY <1>1 DEF IInv, Types, LastGood, Good
  <2>2. CASE UNCHANGED slot
    BY <1>1, <2>2
  <2>3. ASSUME NEW rs \in SUBSET Roots, NEW sel \in Selections, RequestReassembly(rs, sel)
        PROVE  LastGood(slot'[r])
    <3>1. \/ slot'[r] = slot[r]
          \/ slot'[r] = [slot[r] EXCEPT !.rerun = TRUE]
          \/ \E g : slot'[r] = [slot[r] EXCEPT !.active = g, !.rerun = FALSE]
      BY <2>3 DEF RequestReassembly
    <3> QED BY <1>1, <2>1, <3>1 DEF LastGood, Slot
  <2>4. CASE DidOpen
    <3>1. \/ UNCHANGED slot
          \/ \E q : /\ slot[q].state = "absent"
                    /\ slot' = [slot EXCEPT ![q].state = "loading",
                                            ![q].active = generation + 1]
      BY <2>4 DEF DidOpen
    <3>2. slot'[r] = slot[r]
      BY <2>1, <3>1
    <3> QED BY <1>1, <3>2
  <2>5. CASE WatchedFilesChanged
    <3>1. PICK q \in Roots : q = Head(queue).root
      <4>1. Head(queue) \in Command /\ Head(queue).op = "watched"
        BY <2>1, <2>5, PopFacts DEF WatchedFilesChanged, Received
      <4> QED BY <4>1 DEF Command
    <3>2. \/ UNCHANGED slot
          \/ RequestReassembly({q}, selection)
          \/ Refresh(q)
      BY <2>5, <3>1 DEF WatchedFilesChanged
    <3>3. CASE UNCHANGED slot
      BY <1>1, <3>3
    <3>4. CASE RequestReassembly({q}, selection)
      BY <2>1, <2>3, <3>4 DEF Types
    <3>5. CASE Refresh(q)
      <4>1. CASE q # r
        <5>1. slot'[r] = slot[r]
          BY <2>1, <3>5, <4>1 DEF Refresh
        <5> QED BY <1>1, <5>1
      <4>2. CASE q = r
        BY <1>1, <2>1, <3>5, <4>2, RefreshFacts DEF LastGood
      <4> QED BY <4>1, <4>2
    <3> QED BY <3>2, <3>3, <3>4, <3>5
  <2>6. CASE SetFeatureSelection
    <3>1. UNCHANGED slot \/ RequestReassembly(Roots, Head(queue).sel)
      BY <2>6 DEF SetFeatureSelection
    <3>2. Head(queue).sel \in Selections
      <4>1. Head(queue) \in Command /\ Head(queue).op = "select"
        BY <2>1, <2>6, PopFacts DEF SetFeatureSelection, Received
      <4> QED BY <4>1 DEF Command
    <3> QED BY <2>2, <2>3, <3>1, <3>2
  <2>7. CASE WorkspaceReady
    <3>1. PICK q \in Roots : q = Head(queue).root
      <4>1. Head(queue) \in Command /\ Head(queue).op = "ready"
        BY <2>1, <2>7, PopFacts DEF WorkspaceReady, Received
      <4> QED BY <4>1 DEF Command
    <3>2. \/ UNCHANGED slot
          \/ slot' = [slot EXCEPT ![q] = [slot[q] EXCEPT !.active = generation + 1,
                                                        !.rerun = FALSE]]
          \/ slot' = [slot EXCEPT ![q] = Install(slot[q], Head(queue))]
          \/ /\ slot[q].state = "loading"
             /\ slot' = [slot EXCEPT ![q] = [slot[q] EXCEPT !.ended = "panicked"]]
      BY <2>7, <3>1 DEF WorkspaceReady, NeedsBare
    <3>3. CASE q # r
      <4>1. slot'[r] = slot[r]
        BY <2>1, <3>2, <3>3
      <4> QED BY <1>1, <4>1
    <3>4. CASE q = r
      <4>1. CASE slot'[r] = [slot[r] EXCEPT !.active = generation + 1, !.rerun = FALSE]
        BY <1>1, <2>1, <4>1 DEF LastGood, Slot
      <4>2. CASE slot'[r] = Install(slot[r], Head(queue))
        <5> DEFINE done == Head(queue)
                   w == [kind |-> done.outcome, sel |-> done.sel, seen |-> done.seen]
        <5>1. CASE done.outcome # "full"
          <6>1. slot'[r] = [slot[r] EXCEPT !.active = 0, !.ended = "failed"]
            BY <2>1, <4>2, <5>1 DEF Install
          <6> QED BY <1>1, <2>1, <6>1 DEF LastGood, Slot
        <5>2. CASE done.outcome = "full"
          <6>1. slot'[r] = [slot[r] EXCEPT !.state = "ready", !.active = 0,
                              !.policy = done.policy, !.workspace = w, !.unread = FALSE,
                              !.ended = "ok"]
            BY <4>2, <5>2 DEF Install
          <6>2. w.kind = "full"
            BY <5>2
          <6> HIDE DEF w
          <6>3. slot'[r].state = "ready" /\ slot'[r].workspace = w
            BY <2>1, <6>1 DEF Slot
          <6> QED BY <6>2, <6>3 DEF LastGood
        <5> QED BY <5>1, <5>2
      <4> QED BY <1>1, <2>1, <3>2, <3>4, <4>1, <4>2
    <3> QED BY <3>3, <3>4
  <2>8. CASE DidClose \/ TaskSteps \/ Client \/ User \/ UNCHANGED vars
    <3>1. UNCHANGED slot
      BY <2>8 DEF DidClose, TaskSteps, ReadProject, RunScript, AssembleGraph, FinishAssembly,
                  FailAssembly, Client, Notify, User, Edit, OpenDoc, CloseDoc, Configure,
                  actorState, vars
    <3> QED BY <1>1, <3>1
  <2> QED BY <1>1, <2>4, <2>5, <2>6, <2>7, <2>8 DEF Next, Actor
<1>2. IInv /\ [Next]_vars =>
        [\A r \in Roots :
           slot[r].state = "ready" /\ slot[r].workspace.kind = "full"
             => slot'[r].state = "ready" /\ slot'[r].workspace.kind = "full"]_vars
  BY <1>1 DEF LastGood
<1> QED BY <1>2, Invariance, PTL DEF LastGoodKept, Spec
=============================================================================
