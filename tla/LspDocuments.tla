---------------------------- MODULE LspDocuments ----------------------------
(***************************************************************************)
(* The open documents of the language server (jals-lsp, actor.rs and       *)
(* state.rs) and the requests about them.  The frontend puts notifications *)
(* and requests into one channel; the actor takes them in order, except    *)
(* that it reads ahead to apply a burst of changes to one document before  *)
(* it computes diagnostics.  Every open document is answered by its        *)
(* project once that has loaded, and until then by the group of open       *)
(* documents in its directory.  How a project comes to be assembled is     *)
(* LspWorkspaces; here a completed assembly is just one more command.      *)
(*                                                                         *)
(* A definition placed before one whose name its own name begins with is a *)
(* plausible bug of it; no specification uses it, the runs check that it   *)
(* would be noticed.                                                       *)
(***************************************************************************)
EXTENDS Naturals, Sequences, FiniteSets, FiniteSetsExt

CONSTANTS
    Docs,         \* document URIs
    Dir,          \* the directory of each: DetachedGroup::of
    Under,        \* the documents below the root of the one project
    Layouts,      \* what an assembly may find the project to own
    Scripts,      \* what it may find to be the build script, None included
    MaxInputs,    \* bound on what the client sends
    MaxRequests,  \* bound on the requests among it
    MaxAssembled, \* bound on completed assemblies
    None

ASSUME DocumentsAssumption ==
    /\ IsFiniteSet(Docs) /\ Under \subseteq Docs
    /\ Layouts \subseteq SUBSET Under
    /\ Scripts \subseteq Under \cup {None}
    /\ {MaxInputs, MaxRequests, MaxAssembled} \subseteq Nat

\* None is no document, no change in progress and no analysis.
ASSUME NoneAssumption ==
    /\ None \notin Docs
    /\ None \notin [uri : Docs, at : {"draining", "coalescing"}]
    /\ None \notin [by : Nat, with : SUBSET Docs, text : Nat]

VARIABLES
    channel,   \* the mpsc channel of commands
    pending,   \* the commands the coalescer set aside
    busy,      \* the didChange in progress: its document and how far it is
    client,    \* the client's text of each document; 0 when closed
    inputs,    \* what the client has sent; numbers texts and requests
    asked,     \* how many requests it has sent
    waiting,   \* requests whose reply the client still waits for
    sent,      \* the token sets sent to the client
    store,     \* DocumentStore: the text of each open document, else 0
    slot,      \* the project's WorkspaceSlot
    overlay,   \* the texts laid over the project's files, else 0
    mounted,   \* the texts held by the detached groups, else 0
    shown,     \* the diagnostics the client shows for each document
    tokens,    \* semantic_tokens_cache
    resultId   \* semantic_tokens_result_id

vars == <<channel, pending, busy, client, inputs, asked, waiting, sent, store, slot,
          overlay, mounted, shown, tokens, resultId>>

queues == <<channel, pending>>
clientState == <<client, inputs, asked, waiting>>
answers == <<sent, tokens, resultId>>
analyses == <<slot, overlay, mounted, shown>>

\* Texts and requests are numbered by the client's inputs.
Text == 0 .. MaxInputs

\* Only a loaded project owns documents or knows its script; `assembled`
\* tells one workspace from the next.  A slot is stuck when its first load
\* failed and not even its bare workspace could be opened: it is loading for
\* the code, and no assembly will ever run for it.
Absent == [state |-> "absent", owned |-> {}, script |-> None, assembled |-> 0]

Init ==
    /\ channel = <<>> /\ pending = <<>>
    /\ busy = None
    /\ client = [d \in Docs |-> 0]
    /\ inputs = 0 /\ asked = 0
    /\ waiting = {}
    /\ sent = {}
    /\ store = [d \in Docs |-> 0]
    /\ slot = Absent
    /\ overlay = [d \in Docs |-> 0]
    /\ mounted = [d \in Docs |-> 0]
    /\ shown = [d \in Docs |-> None]
    /\ tokens = [d \in Docs |-> None]
    /\ resultId = 0

-----------------------------------------------------------------------------
(* The client and the frontend (server.rs), which enqueues what it gets.   *)

Send(cmd) == channel' = Append(channel, cmd)

Input(cmd) ==
    /\ inputs < MaxInputs
    /\ inputs' = inputs + 1
    /\ Send(cmd)
    /\ UNCHANGED <<pending, busy, store, answers, analyses>>

OpenDoc(d) ==
    /\ client[d] = 0
    /\ Input([op |-> "open", uri |-> d, text |-> inputs + 1])
    /\ client' = [client EXCEPT ![d] = inputs + 1]
    /\ UNCHANGED <<asked, waiting>>

ChangeDoc(d) ==
    /\ client[d] # 0
    /\ Input([op |-> "change", uri |-> d, text |-> inputs + 1])
    /\ client' = [client EXCEPT ![d] = inputs + 1]
    /\ UNCHANGED <<asked, waiting>>

CloseDoc(d) ==
    /\ client[d] # 0
    /\ Input([op |-> "close", uri |-> d])
    /\ client' = [client EXCEPT ![d] = 0]
    /\ UNCHANGED <<asked, waiting>>

\* A request is about the text the client has when it asks.  A delta names
\* any token set the client was ever sent for the document.
Ask(d, kind, previous) ==
    /\ client[d] # 0
    /\ asked < MaxRequests
    /\ asked' = asked + 1
    /\ Input([op |-> kind, uri |-> d, id |-> inputs + 1, about |-> client[d],
              previous |-> previous])
    /\ waiting' = waiting \cup {inputs + 1}
    /\ UNCHANGED client

Request(d) ==
    \/ Ask(d, "query", 0)
    \/ Ask(d, "full", 0)
    \/ \E s \in sent : s.uri = d /\ Ask(d, "delta", s.id)

\* $/cancelRequest drops the frontend's receiver.
Cancel(id) ==
    /\ waiting' = waiting \ {id}
    /\ UNCHANGED <<queues, busy, client, inputs, asked, store, answers, analyses>>

\* A watched change of an authored source.
NotifyWatched ==
    /\ slot.state # "absent"
    /\ Input([op |-> "watched"])
    /\ UNCHANGED <<client, asked, waiting>>

\* A spawned assembly ends: with the project as its manifest describes it,
\* with a failure and the root project alone as a fallback, or with nothing,
\* when the root itself becomes the only source root.
Assembled(result, owned, script) ==
    /\ slot.state \notin {"absent", "stuck"}
    /\ slot.assembled < MaxAssembled
    /\ \A q \in {channel, pending} : \A i \in DOMAIN q : q[i].op # "ready"
    /\ Send([op |-> "ready", result |-> result, owned |-> owned, script |-> script])
    /\ UNCHANGED <<pending, busy, clientState, store, answers, analyses>>

-----------------------------------------------------------------------------
(* Routing and diagnostics.  What a step leaves behind is computed on the  *)
(* record of the analyses and the diagnostics.                             *)

Analyses == [overlay |-> overlay, mounted |-> mounted, shown |-> shown]

Become(a) ==
    /\ overlay' = a.overlay
    /\ mounted' = a.mounted
    /\ shown' = a.shown

Owns(s, d) == s.state = "ready" /\ d \in s.owned

\* The members of d's detached group.
Group(m, d) == {e \in Docs : m[e] # 0 /\ Dir[e] = Dir[d]}

\* workspace_for: which analysis answers for d, and from which text.
WorkspaceFor(a, s, d) ==
    IF Owns(s, d)
    THEN [by |-> s.assembled, with |-> {}, text |-> a.overlay[d]]
    ELSE IF a.mounted[d] # 0
    THEN [by |-> 0, with |-> Group(a.mounted, d), text |-> a.mounted[d]]
    ELSE None

\* publish_diagnostics of each of ds that is open in st.
Publish(a, s, st, ds) ==
    [a EXCEPT !.shown = [d \in Docs |-> IF d \in ds /\ st[d] # 0
                                        THEN WorkspaceFor(a, s, d) ELSE @[d]]]

\* DetachedWorkspaces::forget, then republish of the groups' survivors.
ForgetSilently(a, s, st, ds) ==
    [a EXCEPT !.mounted = [d \in Docs |-> IF d \in ds THEN 0 ELSE @[d]]]

Forget(a, s, st, ds) ==
    LET left == [a EXCEPT !.mounted = [d \in Docs |-> IF d \in ds THEN 0 ELSE @[d]]]
        affected == UNION {Group(left.mounted, d) : d \in {e \in ds : a.mounted[e] # 0}}
    IN  Publish(left, s, st, affected)

\* DetachedWorkspaces::mount, then republish of the others if d is new.
Mount(a, s, st, d) ==
    LET held == [a EXCEPT !.mounted[d] = st[d]]
    IN  IF a.mounted[d] # 0 THEN held
        ELSE Publish(held, s, st, Group(held.mounted, d) \ {d})

RouteDocument(a, s, st, d) ==
    IF Owns(s, d)
    THEN Forget([a EXCEPT !.overlay[d] = st[d]], s, st, {d})
    ELSE Mount(a, s, st, d)

\* refresh_and_publish; the script's diagnostics are the assembly's.
RefreshAndPublish(a, s, st, d) ==
    IF d = s.script \/ st[d] = 0 THEN a
    ELSE Publish(RouteDocument(a, s, st, d), s, st, {d})

\* The same for each of ds in turn.  The code goes through them in the
\* arbitrary order of a hash map; what they leave behind is the same.
RefreshAll(a, s, st, ds) ==
    FoldSet(LAMBDA d, acc : RefreshAndPublish(acc, s, st, d), a, ds)

-----------------------------------------------------------------------------
(* The actor loop.                                                         *)

\* run: set-aside commands come before the channel.
Next1 == Head(pending \o channel)

Taken(op) ==
    /\ busy = None
    /\ pending \o channel # <<>>
    /\ Next1.op = op
    /\ pending' = IF pending # <<>> THEN Tail(pending) ELSE pending
    /\ channel' = IF pending # <<>> THEN channel ELSE Tail(channel)
    /\ UNCHANGED <<client, inputs, asked>>

\* did_open, with ensure_workspace_for.
DidOpen ==
    /\ Taken("open")
    /\ LET d == Next1.uri
           st == [store EXCEPT ![d] = Next1.text]
           s == IF d \in Under /\ slot.state = "absent"
                THEN [slot EXCEPT !.state = "loading"] ELSE slot
       IN  /\ store' = st
           /\ slot' = s
           /\ Become(RefreshAndPublish(Analyses, s, st, d))
    /\ UNCHANGED <<busy, waiting, answers>>

ApplyChange(cmd) == store' = [store EXCEPT ![cmd.uri] = IF @ = 0 THEN 0 ELSE cmd.text]

\* did_change: apply the first change ...
DidChange ==
    /\ Taken("change")
    /\ ApplyChange(Next1)
    /\ busy' = [uri |-> Next1.uri, at |-> "draining"]
    /\ UNCHANGED <<waiting, answers, analyses>>

\* ... set aside everything that has arrived since ...
Drain ==
    /\ busy # None /\ busy.at = "draining"
    /\ pending' = pending \o channel
    /\ channel' = <<>>
    /\ busy' = [busy EXCEPT !.at = "coalescing"]
    /\ UNCHANGED <<clientState, store, answers, analyses>>

MoreOf(uri) == pending # <<>> /\ Head(pending).op = "change" /\ Head(pending).uri = uri

CoalesceAnywhere ==
    /\ busy # None /\ busy.at = "coalescing"
    /\ \E i \in DOMAIN pending :
          /\ pending[i].op = "change" /\ pending[i].uri = busy.uri
          /\ ApplyChange(pending[i])
          /\ pending' = SubSeq(pending, 1, i - 1) \o SubSeq(pending, i + 1, Len(pending))
    /\ UNCHANGED <<channel, busy, clientState, answers, analyses>>

\* ... apply the changes of the same document that follow at once ...
Coalesce ==
    /\ busy # None /\ busy.at = "coalescing"
    /\ MoreOf(busy.uri)
    /\ ApplyChange(Head(pending))
    /\ pending' = Tail(pending)
    /\ UNCHANGED <<channel, busy, clientState, answers, analyses>>

\* ... and publish once.
FinishChange ==
    /\ busy # None /\ busy.at = "coalescing"
    /\ ~MoreOf(busy.uri)
    /\ Become(RefreshAndPublish(Analyses, slot, store, busy.uri))
    /\ busy' = None
    /\ UNCHANGED <<queues, clientState, store, slot, answers>>

DidClose ==
    /\ Taken("close")
    /\ LET d == Next1.uri
           st == [store EXCEPT ![d] = 0]
           a == Forget(Analyses, slot, st, {d})
       IN  /\ store' = st
           /\ tokens' = [tokens EXCEPT ![d] = None]
           /\ Become(IF d = slot.script THEN a ELSE [a EXCEPT !.shown[d] = None])
    /\ UNCHANGED <<busy, waiting, sent, resultId, slot>>

\* refresh_workspace_from_disk of a loaded project; one still loading is
\* marked to be assembled again.
WatchedFilesChanged ==
    /\ Taken("watched")
    /\ Become(IF slot.state = "ready" THEN RefreshAll(Analyses, slot, store, Under)
              ELSE Analyses)
    /\ UNCHANGED <<busy, waiting, store, slot, answers>>

\* build_script_diagnostic_publications, then install_workspace: a fresh
\* index without overlays, into which the open documents are replayed.
InstallWorkspace(s) ==
    LET script == [d \in Docs |-> IF d = s.script THEN [by |-> s.assembled, with |-> {}, text |-> 0]
                                  ELSE IF d = slot.script THEN None ELSE shown[d]]
        fresh == [overlay |-> [d \in Docs |-> 0], mounted |-> mounted, shown |-> script]
    IN  Become(RefreshAll(Forget(fresh, s, store, Under), s, store, Under))

\* workspace_ready of the assembly the slot waits for.  A failure keeps a
\* loaded workspace and gives a loading one its fallback or a bare one;
\* opening that may panic, which abandons the command.
WorkspaceReady ==
    /\ Taken("ready")
    /\ \/ /\ Next1.result # "full" /\ slot.state = "ready"
          /\ UNCHANGED analyses
       \/ /\ Next1.result = "full" \/ slot.state = "loading"
          /\ slot' = [state |-> "ready", assembled |-> slot.assembled + 1,
                      owned |-> Next1.owned, script |-> Next1.script]
          /\ InstallWorkspace(slot')
       \/ /\ Next1.result = "bare" /\ slot.state = "loading"
          /\ slot' = [slot EXCEPT !.state = "stuck"]
          /\ UNCHANGED <<overlay, mounted, shown>>
    /\ UNCHANGED <<busy, waiting, store, answers>>

-----------------------------------------------------------------------------
(* Requests.                                                               *)

\* respond: a request nobody waits for any more is skipped.  A panic in the
\* work is caught and answered with an error.
Skip(op) ==
    /\ Taken(op)
    /\ Next1.id \notin waiting
    /\ UNCHANGED <<busy, waiting, store, answers, analyses>>

Panicked(op) ==
    /\ Taken(op)
    /\ Next1.id \in waiting
    /\ waiting' = waiting \ {Next1.id}
    /\ UNCHANGED <<busy, store, answers, analyses>>

\* The reply goes to the client, whatever the analysis found.
Answer(op) ==
    /\ Taken(op)
    /\ Next1.id \in waiting
    /\ waiting' = waiting \ {Next1.id}
    /\ UNCHANGED <<busy, store, analyses>>

AnswerQuery == Answer("query") /\ UNCHANGED answers

\* A token response is tagged with a fresh id and kept as the baseline; a
\* document no analysis answers for gets none.
SendTokens ==
    LET d == Next1.uri
        data == WorkspaceFor(Analyses, slot, d)
    IN  IF data = None THEN UNCHANGED <<sent, tokens, resultId>>
        ELSE /\ resultId' = resultId + 1
             /\ tokens' = [tokens EXCEPT ![d] = [id |-> resultId', data |-> data]]
             /\ sent' = sent \cup {[uri |-> d, id |-> resultId', data |-> data]}

AnswerFull == Answer("full") /\ SendTokens

\* The baseline a delta is computed from, if the client's is still cached.
BaselineAny(d, previous) == IF tokens[d] = None THEN None ELSE tokens[d].data

Baseline(d, previous) ==
    IF tokens[d] # None /\ tokens[d].id = previous THEN tokens[d].data ELSE None

\* With a baseline the reply is the edits from it to the current tokens,
\* without one the current tokens.
AnswerDelta == Answer("delta") /\ SendTokens

-----------------------------------------------------------------------------
Client ==
    \/ \E d \in Docs : OpenDoc(d) \/ ChangeDoc(d) \/ CloseDoc(d) \/ Request(d)
    \/ \E id \in waiting : Cancel(id)
    \/ NotifyWatched

Assembly ==
    \/ \E result \in {"full", "fallback"}, owned \in Layouts, script \in Scripts :
          Assembled(result, owned, script)
    \/ Assembled("bare", Under, None)

Actor ==
    \/ DidOpen \/ DidChange \/ Drain \/ Coalesce \/ FinishChange \/ DidClose
    \/ WatchedFilesChanged \/ WorkspaceReady
    \/ AnswerQuery \/ AnswerFull \/ AnswerDelta
    \/ \E op \in {"query", "full", "delta"} : Skip(op) \/ Panicked(op)

Next == Client \/ Assembly \/ Actor

Spec == Init /\ [][Next]_vars

-----------------------------------------------------------------------------
View == [by : 0 .. MaxAssembled, with : SUBSET Docs, text : Text]

\* The shape of the state.
TypeOK ==
    /\ \A q \in {channel, pending} : \A i \in DOMAIN q :
          q[i].op \in {"open", "change", "close", "watched", "ready", "query", "full", "delta"}
    /\ busy \in [uri : Docs, at : {"draining", "coalescing"}] \cup {None}
    /\ client \in [Docs -> Text] /\ store \in [Docs -> Text]
    /\ inputs \in 0 .. MaxInputs /\ asked \in 0 .. MaxRequests
    /\ waiting \subseteq 1 .. inputs
    /\ slot \in [state : {"absent", "loading", "stuck", "ready"}, owned : SUBSET Under,
                 script : Scripts \cup {None}, assembled : 0 .. MaxAssembled]
    /\ overlay \in [Docs -> Text] /\ mounted \in [Docs -> Text]
    /\ shown \in [Docs -> View \cup {None}]
    /\ tokens \in [Docs -> [id : 1 .. resultId, data : View] \cup {None}]

\* The actor is about to answer a request the client waits for.
Answering ==
    /\ busy = None /\ pending \o channel # <<>>
    /\ Next1.op \in {"query", "full", "delta"}
    /\ Next1.id \in waiting

\* "Requests observe the document version at which they arrived"
\* (did_change), although the actor reads ahead through two queues: an
\* answer is computed from exactly the text the client had when it asked,
\* and an analysis is always there to give one.  Only the build script is
\* not the input of any.
RequestSeesItsText ==
    Answering /\ Next1.uri # slot.script =>
        LET found == WorkspaceFor(Analyses, slot, Next1.uri)
        IN  found # None /\ found.text = Next1.about

\* What the client shows for an open document was computed from its current
\* text, by the analysis that answers for it now, with the siblings its
\* group has now; for a closed one it shows nothing.  ("Changing this is
\* therefore a change no test will catch", republish.)
ShownIsCurrent ==
    busy = None =>
        \A d \in Docs \ {slot.script} :
            shown[d] = IF store[d] = 0 THEN None ELSE WorkspaceFor(Analyses, slot, d)

\* A delta is computed from exactly the token set the client holds under
\* the id it named, across edits, closes, reopens, cancelled requests and a
\* change of the analysis that answers.
DeltaFitsBaseline ==
    Answering /\ Next1.op = "delta" =>
        LET base == Baseline(Next1.uri, Next1.previous)
        IN  base # None => [uri |-> Next1.uri, id |-> Next1.previous, data |-> base] \in sent

\* "Authored Java changes under existing source roots refresh the editor
\* snapshot" (jals-lsp/README.md): after the refresh the project reads every
\* file that is not open from the disk.
RefreshReadsClosedFiles ==
    [][Taken("watched") /\ slot.state = "ready" =>
          \A d \in slot.owned : store[d] = 0 => overlay'[d] = 0]_vars
=============================================================================
