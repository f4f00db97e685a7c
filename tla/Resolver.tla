------------------------------ MODULE Resolver ------------------------------
(***************************************************************************)
(* The version resolver (jals-resolve, `Resolver::resolve`).               *)
(*                                                                         *)
(* A resolution is a loop of passes.  A pass walks the graph from the      *)
(* roots with two queues: the package queue chooses one version per name   *)
(* and discovers edges, the feature queue closes the feature graphs and    *)
(* may discover more.  When both are empty the choices are compared with   *)
(* every requirement the pass met, and the corrected choices are the pins  *)
(* of the next pass; a pass that confirms its own pins ends the loop.      *)
(*                                                                         *)
(* A requirement is the set of versions it matches, so the conjunction of  *)
(* a name's requirements is an intersection.  What the provider publishes  *)
(* for a version never changes; which versions it lists may grow at any    *)
(* moment.  Checksums, warnings and the order of reported lists are left   *)
(* out.                                                                    *)
(***************************************************************************)
EXTENDS Integers, Sequences, FiniteSets, SequencesExt, FiniteSetsExt

CONSTANTS
  Order,          \* the package names, as a sequence in their sorted order
  Versions,       \* a finite set of integers
  FeatureNames,   \* the feature names, "default" and the labels included
  MaxRounds       \* Resolver::max_rounds

Names == ToSet(Order)
None == [version |-> 0, source |-> "none"]

ASSUME ResolverAssumption ==
  /\ Order \in Seq(Names)
  /\ Versions \subseteq Nat \ {0}
  /\ IsFiniteSet(Versions)
  /\ MaxRounds \in Nat \ {0}
  /\ "default" \in FeatureNames

VARIABLES
  universe,    \* what each published version declares
  published,   \* name -> the versions the provider lists now
  roots,       \* the root requests, in order
  lock,        \* name -> the locked id, or None
  pins,        \* name -> the id the previous pass ended with, or None
  round,       \* passes started
  phase,       \* "seed" | "walk" | "done" | "failed"
  error,       \* why the resolution failed, or "none"
  candidates,  \* (source, name) pairs already listed -> versions, kept across passes
  summaries,   \* the ids whose summaries were read, kept across passes
  pass         \* the state of the current pass

rvars == <<universe, published, roots, lock, pins, round, phase, error,
           candidates, summaries, pass>>

-----------------------------------------------------------------------------
(* Lookups. *)

RootNames == {roots[i].name : i \in DOMAIN roots}
RootOf(n) == roots[Max({i \in DOMAIN roots : roots[i].name = n})]
RootId(r) == [version |-> r.version, source |-> "workspace"]

\* The summary of the id chosen for `n`.
SummaryOf(p, n) ==
  IF n \in RootNames THEN RootOf(n).summary ELSE universe[n][p.chosen[n].version]

\* The dependency a label names: the first one declared with it.
Labelled(s, label) == {i \in DOMAIN s.dependencies : s.dependencies[i].name = label}
Dependency(s, label) == s.dependencies[Min(Labelled(s, label))]

-----------------------------------------------------------------------------
(* One pass. *)

NoRequest == [selected |-> {}, forwarded |-> {}, defaults |-> FALSE]
NoDeclaration == [source |-> "none"]
NotExpanded == [known |-> FALSE, enabled |-> {}, activated |-> {}, routes |-> {}]

EmptyPass ==
  [chosen    |-> [n \in Names |-> None],
   allowed   |-> [n \in Names |-> Versions],   \* meets every requirement so far
   rep       |-> [n \in Names |-> NoDeclaration],   \* the first edge to each name
   requested |-> [n \in Names |-> NoRequest],
   expanded  |-> [n \in Names |-> NotExpanded],
   edges     |-> [n \in Names |-> {}],
   packages  |-> <<>>,
   features  |-> <<>>,
   conflict  |-> FALSE]

\* The elements of `s` at some of its positions.
Kept(s, at) ==
  LET upto[i \in 0..Len(s)] ==
        IF i = 0 THEN <<>>
        ELSE IF i \in at THEN Append(upto[i - 1], s[i]) ELSE upto[i - 1]
  IN upto[Len(s)]

\* Record the active edges `ds` of one package and queue their targets; two
\* sources for one name are an error, which ends the walk.
EnqueueAll(p, from, ds) ==
  LET to(t)   == {i \in DOMAIN ds : ds[i].package = t}
      rep     == [t \in Names |-> IF p.rep[t] # NoDeclaration \/ to(t) = {} THEN p.rep[t]
                                  ELSE ds[Min(to(t))]]
      requested == [t \in Names |->
        [selected  |-> p.requested[t].selected \cup UNION {ds[i].features : i \in to(t)},
         forwarded |-> p.requested[t].forwarded,
         defaults  |-> p.requested[t].defaults \/ \E i \in to(t) : ds[i].defaults]]
      targets == [i \in DOMAIN ds |-> ds[i].package]
  IN [p EXCEPT
       !.conflict = @ \/ \E i \in DOMAIN ds : rep[ds[i].package].source # ds[i].source,
       !.rep = rep,
       !.allowed = [t \in Names |-> {v \in @[t] : \A i \in to(t) : v \in ds[i].req}],
       !.requested = requested,
       !.edges[from] = @ \cup {ds[i] : i \in DOMAIN ds},
       !.features = @ \o targets,
       !.packages = @ \o targets]

\* A root's own choice, its selection, and its edges that need no activation.
SeedRoot(p, r) ==
  LET forwards == {e \in r.features : e.kind = "route"
                                      /\ Labelled(r.summary, e.label) # {}}
      routed   == [n \in Names |->
                     {e.feature : e \in {f \in forwards :
                        Dependency(r.summary, f.label).package = n}}]
      seeded   == [p EXCEPT
        !.chosen[r.name] = RootId(r),
        !.requested = [n \in Names |->
          IF n = r.name
          THEN [selected |-> {e.feature : e \in {f \in r.features : f.kind = "feature"}},
                forwarded |-> {}, defaults |-> r.defaults]
          ELSE [p.requested[n] EXCEPT !.forwarded = @ \cup routed[n]]],
        !.features = Append(@, r.name)]
      ds == r.summary.dependencies
  IN EnqueueAll(seeded, r.name,
       Kept(ds, {i \in DOMAIN ds : ~ds[i].optional /\ (~ds[i].dev \/ r.includeDev)}))

\* Every seeded name that has a choice is queued once more for expansion.
Seeded ==
  LET seed[i \in 0..Len(roots)] ==
        IF i = 0 THEN EmptyPass ELSE SeedRoot(seed[i - 1], roots[i])
      p == seed[Len(roots)]
  IN [p EXCEPT !.features =
        @ \o Kept(Order, {i \in DOMAIN Order : p.chosen[Order[i]] # None})]

\* The names a drained package queue must choose, each once, in queue order.
ToChoose(p) ==
  LET queue == p.packages IN
  Kept(queue, {i \in DOMAIN queue :
                 /\ queue[i] \notin RootNames
                 /\ p.chosen[queue[i]] = None
                 /\ \A j \in 1..(i - 1) : queue[j] # queue[i]})

\* The pin when it meets every requirement seen so far, else the greatest
\* listed version that does.
Select(listed, allowed, pin, source) ==
  IF pin # None /\ pin.source = source /\ pin.version \in allowed THEN pin
  ELSE IF listed \cap allowed = {} THEN None
  ELSE [version |-> Max(listed \cap allowed), source |-> source]

\* The feature graph of one summary, closed from `seed`.
Expand(s, seed, defaults) ==
  LET start  == seed \cup (IF defaults THEN {"default"} ELSE {})
      values(fs) == UNION {s.features[f] : f \in fs \cap DOMAIN s.features}
      step(fs) == fs \cup {v.feature : v \in {w \in values(fs) : w.kind = "feature"}}
      close[k \in 0..Cardinality(FeatureNames)] ==
        IF k = 0 THEN start ELSE step(close[k - 1])
      closed == close[Cardinality(FeatureNames)]
      enabled == closed \ {"default"}
      explicit == {v.label : v \in {w \in values(DOMAIN s.features) : w.kind = "dep"}}
      implicit == {s.dependencies[i].name : i \in
                     {j \in DOMAIN s.dependencies : s.dependencies[j].optional}}
                  \ explicit
  IN [known     |-> TRUE,
      enabled   |-> enabled,
      activated |-> {v.label : v \in {w \in values(closed) : w.kind = "dep"}}
                    \cup (implicit \cap enabled),
      routes    |-> {v \in values(closed) : v.kind = "route"}]

-----------------------------------------------------------------------------
(* The steps of a resolution. *)

Fail(why) ==
  /\ phase' = "failed"
  /\ error' = why
  /\ UNCHANGED <<universe, published, roots, lock, pins, round, candidates,
                 summaries, pass>>

SeedRoots ==
  /\ phase = "seed"
  /\ LET p == Seeded IN
     IF p.conflict THEN Fail("ConflictingSources")
     ELSE /\ pass' = p
          /\ phase' = "walk"
          /\ UNCHANGED <<universe, published, roots, lock, pins, round, error,
                         candidates, summaries>>

\* A root in the queue whose version some requirement refuses.
RootRefused(p) ==
  \E n \in ToSet(p.packages) \cap RootNames : RootOf(n).version \notin p.allowed[n]

\* The Maven provider's answer to a declaration: an exact requirement is its own
\* list, anything else reads the index; a compatible locked version is added.
Candidates(n, d) ==
  (IF d.exact THEN d.req ELSE published[n])
  \cup (IF lock[n].source = d.source THEN {lock[n].version} ELSE {})

\* The candidate lists after the batch: the first edge to a name asks for its
\* list, once per resolution.
ListedAfter(names) ==
  LET key(n) == <<pass.rep[n].source, n>> IN
  [k \in DOMAIN candidates \cup {key(n) : n \in names} |->
     IF k \in DOMAIN candidates THEN candidates[k] ELSE Candidates(k[2], pass.rep[k[2]])]

ChosenAfter(names, listed) ==
  [n \in Names |->
     IF n \in names
     THEN Select(listed[<<pass.rep[n].source, n>>], pass.allowed[n], pins[n], pass.rep[n].source)
     ELSE pass.chosen[n]]

\* Edge discovery of the names just chosen, in the order they were chosen.
Discovered(batch, chosen) ==
  LET drained == [pass EXCEPT !.packages = <<>>, !.chosen = chosen]
      ds(n) == SummaryOf(drained, n).dependencies
      plain(n) == Kept(ds(n), {i \in DOMAIN ds(n) : ~ds(n)[i].dev /\ ~ds(n)[i].optional})
      found[i \in 0..Len(batch)] ==
        IF i = 0 THEN drained
        ELSE EnqueueAll([found[i - 1] EXCEPT !.features = Append(@, batch[i])],
                        batch[i], plain(batch[i]))
  IN found[Len(batch)]

\* Drain the package queue: check the roots in it, list and choose the rest as
\* one batch, and discover the edges of what was chosen.  The provider may fail
\* to list candidates, or to read summaries, that no earlier pass has read.
ProcessPackages ==
  /\ phase = "walk"
  /\ pass.packages # <<>>
  /\ LET batch  == ToChoose(pass)
         names  == ToSet(batch)
         listed == ListedAfter(names)
         chosen == ChosenAfter(names, listed)
         read   == {<<n, chosen[n]>> : n \in names}
         next   == Discovered(batch, chosen)
     IN \/ RootRefused(pass) /\ Fail("NoMatchingVersion")
        \/ /\ ~RootRefused(pass)
           /\ DOMAIN listed # DOMAIN candidates
           /\ Fail("Provider")
        \/ /\ ~RootRefused(pass)
           /\ \E n \in names : chosen[n] = None
           /\ Fail("NoMatchingVersion")
        \/ /\ ~RootRefused(pass)
           /\ \A n \in names : chosen[n] # None
           /\ \/ ~(read \subseteq summaries) /\ Fail("Provider")
              \/ next.conflict /\ Fail("ConflictingSources")
              \/ /\ ~next.conflict
                 /\ \A n \in names : chosen[n].version \in DOMAIN universe[n]
                 /\ pass' = next
                 /\ candidates' = listed
                 /\ summaries' = summaries \cup read
                 /\ UNCHANGED <<universe, published, roots, lock, pins, round,
                                phase, error>>

RoutedOnly(p, s, e) ==
  LET routes(t) == {v \in e.routes : /\ v.label \in Names
                                     /\ Labelled(s, v.label) # {}
                                     /\ Dependency(s, v.label).package = t}
  IN [p EXCEPT !.requested = [t \in Names |->
        [p.requested[t] EXCEPT !.forwarded = @ \cup {v.feature : v \in routes(t)}]]]

\* The forwards of an expansion, label by label; a target that gains one is
\* expanded again.
Routed(p, s, e) ==
  LET sent(l)   == {v.feature : v \in {w \in e.routes : w.label = l}}
      target(l) == Dependency(s, l).package
      to(t)     == {i \in DOMAIN Order : Labelled(s, Order[i]) # {} /\ target(Order[i]) = t}
      first(t, k) == UNION {sent(Order[i]) : i \in {j \in to(t) : j < k}}
      gains(i)  == \E t \in Names :
                     /\ i \in to(t)
                     /\ ~(sent(Order[i]) \subseteq p.requested[t].forwarded \cup first(t, i))
      gaining   == Kept(Order, {i \in DOMAIN Order : gains(i)})
  IN [p EXCEPT
       !.requested = [t \in Names |->
         [p.requested[t] EXCEPT !.forwarded = @ \cup first(t, Len(Order) + 1)]],
       !.features = @ \o [i \in DOMAIN gaining |-> target(gaining[i])]]

\* Expand one name; what the expansion adds is routed to its targets and the
\* optional dependencies it turns on become edges.
Expanded(p, n) ==
  LET s == SummaryOf(p, n)
      q == p.requested[n]
      e == Expand(s, q.selected \cup q.forwarded, q.defaults)
      turnedOn(label) == /\ label \in e.activated \ p.expanded[n].activated
                         /\ Labelled(s, label) # {}
      dep(label) == Dependency(s, label)
      on == Kept(Order, {i \in DOMAIN Order : turnedOn(Order[i])})
  IN IF p.chosen[n] = None \/ p.expanded[n] = e THEN p
     ELSE EnqueueAll(Routed([p EXCEPT !.expanded[n] = e], s, e), n,
                     [i \in DOMAIN on |-> dep(on[i])])

ExpandFeatures ==
  /\ phase = "walk"
  /\ pass.packages = <<>>
  /\ pass.features # <<>>
  /\ LET p == Expanded([pass EXCEPT !.features = Tail(@)], Head(pass.features)) IN
     IF p.conflict THEN Fail("ConflictingSources")
     ELSE /\ pass' = p
          /\ UNCHANGED <<universe, published, roots, lock, pins, round, phase,
                         error, candidates, summaries>>

\* The choices, each replaced by the greatest listed version when a
\* requirement met after the choice refuses it.
CorrectedNever ==
  [n \in Names |-> pass.chosen[n]]

Corrected ==
  [n \in Names |->
     IF pass.chosen[n] = None \/ pass.chosen[n].version \in pass.allowed[n]
     THEN pass.chosen[n]
     ELSE Select(candidates[<<pass.rep[n].source, n>>], pass.allowed[n], None,
                 pass.rep[n].source)]

SameRound(r) == r
NextRound(r) == r + 1

\* The end of a pass.
Validate ==
  /\ phase = "walk"
  /\ pass.packages = <<>>
  /\ pass.features = <<>>
  /\ LET corrected == Corrected IN
     IF \E n \in Names : pass.chosen[n] # None /\ corrected[n] = None
     THEN Fail("NoMatchingVersion")
     ELSE \/ /\ corrected = pins
             /\ phase' = "done"
             /\ UNCHANGED <<universe, published, roots, lock, pins, round, error,
                            candidates, summaries, pass>>
          \/ /\ corrected # pins
             /\ NextRound(round) > MaxRounds
             /\ Fail("NotConverged")
          \/ /\ corrected # pins
             /\ NextRound(round) <= MaxRounds
             /\ pins' = corrected
             /\ round' = NextRound(round)
             /\ phase' = "seed"
             /\ UNCHANGED <<universe, published, roots, lock, error, candidates,
                            summaries, pass>>

\* A release appears in the registry while a resolution runs, or between two.
Publish ==
  /\ \E n \in Names : \E v \in Versions \ published[n] :
       /\ v \in DOMAIN universe[n]
       /\ published' = [published EXCEPT ![n] = @ \cup {v}]
  /\ UNCHANGED <<universe, roots, lock, pins, round, phase, error, candidates,
                 summaries, pass>>

-----------------------------------------------------------------------------
(* A resolution from its start. *)

Resolve(rs, l) ==
  /\ roots' = rs
  /\ lock' = l
  /\ pins' = l
  /\ round' = 1
  /\ phase' = "seed"
  /\ error' = "none"
  /\ candidates' = <<>>
  /\ summaries' = {}
  /\ pass' = EmptyPass

ResolverStep == SeedRoots \/ ProcessPackages \/ ExpandFeatures \/ Validate

\* What a finished resolution locks: every choice but the roots.
Lockfile == [n \in Names |-> IF n \in RootNames THEN None ELSE pass.chosen[n]]

-----------------------------------------------------------------------------
(* What a resolution promises. *)

\* Type correctness of the resolver's state (`Resolver` and `Pass`).
ResolverTypeOK ==
  LET ids == [version : Versions, source : STRING] \cup {None} IN
  /\ published \in [Names -> SUBSET Versions]
  /\ lock \in [Names -> ids]
  /\ pins \in [Names -> ids]
  /\ round \in 1..MaxRounds
  /\ phase \in {"seed", "walk", "done", "failed"}
  /\ pass.chosen \in [Names -> ids]
  /\ ToSet(pass.packages) \cup ToSet(pass.features) \subseteq Names

Active(n) == pass.edges[n]

\* A finished graph satisfies every requirement and source of every edge in
\* it, the ones met after their target was chosen included, and no name of it
\* is without a version (`Pass::validate`).
RequirementsMet ==
  phase = "done" =>
    \A n \in Names : \A d \in Active(n) :
      /\ pass.chosen[d.package] # None
      /\ pass.chosen[d.package].version \in d.req
      /\ d.package \notin RootNames => pass.chosen[d.package].source = d.source

\* Against a provider whose lists do not change, a resolution is refused for
\* want of a version only when every listed version of some name is refused by
\* the requirements met (`Provider::candidates`: "Implementations return *all*
\* versions for the source and let the resolver intersect requirements").
RefusalIsReal ==
  error = "NoMatchingVersion" =>
    \E n \in Names :
      (IF n \in RootNames THEN {RootOf(n).version} ELSE published[n])
        \cap pass.allowed[n] = {}

\* The reference for reachability and features: facts <<n, f>> ("f is on in n")
\* and <<n, "*">> ("n is in the graph"), grown all at once, with no queue.
On(facts, n) == {f \in FeatureNames : <<n, f>> \in facts}

ActiveIn(facts, n) ==
  LET s == SummaryOf(pass, n)
      e == Expand(s, On(facts, n), FALSE)
  IN {d \in ToSet(s.dependencies) :
        IF d.optional THEN d.name \in e.activated
        ELSE ~d.dev \/ (n \in RootNames /\ RootOf(n).includeDev)}

Grow(facts) ==
  LET in == {n \in Names : <<n, "*">> \in facts}
      s(n) == SummaryOf(pass, n)
      e(n) == Expand(s(n), On(facts, n), FALSE)
      reached == UNION {ActiveIn(facts, n) : n \in in}
      routes(n) == {v \in e(n).routes : Labelled(s(n), v.label) # {}}
  IN facts
     \cup {<<d.package, "*">> : d \in reached}
     \cup UNION {{<<d.package, f>> : f \in d.features} : d \in reached}
     \cup {<<d.package, "default">> : d \in {r \in reached : r.defaults}}
     \cup UNION {{<<n, f>> : f \in e(n).enabled} : n \in in}
     \cup UNION {{<<Dependency(s(n), v.label).package, v.feature>> : v \in routes(n)}
                  : n \in in}

Facts ==
  LET selection(r) ==
        {<<r.name, "*">>}
        \cup {<<r.name, e.feature>> : e \in {f \in r.features : f.kind = "feature"}}
        \cup {<<Dependency(r.summary, e.label).package, e.feature>> :
               e \in {f \in r.features : f.kind = "route" /\ Labelled(r.summary, f.label) # {}}}
        \cup (IF r.defaults THEN {<<r.name, "default">>} ELSE {})
      most == Cardinality(Names) + Cardinality(FeatureNames)
      grow[k \in 0..most] ==
        IF k = 0 THEN UNION {selection(r) : r \in ToSet(roots)} ELSE
          LET f == grow[k - 1] IN Grow(f)
  IN grow[most]

\* A finished graph is the closure of its roots: exactly the names reachable
\* through active edges are chosen, their edges are the active ones, and each
\* has the union of the features any edge, forward or selection asks of it,
\* whatever the order in which the two queues found them.
ResolvesClosure ==
  phase = "done" =>
    LET facts == Facts IN
    \A n \in Names :
      /\ (pass.chosen[n] # None) <=> (<<n, "*">> \in facts)
      /\ pass.chosen[n] # None =>
           /\ pass.expanded[n].enabled = On(facts, n) \ {"default"}
           /\ Active(n) = ActiveIn(facts, n)

=============================================================================
