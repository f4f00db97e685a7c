--------------------------- MODULE ResolverProofs ---------------------------
(***************************************************************************)
(* A finished resolution meets every requirement of its edges, for any     *)
(* packages, roots, lock and releases.                                     *)
(*                                                                         *)
(* What a pass ends with is right for a reason that spans two passes.      *)
(* Every edge it met is counted in the requirements on its target          *)
(* (Linked), but a requirement met after the choice may refuse it.  The    *)
(* loop ends when the corrected choices are the pins the pass began with;  *)
(* and a choice is the pin whenever the pin meets the requirements at the  *)
(* end (Picked), since requirements only grow and it met them when the     *)
(* choice was made.  A corrected choice meets the requirements, so if it   *)
(* were the pin, the pass would have chosen it: a pass that confirms its   *)
(* pins has corrected nothing.                                             *)
(***************************************************************************)
EXTENDS Resolution, FiniteSetTheorems, WellFoundedInduction, TLAPS

-----------------------------------------------------------------------------
(* Least and greatest elements, and the elements kept of a sequence. *)

(* A nonempty set of naturals has a least element.                         *)
LEMMA LeastNat ==
    ASSUME NEW T \in SUBSET Nat, T # {}
    PROVE  \E x \in T : \A y \in T : x <= y
<1>1. PICK x \in T : \A y \in T : <<y, x>> \notin OpToRel(<, Nat)
  BY NatLessThanWellFounded, WFMin
<1>2. \A y \in T : ~(y < x)
  BY <1>1 DEF OpToRel
<1> QED BY <1>2

(* The least element is what Min chooses.                                  *)
LEMMA MinFacts ==
    ASSUME NEW T \in SUBSET Nat, T # {}
    PROVE  Min(T) \in T /\ \A y \in T : Min(T) <= y
BY LeastNat, Zenon DEF Min

(* A nonempty set of naturals with a bound has a greatest element.         *)
LEMMA MaxFacts ==
    ASSUME NEW T \in SUBSET Nat, T # {}, NEW b \in Nat, \A y \in T : y <= b
    PROVE  Max(T) \in T /\ \A y \in T : Max(T) >= y
<1> DEFINE U == {u \in Nat : \A y \in T : y <= u}
<1>1. PICK m \in U : \A u \in U : m <= u
  <2>1. U \in SUBSET Nat /\ U # {}
    OBVIOUS
  <2> HIDE DEF U
  <2> QED BY <2>1, LeastNat
<1>2. m \in T
  <2>1. SUFFICES ASSUME m \notin T PROVE FALSE
    OBVIOUS
  <2>2. m \in Nat /\ \A y \in T : y < m
    BY <1>1, <2>1
  <2>3. m # 0
    <3>1. PICK y \in T : TRUE
      OBVIOUS
    <3> QED BY <2>2, <3>1
  <2>4. m - 1 \in U
    BY <2>2, <2>3
  <2> QED BY <1>1, <2>2, <2>4
<1>3. \E x \in T : \A y \in T : x >= y
  BY <1>1, <1>2
<1> QED BY <1>3, Zenon DEF Max

(* The finite set Versions has a bound.                                    *)
LEMMA VersionsBounded ==
    \E b \in Nat : \A v \in Versions : v <= b
<1>1. PICK n \in Nat : ExistsSurjection(1 .. n, Versions)
  BY ResolverAssumption, FS_NatSurjection
<1>2. PICK f \in Surjection(1 .. n, Versions) : TRUE
  BY <1>1 DEF ExistsSurjection
<1>3. /\ f \in [1 .. n -> Versions]
      /\ \A v \in Versions : \E i \in 1 .. n : f[i] = v
  BY <1>2 DEF Surjection
<1> DEFINE E(k) == \E b \in Nat : \A i \in 1 .. n : i <= k => f[i] <= b
           T == {k \in Nat : ~E(k)}
<1>4. E(n)
  <2>1. SUFFICES ASSUME T # {} PROVE FALSE
    BY <1>1
  <2>2. PICK k \in T : \A y \in T : k <= y
    <3> HIDE DEF E
    <3> QED BY <2>1, LeastNat
  <2>3. k # 0
    BY <2>2
  <2>4. k \in Nat /\ k - 1 \in Nat /\ E(k - 1)
    <3> HIDE DEF E
    <3> QED BY <2>2, <2>3
  <2>5. PICK b \in Nat : \A i \in 1 .. n : i <= k - 1 => f[i] <= b
    BY <2>4
  <2>6. CASE k \in 1 .. n
    <3>1. PICK w \in Nat : w = f[k]
      BY <2>6, <1>3, ResolverAssumption
    <3>2. PICK c \in Nat : b <= c /\ w <= c
      <4>1. b <= b /\ w <= w /\ (b <= w \/ w <= b)
        OBVIOUS
      <4> QED BY <4>1, Zenon
    <3>3. ASSUME NEW i \in 1 .. n, i <= k PROVE f[i] <= c
      <4>1. PICK x \in Nat : x = f[i]
        BY <1>3, ResolverAssumption
      <4>2. CASE i = k
        BY <3>1, <3>2, <4>2
      <4>3. CASE i # k
        <5>1. i <= k - 1
          BY <2>4, <3>3, <4>3
        <5>2. x <= b
          BY <2>5, <4>1, <5>1
        <5>3. x <= c
          BY <3>2, <5>2
        <5> QED BY <4>1, <5>3
      <4> QED BY <4>2, <4>3
    <3>4. E(k)
      BY <3>2, <3>3
    <3> QED BY <2>2, <3>4
  <2>7. CASE k \notin 1 .. n
    <3>1. E(k)
      BY <2>4, <2>5, <2>7
    <3> QED BY <2>2, <3>1
  <2> QED BY <2>6, <2>7
<1> QED BY <1>1, <1>3, <1>4

\* One step of Kept, after the steps in g.
Keeping(g, s, at, i) ==
    IF i = 0 THEN <<>>
    ELSE IF i \in at THEN Append(g[i - 1], s[i]) ELSE g[i - 1]

IsKeeping(g, s, at, m) == g = [i \in 0 .. m |-> Keeping(g, s, at, i)]

(* The recursion of Kept defines a function.                               *)
LEMMA KeepingExists ==
    ASSUME NEW s, NEW at, NEW m \in Nat
    PROVE  \E g : IsKeeping(g, s, at, m)
<1> DEFINE E(k) == \E g : g = [n \in 0 .. k |-> Keeping(g, s, at, n)]
           T == {k \in Nat : ~E(k)}
<1>1. SUFFICES ASSUME T # {} PROVE FALSE
  BY Zenon DEF IsKeeping
<1>2. PICK k \in T : \A y \in T : k <= y
  <2> HIDE DEF E
  <2> QED BY <1>1, LeastNat
<1>3. k # 0
  <2>1. SUFFICES ASSUME k = 0 PROVE E(0)
    BY <1>2
  <2> DEFINE g == [n \in 0 .. 0 |-> <<>>]
  <2>2. g = [n \in 0 .. 0 |-> Keeping(g, s, at, n)]
    BY DEF Keeping
  <2> QED BY <2>2
<1>4. k \in Nat /\ k - 1 \in Nat /\ k - 1 \notin T
  <2> HIDE DEF T
  <2>1. T \subseteq Nat
    BY DEF T
  <2> QED BY <1>2, <1>3, <2>1
<1>5. E(k - 1)
  BY <1>4
<1>6. PICK h : h = [n \in 0 .. (k - 1) |-> Keeping(h, s, at, n)]
  BY <1>5
<1> DEFINE g == [n \in 0 .. k |-> IF n = k THEN Keeping(h, s, at, k) ELSE h[n]]
<1>7. ASSUME NEW n \in 0 .. k PROVE g[n] = Keeping(g, s, at, n)
  <2>1. CASE n = 0
    BY <1>3, <1>4, <1>6, <2>1 DEF Keeping
  <2>2. CASE n # 0
    <3>1. n - 1 \in 0 .. (k - 1) /\ n - 1 \in 0 .. k /\ n - 1 # k
      BY <1>4, <2>2
    <3>2. g[n - 1] = h[n - 1]
      BY <3>1
    <3>3. Keeping(g, s, at, n) = Keeping(h, s, at, n)
      <4> HIDE DEF g
      <4> QED BY <3>2 DEF Keeping
    <3>4. g[n] = IF n = k THEN Keeping(h, s, at, k) ELSE h[n]
      OBVIOUS
    <3>5. n # k => h[n] = Keeping(h, s, at, n)
      <4>1. n # k => n \in 0 .. (k - 1)
        BY <1>4
      <4> QED BY <1>6, <4>1
    <3> QED BY <3>3, <3>4, <3>5
  <2> QED BY <2>1, <2>2
<1>8. g = [n \in 0 .. k |-> g[n]]
  OBVIOUS
<1>9. g = [n \in 0 .. k |-> Keeping(g, s, at, n)]
  <2> HIDE DEF g
  <2> QED BY <1>7, <1>8
<1>10. E(k)
  <2> HIDE DEF g
  <2> QED BY <1>9
<1> QED BY <1>2, <1>10

(* Kept keeps the elements at the positions and nothing else.              *)
LEMMA KeptFacts ==
    ASSUME NEW S, NEW s \in Seq(S), NEW at
    PROVE  /\ Kept(s, at) \in Seq(S)
           /\ \A i \in DOMAIN Kept(s, at) : \E j \in DOMAIN s : j \in at /\ Kept(s, at)[i] = s[j]
           /\ \A j \in DOMAIN s : j \in at => \E i \in DOMAIN Kept(s, at) : Kept(s, at)[i] = s[j]
<1> DEFINE L == Len(s)
           f == CHOOSE g : IsKeeping(g, s, at, L)
<1>0. L \in Nat /\ DOMAIN s = 1 .. L /\ \A i \in 1 .. L : s[i] \in S
  OBVIOUS
<1>1. f = [n \in 0 .. L |-> Keeping(f, s, at, n)]
  <2> HIDE DEF L
  <2>1. \E g : IsKeeping(g, s, at, L)
    BY <1>0, KeepingExists
  <2>2. IsKeeping(f, s, at, L)
    BY <2>1, Zenon
  <2> HIDE DEF f
  <2> QED BY <2>2, Zenon DEF IsKeeping
<1>2. Kept(s, at) = f[L]
  BY Zenon DEF Kept, IsKeeping, Keeping
<1> HIDE DEF f, L
<1>3. \A n \in 0 .. L : f[n] = Keeping(f, s, at, n)
  BY <1>1, Zenon
<1> DEFINE P(n) == /\ f[n] \in Seq(S)
                   /\ \A i \in DOMAIN f[n] : \E j \in 1 .. L : j \in at /\ f[n][i] = s[j]
                   /\ \A j \in 1 .. L : j \in at /\ j <= n => \E i \in DOMAIN f[n] : f[n][i] = s[j]
           T == {n \in Nat : n <= L /\ ~P(n)}
<1>4. P(L)
  <2>1. SUFFICES ASSUME T # {} PROVE FALSE
    BY <1>0
  <2>2. PICK k \in T : \A y \in T : k <= y
    <3> HIDE DEF P
    <3> QED BY <2>1, LeastNat
  <2>3. k # 0
    <3>1. f[0] = <<>>
      BY <1>0, <1>3 DEF Keeping
    <3>2. P(0)
      BY <3>1
    <3> QED BY <2>2, <3>2
  <2>4. k \in Nat /\ k \in 0 .. L /\ k \in 1 .. L /\ k - 1 \in Nat /\ P(k - 1)
    <3> HIDE DEF P
    <3> QED BY <1>0, <2>2, <2>3
  <2>5. f[k] = IF k \in at THEN Append(f[k - 1], s[k]) ELSE f[k - 1]
    BY <1>3, <2>3, <2>4 DEF Keeping
  <2>6. CASE k \notin at
    <3>1. P(k)
      BY <1>0, <2>4, <2>5, <2>6
    <3> QED BY <2>2, <3>1
  <2>7. CASE k \in at
    <3> DEFINE old == f[k - 1]
               new == f[k]
    <3>1. /\ old \in Seq(S)
          /\ \A i \in DOMAIN old : \E j \in 1 .. L : j \in at /\ old[i] = s[j]
          /\ \A j \in 1 .. L : j \in at /\ j <= k - 1 => \E i \in DOMAIN old : old[i] = s[j]
          /\ new = Append(old, s[k])
      BY <2>4, <2>5, <2>7
    <3> HIDE DEF old, new
    <3>2. /\ new \in Seq(S)
          /\ DOMAIN new = 1 .. (Len(old) + 1) /\ DOMAIN old = 1 .. Len(old) /\ Len(old) \in Nat
          /\ \A i \in DOMAIN old : new[i] = old[i]
          /\ new[Len(old) + 1] = s[k]
      BY <3>1, <1>0, <2>4
    <3>3. \A i \in DOMAIN new : \E j \in 1 .. L : j \in at /\ new[i] = s[j]
      BY <3>1, <3>2, <2>4, <2>7
    <3>4. \A j \in 1 .. L : j \in at /\ j <= k => \E i \in DOMAIN new : new[i] = s[j]
      BY <3>1, <3>2, <2>4
    <3>5. P(k)
      <4>1. f[k] \in Seq(S)
        BY <3>2 DEF new
      <4>2. \A i \in DOMAIN f[k] : \E j \in 1 .. L : j \in at /\ f[k][i] = s[j]
        BY <3>3, Zenon DEF new
      <4>3. \A j \in 1 .. L : j \in at /\ j <= k => \E i \in DOMAIN f[k] : f[k][i] = s[j]
        BY <3>4, Zenon DEF new
      <4> QED BY <4>1, <4>2, <4>3, Zenon
    <3> QED BY <2>2, <3>5
  <2> QED BY <2>6, <2>7
<1>5. /\ Kept(s, at) \in Seq(S)
      /\ \A i \in DOMAIN Kept(s, at) : \E j \in 1 .. L : j \in at /\ Kept(s, at)[i] = s[j]
      /\ \A j \in 1 .. L : j \in at /\ j <= L
            => \E i \in DOMAIN Kept(s, at) : Kept(s, at)[i] = s[j]
  BY <1>2, <1>4, Zenon
<1>6. \A j \in 1 .. L : j <= L
  BY <1>0
<1> QED BY <1>0, <1>5, <1>6, Zenon

-----------------------------------------------------------------------------
(* Passes, and the edges added to them. *)

Queued(p, t) == \E i \in DOMAIN p.packages : p.packages[i] = t

Fields == {"chosen", "allowed", "rep", "requested", "expanded", "edges",
           "packages", "features", "conflict"}

Fielded(p) == p = [f \in Fields |-> p[f]]

\* The type of a pass, as far as the argument needs it.
Shape(p) ==
    /\ Fielded(p)
    /\ p.chosen = [n \in Names |-> p.chosen[n]]
    /\ p.edges = [n \in Names |-> p.edges[n]]
    /\ p.packages \in Seq(Names)
    /\ p.features \in Seq(Names)
    /\ p.conflict \in BOOLEAN

\* Every edge met is counted in the requirements on its target, has the one
\* source of its target, and its target is chosen or waits to be.
Linked(p) ==
    /\ \A n \in Names : p.allowed[n] \subseteq Versions
    /\ \A n \in Names : p.rep[n] = NoDeclaration \/ p.rep[n].source # "none"
    /\ \A n \in Names : Queued(p, n) => p.rep[n] # NoDeclaration
    /\ \A n \in Names : \A d \in p.edges[n] :
         /\ d.package \in Names /\ d.source # "none"
         /\ \A v \in p.allowed[d.package] : v \in d.req
         /\ p.conflict \/ p.rep[d.package].source = d.source
         /\ p.chosen[d.package] # None \/ Queued(p, d.package)

\* A choice has the source its edges ask for, and is the pin whenever the pin
\* still meets the requirements: they only grow, so it met them when the
\* choice was made.
Picked(p) ==
    \A n \in Names : n \notin RootNames /\ p.chosen[n] # None =>
      /\ p.rep[n] # NoDeclaration
      /\ p.chosen[n].source = p.rep[n].source
      /\ p.chosen[n].version \in DOMAIN universe[n]
      /\ pins[n] # None /\ pins[n].source = p.rep[n].source
           /\ pins[n].version \in p.allowed[n] => p.chosen[n] = pins[n]

\* A root is its own choice; it meets the requirements, or waits to be checked.
Rooted(p) ==
    \A n \in RootNames : /\ p.chosen[n] = RootId(RootOf(n))
                         /\ RootOf(n).version \in p.allowed[n] \/ Queued(p, n)

Sound(p) == Shape(p) /\ Linked(p) /\ Picked(p) /\ Rooted(p)

(* What EnqueueAll changes.                                                *)
LEMMA EnqueueFacts ==
    ASSUME NEW p, Shape(p), NEW from \in Names, NEW ds, Declared(ds)
    PROVE  LET q == EnqueueAll(p, from, ds) IN
           /\ Shape(q)
           /\ q.chosen = p.chosen /\ q.expanded = p.expanded
           /\ \A t \in Names :
                /\ p.rep[t] # NoDeclaration => q.rep[t] = p.rep[t]
                /\ p.rep[t] = NoDeclaration =>
                     \/ q.rep[t] = NoDeclaration
                     \/ \E i \in DOMAIN ds : q.rep[t] = ds[i]
                /\ (\E i \in DOMAIN ds : ds[i].package = t) => q.rep[t] # NoDeclaration
                /\ q.allowed[t] = {v \in p.allowed[t] :
                      \A i \in DOMAIN ds : ds[i].package = t => v \in ds[i].req}
           /\ \A n \in Names : \A d \in q.edges[n] :
                d \in p.edges[n] \/ \E i \in DOMAIN ds : d = ds[i]
           /\ \A t \in Names :
                Queued(q, t) <=> Queued(p, t) \/ \E i \in DOMAIN ds : ds[i].package = t
           /\ ~q.conflict =>
                ~p.conflict /\ \A i \in DOMAIN ds : q.rep[ds[i].package].source = ds[i].source
<1> DEFINE q == EnqueueAll(p, from, ds)
           to(t) == {i \in DOMAIN ds : ds[i].package = t}
           rep == [t \in Names |-> IF p.rep[t] # NoDeclaration \/ to(t) = {} THEN p.rep[t]
                                   ELSE ds[Min(to(t))]]
           targets == [i \in DOMAIN ds |-> ds[i].package]
           requested == [t \in Names |->
             [selected  |-> p.requested[t].selected \cup UNION {ds[i].features : i \in to(t)},
              forwarded |-> p.requested[t].forwarded,
              defaults  |-> p.requested[t].defaults \/ \E i \in to(t) : ds[i].defaults]]
           allowed == [t \in Names |-> {v \in p.allowed[t] : \A i \in to(t) : v \in ds[i].req}]
           edges == [p.edges EXCEPT ![from] = @ \cup {ds[i] : i \in DOMAIN ds}]
           conflict == p.conflict \/ \E i \in DOMAIN ds : rep[ds[i].package].source # ds[i].source
<1>1. /\ ds \in Seq(ToSet(ds)) /\ DOMAIN ds = 1 .. Len(ds) /\ Len(ds) \in Nat
      /\ \A i \in DOMAIN ds : ds[i].package \in Names /\ ds[i].source # "none"
  BY DEF Declared, ToSet
<1>2. q = [p EXCEPT !.conflict = conflict, !.rep = rep, !.allowed = allowed,
                    !.requested = requested, !.edges = edges,
                    !.features = @ \o targets, !.packages = @ \o targets]
  BY Zenon DEF EnqueueAll
<1> HIDE DEF q, rep, requested, allowed, edges, conflict, targets
<1> DEFINE features == p.features \o targets
           packages == p.packages \o targets
<1>3. q = [p EXCEPT !.conflict = conflict, !.rep = rep, !.allowed = allowed,
                    !.requested = requested, !.edges = edges,
                    !.features = features, !.packages = packages]
  BY <1>2
<1>4. /\ Fielded(q)
      /\ q.chosen = p.chosen /\ q.allowed = allowed /\ q.rep = rep
      /\ q.requested = requested /\ q.expanded = p.expanded /\ q.edges = edges
      /\ q.packages = p.packages \o targets /\ q.features = p.features \o targets
      /\ q.conflict = conflict
  <2> HIDE DEF features, packages
  <2>1. /\ Fielded(q)
        /\ q.chosen = p.chosen /\ q.allowed = allowed /\ q.rep = rep
        /\ q.requested = requested /\ q.expanded = p.expanded /\ q.edges = edges
        /\ q.packages = packages /\ q.features = features
        /\ q.conflict = conflict
    BY <1>3 DEF Shape, Fielded, Fields
  <2> QED BY <2>1 DEF features, packages
<1>5. targets \in Seq(Names) /\ DOMAIN targets = DOMAIN ds
      /\ \A i \in DOMAIN ds : targets[i] = ds[i].package
  BY <1>1 DEF targets
<1>6. /\ p.packages \in Seq(Names) /\ p.features \in Seq(Names)
      /\ p.packages \o targets \in Seq(Names) /\ p.features \o targets \in Seq(Names)
  BY <1>5 DEF Shape
<1>7. conflict \in BOOLEAN
  BY DEF conflict, Shape
<1>8. edges = [n \in Names |-> edges[n]]
  BY DEF edges, Shape
<1>9. Shape(q)
  BY <1>4, <1>6, <1>7, <1>8 DEF Shape
<1>10. ASSUME NEW t \in Names
       PROVE  /\ p.rep[t] # NoDeclaration => rep[t] = p.rep[t]
              /\ p.rep[t] = NoDeclaration =>
                   rep[t] = NoDeclaration \/ \E i \in DOMAIN ds : rep[t] = ds[i]
              /\ (\E i \in DOMAIN ds : ds[i].package = t) => rep[t] # NoDeclaration
  <2>1. rep[t] = IF p.rep[t] # NoDeclaration \/ to(t) = {} THEN p.rep[t] ELSE ds[Min(to(t))]
    BY DEF rep
  <2>2. to(t) # {} => Min(to(t)) \in to(t)
    <3>1. to(t) \in SUBSET Nat
      BY <1>1
    <3> HIDE DEF to
    <3> QED BY <3>1, MinFacts
  <2>3. \A i \in DOMAIN ds : ds[i] # NoDeclaration
    BY <1>1 DEF NoDeclaration
  <2> QED BY <2>1, <2>2, <2>3
<1>11. \A t \in Names : allowed[t] = {v \in p.allowed[t] :
                      \A i \in DOMAIN ds : ds[i].package = t => v \in ds[i].req}
  BY DEF allowed
<1>12. \A n \in Names : \A d \in edges[n] :
                d \in p.edges[n] \/ \E i \in DOMAIN ds : d = ds[i]
  BY DEF edges, Shape
<1>13. ASSUME NEW t \in Names
       PROVE  Queued(q, t) <=> Queued(p, t) \/ \E i \in DOMAIN ds : ds[i].package = t
  <2> DEFINE a == p.packages
             c == q.packages
  <2>1. /\ a \in Seq(Names) /\ c = a \o targets /\ targets \in Seq(Names)
    BY <1>4, <1>5, <1>6
  <2> HIDE DEF a, c
  <2>2. /\ DOMAIN a = 1 .. Len(a) /\ DOMAIN targets = 1 .. Len(targets)
        /\ DOMAIN c = 1 .. (Len(a) + Len(targets)) /\ Len(a) \in Nat /\ Len(targets) \in Nat
        /\ \A i \in DOMAIN a : c[i] = a[i] /\ i \in DOMAIN c
        /\ \A i \in DOMAIN targets : c[Len(a) + i] = targets[i] /\ Len(a) + i \in DOMAIN c
    BY <2>1
  <2>3. ASSUME NEW i \in DOMAIN c
        PROVE  i \in DOMAIN a \/ (i - Len(a) \in DOMAIN targets /\ c[i] = targets[i - Len(a)])
    BY <2>1, <2>2
  <2>4. (\E i \in DOMAIN c : c[i] = t) <=>
           (\E i \in DOMAIN a : a[i] = t) \/ \E i \in DOMAIN targets : targets[i] = t
    BY <2>2, <2>3
  <2> QED BY <1>5, <2>4 DEF Queued, a, c
<1>14. ~conflict => ~p.conflict /\ \A i \in DOMAIN ds : rep[ds[i].package].source = ds[i].source
  BY DEF conflict
<1>15. /\ Shape(q)
       /\ q.chosen = p.chosen /\ q.expanded = p.expanded
       /\ \A t \in Names :
                /\ p.rep[t] # NoDeclaration => q.rep[t] = p.rep[t]
                /\ p.rep[t] = NoDeclaration =>
                     \/ q.rep[t] = NoDeclaration
                     \/ \E i \in DOMAIN ds : q.rep[t] = ds[i]
                /\ (\E i \in DOMAIN ds : ds[i].package = t) => q.rep[t] # NoDeclaration
                /\ q.allowed[t] = {v \in p.allowed[t] :
                      \A i \in DOMAIN ds : ds[i].package = t => v \in ds[i].req}
  BY <1>4, <1>9, <1>10, <1>11
<1>16. /\ \A n \in Names : \A d \in q.edges[n] :
                d \in p.edges[n] \/ \E i \in DOMAIN ds : d = ds[i]
       /\ ~q.conflict =>
                ~p.conflict /\ \A i \in DOMAIN ds : q.rep[ds[i].package].source = ds[i].source
  BY <1>4, <1>12, <1>14
<1> QED BY <1>13, <1>15, <1>16 DEF q

(* Edges are added soundly.                                                *)
LEMMA EnqueueLinked ==
    ASSUME NEW p, Shape(p), Linked(p), NEW from \in Names, NEW ds, Declared(ds)
    PROVE  Linked(EnqueueAll(p, from, ds))
<1> DEFINE q == EnqueueAll(p, from, ds)
<1>0. \A i \in DOMAIN ds : ds[i].package \in Names /\ ds[i].source # "none"
  BY DEF Declared, ToSet
<1>1. /\ q.chosen = p.chosen
      /\ \A t \in Names :
                /\ p.rep[t] # NoDeclaration => q.rep[t] = p.rep[t]
                /\ p.rep[t] = NoDeclaration =>
                     \/ q.rep[t] = NoDeclaration
                     \/ \E i \in DOMAIN ds : q.rep[t] = ds[i]
                /\ (\E i \in DOMAIN ds : ds[i].package = t) => q.rep[t] # NoDeclaration
                /\ q.allowed[t] = {v \in p.allowed[t] :
                      \A i \in DOMAIN ds : ds[i].package = t => v \in ds[i].req}
  BY EnqueueFacts
<1>2. /\ \A n \in Names : \A d \in q.edges[n] :
                d \in p.edges[n] \/ \E i \in DOMAIN ds : d = ds[i]
      /\ \A t \in Names :
                Queued(q, t) <=> Queued(p, t) \/ \E i \in DOMAIN ds : ds[i].package = t
      /\ ~q.conflict =>
                ~p.conflict /\ \A i \in DOMAIN ds : q.rep[ds[i].package].source = ds[i].source
  BY EnqueueFacts
<1> HIDE DEF q
<1>3. \A n \in Names : q.allowed[n] \subseteq Versions
  BY <1>1 DEF Linked
<1>4. \A n \in Names : /\ q.rep[n] = NoDeclaration \/ q.rep[n].source # "none"
                       /\ Queued(q, n) => q.rep[n] # NoDeclaration
  <2>1. \A n \in Names : q.rep[n] = NoDeclaration \/ q.rep[n].source # "none"
    BY <1>0, <1>1 DEF Linked
  <2>2. \A n \in Names : Queued(q, n) => q.rep[n] # NoDeclaration
    BY <1>1, <1>2 DEF Linked
  <2> QED BY <2>1, <2>2
<1>5. ASSUME NEW n \in Names, NEW d \in q.edges[n]
      PROVE  /\ d.package \in Names /\ d.source # "none"
             /\ \A v \in q.allowed[d.package] : v \in d.req
             /\ q.conflict \/ q.rep[d.package].source = d.source
             /\ q.chosen[d.package] # None \/ Queued(q, d.package)
  <2>1. CASE d \in p.edges[n]
    <3>1. /\ d.package \in Names /\ d.source # "none"
          /\ \A v \in p.allowed[d.package] : v \in d.req
          /\ p.conflict \/ p.rep[d.package].source = d.source
          /\ p.chosen[d.package] # None \/ Queued(p, d.package)
      BY <2>1 DEF Linked
    <3>2. \A v \in q.allowed[d.package] : v \in d.req
      BY <1>1, <3>1
    <3>3. q.chosen[d.package] # None \/ Queued(q, d.package)
      BY <1>1, <1>2, <3>1
    <3>4. ASSUME ~q.conflict PROVE q.rep[d.package].source = d.source
      <4>1. p.rep[d.package].source = d.source
        BY <1>2, <3>1, <3>4
      <4>2. p.rep[d.package] # NoDeclaration
        BY <3>1, <4>1 DEF NoDeclaration
      <4> QED BY <1>1, <3>1, <4>1, <4>2
    <3> QED BY <3>1, <3>2, <3>3, <3>4
  <2>2. CASE \E i \in DOMAIN ds : d = ds[i]
    <3>1. PICK i \in DOMAIN ds : d = ds[i]
      BY <2>2
    <3>2. d.package \in Names /\ d.source # "none"
      BY <1>0, <3>1
    <3> QED BY <1>1, <1>2, <3>1, <3>2
  <2> QED BY <1>2, <2>1, <2>2
<1> QED BY <1>3, <1>4, <1>5 DEF Linked, q

(* A pass that differs in its feature queue and feature tables only.       *)
LEMMA SameLinked ==
    ASSUME NEW p, NEW q, Sound(p), Shape(q),
           q.chosen = p.chosen, q.rep = p.rep, q.allowed = p.allowed,
           q.edges = p.edges, q.packages = p.packages, q.conflict = p.conflict
    PROVE  Sound(q)
BY DEF Sound, Linked, Picked, Rooted, Queued

(* Edges keep a pass sound: they shrink the requirements of their targets, *)
(* and queue every target again for its check or its choice.               *)
LEMMA EnqueueSound ==
    ASSUME NEW p, Sound(p), NEW from \in Names, NEW ds, Declared(ds), RootNames \subseteq Names
    PROVE  Sound(EnqueueAll(p, from, ds)) /\ EnqueueAll(p, from, ds).chosen = p.chosen
<1> DEFINE q == EnqueueAll(p, from, ds)
<1>0. Shape(p) /\ Linked(p)
  BY DEF Sound
<1>1. /\ Shape(q) /\ q.chosen = p.chosen
      /\ \A t \in Names :
                /\ p.rep[t] # NoDeclaration => q.rep[t] = p.rep[t]
                /\ q.allowed[t] = {v \in p.allowed[t] :
                      \A i \in DOMAIN ds : ds[i].package = t => v \in ds[i].req}
  BY <1>0, EnqueueFacts
<1>2. \A t \in Names :
                Queued(q, t) <=> Queued(p, t) \/ \E i \in DOMAIN ds : ds[i].package = t
  BY <1>0, EnqueueFacts
<1>3. Linked(q)
  BY <1>0, EnqueueLinked
<1> HIDE DEF q
<1>4. Picked(q)
  BY <1>1 DEF Sound, Picked
<1>5. Rooted(q)
  BY <1>1, <1>2 DEF Sound, Rooted
<1> QED BY <1>1, <1>3, <1>4, <1>5 DEF Sound, q

-----------------------------------------------------------------------------
(* What is declared. *)

\* The job of the resolution names packages there are.
Declaring ==
    /\ \A n \in Names : \A v \in DOMAIN universe[n] : Declared(universe[n][v].dependencies)
    /\ roots \in Seq(ToSet(roots))
    /\ \A r \in ToSet(roots) :
         r.name \in Names /\ r.version \in Versions /\ Declared(r.summary.dependencies)

(* Some of the declared dependencies are declared.                         *)
LEMMA KeptDeclared ==
    ASSUME NEW ds, Declared(ds), NEW at
    PROVE  Declared(Kept(ds, at))
<1> DEFINE k == Kept(ds, at)
           S == ToSet(ds)
<1>1. ds \in Seq(S) /\ \A d \in S : d.package \in Names /\ d.source # "none"
  BY DEF Declared
<1>2. k \in Seq(S)
  <2> HIDE DEF S
  <2> QED BY <1>1, KeptFacts
<1> HIDE DEF k, S
<1>3. k \in Seq(ToSet(k)) /\ ToSet(k) \subseteq S
  BY <1>2 DEF ToSet
<1> QED BY <1>1, <1>3 DEF Declared, k

(* The last request for a root's name is one of the requests.              *)
LEMMA RootOfFacts ==
    ASSUME Declaring, NEW n \in RootNames
    PROVE  \E k \in 1 .. Len(roots) :
             /\ RootOf(n) = roots[k] /\ roots[k].name = n
             /\ \A j \in 1 .. Len(roots) : j > k => roots[j].name # n
             /\ RootOf(n) \in ToSet(roots) /\ n \in Names
<1> DEFINE T == {i \in DOMAIN roots : roots[i].name = n}
<1>1. Len(roots) \in Nat /\ DOMAIN roots = 1 .. Len(roots)
  BY DEF Declaring
<1>2. T # {}
  BY DEF RootNames
<1>3. T \in SUBSET Nat /\ \A y \in T : y <= Len(roots)
  BY <1>1
<1>4. Max(T) \in T /\ \A y \in T : Max(T) >= y
  <2> HIDE DEF T
  <2> QED BY <1>1, <1>2, <1>3, MaxFacts
<1>5. RootOf(n) = roots[Max(T)]
  BY DEF RootOf
<1>6. PICK k \in T : k = Max(T)
  BY <1>4
<1>7. k \in 1 .. Len(roots) /\ roots[k].name = n /\ roots[k] \in ToSet(roots)
  BY <1>1, <1>6 DEF ToSet
<1>8. \A j \in 1 .. Len(roots) : j > k => roots[j].name # n
  <2>1. \A y \in T : k >= y
    BY <1>4, <1>6
  <2>2. SUFFICES ASSUME NEW j \in T, j > k PROVE FALSE
    BY <1>1
  <2> HIDE DEF T
  <2> QED BY <1>3, <2>1, <2>2
<1> QED BY <1>5, <1>6, <1>7, <1>8 DEF Declaring

(* Roots are packages there are.                                           *)
LEMMA RootNamesAreNames == Declaring => RootNames \subseteq Names
BY DEF Declaring, RootNames, ToSet

(* The summary of a chosen package is declared.                            *)
LEMMA SummaryDeclared ==
    ASSUME Declaring, NEW p, Picked(p), NEW n \in Names, p.chosen[n] # None
    PROVE  Declared(SummaryOf(p, n).dependencies)
<1>1. CASE n \in RootNames
  BY <1>1, RootOfFacts DEF SummaryOf, Declaring
<1>2. CASE n \notin RootNames
  BY <1>2 DEF SummaryOf, Declaring, Picked
<1> QED BY <1>1, <1>2

(* The dependency a label names is one of the declared ones.               *)
LEMMA DependencyDeclared ==
    ASSUME NEW s, Declared(s.dependencies), NEW label, Labelled(s, label) # {}
    PROVE  /\ Dependency(s, label).package \in Names
           /\ Dependency(s, label).source # "none"
<1> DEFINE T == Labelled(s, label)
<1>1. T \in SUBSET Nat /\ T \subseteq DOMAIN s.dependencies
  BY DEF Declared, Labelled
<1>2. Min(T) \in T
  <2> HIDE DEF T
  <2> QED BY <1>1, MinFacts DEF T
<1> QED BY <1>1, <1>2 DEF Dependency, Declared, ToSet

-----------------------------------------------------------------------------
(* The seed of a pass. *)

\* One step of Seeded, after the steps in g.
Seeding(g, rs, i) == IF i = 0 THEN EmptyPass ELSE SeedRoot(g[i - 1], rs[i])

IsSeeding(g, rs, m) == g = [i \in 0 .. m |-> Seeding(g, rs, i)]

(* The recursion of Seeded defines a function.                              *)
LEMMA SeedingExists ==
    ASSUME NEW rs, NEW m \in Nat
    PROVE  \E g : IsSeeding(g, rs, m)
<1> DEFINE E(k) == \E g : g = [n \in 0 .. k |-> Seeding(g, rs, n)]
           T == {k \in Nat : ~E(k)}
<1>1. SUFFICES ASSUME T # {} PROVE FALSE
  BY Zenon DEF IsSeeding
<1>2. PICK k \in T : \A y \in T : k <= y
  <2> HIDE DEF E
  <2> QED BY <1>1, LeastNat
<1>3. k # 0
  <2>1. SUFFICES ASSUME k = 0 PROVE E(0)
    BY <1>2
  <2> DEFINE g == [n \in 0 .. 0 |-> EmptyPass]
  <2>2. g = [n \in 0 .. 0 |-> Seeding(g, rs, n)]
    BY DEF Seeding
  <2> QED BY <2>2
<1>4. k \in Nat /\ k - 1 \in Nat /\ k - 1 \notin T
  <2> HIDE DEF T
  <2>1. T \subseteq Nat
    BY DEF T
  <2> QED BY <1>2, <1>3, <2>1
<1>5. E(k - 1)
  BY <1>4
<1>6. PICK h : h = [n \in 0 .. (k - 1) |-> Seeding(h, rs, n)]
  BY <1>5
<1> DEFINE g == [n \in 0 .. k |-> IF n = k THEN Seeding(h, rs, k) ELSE h[n]]
<1>7. ASSUME NEW n \in 0 .. k PROVE g[n] = Seeding(g, rs, n)
  <2>1. CASE n = 0
    BY <1>3, <1>4, <1>6, <2>1 DEF Seeding
  <2>2. CASE n # 0
    <3>1. n - 1 \in 0 .. (k - 1) /\ n - 1 \in 0 .. k /\ n - 1 # k
      BY <1>4, <2>2
    <3>2. g[n - 1] = h[n - 1]
      BY <3>1
    <3>3. Seeding(g, rs, n) = Seeding(h, rs, n)
      <4> HIDE DEF g
      <4> QED BY <3>2 DEF Seeding
    <3>4. g[n] = IF n = k THEN Seeding(h, rs, k) ELSE h[n]
      OBVIOUS
    <3>5. n # k => h[n] = Seeding(h, rs, n)
      <4>1. n # k => n \in 0 .. (k - 1)
        BY <1>4
      <4> QED BY <1>6, <4>1
    <3> QED BY <3>3, <3>4, <3>5
  <2> QED BY <2>1, <2>2
<1>8. g = [n \in 0 .. k |-> g[n]]
  OBVIOUS
<1>9. g = [n \in 0 .. k |-> Seeding(g, rs, n)]
  <2> HIDE DEF g
  <2> QED BY <1>7, <1>8
<1>10. E(k)
  <2> HIDE DEF g
  <2> QED BY <1>9
<1> QED BY <1>2, <1>10

(* A pass begins with nothing met and nothing chosen.                      *)
LEMMA EmptyPassFacts ==
    /\ Shape(EmptyPass) /\ Linked(EmptyPass)
    /\ \A n \in Names : EmptyPass.chosen[n] = None /\ EmptyPass.allowed[n] = Versions
<1>1. Fielded(EmptyPass)
  BY DEF Fielded, Fields, EmptyPass
<1>2. /\ EmptyPass.chosen = [n \in Names |-> None]
      /\ EmptyPass.allowed = [n \in Names |-> Versions]
      /\ EmptyPass.rep = [n \in Names |-> NoDeclaration]
      /\ EmptyPass.edges = [n \in Names |-> {}]
      /\ EmptyPass.packages = <<>> /\ EmptyPass.features = <<>>
      /\ EmptyPass.conflict = FALSE
  BY DEF EmptyPass
<1>3. Shape(EmptyPass)
  <2>1. EmptyPass.chosen = [n \in Names |-> EmptyPass.chosen[n]]
    BY <1>2
  <2>2. EmptyPass.edges = [n \in Names |-> EmptyPass.edges[n]]
    BY <1>2
  <2>3. EmptyPass.packages \in Seq(Names) /\ EmptyPass.features \in Seq(Names)
    BY <1>2
  <2> QED BY <1>1, <1>2, <2>1, <2>2, <2>3 DEF Shape
<1>4. Linked(EmptyPass)
  BY <1>2 DEF Linked, Queued
<1> QED BY <1>2, <1>3, <1>4

(* A root is chosen; its edges are queued.                                 *)
LEMMA SeedRootFacts ==
    ASSUME NEW p, Shape(p), Linked(p), NEW r,
           r.name \in Names, Declared(r.summary.dependencies)
    PROVE  LET q == SeedRoot(p, r) IN
           /\ Shape(q) /\ Linked(q)
           /\ q.chosen = [p.chosen EXCEPT ![r.name] = RootId(r)]
           /\ \A t \in Names : q.allowed[t] = p.allowed[t] \/ Queued(q, t)
           /\ \A t \in Names : Queued(p, t) => Queued(q, t)
<1> DEFINE q == SeedRoot(p, r)
           ds == r.summary.dependencies
<1>1. PICK requested, at :
        q = EnqueueAll([p EXCEPT !.chosen = [p.chosen EXCEPT ![r.name] = RootId(r)],
                                 !.requested = requested,
                                 !.features = Append(@, r.name)], r.name, Kept(ds, at))
  BY Zenon DEF SeedRoot
<1> DEFINE c == [p.chosen EXCEPT ![r.name] = RootId(r)]
           queue == Append(p.features, r.name)
           mid == [p EXCEPT !.chosen = c, !.requested = requested, !.features = queue]
           k == Kept(ds, at)
<1>2. Declared(k)
  BY KeptDeclared
<1>4. /\ Fielded(mid)
      /\ mid.chosen = [p.chosen EXCEPT ![r.name] = RootId(r)] /\ mid.allowed = p.allowed
      /\ mid.rep = p.rep /\ mid.edges = p.edges /\ mid.packages = p.packages
      /\ mid.features = Append(p.features, r.name) /\ mid.conflict = p.conflict
  <2> HIDE DEF c, queue
  <2>1. /\ Fielded(mid) /\ mid.chosen = c /\ mid.allowed = p.allowed
        /\ mid.rep = p.rep /\ mid.edges = p.edges /\ mid.packages = p.packages
        /\ mid.features = queue /\ mid.conflict = p.conflict
    BY DEF Shape, Fielded, Fields
  <2> QED BY <2>1 DEF c, queue
<1> HIDE DEF mid
<1>5. Shape(mid)
  <2>1. mid.features \in Seq(Names)
    BY <1>4 DEF Shape
  <2>2. mid.chosen = [n \in Names |-> mid.chosen[n]]
    BY <1>4 DEF Shape
  <2> QED BY <1>4, <2>1, <2>2 DEF Shape
<1>6. Linked(mid)
  <2>1. \A n \in Names : p.chosen[n] # None => mid.chosen[n] # None
    <3>1. RootId(r) # None
      BY DEF RootId, None
    <3> QED BY <1>4, <3>1 DEF Shape
  <2> QED BY <1>4, <2>1 DEF Linked, Queued
<1>7. q = EnqueueAll(mid, r.name, k)
  BY <1>1, Zenon DEF mid
<1> HIDE DEF q, k
<1> DEFINE e == EnqueueAll(mid, r.name, k)
<1>8. Linked(q)
  BY <1>2, <1>5, <1>6, <1>7, EnqueueLinked
<1>9. /\ Shape(q) /\ q.chosen = mid.chosen
      /\ \A t \in Names : q.allowed[t] = {v \in mid.allowed[t] :
                      \A i \in DOMAIN k : k[i].package = t => v \in k[i].req}
      /\ \A t \in Names :
                Queued(q, t) <=> Queued(mid, t) \/ \E i \in DOMAIN k : k[i].package = t
  <2>1. Shape(e) /\ e.chosen = mid.chosen
    BY <1>2, <1>5, EnqueueFacts
  <2>2. \A t \in Names : e.allowed[t] = {v \in mid.allowed[t] :
                      \A i \in DOMAIN k : k[i].package = t => v \in k[i].req}
    BY <1>2, <1>5, EnqueueFacts
  <2>3. \A t \in Names :
                Queued(e, t) <=> Queued(mid, t) \/ \E i \in DOMAIN k : k[i].package = t
    BY <1>2, <1>5, EnqueueFacts
  <2> HIDE DEF e
  <2>4. q = e
    BY <1>7 DEF e
  <2> QED BY <2>1, <2>2, <2>3, <2>4
<1>10. \A t \in Names : Queued(p, t) <=> Queued(mid, t)
  BY <1>4 DEF Queued
<1>11. ASSUME NEW t \in Names PROVE q.allowed[t] = p.allowed[t] \/ Queued(q, t)
  <2>1. CASE \E i \in DOMAIN k : k[i].package = t
    BY <1>9, <2>1
  <2>2. CASE ~\E i \in DOMAIN k : k[i].package = t
    <3>1. \A v : v \in q.allowed[t] <=> v \in mid.allowed[t]
      BY <1>9, <2>2
    <3>2. q.allowed[t] = mid.allowed[t]
      BY <3>1
    <3> QED BY <1>4, <3>2
  <2> QED BY <2>1, <2>2
<1> QED BY <1>4, <1>8, <1>9, <1>10, <1>11 DEF q

(* A seeded pass is sound: the roots are chosen and nothing else.          *)
LEMMA SeededSound == ASSUME Declaring PROVE Sound(Seeded)
<1> DEFINE L == Len(roots)
           f == CHOOSE g : IsSeeding(g, roots, L)
<1>0. /\ L \in Nat /\ DOMAIN roots = 1 .. L
      /\ \A i \in 1 .. L : /\ roots[i].name \in Names /\ roots[i].name \in RootNames
                           /\ roots[i].version \in Versions
                           /\ Declared(roots[i].summary.dependencies)
  BY DEF Declaring, ToSet, RootNames
<1>1. f = [n \in 0 .. L |-> Seeding(f, roots, n)]
  <2> HIDE DEF L
  <2>1. \E g : IsSeeding(g, roots, L)
    BY <1>0, SeedingExists
  <2>2. IsSeeding(f, roots, L)
    BY <2>1, Zenon
  <2> HIDE DEF f
  <2> QED BY <2>2, Zenon DEF IsSeeding
<1>2. PICK at : Seeded = [f[L] EXCEPT !.features = @ \o Kept(Order, at)]
  BY Zenon DEF Seeded, IsSeeding, Seeding
<1> HIDE DEF f, L
<1>3. \A n \in 0 .. L : f[n] = Seeding(f, roots, n)
  BY <1>1, Zenon
<1> DEFINE P(n) ==
             /\ Shape(f[n]) /\ Linked(f[n])
             /\ \A t \in Names : f[n].allowed[t] = Versions \/ Queued(f[n], t)
             /\ \A t \in Names : f[n].chosen[t] # None => t \in RootNames
             /\ \A k \in 1 .. n : (\A j \in 1 .. n : j > k => roots[j].name # roots[k].name)
                   => f[n].chosen[roots[k].name] = RootId(roots[k])
           T == {n \in Nat : n <= L /\ ~P(n)}
<1>4. P(L)
  <2>1. SUFFICES ASSUME T # {} PROVE FALSE
    BY <1>0
  <2>2. PICK k \in T : \A y \in T : k <= y
    <3> HIDE DEF P
    <3> QED BY <2>1, LeastNat
  <2>3. k # 0
    <3>1. f[0] = EmptyPass
      BY <1>0, <1>3 DEF Seeding
    <3>2. P(0)
      BY <3>1, EmptyPassFacts
    <3> QED BY <2>2, <3>2
  <2>4. k \in Nat /\ k \in 0 .. L /\ k \in 1 .. L /\ k - 1 \in Nat /\ P(k - 1)
    <3> HIDE DEF P
    <3> QED BY <1>0, <2>2, <2>3
  <2> DEFINE old == f[k - 1]
             new == f[k]
             r == roots[k]
  <2>5. new = SeedRoot(old, r)
    BY <1>3, <2>3, <2>4 DEF Seeding
  <2>6. /\ Shape(old) /\ Linked(old)
        /\ \A t \in Names : old.allowed[t] = Versions \/ Queued(old, t)
        /\ \A t \in Names : old.chosen[t] # None => t \in RootNames
        /\ \A i \in 1 .. (k - 1) : (\A j \in 1 .. (k - 1) : j > i => roots[j].name # roots[i].name)
                   => old.chosen[roots[i].name] = RootId(roots[i])
    BY <2>4
  <2>7. r.name \in Names /\ r.name \in RootNames /\ Declared(r.summary.dependencies)
    BY <1>0, <2>4
  <2> HIDE DEF old, new, r
  <2>8. /\ Shape(new) /\ Linked(new)
        /\ new.chosen = [old.chosen EXCEPT ![r.name] = RootId(r)]
        /\ \A t \in Names : new.allowed[t] = old.allowed[t] \/ Queued(new, t)
        /\ \A t \in Names : Queued(old, t) => Queued(new, t)
    BY <2>5, <2>6, <2>7, SeedRootFacts
  <2>9. \A t \in Names : new.allowed[t] = Versions \/ Queued(new, t)
    BY <2>6, <2>8
  <2>10. \A t \in Names : new.chosen[t] = IF t = r.name THEN RootId(r) ELSE old.chosen[t]
    BY <2>6, <2>8 DEF Shape
  <2>11. \A t \in Names : new.chosen[t] # None => t \in RootNames
    BY <2>6, <2>7, <2>10
  <2>12. ASSUME NEW i \in 1 .. k, \A j \in 1 .. k : j > i => roots[j].name # roots[i].name
         PROVE  new.chosen[roots[i].name] = RootId(roots[i])
    <3>1. CASE i = k
      BY <2>7, <2>10, <3>1 DEF r
    <3>2. CASE i # k
      <4>1. i \in 1 .. (k - 1) /\ k > i /\ k \in 1 .. k
        BY <2>4, <3>2
      <4>2. \A j \in 1 .. (k - 1) : j > i => roots[j].name # roots[i].name
        BY <2>4, <2>12
      <4>3. old.chosen[roots[i].name] = RootId(roots[i])
        BY <2>6, <4>1, <4>2
      <4>4. roots[k].name # roots[i].name /\ roots[i].name \in Names
        BY <1>0, <2>4, <2>12, <4>1
      <4> QED BY <2>10, <4>3, <4>4 DEF r
    <3> QED BY <3>1, <3>2
  <2>13. P(k)
    <3>1. /\ Shape(f[k]) /\ Linked(f[k])
          /\ \A t \in Names : f[k].allowed[t] = Versions \/ Queued(f[k], t)
          /\ \A t \in Names : f[k].chosen[t] # None => t \in RootNames
      BY <2>8, <2>9, <2>11, Zenon DEF new
    <3>2. \A i \in 1 .. k : (\A j \in 1 .. k : j > i => roots[j].name # roots[i].name)
                   => f[k].chosen[roots[i].name] = RootId(roots[i])
      BY <2>12, Zenon DEF new
    <3> QED BY <3>1, <3>2, Zenon
  <2> QED BY <2>2, <2>13
<1> DEFINE p == f[L]
           k == Kept(Order, at)
           q == Seeded
<1>5. /\ Shape(p) /\ Linked(p)
      /\ \A t \in Names : p.allowed[t] = Versions \/ Queued(p, t)
      /\ \A t \in Names : p.chosen[t] # None => t \in RootNames
      /\ \A i \in 1 .. L : (\A j \in 1 .. L : j > i => roots[j].name # roots[i].name)
                   => p.chosen[roots[i].name] = RootId(roots[i])
  BY <1>4
<1>6. k \in Seq(Names)
  BY ResolverAssumption, KeptFacts
<1>7. q = [p EXCEPT !.features = @ \o k]
  BY <1>2, Zenon
<1> HIDE DEF p, k, q
<1>8. Picked(p)
  BY <1>5 DEF Picked
<1>9. Rooted(p)
  <2>1. ASSUME NEW n \in RootNames
        PROVE  p.chosen[n] = RootId(RootOf(n)) /\ (RootOf(n).version \in p.allowed[n] \/ Queued(p, n))
    <3>1. PICK i \in 1 .. L : /\ RootOf(n) = roots[i] /\ roots[i].name = n
                              /\ \A j \in 1 .. L : j > i => roots[j].name # n
                              /\ n \in Names
      BY RootOfFacts DEF L
    <3>2. RootOf(n).version \in Versions
      BY <1>0, <3>1
    <3> QED BY <1>5, <3>1, <3>2
  <2> QED BY <2>1 DEF Rooted
<1>11. /\ Fielded(q)
       /\ q.chosen = p.chosen /\ q.rep = p.rep /\ q.allowed = p.allowed /\ q.edges = p.edges
       /\ q.packages = p.packages /\ q.conflict = p.conflict
       /\ q.features = p.features \o k
  BY <1>5, <1>7 DEF Shape, Fielded, Fields
<1>12. Shape(q)
  BY <1>5, <1>6, <1>11 DEF Shape
<1>13. Sound(q)
  BY <1>5, <1>8, <1>9, <1>11, <1>12, SameLinked DEF Sound
<1> QED BY <1>13 DEF q

-----------------------------------------------------------------------------
(* The package queue. *)

(* The names to choose are the queued ones that are neither roots nor      *)
(* chosen (process_packages).                                              *)
LEMMA ToChooseFacts ==
    ASSUME NEW p, Shape(p)
    PROVE  /\ ToChoose(p) \in Seq(Names)
           /\ \A n \in Names : n \in ToSet(ToChoose(p)) <=>
                 Queued(p, n) /\ n \notin RootNames /\ p.chosen[n] = None
<1> DEFINE queue == p.packages
           at == {i \in DOMAIN queue : /\ queue[i] \notin RootNames
                                       /\ p.chosen[queue[i]] = None
                                       /\ \A j \in 1 .. (i - 1) : queue[j] # queue[i]}
           k == ToChoose(p)
<1>0. queue \in Seq(Names) /\ Len(queue) \in Nat /\ DOMAIN queue = 1 .. Len(queue)
  BY DEF Shape
<1>1. k = Kept(queue, at)
  BY DEF ToChoose
<1> HIDE DEF queue, k
<1>2. /\ k \in Seq(Names)
      /\ \A i \in DOMAIN k : \E j \in DOMAIN queue : j \in at /\ k[i] = queue[j]
      /\ \A j \in DOMAIN queue : j \in at => \E i \in DOMAIN k : k[i] = queue[j]
  <2> HIDE DEF at
  <2> QED BY <1>0, <1>1, KeptFacts
<1>3. ASSUME NEW n \in Names, n \in ToSet(k)
      PROVE  Queued(p, n) /\ n \notin RootNames /\ p.chosen[n] = None
  BY <1>2, <1>3 DEF ToSet, Queued, queue
<1>4. ASSUME NEW n \in Names, Queued(p, n), n \notin RootNames, p.chosen[n] = None
      PROVE  n \in ToSet(k)
  <2> DEFINE I == {i \in DOMAIN queue : queue[i] = n}
  <2>1. I \in SUBSET Nat /\ I # {}
    BY <1>0, <1>4 DEF Queued, queue
  <2>2. PICK i \in I : \A j \in I : i <= j
    <3> HIDE DEF I
    <3> QED BY <2>1, LeastNat
  <2>3. i \in DOMAIN queue /\ queue[i] = n /\ i \in Nat
    BY <1>0, <2>2
  <2>4. \A j \in 1 .. (i - 1) : queue[j] # queue[i]
    BY <1>0, <2>2, <2>3
  <2>5. i \in at
    BY <1>4, <2>3, <2>4
  <2> QED BY <1>2, <2>3, <2>5 DEF ToSet
<1> QED BY <1>2, <1>3, <1>4 DEF k

(* A choice has the source it was asked for, and is the pin if the pin will *)
(* do (select).                                                            *)
LEMMA SelectFacts ==
    ASSUME NEW l, NEW a, NEW pin, NEW src, Select(l, a, pin, src) # None
    PROVE  /\ Select(l, a, pin, src).source = src
           /\ pin # None /\ pin.source = src /\ pin.version \in a => Select(l, a, pin, src) = pin
<1>1. CASE pin # None /\ pin.source = src /\ pin.version \in a
  BY <1>1 DEF Select
<1>2. CASE ~(pin # None /\ pin.source = src /\ pin.version \in a)
  <2>1. Select(l, a, pin, src) = [version |-> Max(l \cap a), source |-> src]
    BY <1>2 DEF Select
  <2> QED BY <1>2, <2>1
<1> QED BY <1>1, <1>2

(* The queue is drained: what was in it is chosen, or a root that meets    *)
(* the requirements.                                                       *)
LEMMA DrainedSound ==
    ASSUME Declaring, Sound(pass), ~RootRefused(pass), NEW listed, NEW chosen,
           chosen = ChosenAfter(ToSet(ToChoose(pass)), listed),
           \A n \in ToSet(ToChoose(pass)) :
              chosen[n] # None /\ chosen[n].version \in DOMAIN universe[n]
    PROVE  /\ Sound([pass EXCEPT !.packages = <<>>, !.chosen = chosen])
           /\ [pass EXCEPT !.packages = <<>>, !.chosen = chosen].chosen = chosen
           /\ \A n \in ToSet(ToChoose(pass)) : n \in Names /\ chosen[n] # None
<1> DEFINE names == ToSet(ToChoose(pass))
           q == [pass EXCEPT !.packages = <<>>, !.chosen = chosen]
<1>0. Shape(pass) /\ Linked(pass) /\ Picked(pass) /\ Rooted(pass)
  BY DEF Sound
<1>1. /\ names \subseteq Names
      /\ \A n \in Names : n \in names <=>
            Queued(pass, n) /\ n \notin RootNames /\ pass.chosen[n] = None
  <2>1. ToChoose(pass) \in Seq(Names)
    BY <1>0, ToChooseFacts
  <2>2. names \subseteq Names
    BY <2>1 DEF ToSet
  <2> QED BY <1>0, <2>2, ToChooseFacts
<1> HIDE DEF names
<1>2. chosen = [n \in Names |->
        IF n \in names
        THEN Select(listed[<<pass.rep[n].source, n>>], pass.allowed[n], pins[n], pass.rep[n].source)
        ELSE pass.chosen[n]]
  BY Zenon DEF ChosenAfter, names
<1>3. \A n \in names : chosen[n] # None /\ chosen[n].version \in DOMAIN universe[n]
  BY DEF names
<1>4. /\ Fielded(q) /\ q.chosen = chosen /\ q.allowed = pass.allowed /\ q.rep = pass.rep
      /\ q.edges = pass.edges /\ q.packages = <<>> /\ q.features = pass.features
      /\ q.conflict = pass.conflict
  BY <1>0 DEF Shape, Fielded, Fields
<1> HIDE DEF q
<1>5. Shape(q)
  <2>1. q.chosen = [n \in Names |-> q.chosen[n]]
    BY <1>2, <1>4
  <2>2. q.packages \in Seq(Names)
    BY <1>4
  <2> QED BY <1>0, <1>4, <2>1, <2>2 DEF Shape
<1>6. \A n \in Names : ~Queued(q, n)
  BY <1>4 DEF Queued
<1>7. \A n \in Names : n \notin names => chosen[n] = pass.chosen[n]
  BY <1>2
<1>8. RootNames \subseteq Names /\ \A n \in RootNames : chosen[n] # None /\ n \notin names
  <2>1. RootNames \subseteq Names
    BY RootNamesAreNames
  <2>2. \A r : RootId(r) # None
    BY DEF RootId, None
  <2> QED BY <1>0, <1>1, <1>7, <2>1, <2>2 DEF Rooted
<1>9. \A n \in Names : pass.chosen[n] # None \/ Queued(pass, n) => chosen[n] # None
  BY <1>1, <1>3, <1>7, <1>8
<1>10. Linked(q)
  BY <1>0, <1>4, <1>6, <1>9 DEF Linked
<1>11. Picked(q)
  <2>1. SUFFICES ASSUME NEW n \in Names, n \notin RootNames, chosen[n] # None
        PROVE  /\ pass.rep[n] # NoDeclaration
               /\ chosen[n].source = pass.rep[n].source
               /\ chosen[n].version \in DOMAIN universe[n]
               /\ pins[n] # None /\ pins[n].source = pass.rep[n].source
                    /\ pins[n].version \in pass.allowed[n] => chosen[n] = pins[n]
    BY <1>4 DEF Picked
  <2>2. CASE n \notin names
    BY <1>0, <1>7, <2>1, <2>2 DEF Picked
  <2>3. CASE n \in names
    <3>1. pass.rep[n] # NoDeclaration
      BY <1>0, <1>1, <2>3 DEF Linked
    <3>2. PICK l : chosen[n] = Select(l, pass.allowed[n], pins[n], pass.rep[n].source)
      BY <1>2, <2>3
    <3>3. /\ chosen[n].source = pass.rep[n].source
          /\ pins[n] # None /\ pins[n].source = pass.rep[n].source
               /\ pins[n].version \in pass.allowed[n] => chosen[n] = pins[n]
      BY <2>1, <3>2, SelectFacts
    <3> QED BY <1>3, <2>3, <3>1, <3>3
  <2> QED BY <2>2, <2>3
<1>12. Rooted(q)
  <2>1. \A n \in RootNames : Queued(pass, n) => RootOf(n).version \in pass.allowed[n]
    BY DEF RootRefused, Queued, ToSet
  <2> QED BY <1>0, <1>4, <1>7, <1>8, <2>1 DEF Rooted
<1> QED BY <1>1, <1>3, <1>4, <1>5, <1>10, <1>11, <1>12 DEF Sound, q, names

\* One step of Discovered, after the steps in g.
Finding(g, drained, batch, i) ==
    LET ds(n) == SummaryOf(drained, n).dependencies
        plain(n) == Kept(ds(n), {j \in DOMAIN ds(n) : ~ds(n)[j].dev /\ ~ds(n)[j].optional})
    IN IF i = 0 THEN drained
       ELSE EnqueueAll([g[i - 1] EXCEPT !.features = Append(@, batch[i])],
                       batch[i], plain(batch[i]))

IsFinding(g, drained, batch, m) == g = [i \in 0 .. m |-> Finding(g, drained, batch, i)]

(* The recursion of Discovered defines a function.                          *)
LEMMA FindingExists ==
    ASSUME NEW drained, NEW batch, NEW m \in Nat
    PROVE  \E g : IsFinding(g, drained, batch, m)
<1> DEFINE E(k) == \E g : g = [n \in 0 .. k |-> Finding(g, drained, batch, n)]
           T == {k \in Nat : ~E(k)}
<1>1. SUFFICES ASSUME T # {} PROVE FALSE
  BY Zenon DEF IsFinding
<1>2. PICK k \in T : \A y \in T : k <= y
  <2> HIDE DEF E
  <2> QED BY <1>1, LeastNat
<1>3. k # 0
  <2>1. SUFFICES ASSUME k = 0 PROVE E(0)
    BY <1>2
  <2> DEFINE g == [n \in 0 .. 0 |-> drained]
  <2>2. g = [n \in 0 .. 0 |-> Finding(g, drained, batch, n)]
    BY DEF Finding
  <2> QED BY <2>2
<1>4. k \in Nat /\ k - 1 \in Nat /\ k - 1 \notin T
  <2> HIDE DEF T
  <2>1. T \subseteq Nat
    BY DEF T
  <2> QED BY <1>2, <1>3, <2>1
<1>5. E(k - 1)
  BY <1>4
<1>6. PICK h : h = [n \in 0 .. (k - 1) |-> Finding(h, drained, batch, n)]
  BY <1>5
<1> DEFINE g == [n \in 0 .. k |-> IF n = k THEN Finding(h, drained, batch, k) ELSE h[n]]
<1>7. ASSUME NEW n \in 0 .. k PROVE g[n] = Finding(g, drained, batch, n)
  <2>1. CASE n = 0
    <3>1. \A x : Finding(x, drained, batch, 0) = drained
      BY Zenon DEF Finding
    <3>2. n \in 0 .. (k - 1) /\ n # k /\ h[n] = Finding(h, drained, batch, 0)
      BY <1>3, <1>4, <1>6, <2>1
    <3>3. g[n] = h[n]
      BY <3>2
    <3> HIDE DEF g
    <3> QED BY <2>1, <3>1, <3>2, <3>3
  <2>2. CASE n # 0
    <3>1. n - 1 \in 0 .. (k - 1) /\ n - 1 \in 0 .. k /\ n - 1 # k
      BY <1>4, <2>2
    <3>2. g[n - 1] = h[n - 1]
      BY <3>1
    <3>3. Finding(g, drained, batch, n) = Finding(h, drained, batch, n)
      <4> HIDE DEF g
      <4> QED BY <3>2 DEF Finding
    <3>4. g[n] = IF n = k THEN Finding(h, drained, batch, k) ELSE h[n]
      OBVIOUS
    <3>5. n # k => h[n] = Finding(h, drained, batch, n)
      <4>1. n # k => n \in 0 .. (k - 1)
        BY <1>4
      <4> QED BY <1>6, <4>1
    <3> QED BY <3>3, <3>4, <3>5
  <2> QED BY <2>1, <2>2
<1>8. g = [n \in 0 .. k |-> g[n]]
  OBVIOUS
<1>9. g = [n \in 0 .. k |-> Finding(g, drained, batch, n)]
  <2> HIDE DEF g
  <2> QED BY <1>7, <1>8
<1>10. E(k)
  <2> HIDE DEF g
  <2> QED BY <1>9
<1> QED BY <1>2, <1>10

(* The edges of what was chosen are added soundly.                         *)
LEMMA DiscoveredSound ==
    ASSUME Declaring, NEW batch \in Seq(Names), NEW chosen,
           Sound([pass EXCEPT !.packages = <<>>, !.chosen = chosen]),
           [pass EXCEPT !.packages = <<>>, !.chosen = chosen].chosen = chosen,
           \A n \in ToSet(batch) : chosen[n] # None
    PROVE  Sound(Discovered(batch, chosen))
<1> DEFINE drained == [pass EXCEPT !.packages = <<>>, !.chosen = chosen]
           L == Len(batch)
           f == CHOOSE g : IsFinding(g, drained, batch, L)
<1>0. /\ L \in Nat /\ DOMAIN batch = 1 .. L
      /\ \A i \in 1 .. L : batch[i] \in Names /\ chosen[batch[i]] # None
  BY DEF ToSet
<1>1. f = [n \in 0 .. L |-> Finding(f, drained, batch, n)]
  <2> HIDE DEF L, drained
  <2>1. \E g : IsFinding(g, drained, batch, L)
    BY <1>0, FindingExists
  <2>2. IsFinding(f, drained, batch, L)
    BY <2>1, Zenon
  <2> HIDE DEF f
  <2> QED BY <2>2, Zenon DEF IsFinding
<1>2. Discovered(batch, chosen) = f[L]
  BY Zenon DEF Discovered, IsFinding, Finding
<1>3. Sound(drained) /\ drained.chosen = chosen
  OBVIOUS
<1> HIDE DEF f, L, drained
<1>4. \A n \in 0 .. L : f[n] = Finding(f, drained, batch, n)
  BY <1>1, Zenon
<1> DEFINE P(n) == Sound(f[n]) /\ f[n].chosen = chosen
           T == {n \in Nat : n <= L /\ ~P(n)}
<1>5. P(L)
  <2>1. SUFFICES ASSUME T # {} PROVE FALSE
    BY <1>0
  <2>2. PICK k \in T : \A y \in T : k <= y
    <3> HIDE DEF P
    <3> QED BY <2>1, LeastNat
  <2>3. k # 0
    <3>1. f[0] = drained
      <4>1. Finding(f, drained, batch, 0) = drained
        BY Zenon DEF Finding
      <4> QED BY <1>0, <1>4, <4>1
    <3>2. P(0)
      BY <1>3, <3>1
    <3> QED BY <2>2, <3>2
  <2>4. k \in Nat /\ k \in 0 .. L /\ k \in 1 .. L /\ k - 1 \in Nat /\ P(k - 1)
    <3> HIDE DEF P
    <3> QED BY <1>0, <2>2, <2>3
  <2> DEFINE old == f[k - 1]
             n == batch[k]
             mid == [old EXCEPT !.features = Append(@, n)]
             ds == SummaryOf(drained, n).dependencies
  <2>5. PICK at : f[k] = EnqueueAll(mid, n, Kept(ds, at))
    <3>1. f[k] = Finding(f, drained, batch, k)
      BY <1>4, <2>4
    <3> QED BY <2>3, <3>1, Zenon DEF Finding
  <2>6. Sound(old) /\ old.chosen = chosen /\ n \in Names /\ chosen[n] # None
    BY <1>0, <2>4
  <2>7. Declared(Kept(ds, at))
    <3>1. Picked(drained) /\ drained.chosen[n] # None
      BY <1>3, <2>6 DEF Sound
    <3>2. Declared(ds)
      BY <2>6, <3>1, SummaryDeclared
    <3> QED BY <3>2, KeptDeclared
  <2> HIDE DEF old, n, ds
  <2>8. /\ Fielded(mid) /\ mid.chosen = old.chosen /\ mid.allowed = old.allowed
        /\ mid.rep = old.rep /\ mid.edges = old.edges /\ mid.packages = old.packages
        /\ mid.features = Append(old.features, n) /\ mid.conflict = old.conflict
    <3>1. Shape(old)
      BY <2>6 DEF Sound
    <3> DEFINE queue == Append(old.features, n)
    <3>2. mid = [old EXCEPT !.features = queue]
      OBVIOUS
    <3> HIDE DEF queue, mid
    <3>3. /\ Fielded(mid) /\ mid.chosen = old.chosen /\ mid.allowed = old.allowed
          /\ mid.rep = old.rep /\ mid.edges = old.edges /\ mid.packages = old.packages
          /\ mid.features = queue /\ mid.conflict = old.conflict
      BY <3>1, <3>2 DEF Shape, Fielded, Fields
    <3> QED BY <3>3 DEF queue
  <2> HIDE DEF mid
  <2>9. Shape(mid)
    <3>1. mid.features \in Seq(Names)
      BY <2>6, <2>8 DEF Sound, Shape
    <3> QED BY <2>6, <2>8, <3>1 DEF Sound, Shape
  <2>10. Sound(mid)
    BY <2>6, <2>8, <2>9, SameLinked
  <2>11. Sound(f[k]) /\ f[k].chosen = mid.chosen
    BY <2>5, <2>6, <2>7, <2>10, EnqueueSound, RootNamesAreNames
  <2>12. P(k)
    BY <2>6, <2>8, <2>11
  <2> QED BY <2>2, <2>12
<1> QED BY <1>2, <1>5

-----------------------------------------------------------------------------
(* The feature queue. *)

(* Routing forwards changes what is asked of the targets' features only.   *)
LEMMA RoutedSound ==
    ASSUME NEW p, Sound(p), NEW s, Declared(s.dependencies), NEW e
    PROVE  Sound(Routed(p, s, e)) /\ Routed(p, s, e).chosen = p.chosen
<1> DEFINE q == Routed(p, s, e)
           target(l) == Dependency(s, l).package
<1>1. PICK r, at :
        /\ q = [p EXCEPT !.requested = r,
                         !.features = @ \o [i \in DOMAIN Kept(Order, at) |->
                                              target(Kept(Order, at)[i])]]
        /\ \A i \in at : Labelled(s, Order[i]) # {}
  <2> DEFINE sent(l) == {v.feature : v \in {w \in e.routes : w.label = l}}
             to(t) == {i \in DOMAIN Order : Labelled(s, Order[i]) # {} /\ target(Order[i]) = t}
             first(t, k) == UNION {sent(Order[i]) : i \in {j \in to(t) : j < k}}
             gains(i) == \E t \in Names :
                     /\ i \in to(t)
                     /\ ~(sent(Order[i]) \subseteq p.requested[t].forwarded \cup first(t, i))
             at == {i \in DOMAIN Order : gains(i)}
             r == [t \in Names |->
                     [p.requested[t] EXCEPT !.forwarded = @ \cup first(t, Len(Order) + 1)]]
  <2>1. q = [p EXCEPT !.requested = r,
                      !.features = @ \o [i \in DOMAIN Kept(Order, at) |->
                                           target(Kept(Order, at)[i])]]
    BY Zenon DEF Routed
  <2>2. \A i \in at : Labelled(s, Order[i]) # {}
    OBVIOUS
  <2> HIDE DEF q, at, r
  <2> QED BY <2>1, <2>2, Zenon
<1> DEFINE gaining == Kept(Order, at)
           more == [i \in DOMAIN gaining |-> target(gaining[i])]
           queue == p.features \o more
<1>2. /\ gaining \in Seq(Names)
      /\ \A i \in DOMAIN gaining : \E j \in DOMAIN Order : j \in at /\ gaining[i] = Order[j]
  BY ResolverAssumption, KeptFacts
<1>3. q = [p EXCEPT !.requested = r, !.features = queue]
  BY <1>1, Zenon
<1> HIDE DEF gaining, q
<1>4. \A i \in DOMAIN gaining : target(gaining[i]) \in Names
  <2> SUFFICES ASSUME NEW i \in DOMAIN gaining PROVE target(gaining[i]) \in Names
    OBVIOUS
  <2>1. Labelled(s, gaining[i]) # {}
    BY <1>1, <1>2
  <2> QED BY <2>1, DependencyDeclared
<1>5. more \in Seq(Names)
  <2> HIDE DEF target
  <2> QED BY <1>2, <1>4
<1>6. Shape(p)
  BY DEF Sound
<1>7. queue \in Seq(Names)
  <2> HIDE DEF more
  <2> QED BY <1>5, <1>6 DEF Shape
<1> HIDE DEF queue
<1>8. /\ Fielded(q) /\ q.chosen = p.chosen /\ q.allowed = p.allowed
      /\ q.rep = p.rep /\ q.edges = p.edges /\ q.packages = p.packages
      /\ q.features = queue /\ q.conflict = p.conflict
  BY <1>3, <1>6 DEF Shape, Fielded, Fields
<1>9. Shape(q)
  BY <1>6, <1>7, <1>8 DEF Shape
<1>10. Sound(q)
  BY <1>8, <1>9, SameLinked
<1> QED BY <1>8, <1>10 DEF q

(* Expanding a package keeps a pass sound (expand_features).               *)
LEMMA ExpandedSound ==
    ASSUME Declaring, NEW p, Sound(p), NEW n \in Names
    PROVE  Sound(Expanded(p, n))
<1> DEFINE s == SummaryOf(p, n)
           q == p.requested[n]
           e == Expand(s, q.selected \cup q.forwarded, q.defaults)
           turnedOn(label) == /\ label \in e.activated \ p.expanded[n].activated
                              /\ Labelled(s, label) # {}
           at == {i \in DOMAIN Order : turnedOn(Order[i])}
           on == Kept(Order, at)
           ds == [i \in DOMAIN on |-> Dependency(s, on[i])]
           table == [p.expanded EXCEPT ![n] = e]
           mid == [p EXCEPT !.expanded = table]
<1>1. Expanded(p, n) = IF p.chosen[n] = None \/ p.expanded[n] = e THEN p
                       ELSE EnqueueAll(Routed(mid, s, e), n, ds)
  BY Zenon DEF Expanded
<1>2. \A i \in at : Labelled(s, Order[i]) # {}
  OBVIOUS
<1> HIDE DEF e, at, table
<1>3. SUFFICES ASSUME p.chosen[n] # None PROVE Sound(EnqueueAll(Routed(mid, s, e), n, ds))
  BY <1>1
<1>4. Declared(s.dependencies)
  BY <1>3, SummaryDeclared DEF Sound
<1> HIDE DEF s
<1>5. Shape(p)
  BY DEF Sound
<1>6. /\ Fielded(mid) /\ mid.chosen = p.chosen /\ mid.allowed = p.allowed
      /\ mid.rep = p.rep /\ mid.edges = p.edges /\ mid.packages = p.packages
      /\ mid.features = p.features /\ mid.conflict = p.conflict
  BY <1>5 DEF Shape, Fielded, Fields
<1> HIDE DEF mid
<1>7. Shape(mid)
  BY <1>5, <1>6 DEF Shape
<1>8. Sound(mid)
  BY <1>6, <1>7, SameLinked
<1>9. Sound(Routed(mid, s, e))
  BY <1>4, <1>8, RoutedSound
<1>10. /\ on \in Seq(Names)
       /\ \A i \in DOMAIN on : \E j \in DOMAIN Order : j \in at /\ on[i] = Order[j]
  BY ResolverAssumption, KeptFacts
<1> HIDE DEF on
<1>11. \A i \in DOMAIN on : /\ Dependency(s, on[i]).package \in Names
                            /\ Dependency(s, on[i]).source # "none"
  <2> SUFFICES ASSUME NEW i \in DOMAIN on
               PROVE  /\ Dependency(s, on[i]).package \in Names
                      /\ Dependency(s, on[i]).source # "none"
    OBVIOUS
  <2>1. Labelled(s, on[i]) # {}
    BY <1>2, <1>10
  <2> QED BY <1>4, <2>1, DependencyDeclared
<1>12. Declared(ds)
  <2>1. DOMAIN ds = 1 .. Len(on) /\ Len(on) \in Nat
    BY <1>10
  <2>2. ds \in Seq(ToSet(ds))
    BY <2>1 DEF ToSet
  <2>3. \A d \in ToSet(ds) : d.package \in Names /\ d.source # "none"
    BY <1>11 DEF ToSet
  <2> QED BY <2>2, <2>3 DEF Declared
<1> HIDE DEF ds
<1> QED BY <1>9, <1>12, EnqueueSound, RootNamesAreNames

-----------------------------------------------------------------------------
(* The resolution. *)

\* Every edge is met by the choice for its target.
Met == \A n \in Names : \A d \in pass.edges[n] :
         /\ pass.chosen[d.package] # None
         /\ pass.chosen[d.package].version \in d.req
         /\ d.package \notin RootNames => pass.chosen[d.package].source = d.source

(* A correction that confirms the pins corrects nothing: a choice that some *)
(* requirement refuses is replaced by one that would have been kept as a pin *)
(* (validate).                                                             *)
LEMMA ValidatedMet ==
    ASSUME Declaring, Sound(pass), ~pass.conflict, pass.packages = <<>>,
           ~\E n \in Names : pass.chosen[n] # None /\ Corrected[n] = None,
           Corrected = pins
    PROVE  Met
<1>0. Linked(pass) /\ Picked(pass) /\ Rooted(pass)
  BY DEF Sound
<1>1. \A n : ~Queued(pass, n)
  BY DEF Queued
<1>2. SUFFICES ASSUME NEW n \in Names, NEW d \in pass.edges[n]
      PROVE  /\ pass.chosen[d.package] # None
             /\ pass.chosen[d.package].version \in d.req
             /\ d.package \notin RootNames => pass.chosen[d.package].source = d.source
  BY DEF Met
<1> DEFINE t == d.package
           c == pass.chosen[t]
<1>3. /\ t \in Names /\ d.source # "none"
      /\ \A v \in pass.allowed[t] : v \in d.req
      /\ pass.rep[t].source = d.source
      /\ c # None
  BY <1>0, <1>1, <1>2 DEF Linked
<1> HIDE DEF t, c
<1>4. CASE t \in RootNames
  <2>1. c = RootId(RootOf(t)) /\ RootOf(t).version \in pass.allowed[t]
    BY <1>0, <1>1, <1>4 DEF Rooted, c
  <2>2. c.version = RootOf(t).version
    BY <2>1 DEF RootId
  <2> QED BY <1>3, <1>4, <2>1, <2>2 DEF c, t
<1>5. CASE t \notin RootNames
  <2>1. /\ c.source = pass.rep[t].source
        /\ pins[t] # None /\ pins[t].source = pass.rep[t].source
             /\ pins[t].version \in pass.allowed[t] => c = pins[t]
    BY <1>0, <1>3, <1>5 DEF Picked, c
  <2>2. c.version \in pass.allowed[t]
    <3>1. SUFFICES ASSUME c.version \notin pass.allowed[t] PROVE FALSE
      OBVIOUS
    <3> DEFINE l == candidates[<<pass.rep[t].source, t>>]
               S == l \cap pass.allowed[t]
    <3>2. pins[t] = Select(l, pass.allowed[t], None, pass.rep[t].source) /\ pins[t] # None
      BY <1>3, <3>1 DEF Corrected, c
    <3>3. S # {} /\ pins[t] = [version |-> Max(S), source |-> pass.rep[t].source]
      BY <3>2 DEF Select
    <3>4. S \subseteq Versions /\ S \in SUBSET Nat
      BY <1>0, <1>3, ResolverAssumption DEF Linked
    <3> HIDE DEF l
    <3>5. Max(S) \in S
      <4>1. PICK b \in Nat : \A v \in Versions : v <= b
        BY VersionsBounded
      <4>2. \A v \in S : v <= b
        BY <3>4, <4>1
      <4> HIDE DEF S
      <4> QED BY <3>3, <3>4, <4>2, MaxFacts
    <3>6. pins[t].version = Max(S) /\ pins[t].source = pass.rep[t].source
      BY <3>3
    <3>7. Max(S) \in pass.allowed[t]
      BY <3>5
    <3> HIDE DEF S
    <3>8. c = pins[t]
      BY <2>1, <3>2, <3>6, <3>7
    <3> QED BY <3>1, <3>6, <3>7, <3>8
  <2> QED BY <1>3, <1>5, <2>1, <2>2 DEF c, t
<1> QED BY <1>4, <1>5

(* While a pass walks, and after the last one, it is sound and without a   *)
(* conflict.                                                               *)
IInv ==
    /\ Declaring
    /\ phase \in {"walk", "done"} => Sound(pass) /\ ~pass.conflict
    /\ RequirementsMet

(* A resolution starts with a job whose packages there are.                *)
LEMMA InitIInv == Init => IInv
<1>1. SUFFICES ASSUME Init PROVE IInv
  OBVIOUS
<1>2. PICK j \in Jobs : universe = j.universe /\ roots = j.roots
  BY <1>1 DEF Init
<1>3. Declaring
  BY <1>2, JobsAssumption DEF Declaring
<1> QED BY <1>1, <1>3 DEF IInv, Init, RequirementsMet

(* The next pass is sound when it is q, sound already for the job at hand. *)
LEMMA SoundNext ==
    ASSUME NEW q, Sound(q), pass' = q, UNCHANGED <<universe, roots, pins>>
    PROVE  Sound(pass)'
<1>1. RootNames' = RootNames
  BY DEF RootNames
<1>2. \A n : RootOf(n)' = RootOf(n)
  BY DEF RootOf
<1>3. Shape(pass)'
  BY DEF Sound, Shape, Fielded
<1>4. Linked(pass)'
  BY DEF Sound, Linked, Queued
<1>5. Picked(pass)'
  BY <1>1 DEF Sound, Picked
<1>6. Rooted(pass)'
  BY <1>1, <1>2 DEF Sound, Rooted, Queued, RootId
<1> QED BY <1>3, <1>4, <1>5, <1>6 DEF Sound

(* A step of a walk that leaves the job and the pins alone.                *)
LEMMA WalkIInv ==
    ASSUME IInv, NEW q, Sound(q), ~q.conflict, pass' = q, phase' = "walk",
           UNCHANGED <<universe, roots, pins>>
    PROVE  IInv'
<1>1. Declaring'
  BY DEF IInv, Declaring
<1>2. Sound(pass)'
  BY SoundNext
<1> QED BY <1>1, <1>2 DEF IInv, RequirementsMet

(* A step after which no pass walks: the next one starts, or an error.     *)
LEMMA RestIInv ==
    ASSUME IInv, phase' \in {"seed", "failed"}, UNCHANGED <<universe, roots>>
    PROVE  IInv'
<1>1. Declaring'
  BY DEF IInv, Declaring
<1> QED BY <1>1 DEF IInv, RequirementsMet

(* An error ends the walk.                                                 *)
LEMMA FailIInv == ASSUME IInv, NEW why, Fail(why) PROVE IInv'
BY RestIInv DEF Fail

(* Seeding starts a sound pass.                                            *)
LEMMA SeedRootsIInv == ASSUME IInv, SeedRoots PROVE IInv'
<1>1. CASE Seeded.conflict
  BY <1>1, FailIInv DEF SeedRoots
<1>2. CASE ~Seeded.conflict
  <2>1. PICK q : q = Seeded
    OBVIOUS
  <2>2. Sound(q)
    BY <2>1, SeededSound DEF IInv
  <2>3. pass' = q /\ phase' = "walk" /\ UNCHANGED <<universe, roots, pins>>
    BY <1>2, <2>1 DEF SeedRoots
  <2> QED BY <1>2, <2>1, <2>2, <2>3, WalkIInv
<1> QED BY <1>1, <1>2

(* Draining the package queue keeps it sound.                              *)
LEMMA ProcessPackagesIInv == ASSUME IInv, ProcessPackages PROVE IInv'
<1> DEFINE batch  == ToChoose(pass)
           names  == ToSet(batch)
           listed == ListedAfter(names)
           chosen == ChosenAfter(names, listed)
           next   == Discovered(batch, chosen)
<1>1. CASE \E why : Fail(why)
  BY <1>1, FailIInv
<1>2. CASE /\ ~RootRefused(pass)
           /\ \A n \in names : chosen[n] # None
           /\ ~next.conflict
           /\ \A n \in names : chosen[n].version \in DOMAIN universe[n]
           /\ pass' = next
           /\ UNCHANGED <<universe, published, roots, lock, pins, round, phase, error>>
  <2>1. phase = "walk" /\ Declaring /\ Sound(pass)
    BY DEF ProcessPackages, IInv
  <2>2. PICK l, c : l = listed /\ c = chosen
    OBVIOUS
  <2>3. batch \in Seq(Names)
    BY <2>1, ToChooseFacts DEF Sound
  <2>4. /\ Sound([pass EXCEPT !.packages = <<>>, !.chosen = c])
        /\ [pass EXCEPT !.packages = <<>>, !.chosen = c].chosen = c
        /\ \A n \in names : c[n] # None
    BY <1>2, <2>1, <2>2, DrainedSound
  <2>5. PICK q : q = Discovered(batch, c)
    OBVIOUS
  <2>6. Sound(q)
    BY <2>1, <2>3, <2>4, <2>5, DiscoveredSound
  <2>7. pass' = q /\ phase' = "walk" /\ ~q.conflict
    BY <1>2, <2>1, <2>2, <2>5
  <2> QED BY <1>2, <2>6, <2>7, WalkIInv
<1> QED BY <1>1, <1>2 DEF ProcessPackages

(* So does one expansion from the feature queue.                           *)
LEMMA ExpandFeaturesIInv == ASSUME IInv, ExpandFeatures PROVE IInv'
<1>0. phase = "walk" /\ Declaring /\ Sound(pass) /\ pass.features # <<>>
  BY DEF ExpandFeatures, IInv
<1> DEFINE mid == [pass EXCEPT !.features = Tail(@)]
           n == Head(pass.features)
<1>1. PICK q : q = Expanded(mid, n)
  OBVIOUS
<1>2. CASE q.conflict
  BY <1>1, <1>2, FailIInv DEF ExpandFeatures
<1>3. CASE ~q.conflict
  <2>1. pass' = q /\ phase' = "walk" /\ UNCHANGED <<universe, roots, pins>>
    BY <1>0, <1>1, <1>3 DEF ExpandFeatures
  <2> DEFINE queue == Tail(pass.features)
  <2>2. Shape(pass) /\ pass.features \in Seq(Names) /\ queue \in Seq(Names) /\ n \in Names
    BY <1>0 DEF Sound, Shape
  <2> HIDE DEF queue, n
  <2>3. mid = [pass EXCEPT !.features = queue]
    BY DEF queue
  <2> HIDE DEF mid
  <2>4. /\ Fielded(mid) /\ mid.chosen = pass.chosen /\ mid.allowed = pass.allowed
        /\ mid.rep = pass.rep /\ mid.edges = pass.edges /\ mid.packages = pass.packages
        /\ mid.features = queue /\ mid.conflict = pass.conflict
    BY <2>2, <2>3 DEF Shape, Fielded, Fields
  <2>5. Shape(mid)
    BY <2>2, <2>4 DEF Shape
  <2>6. Sound(mid)
    BY <1>0, <2>4, <2>5, SameLinked
  <2>7. Sound(q)
    BY <1>0, <1>1, <2>2, <2>6, ExpandedSound
  <2> QED BY <1>3, <2>1, <2>7, WalkIInv
<1> QED BY <1>2, <1>3

(* The end of a pass: done with every edge met, another pass, or an error. *)
LEMMA ValidateIInv == ASSUME IInv, Validate PROVE IInv'
<1>0. /\ phase = "walk" /\ Declaring /\ Sound(pass) /\ ~pass.conflict
      /\ pass.packages = <<>>
  BY DEF Validate, IInv
<1> DEFINE refused == \E n \in Names : pass.chosen[n] # None /\ Corrected[n] = None
<1>1. CASE \E why : Fail(why)
  BY <1>1, FailIInv
<1>2. CASE /\ ~refused /\ Corrected = pins /\ phase' = "done"
           /\ UNCHANGED <<universe, published, roots, lock, pins, round, error,
                          candidates, summaries, pass>>
  <2>1. Met
    BY <1>0, <1>2, ValidatedMet
  <2>2. PICK q : q = pass
    OBVIOUS
  <2>3. Sound(pass)' /\ ~pass'.conflict
    BY <1>0, <1>2, <2>2, SoundNext
  <2>4. Declaring'
    BY <1>0, <1>2 DEF Declaring
  <2>5. RootNames' = RootNames
    BY <1>2 DEF RootNames
  <2>6. RequirementsMet'
    BY <1>2, <2>1, <2>5 DEF Met, RequirementsMet, Active
  <2> QED BY <2>3, <2>4, <2>6 DEF IInv
<1>3. CASE phase' = "seed" /\ UNCHANGED <<universe, roots>>
  BY <1>3, RestIInv
<1>4. \/ refused /\ Fail("NoMatchingVersion")
      \/ /\ ~refused /\ Corrected = pins /\ phase' = "done"
         /\ UNCHANGED <<universe, published, roots, lock, pins, round, error,
                        candidates, summaries, pass>>
      \/ Fail("NotConverged")
      \/ phase' = "seed" /\ UNCHANGED <<universe, roots>>
  BY DEF Validate
<1> QED BY <1>1, <1>2, <1>3, <1>4

(* A step that changes neither the job, the pins, the phase nor the pass.  *)
LEMMA SameIInv ==
    ASSUME IInv, UNCHANGED <<universe, roots, pins, phase, pass>>
    PROVE  IInv'
<1>1. Declaring'
  BY DEF IInv, Declaring
<1>2. PICK q : q = pass
  OBVIOUS
<1>3. Sound(pass) => Sound(pass)'
  BY <1>2, SoundNext
<1>4. RootNames' = RootNames
  BY DEF RootNames
<1>5. RequirementsMet'
  BY <1>4 DEF IInv, RequirementsMet, Active
<1> QED BY <1>1, <1>3, <1>5 DEF IInv

(* The invariant is inductive.                                             *)
LEMMA NextIInv == IInv /\ [Next]_rvars => IInv'
<1>1. SUFFICES ASSUME IInv, [Next]_rvars PROVE IInv'
  OBVIOUS
<1>2. CASE SeedRoots
  BY <1>1, <1>2, SeedRootsIInv
<1>3. CASE ProcessPackages
  BY <1>1, <1>3, ProcessPackagesIInv
<1>4. CASE ExpandFeatures
  BY <1>1, <1>4, ExpandFeaturesIInv
<1>5. CASE Validate
  BY <1>1, <1>5, ValidateIInv
<1>6. CASE Publish
  BY <1>1, <1>6, SameIInv DEF Publish
<1>7. CASE UNCHANGED rvars
  BY <1>1, <1>7, SameIInv DEF rvars
<1> QED BY <1>1, <1>2, <1>3, <1>4, <1>5, <1>6, <1>7 DEF Next, ResolverStep

(* The pass of every resolution is sound from its seed to its end.         *)
THEOREM Invariance == Spec => []IInv
<1>1. Init => IInv
  BY InitIInv
<1>2. IInv /\ [Next]_rvars => IInv'
  BY NextIInv
<1> QED BY <1>1, <1>2, PTL DEF Spec

(* A finished resolution satisfies every requirement and source of every   *)
(* edge of its graph, the ones met after their target was chosen included, *)
(* whatever is published meanwhile (Resolver::resolve, validate).          *)
THEOREM RequirementsAlwaysMet == Spec => []RequirementsMet
<1>1. IInv => RequirementsMet
  BY DEF IInv
<1> QED BY <1>1, Invariance, PTL

=============================================================================
