---------------------------- MODULE ResolutionMC ----------------------------
(* Instances of Resolution: a family of universes about versions (two        *)
(* versions of a and b, requirements that chase each other) and one about    *)
(* features (forwards in a cycle, explicit and implicit optional             *)
(* dependencies, defaults, a requirement on a root).                         *)
EXTENDS Resolution

MCOrder == <<"a", "b", "c", "root">>
MCVersions == {1, 2}
MCFeatureNames == {"default", "f", "g", "c"}

\* A range, and the exact requirement a POM's plain version is.
Dep(t, req) ==
  [name |-> t, package |-> t, source |-> "s1", req |-> req, exact |-> FALSE, features |-> {},
   defaults |-> TRUE, optional |-> FALSE, dev |-> FALSE]
Exact(t, v) == [Dep(t, {v}) EXCEPT !.exact = TRUE]
Star == MCVersions
Plain(ds) == [dependencies |-> ds, features |-> <<>>]
F(f) == [kind |-> "feature", feature |-> f, label |-> ""]
D(l) == [kind |-> "dep", label |-> l, feature |-> ""]
R(l, f) == [kind |-> "route", label |-> l, feature |-> f]

VersionUniverses ==
  LET none == <<>>
      ofA == {none} \cup {<<Exact("b", v)>> : v \in {1, 2}}
      ofB == {none, <<Dep("c", Star)>>} \cup {<<Exact("a", v)>> : v \in {1, 2}}
      ofC == {none, <<Dep("a", {1})>>, <<Dep("b", {1})>>}
  IN {[n \in {"a", "b", "c", "root"} |->
         CASE n = "a" -> <<Plain(x[1]), Plain(x[2])>>
           [] n = "b" -> <<Plain(y[1]), Plain(y[2])>>
           [] n = "c" -> <<Plain(z)>>
           [] OTHER -> <<>>] :
      x \in [{1, 2} -> ofA], y \in [{1, 2} -> ofB], z \in ofC}

FeatureUniverses ==
  LET optional(d, o) == [d EXCEPT !.optional = o]
      onA == {{}, {R("b", "g")}, {D("b")}, {F("g"), R("b", "c")}}
      onB == {{}, {R("c", "g"), R("a", "f")}, {D("c")}}
      ofC == {<<>>, <<[Dep("a", Star) EXCEPT !.features = {"f"}, !.defaults = FALSE]>>,
              <<[Dep("root", {1}) EXCEPT !.source = "workspace", !.features = {"g"}]>>,
              <<[Dep("root", {2}) EXCEPT !.source = "workspace"]>>}
  IN {[n \in {"a", "b", "c", "root"} |->
         CASE n = "a" -> <<[dependencies |-> <<optional(Dep("b", Star), o)>>,
                            features |-> [f |-> va, default |-> da, g |-> {}]]>>
           [] n = "b" -> <<[dependencies |-> <<optional(Dep("c", Star), TRUE), Dep("a", Star)>>,
                            features |-> [g |-> vb]]>>
           [] n = "c" -> <<Plain(z)>>
           [] OTHER -> <<>>] :
      o \in BOOLEAN, va \in onA, da \in {{R("b", "g")}, {F("f")}}, vb \in onB, z \in ofC}

Root(deps, selected) ==
  [name |-> "root", version |-> 1, features |-> selected, defaults |-> FALSE,
   includeDev |-> FALSE,
   summary |-> [dependencies |-> deps, features |-> [g |-> {D("b")}]]]
NoLock == [n \in {"a", "b", "c", "root"} |-> None]
Locked(n, v) == [NoLock EXCEPT ![n] = [version |-> v, source |-> "s1"]]

\* Everything is listed, or everything but the newest b.
Listed(u) == [n \in DOMAIN u |-> DOMAIN u[n]]
Late(u) == [Listed(u) EXCEPT !["b"] = {1}]
Job(u, p, deps, selected, l) ==
  [universe |-> u, published |-> p, roots |-> <<Root(deps, selected)>>, lock |-> l]

MCJobs ==
  {Job(u, Listed(u), <<Dep("a", Star), Dep("b", Star), Dep("c", Star)>>, {}, NoLock) :
     u \in VersionUniverses}
  \cup {Job(u, Late(u), <<Dep("c", Star), Dep("a", Star)>>, {}, Locked("a", 1)) :
          u \in VersionUniverses}
  \cup {Job(u, Listed(u), <<Dep("c", Star), Dep("a", Star)>>, {}, NoLock) :
          u \in FeatureUniverses}
  \cup {Job(u, Listed(u),
            <<[Dep("a", Star) EXCEPT !.defaults = FALSE],
              [Dep("b", Star) EXCEPT !.source = "s2", !.optional = TRUE]>>,
            {F("g"), R("a", "f")}, NoLock) : u \in FeatureUniverses}
  \cup {Job(u, Listed(u),
            <<[Dep("a", Star) EXCEPT !.name = t], [Dep(t, Star) EXCEPT !.source = "s2"]>>,
            {}, NoLock) :
          t \in {"a", "b"}, u \in {v \in FeatureUniverses : v["c"] = <<Plain(<<>>)>>}}

\* Everything listed, for the question whether a refusal is real.
MCStableJobs ==
  {Job(u, Listed(u), <<Dep("a", Star), Dep("c", Star)>>, {}, NoLock) :
     u \in VersionUniverses}

=============================================================================
