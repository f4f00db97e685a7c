--------------------------- MODULE RegistryLockMC ---------------------------
(* Instances of RegistryLock: two versions of a, b and c each, exact          *)
(* requirements as POMs have them, ranges in the manifest.                    *)
EXTENDS RegistryLock

MCOrder == <<"a", "b", "c", "root">>
MCVersions == {1, 2}
MCFeatureNames == {"default", "a", "b", "c"}

Dep(t, req, exact) ==
  [name |-> t, package |-> t, source |-> "s1", req |-> req, exact |-> exact,
   features |-> {}, defaults |-> TRUE, optional |-> FALSE, dev |-> FALSE]
Wild(t) == Dep(t, MCVersions, FALSE)
Plain(ds) == [dependencies |-> ds, features |-> <<>>]

MCUniverses ==
  LET ofA == {<<>>, <<Dep("b", {1}, TRUE)>>}
      ofB == {<<>>, <<Dep("a", {1}, TRUE)>>}
      ofC == {<<>>, <<Dep("a", {1}, TRUE)>>, <<Dep("b", {1}, TRUE)>>}
  IN {[n \in {"a", "b", "c", "root"} |->
         CASE n = "a" -> <<Plain(<<>>), Plain(x)>>
           [] n = "b" -> <<Plain(y), Plain(<<>>)>>
           [] n = "c" -> <<Plain(z)>>
           [] OTHER -> <<>>] : x \in ofA, y \in ofB, z \in ofC}

MCManifests ==
  {<<Wild("a"), [Wild("c") EXCEPT !.optional = TRUE]>>,
   <<Wild("b"), [Wild("c") EXCEPT !.dev = TRUE]>>,
   <<Wild("b"), Wild("a")>>,
   <<>>}

=============================================================================
