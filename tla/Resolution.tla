----------------------------- MODULE Resolution -----------------------------
(***************************************************************************)
(* One call of `Resolver::resolve` on any of a set of requests, against    *)
(* any of the provider contents, while releases keep appearing.            *)
(***************************************************************************)
EXTENDS Resolver

CONSTANT Jobs   \* the calls: [universe, published, roots, lock]

\* Dependencies of packages there are, each with a source.
Declared(ds) ==
  /\ ds \in Seq(ToSet(ds))
  /\ \A d \in ToSet(ds) : d.package \in Names /\ d.source # "none"

ASSUME JobsAssumption ==
  \A j \in Jobs :
    /\ \A n \in Names : \A v \in DOMAIN j.universe[n] : Declared(j.universe[n][v].dependencies)
    /\ j.roots \in Seq(ToSet(j.roots))
    /\ \A r \in ToSet(j.roots) :
         r.name \in Names /\ r.version \in Versions /\ Declared(r.summary.dependencies)

Init ==
  /\ \E j \in Jobs :
       /\ universe = j.universe
       /\ published = j.published
       /\ roots = j.roots
       /\ lock = j.lock
       /\ pins = j.lock
  /\ round = 1
  /\ phase = "seed"
  /\ error = "none"
  /\ candidates = <<>>
  /\ summaries = {}
  /\ pass = EmptyPass

Running == phase \in {"seed", "walk"}

Next == ResolverStep \/ (Running /\ Publish)

\* `resolve` is one future the host awaits to its end; the provider's answers
\* arrive, as results or as errors.  A resolution can take a step exactly as
\* long as it runs, so this is weak fairness of ResolverStep.
Spec == Init /\ [][Next]_rvars /\ (<>[]Running => []<><<ResolverStep>>_rvars)

\* Every resolution ends, in a graph or an error, however requirements and
\* versions chase each other (`max_rounds`, and queues that only grow work).
Ends == <>(phase \in {"done", "failed"})

=============================================================================
