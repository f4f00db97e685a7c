--------------------------- MODULE ArtifactCacheMC ---------------------------
(* Two processes, one provenance, two contents of different length.        *)
EXTENDS ArtifactCache, TLC

CONSTANTS b1, b2

MCSize == b1 :> 1 @@ b2 :> 2

ProcSymmetry == Permutations(Procs)
=============================================================================
