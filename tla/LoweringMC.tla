----------------------------- MODULE LoweringMC -----------------------------
(* Two processes lowering the same inputs to two files of two texts each.  *)
EXTENDS Lowering, TLC

MCProvs == Lowerings \cup Members
MCBytes == Tree \cup Texts
MCSize == [b \in MCBytes |-> 1]

\* Processes, paths and texts are interchangeable.
Symmetry == Permutations(Procs) \cup Permutations(Members) \cup Permutations(Texts)
=============================================================================
