-------------------------- MODULE ProjectStorageMC --------------------------
(* A directory and an entry in it: the smallest set of paths on which      *)
(* files, directories, ancestors and hidden entries all meet.              *)
EXTENDS ProjectStorage, TLC

CONSTANTS a, ab

PathsMC == {a, ab}
AboveMC == [p \in PathsMC |-> IF p = ab THEN {a} ELSE {}]

ContentsSymmetry == Permutations(Bytes)

=============================================================================
