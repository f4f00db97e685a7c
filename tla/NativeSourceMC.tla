--------------------------- MODULE NativeSourceMC ---------------------------
(* A directory, an entry in it, and an unrelated entry.                    *)
EXTENDS NativeSource

CONSTANTS a, ab, c

PathsMC == {a, ab, c}
AboveMC == [p \in PathsMC |-> IF p = ab THEN {a} ELSE {}]

ContentsSymmetry == Permutations(Bytes)
=============================================================================
