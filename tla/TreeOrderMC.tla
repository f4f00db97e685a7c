---------------------------- MODULE TreeOrderMC ----------------------------
(* Paths of up to Depth names.                                             *)
EXTENDS TreeOrder

CONSTANTS Names, Depth

PathsMC == UNION {[1..n -> Names] : n \in 1..Depth}
AboveMC == [p \in PathsMC |-> {q \in PathsMC : IsStrictPrefix(q, p)}]
=============================================================================
