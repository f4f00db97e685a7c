--------------------------- MODULE BuildOutputsMC ---------------------------
(* A script that generates a file and publishes a tree, one that leaves the   *)
(* same file to a text task and publishes elsewhere, and features that choose *)
(* between the two halves of the first.                                       *)
EXTENDS BuildOutputs

Both(writes, texts, trees) ==
  [writes |-> writes, texts |-> texts, trees |-> trees]

MCScripts == {"none", "first", "second"}
MCTracks == [s \in MCScripts |-> IF s = "second" THEN "declared" ELSE "all"]
MCDoes ==
  [s \in MCScripts |-> [f \in {"x", "y"} |->
     CASE s = "first" /\ f = "x" -> Both({"o"}, {}, {"r"})
       [] s = "first" /\ f = "y" -> Both({"q"}, {}, {})
       [] s = "second" -> Both({}, {"o"}, {"s"})
       [] OTHER -> Both({}, {}, {})]]

MCRequests ==
  {[features |-> "x", apply |-> TRUE, blocked |-> {}],
   [features |-> "y", apply |-> TRUE, blocked |-> {"s"}],
   [features |-> "x", apply |-> FALSE, blocked |-> {}]}

Symmetry == Permutations(Builders) \cup Permutations(Inputs)

=============================================================================
