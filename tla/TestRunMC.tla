------------------------------ MODULE TestRunMC ------------------------------
(* Two tests at a time without retries, so that jobs wait and overtake each   *)
(* other; one at a time with a retry; a run without deadline or capture.      *)
EXTENDS TestRun

MCOptions ==
  {[threads |-> 2, maxFail |-> 1, retries |-> 0, deadline |-> TRUE, capture |-> TRUE],
   [threads |-> 1, maxFail |-> 2, retries |-> 1, deadline |-> TRUE, capture |-> TRUE],
   [threads |-> 1, maxFail |-> 0, retries |-> 1, deadline |-> FALSE, capture |-> FALSE]}

=============================================================================
