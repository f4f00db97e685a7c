------------------------------- MODULE FanOut -------------------------------
(***************************************************************************)
(* What Exec::fan_out (jals-exec, lib.rs) is documented to promise its     *)
(* callers: every job settles, the results come in the order of the        *)
(* inputs, and if jobs panicked the first of them in input order panics    *)
(* the caller once all have settled.                                       *)
(*                                                                         *)
(* The value of job i is <<"ok", i>>, its panic payload <<"panic", i>>.    *)
(***************************************************************************)
EXTENDS Naturals, Sequences

CONSTANTS Calls,  \* the fan_out calls a program makes
          Width   \* how many jobs each has

VARIABLES outcome,  \* how each job is going to end; never changes
          phase,    \* where each call is
          settled,  \* the jobs that have ended
          result    \* what the caller got

vars == <<outcome, phase, settled, result>>

Phase == {"new", "waiting", "returned", "panicked", "dropped"}

Jobs(c) == 1 .. Width[c]

\* The jobs' ends that make up an `outcome`.
Outcomes == {o \in [Calls -> UNION {[1 .. Width[c] -> {"ok", "panic"}] : c \in Calls}] :
                \A c \in Calls : DOMAIN o[c] = Jobs(c)}

Panics(o) == {i \in DOMAIN o : o[i] = "panic"}

FirstPanic(o) == CHOOSE i \in Panics(o) : \A j \in Panics(o) : i <= j

\* What a caller gets from jobs that end as o says.
Answer(o) ==
    IF Panics(o) = {}
    THEN [i \in DOMAIN o |-> <<o[i], i>>]
    ELSE << <<"panic", FirstPanic(o)>> >>

Init ==
    /\ outcome \in Outcomes
    /\ phase = [c \in Calls |-> "new"]
    /\ settled = [c \in Calls |-> {}]
    /\ result = [c \in Calls |-> <<>>]

Submit(c) ==
    /\ phase[c] = "new"
    /\ phase' = [phase EXCEPT ![c] = "waiting"]
    /\ UNCHANGED <<outcome, settled, result>>

\* A job ends; also one whose caller no longer waits ("dropping the returned
\* future lets already-queued jobs run to completion").
Settle(c, i) ==
    /\ phase[c] \in {"waiting", "dropped"}
    /\ i \notin settled[c]
    /\ settled' = [settled EXCEPT ![c] = @ \cup {i}]
    /\ UNCHANGED <<outcome, phase, result>>

Finish(c) ==
    /\ phase[c] = "waiting"
    /\ settled[c] = Jobs(c)
    /\ phase' = [phase EXCEPT ![c] = IF Panics(outcome[c]) = {}
                                     THEN "returned" ELSE "panicked"]
    /\ result' = [result EXCEPT ![c] = Answer(outcome[c])]
    /\ UNCHANGED <<outcome, settled>>

Drop(c) ==
    /\ phase[c] = "waiting"
    /\ phase' = [phase EXCEPT ![c] = "dropped"]
    /\ UNCHANGED <<outcome, settled, result>>

Next ==
    \E c \in Calls : \/ Submit(c) \/ Finish(c) \/ Drop(c)
                     \/ \E i \in Jobs(c) : Settle(c, i)

Spec == Init /\ [][Next]_vars
=============================================================================
