------------------------------- MODULE TestRun -------------------------------
(***************************************************************************)
(* `jals test`'s process runner (jals-build, test_runner.rs).              *)
(*                                                                         *)
(* Every test is a job of one `fan_out`, so at most PoolSize of them run   *)
(* at once; a counting semaphore narrows that to the `-j` threads.  A job  *)
(* starts a JVM, waits for it with or without a deadline, judges what it   *)
(* did, retries a failure; after `--max-fail` failures none is started.    *)
(* The tests' processes are the environment: they may print the harness's  *)
(* sentinel, exit with success or without (an error status, a signal), or  *)
(* hang.                                                                   *)
(***************************************************************************)
EXTENDS Integers, FiniteSets

CONSTANTS
  Tests,
  PoolSize,   \* worker threads of the fan-out
  Options     \* the RunOptions a run may be given: threads, maxFail (0 for
              \* none), retries, deadline (a timeout is set), capture

ASSUME TestRunAssumption ==
  /\ IsFiniteSet(Tests)
  /\ PoolSize \in Nat \ {0}
  /\ Options \subseteq [threads : Nat \ {0}, maxFail : Nat, retries : Nat,
                        deadline : BOOLEAN, capture : BOOLEAN]

VARIABLES
  options,    \* the options of this run
  pc,         \* test -> where its job is
  attempt,    \* test -> retries used
  child,      \* test -> its current process
  late,       \* test -> the current attempt's deadline has passed
  verdict,    \* test -> the verdict so far
  free,       \* Permits::free
  failures,   \* SharedRun::failures
  started,    \* tests announced as started
  finished    \* tests announced as finished

runVars == <<options, pc, attempt, child, late, verdict, free, failures, started, finished>>

\* A process is absent, running, or gone: with the sentinel printed ("said"),
\* with exit status 0 but no sentinel ("quit"), or in any other way ("died").
Gone == {"said", "quit", "died"}
Failing == {"Failed", "TimedOut"}
Waiting == {t \in Tests : pc[t] = "waiting"}
InFlight == {t \in Tests : pc[t] \notin {"queued", "done"}}

RunInit ==
  /\ pc = [t \in Tests |-> "queued"]
  /\ attempt = [t \in Tests |-> 0]
  /\ child = [t \in Tests |-> "none"]
  /\ late = [t \in Tests |-> FALSE]
  /\ verdict = [t \in Tests |-> "none"]
  /\ options \in Options
  /\ free = options.threads
  /\ failures = 0
  /\ started = {}
  /\ finished = {}

Goes(t, here, there) == pc[t] = here /\ pc' = [pc EXCEPT ![t] = there]
Exhausted == options.maxFail > 0 /\ failures >= options.maxFail

-----------------------------------------------------------------------------
(* The job of one test, SharedRun::run_one. *)

\* A worker takes the job; a run that is over starts nothing.
Begin(t) ==
  /\ Cardinality(InFlight) < PoolSize
  /\ \/ /\ Exhausted
        /\ Goes(t, "queued", "done")
        /\ verdict' = [verdict EXCEPT ![t] = "Skipped"]
     \/ /\ ~Exhausted
        /\ Goes(t, "queued", "acquire")
        /\ UNCHANGED verdict
  /\ UNCHANGED <<options, attempt, child, late, free, failures, started, finished>>

\* Permits::acquire, under its mutex: take a permit or wait on the condition.
Acquire(t) ==
  /\ \/ free > 0 /\ Goes(t, "acquire", "recheck") /\ free' = free - 1
     \/ free = 0 /\ Goes(t, "acquire", "waiting") /\ UNCHANGED free
  /\ UNCHANGED <<options, attempt, child, late, verdict, failures, started, finished>>

\* The wait on the condition ends without a notification.
SpuriousWake(t) ==
  /\ Goes(t, "waiting", "acquire")
  /\ UNCHANGED <<options, attempt, child, late, verdict, free, failures, started, finished>>

\* The limit may have been reached while the job waited.
RecheckNot(t) ==
  /\ Goes(t, "recheck", "spawn")
  /\ started' = started \cup {t}
  /\ UNCHANGED <<options, attempt, child, late, verdict, free, failures, finished>>

RecheckLeaking(t) ==
  /\ \/ /\ Exhausted
        /\ Goes(t, "recheck", "done")
        /\ verdict' = [verdict EXCEPT ![t] = "Skipped"]
        /\ UNCHANGED started
     \/ /\ ~Exhausted
        /\ Goes(t, "recheck", "spawn")
        /\ started' = started \cup {t}
        /\ UNCHANGED verdict
  /\ UNCHANGED <<options, attempt, child, late, free, failures, finished>>

Recheck(t) ==
  /\ \/ /\ Exhausted
        /\ Goes(t, "recheck", "release")
        /\ verdict' = [verdict EXCEPT ![t] = "Skipped"]
        /\ UNCHANGED started
     \/ /\ ~Exhausted
        /\ Goes(t, "recheck", "spawn")
        /\ started' = started \cup {t}
        /\ UNCHANGED verdict
  /\ UNCHANGED <<options, attempt, child, late, free, failures, finished>>

\* One attempt: the JVM starts, or its failure to start is the test's failure.
Spawn(t) ==
  /\ \/ /\ Goes(t, "spawn", "wait")
        /\ child' = [child EXCEPT ![t] = "running"]
        /\ UNCHANGED verdict
     \/ /\ Goes(t, "spawn", "verdict")
        /\ verdict' = [verdict EXCEPT ![t] = "Failed"]
        /\ UNCHANGED child
  /\ UNCHANGED <<options, attempt, late, free, failures, started, finished>>

\* With capture the sentinel decides, without it the exit status; the deadline
\* decides before either.
Judged(c, killed) ==
  IF killed THEN "TimedOut"
  ELSE IF c = "said" \/ (c = "quit" /\ ~options.capture) THEN "Passed" ELSE "Failed"

\* The process is seen to have ended: `wait`, or a poll with `try_wait`.
SeeExit(t) ==
  /\ child[t] \in Gone
  /\ Goes(t, "wait", "verdict")
  /\ verdict' = [verdict EXCEPT ![t] = Judged(child[t], FALSE)]
  /\ UNCHANGED <<options, attempt, child, late, free, failures, started, finished>>

\* A poll finds it running; the clock is read next.
SeeRunning(t) ==
  /\ options.deadline
  /\ child[t] = "running"
  /\ Goes(t, "wait", "clock")
  /\ UNCHANGED <<options, attempt, child, late, verdict, free, failures, started, finished>>

\* Past the deadline the process is killed and reaped, whatever it did since the
\* poll; before it, the next poll follows.
ReadClock(t) ==
  /\ \/ /\ late[t]
        /\ Goes(t, "clock", "verdict")
        /\ child' = [child EXCEPT ![t] = IF @ = "running" THEN "killed" ELSE @]
        /\ verdict' = [verdict EXCEPT ![t] = Judged(child[t], TRUE)]
     \/ /\ ~late[t]
        /\ Goes(t, "clock", "wait")
        /\ UNCHANGED <<child, verdict>>
  /\ UNCHANGED <<options, attempt, late, free, failures, started, finished>>

\* The attempt's process and its deadline are forgotten.
Reaped(t) ==
  /\ child' = [child EXCEPT ![t] = "none"]
  /\ late' = [late EXCEPT ![t] = FALSE]

\* A failure with retries left is run again; a failure without is counted.
SettleRetried(t) ==
  /\ IF verdict[t] \in Failing /\ attempt[t] < options.retries
     THEN Goes(t, "verdict", "spawn") /\ attempt' = [attempt EXCEPT ![t] = @ + 1]
                                   /\ UNCHANGED failures
     ELSE /\ Goes(t, "verdict", "announce")
          /\ failures' = IF verdict[t] \in Failing \/ attempt[t] > 0
                         THEN failures + 1 ELSE failures
          /\ UNCHANGED attempt
  /\ Reaped(t)
  /\ UNCHANGED <<options, verdict, free, started, finished>>

Settle(t) ==
  /\ \/ /\ verdict[t] \in Failing /\ attempt[t] < options.retries
        /\ Goes(t, "verdict", "spawn")
        /\ attempt' = [attempt EXCEPT ![t] = @ + 1]
        /\ UNCHANGED failures
     \/ /\ ~(verdict[t] \in Failing /\ attempt[t] < options.retries)
        /\ Goes(t, "verdict", "announce")
        /\ failures' = IF verdict[t] \in Failing THEN failures + 1 ELSE failures
        /\ UNCHANGED attempt
  /\ Reaped(t)
  /\ UNCHANGED <<options, verdict, free, started, finished>>

Announce(t) ==
  /\ Goes(t, "announce", "release")
  /\ finished' = finished \cup {t}
  /\ UNCHANGED <<options, attempt, child, late, verdict, free, failures, started>>

\* Permit::drop: the permit is back before anyone is notified of it.
Release(t) ==
  /\ Goes(t, "release", "notify")
  /\ free' = free + 1
  /\ UNCHANGED <<options, attempt, child, late, verdict, failures, started, finished>>

NotifyNobody(t) ==
  /\ Goes(t, "notify", "done")
  /\ UNCHANGED <<options, attempt, child, late, verdict, free, failures, started, finished>>

Notify(t) ==
  /\ pc[t] = "notify"
  /\ \/ Waiting = {} /\ pc' = [pc EXCEPT ![t] = "done"]
     \/ \E w \in Waiting : pc' = [pc EXCEPT ![t] = "done", ![w] = "acquire"]
  /\ UNCHANGED <<options, attempt, child, late, verdict, free, failures, started, finished>>

-----------------------------------------------------------------------------
(* The environment. *)

Exit(t, how) ==
  /\ child[t] = "running"
  /\ child' = [child EXCEPT ![t] = how]
  /\ UNCHANGED <<options, pc, attempt, late, verdict, free, failures, started, finished>>

DeadlinePasses(t) ==
  /\ options.deadline
  /\ pc[t] \in {"wait", "clock"}
  /\ ~late[t]
  /\ late' = [late EXCEPT ![t] = TRUE]
  /\ UNCHANGED <<options, pc, attempt, child, verdict, free, failures, started, finished>>

JobStep(t) ==
  \/ Begin(t) \/ Acquire(t) \/ Recheck(t) \/ Spawn(t) \/ SeeExit(t) \/ SeeRunning(t)
  \/ ReadClock(t) \/ Settle(t) \/ Announce(t) \/ Release(t) \/ Notify(t)

RunNext ==
  \E t \in Tests :
    \/ JobStep(t)
    \/ SpuriousWake(t)
    \/ \E how \in Gone : Exit(t, how)
    \/ DeadlinePasses(t)

\* The runner's threads run and time passes; a test's process owes nothing.
RunSpec ==
  /\ RunInit /\ [][RunNext]_runVars
  /\ \A t \in Tests : WF_runVars(JobStep(t)) /\ WF_runVars(DeadlinePasses(t))

-----------------------------------------------------------------------------
(* Properties. *)

RunTypeOK ==
  /\ free \in 0..options.threads
  /\ failures \in 0..Cardinality(Tests)
  /\ attempt \in [Tests -> 0..options.retries]
  /\ verdict \in [Tests -> {"none", "Passed", "Skipped"} \cup Failing]

Holding ==
  {t \in Tests : pc[t] \in {"recheck", "spawn", "wait", "clock", "verdict", "announce",
                            "release"}}

\* No more than `-j` tests hold a permit, and none is lost: a released permit is
\* usable by whoever asks first, a notified waiter that comes too late waits
\* again.
PermitsHold == Cardinality(Holding) + free = options.threads

\* `--max-fail` N lets at most threads - 1 further tests fail: the ones that were
\* already running when the N-th failure was counted.  The jobs that were waiting
\* for a permit do not start.
FailureBudget ==
  options.maxFail > 0 => failures < options.maxFail + options.threads

\* When the run is over its books balance: a failure is a test whose last
\* attempt failed, a test is skipped only in a run that reached the limit, and
\* the tests announced as started are the ones that ran, each finished.
Accounted ==
  (\A t \in Tests : pc[t] = "done") =>
    /\ failures = Cardinality({t \in Tests : verdict[t] \in Failing})
    /\ \A t \in Tests : verdict[t] # "none" /\ (verdict[t] = "Skipped" => Exhausted)
    /\ started = finished
    /\ started = {t \in Tests : verdict[t] # "Skipped"}

\* With a deadline every run ends, even when every test hangs and every waiter
\* is passed over by a job that just arrived.
AllDone == options.deadline => <>(\A t \in Tests : pc[t] = "done")

\* A test is reported as timed out only when its process outlived the deadline
\* and had to be killed (TestVerdict::TimedOut: "The process outlived `--timeout`
\* and was killed").
TimedOutWasKilled ==
  \A t \in Tests : verdict[t] = "TimedOut" => child[t] \notin Gone

=============================================================================
