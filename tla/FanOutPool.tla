----------------------------- MODULE FanOutPool -----------------------------
(***************************************************************************)
(* fan_out on the native runtime (jals-exec, tokio_rt.rs).  Callers live   *)
(* on one thread and put their jobs into one channel; worker threads take  *)
(* turns at its receiver, drive a job with a parking waker and reply on    *)
(* the channel of the call.                                                *)
(*                                                                         *)
(* A definition placed before one whose name its own name begins with is a *)
(* plausible bug of it; no specification uses it, the runs check that it   *)
(* would be noticed.                                                       *)
(***************************************************************************)
EXTENDS Naturals, Sequences, FiniteSets, SequencesExt

CONSTANTS Calls, Width, Workers, None

ASSUME PoolAssumption == Width \in [Calls -> Nat] /\ Workers # {}

VARIABLES outcome,   \* how each job ends: the code of the jobs
          phase,     \* where each call is
          result,    \* what each call returned or panicked with
          orders,    \* the pool's channel of WorkOrders
          open,      \* the Exec, and with it the sender, is alive
          holder,    \* the worker that has locked the receiver
          worker,    \* where each worker is, and with which order
          token,     \* a pending unpark of the worker's thread
          event,     \* what each job's future waits for
          replies,   \* the reply channel of each call
          slots,     \* fan_out_boxed's slots
          received,  \* fan_out_boxed's received
          settled    \* ghost: the jobs that have ended

vars == <<outcome, phase, result, orders, open, holder, worker, token, event,
          replies, slots, received, settled>>

collector == <<slots, received>>
channel == <<orders, open>>
threads == <<holder, worker, token>>

Jobs(c) == 1 .. Width[c]
Order == UNION {{c} \X Jobs(c) : c \in Calls}
Resting == [at |-> "resting", order |-> None]

\* What the pool has to implement; settled is the part of the abstract state
\* that the code does not keep.
Promise == INSTANCE FanOut
           WITH Calls <- Calls, Width <- Width, outcome <- outcome,
                phase <- phase, settled <- settled, result <- result

Init ==
    /\ outcome \in Promise!Outcomes
    /\ phase = [c \in Calls |-> "new"]
    /\ result = [c \in Calls |-> <<>>]
    /\ orders = <<>>
    /\ open = TRUE
    /\ holder = None
    /\ worker = [w \in Workers |-> Resting]
    /\ token = [w \in Workers |-> FALSE]
    /\ event = [o \in Order |-> "none"]
    /\ replies = [c \in Calls |-> <<>>]
    /\ slots = [c \in Calls |-> [i \in Jobs(c) |-> None]]
    /\ received = [c \in Calls |-> 0]
    /\ settled = [c \in Calls |-> {}]

-----------------------------------------------------------------------------
(* The caller.                                                             *)

\* Dispatch eagerly; the loop has no await, so no other caller gets between.
FanOut(c) ==
    /\ open
    /\ phase[c] = "new"
    /\ phase' = [phase EXCEPT ![c] = "waiting"]
    /\ orders' = orders \o [i \in Jobs(c) |-> <<c, i>>]
    /\ UNCHANGED <<outcome, result, open, event, replies, settled, collector, threads>>

Collect(c) ==
    /\ phase[c] = "waiting"
    /\ replies[c] # <<>>
    /\ slots' = [slots EXCEPT ![c][Head(replies[c]).index] = Head(replies[c]).value]
    /\ received' = [received EXCEPT ![c] = @ + 1]
    /\ replies' = [replies EXCEPT ![c] = Tail(@)]
    /\ UNCHANGED <<outcome, phase, result, event, settled, channel, threads>>

ReturnLastPanic(c) ==
    LET panics == {i \in Jobs(c) : slots[c][i][1] = "panic"}
    IN  /\ phase[c] = "waiting"
        /\ received[c] = Width[c]
        /\ IF panics = {}
           THEN /\ phase' = [phase EXCEPT ![c] = "returned"]
                /\ result' = [result EXCEPT ![c] = slots[c]]
           ELSE /\ phase' = [phase EXCEPT ![c] = "panicked"]
                /\ result' = [result EXCEPT ![c] = <<slots[c][Max(panics)]>>]
        /\ UNCHANGED <<outcome, event, replies, settled, collector, channel, threads>>

\* Every slot is filled: give the values, or resume the first panic.
Return(c) ==
    LET panics == {i \in Jobs(c) : slots[c][i][1] = "panic"}
    IN  /\ phase[c] = "waiting"
        /\ received[c] = Width[c]
        /\ IF panics = {}
           THEN /\ phase' = [phase EXCEPT ![c] = "returned"]
                /\ result' = [result EXCEPT ![c] = slots[c]]
           ELSE /\ phase' = [phase EXCEPT ![c] = "panicked"]
                /\ result' = [result EXCEPT ![c] = <<slots[c][Min(panics)]>>]
        /\ UNCHANGED <<outcome, event, replies, settled, collector, channel, threads>>

\* The caller drops the future, which closes the reply channel.
Drop(c) ==
    /\ phase[c] = "waiting"
    /\ phase' = [phase EXCEPT ![c] = "dropped"]
    /\ replies' = [replies EXCEPT ![c] = <<>>]
    /\ UNCHANGED <<outcome, result, event, settled, collector, channel, threads>>

\* A fan_out borrows the Exec, so the Exec goes only when nobody waits.
Close ==
    /\ open
    /\ \A c \in Calls : phase[c] # "waiting"
    /\ open' = FALSE
    /\ UNCHANGED <<outcome, phase, result, orders, event, replies, settled, collector, threads>>

-----------------------------------------------------------------------------
(* worker_loop and worker_block_on.                                        *)

At(w, at) == worker' = [worker EXCEPT ![w].at = at]

Lock(w) ==
    /\ worker[w].at = "resting"
    /\ holder = None
    /\ holder' = w
    /\ At(w, "receiving")
    /\ UNCHANGED <<outcome, phase, result, token, event, replies, settled, collector, channel>>

\* recv drains the channel before it reports that the sender is gone.
Receive(w) ==
    /\ worker[w].at = "receiving"
    /\ \/ /\ orders # <<>>
          /\ worker' = [worker EXCEPT ![w] = [at |-> "polling", order |-> Head(orders)]]
          /\ orders' = Tail(orders)
       \/ /\ orders = <<>>
          /\ ~open
          /\ At(w, "exited")
          /\ UNCHANGED orders
    /\ holder' = None
    /\ UNCHANGED <<outcome, phase, result, open, token, event, replies, settled, collector>>

\* A poll finishes the job, with a value or a caught panic, or leaves it
\* waiting for something that will wake this thread.
Poll(w) ==
    LET o == worker[w].order
    IN  /\ worker[w].at = "polling"
        /\ \/ /\ event[o] # "awaited"
              /\ At(w, "ended")
              /\ UNCHANGED event
           \/ /\ event[o] \in {"none", "awaited"}
              /\ At(w, "parking")
              /\ event' = [event EXCEPT ![o] = "awaited"]
        /\ UNCHANGED <<outcome, phase, result, holder, token, replies, settled, collector, channel>>

WakeNoop(w) ==
    /\ worker[w].at \in {"parking", "polling"}
    /\ event[worker[w].order] = "awaited"
    /\ event' = [event EXCEPT ![worker[w].order] = "happened"]
    /\ UNCHANGED <<outcome, phase, result, replies, settled, collector, channel, threads>>

\* What a job waits for happens and its waker unparks the thread, which may
\* be parked, about to park, or polling again.
Wake(w) ==
    /\ worker[w].at \in {"parking", "polling"}
    /\ event[worker[w].order] = "awaited"
    /\ event' = [event EXCEPT ![worker[w].order] = "happened"]
    /\ token' = [token EXCEPT ![w] = TRUE]
    /\ UNCHANGED <<outcome, phase, result, holder, worker, replies, settled, collector, channel>>

\* park consumes a token, which may be left over from an earlier job.
Unpark(w) ==
    /\ worker[w].at = "parking"
    /\ token[w]
    /\ token' = [token EXCEPT ![w] = FALSE]
    /\ At(w, "polling")
    /\ UNCHANGED <<outcome, phase, result, holder, event, replies, settled, collector, channel>>

\* park may also return for no reason.
UnparkSpuriously(w) ==
    /\ worker[w].at = "parking"
    /\ ~token[w]
    /\ At(w, "polling")
    /\ UNCHANGED <<outcome, phase, result, holder, token, event, replies, settled, collector, channel>>

\* The reply of a call that was dropped is discarded.
Reply(w) ==
    LET c == worker[w].order[1]
        i == worker[w].order[2]
    IN  /\ worker[w].at = "ended"
        /\ replies' = [replies EXCEPT ![c] =
                          IF phase[c] = "waiting"
                          THEN Append(@, [index |-> i, value |-> <<outcome[c][i], i>>])
                          ELSE @]
        /\ settled' = [settled EXCEPT ![c] = @ \cup {i}]
        /\ worker' = [worker EXCEPT ![w] = Resting]
        /\ UNCHANGED <<outcome, phase, result, holder, token, event, collector, channel>>

-----------------------------------------------------------------------------
Caller(c) == FanOut(c) \/ Collect(c) \/ Return(c) \/ Drop(c)

Drive(w) == Receive(w) \/ Poll(w) \/ Unpark(w) \/ Reply(w)

Next ==
    \/ \E c \in Calls : Caller(c)
    \/ \E w \in Workers : Lock(w) \/ Drive(w) \/ Wake(w) \/ UnparkSpuriously(w)
    \/ Close

\* The runtime polls a caller that has replies, some worker gets a free
\* lock, threads run, and what a job waits for comes.  Nothing makes a
\* caller start or drop a fan_out.
Spec ==
    /\ Init /\ [][Next]_vars
    /\ \A c \in Calls : WF_vars(Collect(c) \/ Return(c))
    /\ WF_vars(\E w \in Workers : Lock(w))
    /\ \A w \in Workers : WF_vars(Drive(w)) /\ WF_vars(Wake(w))

-----------------------------------------------------------------------------
Value == {"ok", "panic"} \X Nat

\* The shape of the state; the receiver is locked by the worker that uses it.
TypeOK ==
    /\ phase \in [Calls -> Promise!Phase]
    /\ \A c \in Calls : result[c] \in Seq(Value)
    /\ orders \in Seq(Order)
    /\ open \in BOOLEAN
    /\ \A w \in Workers :
          /\ worker[w].at \in {"resting", "receiving", "polling", "parking", "ended", "exited"}
          /\ (worker[w].order = None) = (worker[w].at \in {"resting", "receiving", "exited"})
          /\ (holder = w) = (worker[w].at = "receiving")
    /\ token \in [Workers -> BOOLEAN]
    /\ event \in [Order -> {"none", "awaited", "happened"}]
    /\ \A c \in Calls : slots[c] \in [Jobs(c) -> Value \cup {None}]

\* The jobs of c that are queued or being driven.
Outstanding(c) ==
    {i \in Jobs(c) : <<c, i>> \in ToSet(orders) \/ \E w \in Workers : worker[w].order = <<c, i>>}

\* fan_out_boxed counts on one reply per job: while it waits, every job is
\* queued, being driven, replied to or filled in, exactly once.  So recv
\* never finds its senders gone ("fan-out worker exited without replying"),
\* no index comes twice, and the last reply fills the last slot.
RepliesAccountedFor ==
    \A c \in Calls :
        phase[c] = "waiting" =>
            LET replied == {replies[c][n].index : n \in DOMAIN replies[c]}
                filled  == {i \in Jobs(c) : slots[c][i] # None}
            IN  /\ Outstanding(c) \cup replied \cup filled = Jobs(c)
                /\ Cardinality(Outstanding(c)) + Len(replies[c]) + received[c] = Width[c]
                /\ Cardinality(filled) = received[c]

\* The pool keeps fan_out's promise on order, panics and settling first.
KeepsPromise == Promise!Spec

\* Every job that was dispatched runs to its end, also when its call was
\* dropped or the Exec is gone, and no caller waits for ever.
AllSettle ==
    \A c \in Calls :
        /\ phase[c] = "waiting" ~> phase[c] # "waiting"
        /\ phase[c] # "new" ~> settled[c] = Jobs(c)
=============================================================================
