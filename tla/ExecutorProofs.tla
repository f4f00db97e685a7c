--------------------------- MODULE ExecutorProofs ---------------------------
(***************************************************************************)
(* The executor's worker pool, and the test runner whose jobs run on it.   *)
(*                                                                         *)
(* The worker pool keeps the promise of fan_out, for any calls, widths and *)
(* number of workers: every step of FanOutPool is a step of FanOut or      *)
(* leaves what FanOut speaks of as it is.  The invariant follows each job  *)
(* from the channel through a worker to the reply: it is in one place at a *)
(* time (Once), it has not ended while it is queued or driven              *)
(* (Outstanding), and what has ended and is no longer in the reply channel *)
(* is in its slot (Filled).                                                *)
(*                                                                         *)
(* The safety of TestRun for every set of tests, number of workers and     *)
(* options.  PermitsHold is inductive given the types; the failure budget  *)
(* is not, since it must count the tests that may still fail (Budget), and *)
(* the books of a finished run balance because they do at every step of    *)
(* every job (Books, Ledger).                                              *)
(***************************************************************************)
EXTENDS FanOutPool, TestRun, FiniteSetTheorems, SequenceTheorems,
        WellFoundedInduction, TLAPS

-----------------------------------------------------------------------------
(* The worker pool. *)

Driving(w) == worker[w].at \in {"polling", "parking", "ended"}

Drivers == [at : {"resting", "receiving", "polling", "parking", "ended", "exited"},
            order : Order \cup {None}]

Message == [index : Nat, value : Value]

Types ==
    /\ outcome \in Promise!Outcomes
    /\ phase \in [Calls -> Promise!Phase]
    /\ orders \in Seq(Order)
    /\ worker \in [Workers -> Drivers]
    /\ \A w \in Workers : Driving(w) => worker[w].order \in Order
    /\ replies \in [Calls -> Seq(Message)]
    /\ DOMAIN slots = Calls
    /\ \A c \in Calls : slots[c] \in [Jobs(c) -> Value \cup {None}]
    /\ received \in [Calls -> Nat]
    /\ DOMAIN settled = Calls
    /\ \A c \in Calls : settled[c] \subseteq Jobs(c)

\* No job is queued or driven twice.
Once ==
    /\ \A m, n \in DOMAIN orders : orders[m] = orders[n] => m = n
    /\ \A v, w \in Workers :
          Driving(v) /\ Driving(w) /\ worker[v].order = worker[w].order => v = w
    /\ \A w \in Workers, n \in DOMAIN orders : Driving(w) => worker[w].order # orders[n]

\* A job that may still be driven has been dispatched and has not ended.
Live(o) == phase[o[1]] # "new" /\ o[2] \notin settled[o[1]]

Outstands ==
    /\ \A n \in DOMAIN orders : Live(orders[n])
    /\ \A w \in Workers : Driving(w) => Live(worker[w].order)

Replied(c) == {replies[c][n].index : n \in DOMAIN replies[c]}

\* The slots that fan_out_boxed has filled.
Filled(c) == settled[c] \ Replied(c)

\* What a waiting call has got is right, and it has counted it.
Collected(c) ==
    /\ \A m, n \in DOMAIN replies[c] : replies[c][m].index = replies[c][n].index => m = n
    /\ \A n \in DOMAIN replies[c] :
          /\ replies[c][n].index \in settled[c]
          /\ replies[c][n].value = <<outcome[c][replies[c][n].index], replies[c][n].index>>
    /\ \A i \in Filled(c) : slots[c][i] = <<outcome[c][i], i>>
    /\ received[c] = Cardinality(Filled(c))

\* What holds of a call in each of its phases.
Stands(c) ==
    /\ phase[c] = "new" => settled[c] = {} /\ replies[c] = <<>> /\ received[c] = 0
    /\ phase[c] = "waiting" => Collected(c)
    /\ phase[c] \in {"returned", "panicked"} => settled[c] = Jobs(c)

IInv == Types /\ Once /\ Outstands /\ \A c \in Calls : Stands(c)

-----------------------------------------------------------------------------
(* Jobs, orders and the first of a set of jobs.                            *)

(* An order names a call and one of its jobs, and every job has an order.  *)
LEMMA OrderFacts ==
    /\ \A c \in Calls : \A i \in Jobs(c) : <<c, i>> \in Order /\ i \in Nat
    /\ \A o \in Order : o[1] \in Calls /\ o[2] \in Jobs(o[1]) /\ o = <<o[1], o[2]>>
BY PoolAssumption DEF Order, Jobs

(* Every job of a call ends with a value or a panic.                       *)
LEMMA OutcomeFacts ==
    ASSUME Types, NEW c \in Calls
    PROVE  outcome[c] \in [Jobs(c) -> {"ok", "panic"}]
<1>1. /\ outcome[c] \in UNION {[1 .. Width[d] -> {"ok", "panic"}] : d \in Calls}
      /\ DOMAIN outcome[c] = Jobs(c)
  BY DEF Types, Promise!Outcomes, Promise!Jobs, Jobs
<1>2. PICK d \in Calls : outcome[c] \in [1 .. Width[d] -> {"ok", "panic"}]
  BY <1>1
<1> QED BY <1>1, <1>2

(* A call has as many jobs as it is wide.                                  *)
LEMMA JobsFinite ==
    ASSUME NEW c \in Calls
    PROVE  IsFiniteSet(Jobs(c)) /\ Cardinality(Jobs(c)) = Width[c]
<1>1. 1 \in Int /\ Width[c] \in Int /\ Width[c] >= 0
  BY PoolAssumption
<1> QED BY <1>1, FS_Interval DEF Jobs

(* A channel is read at its head and written at its end.                   *)
LEMMA TailFacts ==
    ASSUME NEW S, NEW q \in Seq(S), q # <<>>
    PROVE  /\ Tail(q) \in Seq(S) /\ Head(q) = q[1] /\ 1 \in DOMAIN q /\ Head(q) \in S
           /\ \A n \in DOMAIN Tail(q) :
                 n \in Nat /\ n + 1 \in DOMAIN q /\ n + 1 # 1 /\ Tail(q)[n] = q[n + 1]
           /\ \A m \in DOMAIN q : m # 1 =>
                 \E n \in DOMAIN Tail(q) : n + 1 = m /\ Tail(q)[n] = q[m]
<1>1. Len(q) \in Nat /\ Len(q) # 0 /\ DOMAIN q = 1 .. Len(q)
  OBVIOUS
<1>2. /\ Tail(q) \in Seq(S) /\ DOMAIN Tail(q) = 1 .. (Len(q) - 1)
      /\ \A n \in 1 .. (Len(q) - 1) : Tail(q)[n] = q[n + 1]
  BY <1>1
<1>3. ASSUME NEW m \in DOMAIN q, m # 1
      PROVE  \E n \in DOMAIN Tail(q) : n + 1 = m /\ Tail(q)[n] = q[m]
  <2>1. m - 1 \in DOMAIN Tail(q) /\ (m - 1) + 1 = m
    BY <1>1, <1>2, <1>3
  <2> QED BY <1>2, <2>1
<1>4. Head(q) = q[1] /\ 1 \in DOMAIN q /\ Head(q) \in S
  BY <1>1
<1>5. \A n \in DOMAIN Tail(q) :
        n \in Nat /\ n + 1 \in DOMAIN q /\ n + 1 # 1 /\ Tail(q)[n] = q[n + 1]
  BY <1>1, <1>2
<1> QED BY <1>2, <1>3, <1>4, <1>5

(* What is sent goes to the end of a channel and moves nothing in it.      *)
LEMMA AppendFacts ==
    ASSUME NEW S, NEW q \in Seq(S), NEW e \in S
    PROVE  /\ Append(q, e) \in Seq(S)
           /\ \A n \in DOMAIN q : n \in DOMAIN Append(q, e) /\ Append(q, e)[n] = q[n]
           /\ \E last \in DOMAIN Append(q, e) :
                 /\ last \notin DOMAIN q /\ Append(q, e)[last] = e
                 /\ \A n \in DOMAIN Append(q, e) : n \in DOMAIN q \/ n = last
<1>1. Len(q) \in Nat /\ DOMAIN q = 1 .. Len(q)
  OBVIOUS
<1>2. /\ Append(q, e) \in Seq(S) /\ DOMAIN Append(q, e) = 1 .. (Len(q) + 1)
      /\ \A n \in 1 .. Len(q) : Append(q, e)[n] = q[n]
      /\ Append(q, e)[Len(q) + 1] = e
  BY <1>1
<1>3. Len(q) + 1 \in DOMAIN Append(q, e) /\ Len(q) + 1 \notin DOMAIN q
  BY <1>1, <1>2
<1> QED BY <1>1, <1>2, <1>3

(* A non-empty set of numbers has a least element.                         *)
LEMMA LeastNat ==
    ASSUME NEW T \in SUBSET Nat, T # {}
    PROVE  \E x \in T : \A y \in T : x <= y
<1>1. PICK x \in T : \A y \in T : <<y, x>> \notin OpToRel(<, Nat)
  BY NatLessThanWellFounded, WFMin
<1>2. \A y \in T : ~(y < x)
  BY <1>1 DEF OpToRel
<1> QED BY <1>2

(* Nothing is dispatched before the first call.                            *)
LEMMA InitIInv == Init => IInv
<1> SUFFICES ASSUME Init PROVE IInv
  OBVIOUS
<1>1. /\ orders = <<>> /\ DOMAIN orders = {} /\ orders \in Seq(Order)
      /\ \A w \in Workers : worker[w] = Resting /\ ~Driving(w)
      /\ \A c \in Calls : phase[c] = "new" /\ replies[c] = <<>> /\ settled[c] = {}
                          /\ received[c] = 0
  BY DEF Init, Driving, Resting
<1>2. worker \in [Workers -> Drivers]
  BY DEF Init, Resting, Drivers
<1>3. Types
  BY <1>1, <1>2 DEF Init, Types, Promise!Phase
<1>4. Once /\ Outstands
  BY <1>1 DEF Once, Outstands
<1>5. \A c \in Calls : Stands(c)
  BY <1>1 DEF Stands
<1> QED BY <1>3, <1>4, <1>5 DEF IInv

-----------------------------------------------------------------------------
(* What a step does not touch of a call stands as it did.                  *)
LEMMA StandsKept ==
    ASSUME IInv, NEW c \in Calls, UNCHANGED outcome, phase'[c] = phase[c],
           replies'[c] = replies[c], slots'[c] = slots[c], received'[c] = received[c],
           settled'[c] = settled[c]
    PROVE  Stands(c)'
<1>1. Stands(c)
  BY DEF IInv
<1>2. Replied(c)' = Replied(c) /\ Filled(c)' = Filled(c)
  BY DEF Replied, Filled
<1>3. Collected(c) => Collected(c)'
  BY <1>2 DEF Collected
<1> QED BY <1>1, <1>3 DEF Stands, Jobs

(* A worker goes from one point of its loop to another with the order it   *)
(* has, or without one.                                                    *)
LEMMA QuietIInv ==
    ASSUME IInv, UNCHANGED <<outcome, phase, orders, replies, slots, received, settled>>,
           worker' \in [Workers -> Drivers],
           \A w \in Workers : Driving(w)' => Driving(w) /\ worker'[w].order = worker[w].order
    PROVE  IInv'
<1>1. Types'
  BY DEF IInv, Types, Jobs
<1>2. Once'
  BY DEF IInv, Once
<1>3. Outstands'
  BY DEF IInv, Outstands, Live
<1>4. \A c \in Calls : Stands(c)'
  BY StandsKept
<1> QED BY <1>1, <1>2, <1>3, <1>4 DEF IInv

(* A step that only moves a worker within its loop keeps the invariant.    *)
LEMMA AtIInv ==
    ASSUME IInv, UNCHANGED <<outcome, phase, orders, replies, slots, received, settled>>,
           NEW w \in Workers, NEW at \in {"receiving", "polling", "parking", "ended", "exited"},
           At(w, at), at \in {"polling", "parking", "ended"} => Driving(w)
    PROVE  IInv'
<1>1. worker \in [Workers -> Drivers]
  BY DEF IInv, Types
<1>2. /\ worker' \in [Workers -> Drivers]
      /\ worker'[w].at = at
      /\ \A v \in Workers : worker'[v].order = worker[v].order
      /\ \A v \in Workers : v # w => worker'[v] = worker[v]
  BY <1>1 DEF At, Drivers
<1>3. \A v \in Workers : Driving(v)' => Driving(v)
  BY <1>2 DEF Driving
<1> QED BY <1>2, <1>3, QuietIInv

(* The steps of a worker that neither take an order nor end one.           *)
LEMMA DriveIInv ==
    ASSUME IInv, NEW w \in Workers,
           Lock(w) \/ Poll(w) \/ Wake(w) \/ Unpark(w) \/ UnparkSpuriously(w)
    PROVE  IInv'
<1>1. UNCHANGED <<outcome, phase, orders, replies, slots, received, settled>>
  BY DEF Lock, Poll, Wake, Unpark, UnparkSpuriously, collector, channel
<1>2. CASE Lock(w)
  BY <1>1, <1>2, AtIInv DEF Lock
<1>3. CASE Poll(w)
  <2>1. Driving(w)
    BY <1>3 DEF Poll, Driving
  <2>2. At(w, "ended") \/ At(w, "parking")
    BY <1>3 DEF Poll
  <2> QED BY <1>1, <2>1, <2>2, AtIInv
<1>4. CASE Wake(w)
  BY <1>1, <1>4, QuietIInv DEF Wake, IInv, Types, Driving
<1>5. CASE Unpark(w) \/ UnparkSpuriously(w)
  <2>1. Driving(w) /\ At(w, "polling")
    BY <1>5 DEF Unpark, UnparkSpuriously, Driving
  <2> QED BY <1>1, <2>1, AtIInv
<1> QED BY <1>2, <1>3, <1>4, <1>5

(* A worker takes the order at the head of the channel, and nobody else    *)
(* has it.                                                                 *)
LEMMA ReceiveIInv ==
    ASSUME IInv, NEW w \in Workers, Receive(w)
    PROVE  IInv'
<1>1. UNCHANGED <<outcome, phase, replies, slots, received, settled>>
  BY DEF Receive, collector
<1>2. CASE orders = <<>>
  <2>1. At(w, "exited") /\ UNCHANGED orders
    BY <1>2 DEF Receive
  <2> QED BY <1>1, <2>1, AtIInv
<1>3. CASE orders # <<>>
  <2> DEFINE o == Head(orders)
  <2>1. /\ worker' = [worker EXCEPT ![w] = [at |-> "polling", order |-> o]]
        /\ orders' = Tail(orders)
        /\ worker[w].at = "receiving"
    BY <1>3 DEF Receive
  <2>2. /\ orders \in Seq(Order) /\ worker \in [Workers -> Drivers]
        /\ ~Driving(w)
    BY <2>1 DEF IInv, Types, Driving
  <2>3. /\ o \in Order /\ o = orders[1] /\ 1 \in DOMAIN orders
        /\ orders' \in Seq(Order)
        /\ \A n \in DOMAIN orders' :
              n \in Nat /\ n + 1 \in DOMAIN orders /\ n + 1 # 1 /\ orders'[n] = orders[n + 1]
    <3>1. Len(orders) \in Nat /\ Len(orders) # 0 /\ DOMAIN orders = 1 .. Len(orders)
      BY <1>3, <2>2
    <3>2. /\ orders' \in Seq(Order) /\ DOMAIN orders' = 1 .. (Len(orders) - 1)
          /\ \A n \in 1 .. (Len(orders) - 1) : orders'[n] = orders[n + 1]
      BY <1>3, <2>1, <2>2, <3>1
    <3>3. o \in Order /\ o = orders[1]
      BY <2>2, <3>1
    <3> QED BY <3>1, <3>2, <3>3
  <2> HIDE DEF o
  <2>4. /\ worker' \in [Workers -> Drivers]
        /\ worker'[w].at = "polling" /\ worker'[w].order = o
        /\ \A v \in Workers : v # w => worker'[v] = worker[v]
    BY <2>1, <2>2, <2>3 DEF Drivers
  <2>5. Driving(w)' /\ \A v \in Workers : v # w => (Driving(v)' <=> Driving(v))
    BY <2>4 DEF Driving
  <2>6. Types'
    BY <1>1, <2>3, <2>4, <2>5 DEF IInv, Types, Jobs
  <2>7. Once'
    <3>1. \A m, n \in DOMAIN orders' : orders'[m] = orders'[n] => m = n
      <4> SUFFICES ASSUME NEW m \in DOMAIN orders', NEW n \in DOMAIN orders',
                          orders'[m] = orders'[n]
                   PROVE  m = n
        OBVIOUS
      <4>1. m + 1 = n + 1
        BY <2>3 DEF IInv, Once
      <4> QED BY <2>3, <4>1
    <3>2. \A u, v \in Workers :
            Driving(u)' /\ Driving(v)' /\ worker'[u].order = worker'[v].order => u = v
      BY <2>3, <2>4, <2>5 DEF IInv, Once
    <3>3. \A v \in Workers, n \in DOMAIN orders' :
            Driving(v)' => worker'[v].order # orders'[n]
      BY <2>3, <2>4, <2>5 DEF IInv, Once
    <3> QED BY <3>1, <3>2, <3>3 DEF Once
  <2>8. Outstands'
    BY <1>1, <2>3, <2>4, <2>5 DEF IInv, Outstands, Live
  <2>9. \A c \in Calls : Stands(c)'
    BY <1>1, StandsKept
  <2> QED BY <2>6, <2>7, <2>8, <2>9 DEF IInv
<1> QED BY <1>2, <1>3

(* A call dispatches its jobs.                                             *)
LEMMA FanOutIInv ==
    ASSUME IInv, NEW c \in Calls, FanOut(c)
    PROVE  IInv'
<1> DEFINE new == [i \in Jobs(c) |-> <<c, i>>]
<1>1. /\ UNCHANGED <<outcome, replies, slots, received, settled, worker>>
      /\ phase' = [phase EXCEPT ![c] = "waiting"] /\ phase[c] = "new"
      /\ orders' = orders \o new
  BY DEF FanOut, collector, threads
<1>2. /\ new \in Seq(Order) /\ Len(new) = Width[c] /\ Width[c] \in Nat
      /\ \A i \in Jobs(c) : new[i] = <<c, i>>
  <2>1. Width[c] \in Nat /\ DOMAIN new = 1 .. Width[c]
    BY PoolAssumption DEF Jobs
  <2>2. \A i \in 1 .. Width[c] : new[i] \in Order
    BY OrderFacts DEF Jobs
  <2>3. new \in [1 .. Width[c] -> Order]
    BY <2>2 DEF Jobs
  <2>4. new \in Seq(Order)
    BY <2>1, <2>3, SeqDef
  <2> QED BY <2>1, <2>4 DEF Jobs
<1> HIDE DEF new
<1>3. orders \in Seq(Order) /\ Len(orders) \in Nat /\ DOMAIN orders = 1 .. Len(orders)
  BY DEF IInv, Types
<1>4. /\ orders' \in Seq(Order)
      /\ DOMAIN orders' = 1 .. (Len(orders) + Width[c])
      /\ \A n \in 1 .. Len(orders) : orders'[n] = orders[n]
      /\ \A n \in (Len(orders) + 1) .. (Len(orders) + Width[c]) :
            orders'[n] = new[n - Len(orders)]
  BY <1>1, <1>2, <1>3
<1>5. \A n \in DOMAIN orders' :
        \/ n \in DOMAIN orders /\ orders'[n] = orders[n]
        \/ n - Len(orders) \in Jobs(c) /\ orders'[n] = <<c, n - Len(orders)>>
  <2>1. PICK len \in Nat : len = Len(orders)
    BY <1>3
  <2>2. ASSUME NEW n \in DOMAIN orders', n \notin DOMAIN orders
        PROVE  n \in (len + 1) .. (len + Width[c]) /\ n - len \in Jobs(c)
    <3>1. n \in 1 .. (len + Width[c]) /\ n \notin 1 .. len
      BY <1>3, <1>4, <2>1, <2>2
    <3> QED BY <1>2, <2>1, <3>1 DEF Jobs
  <2>3. ASSUME NEW n \in DOMAIN orders', n \notin DOMAIN orders
        PROVE  orders'[n] = <<c, n - len>>
    <3>1. orders'[n] = new[n - len]
      BY <1>4, <2>1, <2>2, <2>3
    <3> QED BY <1>2, <2>2, <2>3, <3>1
  <2> QED BY <1>3, <1>4, <2>1, <2>2, <2>3
<1>6. /\ \A n \in DOMAIN orders : orders[n] \in Order /\ orders[n][1] # c
      /\ \A w \in Workers : Driving(w) => worker[w].order[1] # c
  BY <1>1, <1>3 DEF IInv, Outstands, Live
<1>7. phase' \in [Calls -> Promise!Phase] /\ phase'[c] = "waiting"
      /\ \A d \in Calls : d # c => phase'[d] = phase[d]
  BY <1>1 DEF IInv, Types, Promise!Phase
<1>8. Types'
  BY <1>1, <1>4, <1>7 DEF IInv, Types, Driving, Jobs
<1>9. Once'
  <2>1. \A m, n \in DOMAIN orders' : orders'[m] = orders'[n] => m = n
    <3> SUFFICES ASSUME NEW m \in DOMAIN orders', NEW n \in DOMAIN orders',
                        orders'[m] = orders'[n]
                 PROVE  m = n
      OBVIOUS
    <3>1. m \in Nat /\ n \in Nat
      BY <1>2, <1>3, <1>4
    <3>2. CASE m \in DOMAIN orders /\ n \in DOMAIN orders
      BY <1>3, <1>4, <3>2 DEF IInv, Once
    <3>3. CASE m \notin DOMAIN orders /\ n \notin DOMAIN orders
      <4>1. m - Len(orders) = n - Len(orders)
        BY <1>5, <3>3
      <4> QED BY <1>3, <3>1, <4>1
    <3>4. CASE ~(m \in DOMAIN orders <=> n \in DOMAIN orders)
      <4>1. ASSUME NEW k \in DOMAIN orders', k \in DOMAIN orders PROVE orders'[k][1] # c
        BY <1>3, <1>4, <1>6, <4>1
      <4>2. ASSUME NEW k \in DOMAIN orders', k \notin DOMAIN orders PROVE orders'[k][1] = c
        <5>1. orders'[k] = <<c, k - Len(orders)>>
          BY <1>5, <4>2, Zenon
        <5> QED BY <5>1
      <4> QED BY <3>4, <4>1, <4>2
    <3> QED BY <3>2, <3>3, <3>4
  <2>2. \A w \in Workers, n \in DOMAIN orders' : Driving(w) => worker[w].order # orders'[n]
    BY <1>5, <1>6 DEF IInv, Once
  <2> QED BY <1>1, <2>1, <2>2 DEF IInv, Once, Driving
<1>10. Outstands'
  <2>1. \A n \in DOMAIN orders' :
          phase'[orders'[n][1]] # "new" /\ orders'[n][2] \notin settled[orders'[n][1]]
    <3> SUFFICES ASSUME NEW n \in DOMAIN orders'
                 PROVE  /\ phase'[orders'[n][1]] # "new"
                        /\ orders'[n][2] \notin settled[orders'[n][1]]
      OBVIOUS
    <3>1. CASE n \in DOMAIN orders /\ orders'[n] = orders[n]
      <4>1. Live(orders[n]) /\ orders[n][1] \in Calls /\ orders[n][1] # c
        BY <1>6, <3>1, OrderFacts DEF IInv, Outstands
      <4> QED BY <1>1, <1>7, <3>1, <4>1 DEF Live
    <3>2. CASE orders'[n] = <<c, n - Len(orders)>>
      <4>1. settled[c] = {}
        BY <1>1 DEF IInv, Stands
      <4> QED BY <1>1, <1>7, <3>2, <4>1 DEF Live
    <3> QED BY <1>5, <3>1, <3>2
  <2>2. ASSUME NEW w \in Workers, Driving(w)
        PROVE  phase'[worker[w].order[1]] # "new"
               /\ worker[w].order[2] \notin settled[worker[w].order[1]]
    BY <1>6, <1>7, <2>2, OrderFacts DEF IInv, Outstands, Live, Types
  <2> QED BY <1>1, <2>1, <2>2 DEF Outstands, Live, Driving
<1>11. ASSUME NEW d \in Calls PROVE Stands(d)'
  <2>1. Stands(d)
    BY DEF IInv
  <2>2. CASE d = c
    <3>1. settled[c] = {} /\ replies[c] = <<>> /\ received[c] = 0
      BY <1>1, <2>1, <2>2 DEF Stands
    <3>2. Filled(c) = {} /\ Cardinality({}) = 0 /\ DOMAIN replies[c] = {}
      BY <3>1, FS_EmptySet DEF Filled
    <3>3. Collected(c)
      BY <3>1, <3>2 DEF Collected
    <3>4. Collected(c)'
      BY <1>1, <3>3 DEF Collected, Filled, Replied
    <3> QED BY <1>7, <2>2, <3>4 DEF Stands
  <2>3. CASE d # c
    BY <1>1, <1>7, <2>3, StandsKept
  <2> QED BY <2>2, <2>3
<1> QED BY <1>8, <1>9, <1>10, <1>11 DEF IInv

-----------------------------------------------------------------------------
(* A call files the reply at the head of its channel.                      *)
LEMMA CollectIInv ==
    ASSUME IInv, NEW c \in Calls, Collect(c)
    PROVE  IInv'
<1> DEFINE r == Head(replies[c])
<1>1. /\ UNCHANGED <<outcome, phase, orders, worker, settled>>
      /\ phase[c] = "waiting" /\ replies[c] # <<>>
      /\ slots' = [slots EXCEPT ![c][r.index] = r.value]
      /\ received' = [received EXCEPT ![c] = @ + 1]
      /\ replies' = [replies EXCEPT ![c] = Tail(@)]
  BY DEF Collect, channel, threads
<1>2. /\ Types /\ Stands(c) /\ Collected(c) /\ settled[c] \subseteq Jobs(c)
      /\ replies[c] \in Seq(Message)
      /\ received[c] \in Nat /\ DOMAIN slots = Calls
      /\ slots[c] \in [Jobs(c) -> Value \cup {None}]
  BY <1>1 DEF IInv, Types, Stands
<1> DEFINE rest == Tail(replies[c])
<1>3. /\ r = replies[c][1] /\ 1 \in DOMAIN replies[c] /\ rest \in Seq(Message)
      /\ \A n \in DOMAIN rest :
            /\ n \in Nat /\ n + 1 \in DOMAIN replies[c] /\ n + 1 # 1
            /\ rest[n] = replies[c][n + 1]
      /\ \A m \in DOMAIN replies[c] : m # 1 =>
            \E n \in DOMAIN rest : n + 1 = m /\ rest[n] = replies[c][m]
  BY <1>1, <1>2, TailFacts
<1>4. /\ r.index \in settled[c] /\ r.index \in Jobs(c) /\ r.value \in Value
      /\ r.value = <<outcome[c][r.index], r.index>>
  <2>1. r \in Message
    BY <1>1, <1>2, TailFacts
  <2> QED BY <1>2, <1>3, <2>1 DEF Collected, Message
<1>5. /\ replies'[c] = rest
      /\ replies' \in [Calls -> Seq(Message)]
      /\ \A d \in Calls : d # c => replies'[d] = replies[d]
  BY <1>1, <1>2, <1>3 DEF Types
<1> HIDE DEF r, rest
<1>6. /\ received' \in [Calls -> Nat] /\ received'[c] = received[c] + 1
      /\ \A d \in Calls : d # c => received'[d] = received[d]
  BY <1>1, <1>2 DEF Types
<1>7. /\ DOMAIN slots' = Calls
      /\ \A d \in Calls : slots'[d] \in [Jobs(d) -> Value \cup {None}]
      /\ slots'[c][r.index] = r.value
      /\ \A i \in Jobs(c) : i # r.index => slots'[c][i] = slots[c][i]
      /\ \A d \in Calls : d # c => slots'[d] = slots[d]
  BY <1>1, <1>2, <1>4 DEF Types
<1>8. Types'
  BY <1>1, <1>5, <1>6, <1>7 DEF IInv, Types, Driving, Jobs
<1>9. Once' /\ Outstands'
  BY <1>1 DEF IInv, Once, Outstands, Live, Driving
<1>10. r.index \notin Replied(c)' /\ Replied(c) = Replied(c)' \cup {r.index}
  <2>1. r.index \notin Replied(c)'
    <3> SUFFICES ASSUME NEW n \in DOMAIN rest, rest[n].index = r.index PROVE FALSE
      BY <1>5 DEF Replied
    <3>1. n + 1 \in DOMAIN replies[c] /\ n + 1 # 1
          /\ replies[c][n + 1].index = replies[c][1].index
      BY <1>3
    <3> QED BY <1>2, <1>3, <3>1 DEF Collected
  <2>2. ASSUME NEW x \in Replied(c) PROVE x \in Replied(c)' \cup {r.index}
    <3>1. PICK m \in DOMAIN replies[c] : x = replies[c][m].index
      BY <2>2 DEF Replied
    <3> QED BY <1>3, <1>5, <3>1 DEF Replied
  <2>3. ASSUME NEW x \in Replied(c)' \cup {r.index} PROVE x \in Replied(c)
    BY <1>3, <1>5, <2>3 DEF Replied
  <2> QED BY <2>1, <2>2, <2>3
<1>11. r.index \notin Filled(c) /\ Filled(c)' = Filled(c) \cup {r.index}
  BY <1>1, <1>4, <1>10 DEF Filled
<1>12. Collected(c)'
  <2>1. \A m, n \in DOMAIN replies'[c] :
          replies'[c][m].index = replies'[c][n].index => m = n
    <3> SUFFICES ASSUME NEW m \in DOMAIN replies'[c], NEW n \in DOMAIN replies'[c],
                        replies'[c][m].index = replies'[c][n].index
                 PROVE  m = n
      OBVIOUS
    <3>1. m + 1 = n + 1
      BY <1>2, <1>3, <1>5 DEF Collected
    <3> QED BY <1>3, <1>5, <3>1
  <2>2. \A n \in DOMAIN replies'[c] :
          /\ replies'[c][n].index \in settled'[c]
          /\ replies'[c][n].value
               = <<outcome'[c][replies'[c][n].index], replies'[c][n].index>>
    BY <1>1, <1>2, <1>3, <1>5 DEF Collected
  <2>3. \A i \in Filled(c)' : slots'[c][i] = <<outcome'[c][i], i>>
    BY <1>1, <1>2, <1>4, <1>7, <1>11 DEF Collected, Filled
  <2>4. received'[c] = Cardinality(Filled(c)')
    <3>1. IsFiniteSet(Filled(c))
      BY <1>2, JobsFinite, FS_Subset DEF Filled
    <3>2. Cardinality(Filled(c) \cup {r.index}) = Cardinality(Filled(c)) + 1
      BY <1>11, <3>1, FS_AddElement
    <3> QED BY <1>2, <1>6, <1>11, <3>2 DEF Collected
  <2> QED BY <2>1, <2>2, <2>3, <2>4 DEF Collected
<1>13. \A d \in Calls : Stands(d)'
  <2>1. Stands(c)'
    BY <1>1, <1>12 DEF Stands
  <2>2. ASSUME NEW d \in Calls, d # c PROVE Stands(d)'
    BY <1>1, <1>5, <1>6, <1>7, <2>2, StandsKept
  <2> QED BY <2>1, <2>2
<1> QED BY <1>8, <1>9, <1>13 DEF IInv

(* A worker that has ended a job sends the reply and rests.  The job had   *)
(* not ended before, so the reply is the only one of its index.            *)
LEMMA ReplyIInv ==
    ASSUME IInv, NEW w \in Workers, Reply(w)
    PROVE  IInv'
<1> DEFINE o == worker[w].order
<1>1. worker[w].at = "ended" /\ Driving(w) /\ Types
  BY DEF Reply, Driving, IInv
<1>2. o \in Order
  BY <1>1 DEF Types
<1>3. PICK c \in Calls, i \in Nat : i \in Jobs(c) /\ o = <<c, i>>
  BY <1>2, OrderFacts
<1> DEFINE msg == [index |-> i, value |-> <<outcome[c][i], i>>]
<1>4. /\ UNCHANGED <<outcome, phase, orders, slots, received>>
      /\ worker' = [worker EXCEPT ![w] = Resting]
      /\ settled' = [settled EXCEPT ![c] = @ \cup {i}]
      /\ replies' = [replies EXCEPT ![c] = IF phase[c] = "waiting"
                                          THEN Append(@, msg) ELSE @]
  BY <1>3 DEF Reply, collector, channel
<1>5. phase[c] # "new" /\ i \notin settled[c]
  BY <1>1, <1>3 DEF IInv, Outstands, Live
<1>6. /\ worker' \in [Workers -> Drivers] /\ ~Driving(w)'
      /\ \A v \in Workers : v # w => worker'[v] = worker[v] /\ (Driving(v)' <=> Driving(v))
  BY <1>1, <1>4 DEF Types, Drivers, Resting, Driving
<1>7. /\ DOMAIN settled' = Calls /\ settled'[c] = settled[c] \cup {i}
      /\ \A d \in Calls : d # c => settled'[d] = settled[d]
      /\ \A d \in Calls : settled'[d] \subseteq Jobs(d)
  BY <1>1, <1>3, <1>4 DEF Types
<1>8. msg \in Message
  BY <1>1, <1>3, OutcomeFacts DEF Message, Value
<1>9. msg.index = i /\ msg.value = <<outcome[c][i], i>>
  OBVIOUS
<1> HIDE DEF msg, o
<1>10. /\ replies' \in [Calls -> Seq(Message)]
       /\ \A d \in Calls : d # c => replies'[d] = replies[d]
       /\ phase[c] = "waiting" => replies'[c] = Append(replies[c], msg)
  <2>1. replies \in [Calls -> Seq(Message)] /\ Append(replies[c], msg) \in Seq(Message)
    BY <1>1, <1>8, AppendFacts DEF Types
  <2> QED BY <1>4, <2>1
<1>11. Types'
  BY <1>1, <1>4, <1>6, <1>7, <1>10 DEF Types, Jobs
<1>12. Once'
  BY <1>4, <1>6 DEF IInv, Once
<1>13. Outstands'
  <2>1. ASSUME NEW q \in Order, Live(q), q # <<c, i>>
        PROVE  phase'[q[1]] # "new" /\ q[2] \notin settled'[q[1]]
    <3>1. q[1] \in Calls /\ q = <<q[1], q[2]>>
      BY OrderFacts
    <3> QED BY <1>4, <1>7, <2>1, <3>1 DEF Live
  <2>2. ASSUME NEW n \in DOMAIN orders PROVE Live(orders[n])'
    <3>1. orders[n] \in Order /\ Live(orders[n]) /\ orders[n] # <<c, i>>
      <4>1. orders[n] # o
        BY <1>1 DEF IInv, Once, o
      <4> QED BY <1>1, <1>3, <4>1 DEF IInv, Outstands, Types
    <3> QED BY <1>4, <2>1, <3>1 DEF Live
  <2>3. ASSUME NEW v \in Workers, Driving(v)' PROVE Live(worker[v].order)'
    <3>1. v # w /\ Driving(v) /\ worker'[v] = worker[v]
      BY <1>6, <2>3
    <3>2. worker[v].order \in Order /\ Live(worker[v].order) /\ worker[v].order # <<c, i>>
      BY <1>1, <1>3, <3>1 DEF IInv, Once, Outstands, Types, o
    <3> QED BY <2>1, <3>1, <3>2 DEF Live
  <2> QED BY <1>4, <2>2, <2>3 DEF Outstands
<1>14. ASSUME phase[c] = "waiting" PROVE Collected(c)'
  <2> DEFINE old == replies[c]
  <2>1. Collected(c) /\ old \in Seq(Message) /\ replies'[c] = Append(old, msg)
    BY <1>1, <1>10, <1>14 DEF IInv, Stands, Types
  <2>2. \A n \in DOMAIN old : n \in DOMAIN replies'[c] /\ replies'[c][n] = old[n]
    BY <1>8, <2>1, AppendFacts
  <2>3. PICK last \in DOMAIN replies'[c] :
          /\ last \notin DOMAIN old /\ replies'[c][last] = msg
          /\ \A n \in DOMAIN replies'[c] : n \in DOMAIN old \/ n = last
    BY <1>8, <2>1, AppendFacts
  <2>4. \A n \in DOMAIN old : old[n].index \in settled[c] /\ old[n].index # i
    BY <1>5, <2>1 DEF Collected
  <2> HIDE DEF old
  <2>5. Replied(c)' = Replied(c) \cup {i}
    <3>1. ASSUME NEW x \in Replied(c) PROVE x \in Replied(c)'
      BY <2>2, <3>1 DEF Replied, old
    <3>2. i \in Replied(c)'
      BY <1>9, <2>3 DEF Replied
    <3>3. ASSUME NEW x \in Replied(c)' PROVE x \in Replied(c) \cup {i}
      BY <1>9, <2>2, <2>3, <3>3 DEF Replied, old
    <3> QED BY <3>1, <3>2, <3>3
  <2>6. Filled(c)' = Filled(c)
    BY <1>5, <1>7, <2>5 DEF Filled
  <2>7. \A m, n \in DOMAIN replies'[c] :
          replies'[c][m].index = replies'[c][n].index => m = n
    BY <1>9, <2>1, <2>2, <2>3, <2>4 DEF Collected, old
  <2>8. \A n \in DOMAIN replies'[c] :
          /\ replies'[c][n].index \in settled'[c]
          /\ replies'[c][n].value
               = <<outcome'[c][replies'[c][n].index], replies'[c][n].index>>
    BY <1>4, <1>7, <1>9, <2>1, <2>2, <2>3 DEF Collected, old
  <2> QED BY <1>4, <2>1, <2>6, <2>7, <2>8 DEF Collected
<1>15. ASSUME NEW d \in Calls PROVE Stands(d)'
  <2>1. CASE d # c
    BY <1>4, <1>7, <1>10, <2>1, StandsKept
  <2>2. CASE d = c
    <3>1. phase[c] \notin {"returned", "panicked"}
      BY <1>3, <1>5 DEF IInv, Stands
    <3> QED BY <1>4, <1>5, <1>14, <2>2, <3>1 DEF Stands
  <2> QED BY <2>1, <2>2
<1> QED BY <1>11, <1>12, <1>13, <1>15 DEF IInv

(* When every reply has been counted, every slot is filled.                *)
LEMMA AllFilled ==
    ASSUME IInv, NEW c \in Calls, phase[c] = "waiting", received[c] = Width[c]
    PROVE  settled[c] = Jobs(c) /\ \A i \in Jobs(c) : slots[c][i] = <<outcome[c][i], i>>
<1>1. /\ Filled(c) \subseteq Jobs(c) /\ settled[c] \subseteq Jobs(c)
      /\ received[c] = Cardinality(Filled(c))
      /\ \A i \in Filled(c) : slots[c][i] = <<outcome[c][i], i>>
  BY DEF IInv, Types, Stands, Collected, Filled
<1>2. Filled(c) = Jobs(c)
  BY <1>1, JobsFinite, FS_Subset
<1> QED BY <1>1, <1>2 DEF Filled

(* The caller returns the results or resumes the first panic.              *)
LEMMA ReturnIInv ==
    ASSUME IInv, NEW c \in Calls, Return(c) \/ Drop(c)
    PROVE  IInv'
<1>1. PICK p \in {"returned", "panicked", "dropped"} :
        /\ phase' = [phase EXCEPT ![c] = p]
        /\ p \in {"returned", "panicked"} => received[c] = Width[c]
  BY DEF Return, Drop
<1>2. /\ UNCHANGED <<outcome, orders, worker, slots, received, settled>>
      /\ phase[c] = "waiting"
      /\ UNCHANGED replies \/ replies' = [replies EXCEPT ![c] = <<>>]
  BY DEF Return, Drop, collector, channel, threads
<1>3. /\ phase' \in [Calls -> Promise!Phase] /\ phase'[c] = p
      /\ \A d \in Calls : d # c => phase'[d] = phase[d]
  BY <1>1 DEF IInv, Types, Promise!Phase
<1>4. /\ replies' \in [Calls -> Seq(Message)]
      /\ \A d \in Calls : d # c => replies'[d] = replies[d]
  <2>1. replies \in [Calls -> Seq(Message)] /\ <<>> \in Seq(Message)
    BY DEF IInv, Types
  <2> QED BY <1>2, <2>1
<1>5. Types'
  BY <1>2, <1>3, <1>4 DEF IInv, Types, Driving, Jobs
<1>6. Once'
  BY <1>2 DEF IInv, Once, Driving
<1>7. Outstands'
  <2>1. ASSUME NEW q \in Order, Live(q) PROVE phase'[q[1]] # "new"
    BY <1>3, <2>1, OrderFacts DEF Live
  <2>2. ASSUME NEW n \in DOMAIN orders PROVE Live(orders[n])'
    <3>1. orders[n] \in Order /\ Live(orders[n])
      BY DEF IInv, Outstands, Types
    <3> QED BY <1>2, <2>1, <3>1 DEF Live
  <2>3. ASSUME NEW w \in Workers, Driving(w) PROVE Live(worker[w].order)'
    <3>1. worker[w].order \in Order /\ Live(worker[w].order)
      BY <2>3 DEF IInv, Outstands, Types
    <3> QED BY <1>2, <2>1, <3>1 DEF Live
  <2> QED BY <1>2, <2>2, <2>3 DEF Outstands, Driving
<1>8. ASSUME NEW d \in Calls PROVE Stands(d)'
  <2>1. CASE d # c
    BY <1>2, <1>3, <1>4, <2>1, StandsKept
  <2>2. CASE d = c
    <3>1. p \in {"returned", "panicked"} => settled[c] = Jobs(c)
      BY <1>1, <1>2, AllFilled
    <3> QED BY <1>2, <1>3, <2>2, <3>1 DEF Stands, Jobs
  <2> QED BY <2>1, <2>2
<1> QED BY <1>5, <1>6, <1>7, <1>8 DEF IInv

(* Every step of callers, workers and wakers keeps the invariant.          *)
LEMMA NextIInv ==
    ASSUME IInv, [Next]_vars
    PROVE  IInv'
<1>1. ASSUME NEW c \in Calls, Caller(c) PROVE IInv'
  BY <1>1, FanOutIInv, CollectIInv, ReturnIInv DEF Caller
<1>2. ASSUME NEW w \in Workers, Lock(w) \/ Drive(w) \/ Wake(w) \/ UnparkSpuriously(w)
      PROVE  IInv'
  BY <1>2, DriveIInv, ReceiveIInv, ReplyIInv DEF Drive
<1>3. CASE Close \/ UNCHANGED vars
  <2>1. UNCHANGED <<outcome, phase, orders, replies, slots, received, settled, worker>>
    BY <1>3 DEF Close, collector, threads, vars
  <2> QED BY <2>1, QuietIInv DEF IInv, Types, Driving
<1> QED BY <1>1, <1>2, <1>3 DEF Next

(* The invariant holds in every reachable state.                           *)
THEOREM Invariance == Spec => []IInv
BY InitIInv, NextIInv, PTL DEF Spec

-----------------------------------------------------------------------------
(* The refinement.                                                         *)

(* What a caller gets is what its jobs' ends call for: the values in the   *)
(* order of the inputs, or the first panic.                                *)
LEMMA ReturnFinishes ==
    ASSUME IInv, NEW c \in Calls, Return(c)
    PROVE  Promise!Finish(c)
<1> DEFINE panics == {i \in Jobs(c) : slots[c][i][1] = "panic"}
<1>1. /\ phase[c] = "waiting" /\ received[c] = Width[c] /\ UNCHANGED <<outcome, settled>>
      /\ IF panics = {}
         THEN /\ phase' = [phase EXCEPT ![c] = "returned"]
              /\ result' = [result EXCEPT ![c] = slots[c]]
         ELSE /\ phase' = [phase EXCEPT ![c] = "panicked"]
              /\ result' = [result EXCEPT ![c] = <<slots[c][Min(panics)]>>]
  BY DEF Return
<1>2. settled[c] = Jobs(c) /\ \A i \in Jobs(c) : slots[c][i] = <<outcome[c][i], i>>
  BY <1>1, AllFilled
<1>3. /\ outcome[c] \in [Jobs(c) -> {"ok", "panic"}] 
      /\ slots[c] \in [Jobs(c) -> Value \cup {None}] /\ Jobs(c) \subseteq Nat
  BY OutcomeFacts, OrderFacts DEF IInv, Types
<1>4. panics = Promise!Panics(outcome[c])
  BY <1>2, <1>3 DEF Promise!Panics
<1>5. CASE panics = {}
  <2>1. slots[c] = [i \in Jobs(c) |-> <<outcome[c][i], i>>]
    BY <1>2, <1>3
  <2>2. slots[c] = Promise!Answer(outcome[c])
    BY <1>3, <1>4, <1>5, <2>1 DEF Promise!Answer
  <2> QED BY <1>1, <1>2, <1>4, <1>5, <2>2 DEF Promise!Finish, Promise!Jobs, Jobs
<1>6. CASE panics # {}
  <2>1. Min(panics) \in panics /\ Min(panics) = Promise!FirstPanic(outcome[c])
    <3>1. \E x \in panics : \A y \in panics : x <= y
      BY <1>3, <1>6, LeastNat
    <3> HIDE DEF panics
    <3>2. Min(panics) \in panics
      BY <3>1 DEF Min
    <3>3. Min(panics) = Promise!FirstPanic(outcome[c])
      BY <1>4 DEF Min, Promise!FirstPanic
    <3> QED BY <3>2, <3>3
  <2>2. slots[c][Min(panics)] = <<"panic", Min(panics)>>
    <3>1. \A i \in panics : i \in Jobs(c) /\ outcome[c][i] = "panic"
      BY <1>2
    <3> HIDE DEF panics
    <3> QED BY <1>2, <2>1, <3>1
  <2>3. <<slots[c][Min(panics)]>> = Promise!Answer(outcome[c])
    BY <1>4, <1>6, <2>1, <2>2 DEF Promise!Answer
  <2> QED BY <1>1, <1>2, <1>4, <1>6, <2>3 DEF Promise!Finish, Promise!Jobs, Jobs
<1> QED BY <1>5, <1>6

(* A job ends once, while its call waits or after it was dropped.          *)
LEMMA ReplySettles ==
    ASSUME IInv, NEW w \in Workers, Reply(w)
    PROVE  \E c \in Calls : \E i \in Promise!Jobs(c) : Promise!Settle(c, i)
<1>1. Driving(w) /\ worker[w].order \in Order
  BY DEF Reply, Driving, IInv, Types
<1>2. PICK c \in Calls, i \in Nat : i \in Jobs(c) /\ worker[w].order = <<c, i>>
  BY <1>1, OrderFacts
<1>3. phase[c] # "new" /\ i \notin settled[c]
  BY <1>1, <1>2 DEF IInv, Outstands, Live
<1>4. phase[c] \in {"waiting", "dropped"}
  BY <1>2, <1>3 DEF IInv, Stands, Types, Promise!Phase
<1>5. Promise!Settle(c, i)
  BY <1>2, <1>3, <1>4 DEF Reply, Promise!Settle
<1> QED BY <1>2, <1>5 DEF Jobs, Promise!Jobs

(* The pool keeps the promise of fan_out: every behaviour of the workers,  *)
(* callers and wakers is one that FanOut allows.                           *)
THEOREM PoolKeepsPromise == Spec => KeepsPromise
<1>1. Init => Promise!Init
  BY DEF Init, Promise!Init
<1>2. ASSUME IInv, [Next]_vars PROVE [Promise!Next]_(Promise!vars)
  <2>1. ASSUME NEW c \in Calls, FanOut(c) PROVE Promise!Submit(c)
    BY <2>1 DEF FanOut, Promise!Submit
  <2>2. ASSUME NEW c \in Calls, Drop(c) PROVE Promise!Drop(c)
    BY <2>2 DEF Drop, Promise!Drop
  <2>3. ASSUME NEW c \in Calls, Collect(c) PROVE UNCHANGED Promise!vars
    BY <2>3 DEF Collect, Promise!vars
  <2>4. ASSUME NEW w \in Workers,
               \/ Lock(w) \/ Receive(w) \/ Poll(w) \/ Wake(w) \/ Unpark(w)
               \/ UnparkSpuriously(w)
        PROVE  UNCHANGED Promise!vars
    BY <2>4 DEF Lock, Receive, Poll, Wake, Unpark, UnparkSpuriously, Promise!vars
  <2>5. CASE Close \/ UNCHANGED vars
    BY <2>5 DEF Close, vars, Promise!vars
  <2> QED BY <1>2, <2>1, <2>2, <2>3, <2>4, <2>5, ReturnFinishes, ReplySettles
          DEF Next, Caller, Drive, Promise!Next
<1> QED BY <1>1, <1>2, Invariance, PTL DEF Spec, KeepsPromise, Promise!Spec
-----------------------------------------------------------------------------
(* The test runner. *)

\* The steps of a job that hold a permit, those of them whose test may still
\* be counted as a failure, and the steps after the counting.
HoldingAt == {"recheck", "spawn", "wait", "clock", "verdict", "announce", "release"}
RunningAt == {"spawn", "wait", "clock", "verdict"}
SettledAt == {"announce", "release", "notify", "done"}
Step == {"queued", "acquire", "waiting"} \cup HoldingAt \cup SettledAt

Running == {t \in Tests : pc[t] \in RunningAt}
Counted == {t \in Tests : pc[t] \in SettledAt /\ verdict[t] \in Failing}

RunTypes ==
  /\ options \in Options
  /\ pc \in [Tests -> Step]
  /\ attempt \in [Tests -> 0..options.retries]
  /\ verdict \in [Tests -> {"none", "Passed", "Skipped"} \cup Failing]
  /\ free \in Nat
  /\ failures \in Nat
  /\ started \subseteq Tests
  /\ finished \subseteq Tests

\* The failures counted and the failures still possible.
Budget ==
  options.maxFail > 0 =>
    failures + Cardinality(Running) < options.maxFail + options.threads

\* Every counted failure is one test's last verdict.
Ledger == failures = Cardinality(Counted)

\* What has been announced of a test, and why it was skipped, by where its
\* job is.
Books(t) ==
  /\ pc[t] \in {"queued", "acquire", "waiting", "recheck"} =>
       verdict[t] = "none" /\ t \notin started /\ t \notin finished
  /\ pc[t] \in RunningAt \cup {"announce"} =>
       verdict[t] # "Skipped" /\ t \in started /\ t \notin finished
  /\ pc[t] \in {"verdict", "announce"} => verdict[t] # "none"
  /\ pc[t] \in {"release", "notify", "done"} =>
       \/ verdict[t] = "Skipped" /\ Exhausted /\ t \notin started /\ t \notin finished
       \/ verdict[t] \in {"Passed"} \cup Failing /\ t \in started /\ t \in finished

RunInv ==
  /\ RunTypes
  /\ PermitsHold
  /\ Budget
  /\ Ledger
  /\ \A t \in Tests : Books(t)

-----------------------------------------------------------------------------
(* The options of a run are numbers and switches.                          *)
LEMMA OptionTypes ==
  ASSUME RunTypes
  PROVE  /\ options.threads \in Nat \ {0} /\ options.maxFail \in Nat
         /\ options.retries \in Nat
BY TestRunAssumption DEF RunTypes

(* Sets of tests are finite, and one more or one less changes their size   *)
(* by one.                                                                 *)
LEMMA Sizes ==
  ASSUME NEW S \in SUBSET Tests, NEW t \in Tests
  PROVE  /\ IsFiniteSet(S) /\ Cardinality(S) \in Nat
         /\ Cardinality(S \cup {t}) = IF t \in S THEN Cardinality(S) ELSE Cardinality(S) + 1
         /\ Cardinality(S \ {t}) = IF t \in S THEN Cardinality(S) - 1 ELSE Cardinality(S)
<1>1. IsFiniteSet(S)
  BY TestRunAssumption, FS_Subset
<1> QED BY <1>1, FS_CardinalityType, FS_AddElement, FS_RemoveElement

(* How a move of one job changes who holds a permit and who may fail.      *)
LEMMA Moved ==
  ASSUME RunTypes, NEW t \in Tests, NEW there \in Step, pc' = [pc EXCEPT ![t] = there]
  PROVE  /\ pc' \in [Tests -> Step]
         /\ \A q \in Tests : pc'[q] = IF q = t THEN there ELSE pc[q]
         /\ Cardinality(Holding) \in Nat /\ Cardinality(Running) \in Nat
         /\ Cardinality(Holding') \in Nat /\ Cardinality(Running') \in Nat
         /\ Cardinality(Holding') = IF there \in HoldingAt
              THEN IF pc[t] \in HoldingAt THEN Cardinality(Holding)
                                          ELSE Cardinality(Holding) + 1
              ELSE IF pc[t] \in HoldingAt THEN Cardinality(Holding) - 1
                                          ELSE Cardinality(Holding)
         /\ Cardinality(Running') = IF there \in RunningAt
              THEN IF pc[t] \in RunningAt THEN Cardinality(Running)
                                          ELSE Cardinality(Running) + 1
              ELSE IF pc[t] \in RunningAt THEN Cardinality(Running) - 1
                                          ELSE Cardinality(Running)
<1>1. pc' \in [Tests -> Step] /\ \A q \in Tests : pc'[q] = IF q = t THEN there ELSE pc[q]
  BY DEF RunTypes
<1>2. Holding' = IF there \in HoldingAt THEN Holding \cup {t} ELSE Holding \ {t}
  BY <1>1 DEF Holding, HoldingAt
<1>3. Running' = IF there \in RunningAt THEN Running \cup {t} ELSE Running \ {t}
  BY <1>1 DEF Running
<1>4. /\ Holding \in SUBSET Tests /\ Running \in SUBSET Tests
      /\ Holding' \in SUBSET Tests /\ Running' \in SUBSET Tests
      /\ (t \in Holding <=> pc[t] \in HoldingAt) /\ (t \in Running <=> pc[t] \in RunningAt)
  BY DEF Holding, Running, HoldingAt
<1>5. /\ Cardinality(Holding) \in Nat /\ Cardinality(Running) \in Nat
      /\ Cardinality(Holding') \in Nat /\ Cardinality(Running') \in Nat
  BY <1>4, Sizes
<1>6. Cardinality(Holding') = IF there \in HoldingAt
              THEN IF pc[t] \in HoldingAt THEN Cardinality(Holding)
                                          ELSE Cardinality(Holding) + 1
              ELSE IF pc[t] \in HoldingAt THEN Cardinality(Holding) - 1
                                          ELSE Cardinality(Holding)
  BY <1>2, <1>4, Sizes
<1>7. Cardinality(Running') = IF there \in RunningAt
              THEN IF pc[t] \in RunningAt THEN Cardinality(Running)
                                          ELSE Cardinality(Running) + 1
              ELSE IF pc[t] \in RunningAt THEN Cardinality(Running) - 1
                                          ELSE Cardinality(Running)
  BY <1>3, <1>4, Sizes
<1> QED BY <1>1, <1>5, <1>6, <1>7

(* A step that does not touch the books of the other tests, and counts a   *)
(* failure at most, keeps their entries.                                   *)
LEMMA OthersKept ==
  ASSUME RunTypes, NEW t \in Tests, NEW q \in Tests, q # t, Books(q),
         pc'[q] = pc[q], verdict'[q] = verdict[q],
         q \in started' <=> q \in started, q \in finished' <=> q \in finished,
         UNCHANGED options, failures' \in Nat, failures' >= failures
  PROVE  Books(q)'
<1>1. Exhausted => Exhausted'
  BY OptionTypes DEF Exhausted, RunTypes
<1> QED BY <1>1 DEF Books

(* The invariant holds before any job is taken.                            *)
LEMMA RunInvInit == RunInit => RunInv
<1> SUFFICES ASSUME RunInit PROVE RunInv
  OBVIOUS
<1>1. RunTypes
  BY TestRunAssumption DEF RunInit, RunTypes, Step
<1>2. Holding = {} /\ Running = {} /\ Counted = {}
  BY DEF RunInit, Holding, Running, Counted, RunningAt, SettledAt
<1>3. \A t \in Tests : Books(t)
  BY DEF RunInit, Books, RunningAt
<1> QED BY <1>1, <1>2, <1>3, FS_EmptySet, OptionTypes
        DEF RunInit, RunInv, PermitsHold, Budget, Ledger

(* A step of one job keeps the invariant when it pays for what it takes: a *)
(* permit for entering the steps that hold one, a failure below the limit  *)
(* for starting a test, a counted failure for settling as one.             *)
LEMMA JobMoves ==
  ASSUME RunInv, NEW t \in Tests, NEW there \in Step,
         NEW v \in {"none", "Passed", "Skipped"} \cup Failing,
         pc' = [pc EXCEPT ![t] = there], verdict' = [verdict EXCEPT ![t] = v],
         UNCHANGED options, attempt' \in [Tests -> 0..options.retries],
         free' \in Nat, failures' \in {failures, failures + 1},
         started' \subseteq Tests, finished' \subseteq Tests,
         \A q \in Tests \ {t} : /\ q \in started' <=> q \in started
                                /\ q \in finished' <=> q \in finished,
         free' = IF there \in HoldingAt
                 THEN IF pc[t] \in HoldingAt THEN free ELSE free - 1
                 ELSE IF pc[t] \in HoldingAt THEN free + 1 ELSE free,
         there \in RunningAt /\ pc[t] \notin RunningAt => ~Exhausted,
         pc[t] \in SettledAt => there \in SettledAt /\ v = verdict[t],
         failures' = failures + 1 <=>
             pc[t] \notin SettledAt /\ there \in SettledAt /\ v \in Failing,
         failures' = failures + 1 => pc[t] \in RunningAt /\ there \notin RunningAt,
         Books(t)'
  PROVE  RunInv'
<1>1. /\ RunTypes /\ PermitsHold /\ Budget /\ Ledger /\ \A q \in Tests : Books(q)
      /\ failures \in Nat /\ free \in Nat
      /\ options.threads \in Nat \ {0} /\ options.maxFail \in Nat
  BY OptionTypes DEF RunInv, RunTypes
<1>2. RunTypes'
  BY <1>1, Moved DEF RunTypes
<1>3. /\ \A q \in Tests : pc'[q] = IF q = t THEN there ELSE pc[q]
      /\ \A q \in Tests : verdict'[q] = IF q = t THEN v ELSE verdict[q]
  BY <1>1, Moved DEF RunTypes
<1>4. PermitsHold'
  <2>1. /\ Cardinality(Holding) \in Nat /\ Cardinality(Holding') \in Nat
        /\ Cardinality(Holding') = IF there \in HoldingAt
              THEN IF pc[t] \in HoldingAt THEN Cardinality(Holding)
                                          ELSE Cardinality(Holding) + 1
              ELSE IF pc[t] \in HoldingAt THEN Cardinality(Holding) - 1
                                          ELSE Cardinality(Holding)
    BY <1>1, Moved
  <2>2. Cardinality(Holding) + free = options.threads
    BY <1>1 DEF PermitsHold
  <2>3. Cardinality(Holding') + free' = Cardinality(Holding) + free
    BY <1>1, <2>1
  <2> QED BY <2>2, <2>3 DEF PermitsHold
<1>5. Budget'
  <2> SUFFICES ASSUME options.maxFail > 0
               PROVE  failures' + Cardinality(Running') < options.maxFail + options.threads
    BY DEF Budget
  <2>1. /\ Cardinality(Running) \in Nat /\ Cardinality(Running') \in Nat
        /\ failures + Cardinality(Running) < options.maxFail + options.threads
    BY <1>1, Moved DEF Budget
  <2>2. CASE there \in RunningAt /\ pc[t] \notin RunningAt
    <3>1. failures < options.maxFail /\ failures' = failures
      BY <1>1, <2>2 DEF Exhausted
    <3>2. Running' \subseteq Holding'
      BY DEF Running, Holding, RunningAt
    <3>3. IsFiniteSet(Holding') /\ Cardinality(Holding') \in Nat
      <4>1. Holding' \in SUBSET Tests
        BY DEF Holding
      <4> QED BY <4>1, Sizes
    <3>4. Cardinality(Running') <= Cardinality(Holding')
      BY <3>2, <3>3, FS_Subset
    <3>5. Cardinality(Holding') <= options.threads
      BY <1>1, <1>4, <3>3 DEF PermitsHold
    <3> QED BY <1>1, <2>1, <3>1, <3>3, <3>4, <3>5
  <2>3. CASE ~(there \in RunningAt /\ pc[t] \notin RunningAt)
    <3>1. Cardinality(Running') \in {Cardinality(Running), Cardinality(Running) - 1}
      BY <1>1, <2>3, Moved
    <3>2. failures' = failures + 1 => Cardinality(Running') = Cardinality(Running) - 1
      BY <1>1, Moved
    <3> QED BY <1>1, <2>1, <3>1, <3>2
  <2> QED BY <2>2, <2>3
<1>6. Ledger'
  <2>1. Counted \in SUBSET Tests /\ (t \in Counted <=> pc[t] \in SettledAt /\ verdict[t] \in Failing)
    BY DEF Counted
  <2>2. CASE failures' = failures + 1
    <3>1. Counted' = Counted \cup {t} /\ t \notin Counted
      BY <1>1, <1>3, <2>2 DEF Counted
    <3> QED BY <1>1, <2>1, <2>2, <3>1, Sizes DEF Ledger
  <2>3. CASE failures' = failures
    <3>1. ~(pc[t] \notin SettledAt /\ there \in SettledAt /\ v \in Failing)
      BY <1>1, <2>3
    <3>2. Counted' = Counted
      BY <1>3, <3>1 DEF Counted
    <3> QED BY <1>1, <2>3, <3>2 DEF Ledger
  <2> QED BY <2>2, <2>3
<1>7. ASSUME NEW q \in Tests PROVE Books(q)'
  <2>1. CASE q = t
    BY <2>1
  <2>2. CASE q # t
    <3>1. /\ pc'[q] = pc[q] /\ verdict'[q] = verdict[q]
          /\ failures' \in Nat /\ failures' >= failures
      BY <1>1, <1>3, <2>2
    <3> QED BY <1>1, <2>2, <3>1, OthersKept
  <2> QED BY <2>1, <2>2
<1> QED BY <1>2, <1>4, <1>5, <1>6, <1>7 DEF RunInv

(* A job that only moves, without touching its permit or the books.        *)
LEMMA JobWalks ==
  ASSUME RunInv, NEW t \in Tests, NEW here \in Step, NEW there \in Step, Goes(t, here, there),
         UNCHANGED <<options, attempt, verdict, free, failures, started, finished>>,
         here \in HoldingAt <=> there \in HoldingAt,
         here \in RunningAt <=> there \in RunningAt,
         here \in SettledAt <=> there \in SettledAt,
         Books(t)'
  PROVE  RunInv'
<1>1. /\ pc[t] = here /\ pc' = [pc EXCEPT ![t] = there]
      /\ verdict' = [verdict EXCEPT ![t] = verdict[t]]
      /\ verdict[t] \in {"none", "Passed", "Skipped"} \cup Failing
      /\ attempt' \in [Tests -> 0..options.retries] /\ free' \in Nat
      /\ failures \in Nat /\ failures' # failures + 1
      /\ started' \subseteq Tests /\ finished' \subseteq Tests
  BY DEF RunInv, RunTypes, Goes
<1> QED BY <1>1, JobMoves

(* The facts every step starts from.                                       *)
LEMMA Before ==
  ASSUME RunInv, NEW t \in Tests
  PROVE  /\ RunTypes /\ Books(t) /\ pc[t] \in Step /\ failures \in Nat /\ free \in Nat
         /\ failures # failures + 1
         /\ verdict \in [Tests -> {"none", "Passed", "Skipped"} \cup Failing]
         /\ verdict[t] \in {"none", "Passed", "Skipped"} \cup Failing
         /\ verdict = [verdict EXCEPT ![t] = verdict[t]]
         /\ attempt \in [Tests -> 0..options.retries] /\ attempt[t] \in 0..options.retries
         /\ started \subseteq Tests /\ finished \subseteq Tests
         /\ options.retries \in Nat
BY OptionTypes DEF RunInv, RunTypes

(* A worker takes the job, or skips it because the limit is reached.       *)
LEMMA BeginRunInv ==
  ASSUME RunInv, NEW t \in Tests, Begin(t)
  PROVE  RunInv'
<1>1. CASE Exhausted /\ Goes(t, "queued", "done") /\ verdict' = [verdict EXCEPT ![t] = "Skipped"]
  <2>1. pc[t] = "queued" /\ pc'[t] = "done" /\ verdict'[t] = "Skipped"
    BY <1>1, Before DEF Goes, RunTypes
  <2>2. Books(t)'
    BY <1>1, <2>1, Before DEF Books, Exhausted, RunningAt, Begin
  <2> QED BY <1>1, <2>1, <2>2, Before, JobMoves
          DEF Begin, Goes, Step, HoldingAt, RunningAt, SettledAt, Failing
<1>2. CASE Goes(t, "queued", "acquire") /\ UNCHANGED verdict
  <2>1. pc[t] = "queued" /\ pc'[t] = "acquire"
    BY <1>2, Before DEF Goes, RunTypes
  <2>2. Books(t)'
    BY <1>2, <2>1, Before DEF Books, RunningAt, Begin
  <2> QED BY <1>2, <2>2, JobWalks DEF Begin, Step, HoldingAt, RunningAt, SettledAt
<1> QED BY <1>1, <1>2 DEF Begin

(* Permits::acquire takes a permit or waits for one.                       *)
LEMMA AcquireRunInv ==
  ASSUME RunInv, NEW t \in Tests, Acquire(t)
  PROVE  RunInv'
<1>1. CASE free > 0 /\ Goes(t, "acquire", "recheck") /\ free' = free - 1
  <2>1. pc[t] = "acquire" /\ pc'[t] = "recheck" /\ free' \in Nat
    BY <1>1, Before DEF Goes, RunTypes
  <2>2. Books(t)'
    BY <2>1, Before DEF Books, RunningAt, Acquire
  <2> QED BY <1>1, <2>1, <2>2, Before, JobMoves
          DEF Acquire, Goes, Step, HoldingAt, RunningAt, SettledAt
<1>2. CASE Goes(t, "acquire", "waiting") /\ UNCHANGED free
  <2>1. pc[t] = "acquire" /\ pc'[t] = "waiting"
    BY <1>2, Before DEF Goes, RunTypes
  <2>2. Books(t)'
    BY <2>1, Before DEF Books, RunningAt, Acquire
  <2> QED BY <1>2, <2>2, JobWalks DEF Acquire, Step, HoldingAt, RunningAt, SettledAt
<1> QED BY <1>1, <1>2 DEF Acquire

(* A waiter wakes without having been notified.                            *)
LEMMA SpuriousWakeRunInv ==
  ASSUME RunInv, NEW t \in Tests, SpuriousWake(t)
  PROVE  RunInv'
<1>1. pc[t] = "waiting" /\ pc'[t] = "acquire"
  BY Before DEF SpuriousWake, Goes, RunTypes
<1>2. Books(t)'
  BY <1>1, Before DEF Books, RunningAt, SpuriousWake
<1> QED BY <1>2, JobWalks DEF SpuriousWake, Step, HoldingAt, RunningAt, SettledAt

(* With a permit in hand the limit is looked at again, and only a run      *)
(* below it starts the test.                                               *)
LEMMA RecheckRunInv ==
  ASSUME RunInv, NEW t \in Tests, Recheck(t)
  PROVE  RunInv'
<1>1. CASE /\ Exhausted /\ Goes(t, "recheck", "release")
           /\ verdict' = [verdict EXCEPT ![t] = "Skipped"] /\ UNCHANGED started
  <2>1. pc[t] = "recheck" /\ pc'[t] = "release" /\ verdict'[t] = "Skipped"
    BY <1>1, Before DEF Goes, RunTypes
  <2>2. Books(t)'
    BY <1>1, <2>1, Before DEF Books, Exhausted, RunningAt, Recheck
  <2> QED BY <1>1, <2>1, <2>2, Before, JobMoves
          DEF Recheck, Goes, Step, HoldingAt, RunningAt, SettledAt, Failing
<1>2. CASE /\ ~Exhausted /\ Goes(t, "recheck", "spawn")
           /\ started' = started \cup {t} /\ UNCHANGED verdict
  <2>1. pc[t] = "recheck" /\ pc'[t] = "spawn" /\ started' \subseteq Tests
    BY <1>2, Before DEF Goes, RunTypes
  <2>2. Books(t)'
    BY <1>2, <2>1, Before DEF Books, RunningAt, Recheck
  <2> QED BY <1>2, <2>1, <2>2, Before, JobMoves
          DEF Recheck, Goes, Step, HoldingAt, RunningAt, SettledAt
<1> QED BY <1>1, <1>2 DEF Recheck

(* The attempt gets a verdict; its failure is not counted yet.             *)
LEMMA VerdictRunInv ==
  ASSUME RunInv, NEW t \in Tests, NEW here \in RunningAt, Goes(t, here, "verdict"),
         NEW v \in {"Passed"} \cup Failing, verdict' = [verdict EXCEPT ![t] = v],
         UNCHANGED <<options, attempt, free, failures, started, finished>>
  PROVE  RunInv'
<1>1. pc[t] = here /\ pc'[t] = "verdict" /\ verdict'[t] = v
  BY Before DEF Goes, RunTypes
<1>2. Books(t)'
  BY <1>1, Before DEF Books, RunningAt, Failing
<1> QED BY <1>1, <1>2, Before, JobMoves
        DEF Goes, Step, HoldingAt, RunningAt, SettledAt

(* A test starts its process, or cannot.                                   *)
LEMMA SpawnRunInv ==
  ASSUME RunInv, NEW t \in Tests, Spawn(t)
  PROVE  RunInv'
<1>1. CASE Goes(t, "spawn", "wait") /\ UNCHANGED verdict
  <2>1. pc[t] = "spawn" /\ pc'[t] = "wait"
    BY <1>1, Before DEF Goes, RunTypes
  <2>2. Books(t)'
    BY <1>1, <2>1, Before DEF Books, RunningAt, Spawn
  <2> QED BY <1>1, <2>2, JobWalks DEF Spawn, Step, HoldingAt, RunningAt, SettledAt
<1>2. CASE Goes(t, "spawn", "verdict") /\ verdict' = [verdict EXCEPT ![t] = "Failed"]
  BY <1>2, VerdictRunInv DEF Spawn, RunningAt, Failing
<1> QED BY <1>1, <1>2 DEF Spawn

(* The poll finds the process gone.                                        *)
LEMMA SeeExitRunInv ==
  ASSUME RunInv, NEW t \in Tests, SeeExit(t)
  PROVE  RunInv'
<1>1. Judged(child[t], FALSE) \in {"Passed"} \cup Failing
  BY DEF Judged, Failing
<1> QED BY <1>1, VerdictRunInv DEF SeeExit, RunningAt

(* The poll finds the process running.                                     *)
LEMMA SeeRunningRunInv ==
  ASSUME RunInv, NEW t \in Tests, SeeRunning(t)
  PROVE  RunInv'
<1>1. pc[t] = "wait" /\ pc'[t] = "clock"
  BY Before DEF SeeRunning, Goes, RunTypes
<1>2. Books(t)'
  BY <1>1, Before DEF Books, RunningAt, SeeRunning
<1> QED BY <1>2, JobWalks DEF SeeRunning, Step, HoldingAt, RunningAt, SettledAt

(* The clock decides between another poll and a kill.                      *)
LEMMA ReadClockRunInv ==
  ASSUME RunInv, NEW t \in Tests, ReadClock(t)
  PROVE  RunInv'
<1>1. CASE /\ Goes(t, "clock", "verdict")
           /\ verdict' = [verdict EXCEPT ![t] = Judged(child[t], TRUE)]
  <2>1. Judged(child[t], TRUE) \in {"Passed"} \cup Failing
    BY DEF Judged, Failing
  <2> QED BY <1>1, <2>1, VerdictRunInv DEF ReadClock, RunningAt
<1>2. CASE Goes(t, "clock", "wait") /\ UNCHANGED verdict
  <2>1. pc[t] = "clock" /\ pc'[t] = "wait"
    BY <1>2, Before DEF Goes, RunTypes
  <2>2. Books(t)'
    BY <1>2, <2>1, Before DEF Books, RunningAt, ReadClock
  <2> QED BY <1>2, <2>2, JobWalks DEF ReadClock, Step, HoldingAt, RunningAt, SettledAt
<1> QED BY <1>1, <1>2 DEF ReadClock

(* A failure with retries left runs again, uncounted; the last one is      *)
(* counted once, as its job leaves the steps that may fail.                *)
LEMMA SettleRunInv ==
  ASSUME RunInv, NEW t \in Tests, Settle(t)
  PROVE  RunInv'
<1>1. CASE /\ attempt[t] < options.retries /\ Goes(t, "verdict", "spawn")
           /\ attempt' = [attempt EXCEPT ![t] = @ + 1] /\ UNCHANGED failures
  <2>1. pc[t] = "verdict" /\ pc'[t] = "spawn"
    BY <1>1, Before DEF Goes, RunTypes
  <2>2. attempt' \in [Tests -> 0..options.retries]
    BY <1>1, Before
  <2>3. Books(t)'
    BY <1>1, <2>1, Before DEF Books, RunningAt, Settle
  <2> QED BY <1>1, <2>1, <2>2, <2>3, Before, JobMoves
          DEF Settle, Goes, Step, HoldingAt, RunningAt, SettledAt
<1>2. CASE /\ Goes(t, "verdict", "announce") /\ UNCHANGED attempt
           /\ failures' = IF verdict[t] \in Failing THEN failures + 1 ELSE failures
  <2>1. pc[t] = "verdict" /\ pc'[t] = "announce"
    BY <1>2, Before DEF Goes, RunTypes
  <2>2. Books(t)'
    BY <1>2, <2>1, Before DEF Books, RunningAt, Settle
  <2> QED BY <1>2, <2>1, <2>2, Before, JobMoves
          DEF Settle, Goes, Step, HoldingAt, RunningAt, SettledAt
<1> QED BY <1>1, <1>2 DEF Settle

(* A test reports its result.                                              *)
LEMMA AnnounceRunInv ==
  ASSUME RunInv, NEW t \in Tests, Announce(t)
  PROVE  RunInv'
<1>1. pc[t] = "announce" /\ pc'[t] = "release" /\ finished' = finished \cup {t}
  BY Before DEF Announce, Goes, RunTypes
<1>2. Books(t)'
  BY <1>1, Before DEF Books, RunningAt, Announce, Failing
<1> QED BY <1>1, <1>2, Before, JobMoves
        DEF Announce, Goes, Step, HoldingAt, RunningAt, SettledAt

(* Permit::drop gives the permit back.                                     *)
LEMMA ReleaseRunInv ==
  ASSUME RunInv, NEW t \in Tests, Release(t)
  PROVE  RunInv'
<1>1. pc[t] = "release" /\ pc'[t] = "notify" /\ free' = free + 1 /\ free' \in Nat
  BY Before DEF Release, Goes, RunTypes
<1>2. Books(t)'
  BY <1>1, Before DEF Books, RunningAt, Release, Exhausted
<1> QED BY <1>1, <1>2, Before, JobMoves
        DEF Release, Goes, Step, HoldingAt, RunningAt, SettledAt

(* A notified waiter asks again: it has no permit yet.                     *)
LEMMA NotifyRunInv ==
  ASSUME RunInv, NEW t \in Tests, Notify(t)
  PROVE  RunInv'
<1>1. CASE pc' = [pc EXCEPT ![t] = "done"]
  <2>1. pc[t] = "notify" /\ pc'[t] = "done"
    BY <1>1, Before DEF Notify, RunTypes
  <2>2. Books(t)'
    BY <2>1, Before DEF Books, RunningAt, Notify, Exhausted
  <2> QED BY <1>1, <2>1, <2>2, JobWalks
          DEF Notify, Goes, Step, HoldingAt, RunningAt, SettledAt
<1>2. ASSUME NEW w \in Waiting, pc' = [pc EXCEPT ![t] = "done", ![w] = "acquire"]
      PROVE  RunInv'
  <2>1. w \in Tests /\ pc[w] = "waiting" /\ pc[t] = "notify" /\ w # t
    BY <1>2 DEF Waiting, Notify
  <2>2. \A q \in Tests : pc'[q] = IF q = t THEN "done" ELSE IF q = w THEN "acquire" ELSE pc[q]
    BY <1>2, <2>1, Before DEF RunTypes
  <2>3. RunTypes'
    BY <1>2, <2>1 DEF RunInv, RunTypes, Notify, Step, SettledAt
  <2>4. Holding' = Holding /\ Running' = Running /\ Counted' = Counted
    BY <2>1, <2>2 DEF Holding, Running, Counted, RunningAt, SettledAt, Notify
  <2>5. \A q \in Tests : Books(q)'
    BY <2>1, <2>2, Before DEF Books, RunningAt, Notify, Exhausted
  <2> QED BY <2>3, <2>4, <2>5 DEF RunInv, PermitsHold, Budget, Ledger, Notify
<1> QED BY <1>1, <1>2 DEF Notify

(* Every step of every test, process and waiter keeps the invariant.       *)
LEMMA RunInvNext == RunInv /\ [RunNext]_runVars => RunInv'
<1> SUFFICES ASSUME RunInv, [RunNext]_runVars PROVE RunInv'
  OBVIOUS
<1>1. CASE UNCHANGED <<options, pc, attempt, verdict, free, failures, started, finished>>
  BY <1>1 DEF RunInv, RunTypes, PermitsHold, Holding, Budget, Running, Ledger, Counted, Books,
              Exhausted
<1>2. ASSUME NEW t \in Tests, JobStep(t) PROVE RunInv'
  BY <1>2, BeginRunInv, AcquireRunInv, RecheckRunInv, SpawnRunInv, SeeExitRunInv, SeeRunningRunInv,
     ReadClockRunInv, SettleRunInv, AnnounceRunInv, ReleaseRunInv, NotifyRunInv DEF JobStep
<1>3. ASSUME NEW t \in Tests,
             (\E how \in Gone : Exit(t, how)) \/ DeadlinePasses(t)
      PROVE  RunInv'
  BY <1>1, <1>3 DEF Exit, DeadlinePasses
<1> QED BY <1>1, <1>2, <1>3, SpuriousWakeRunInv DEF RunNext, runVars

(* The inductive invariant holds in every reachable state of a run.        *)
THEOREM RunInvariance == RunSpec => []RunInv
BY RunInvInit, RunInvNext, PTL DEF RunSpec

(* Never more than `-j` tests hold a permit and no permit is lost, with    *)
(* spurious wake-ups and overtaken waiters (Permits).                      *)
THEOREM PermitsAlwaysHold == RunSpec => []PermitsHold
<1>1. RunInv => PermitsHold
  BY DEF RunInv
<1> QED BY <1>1, RunInvariance, PTL

(* Goes most threads - 1 tests fail beyond `--max-fail`: those already       *)
(* running when the limit was reached.                                     *)
THEOREM FailuresWithinBudget == RunSpec => []FailureBudget
<1>1. RunInv => FailureBudget
  <2> SUFFICES ASSUME RunInv, options.maxFail > 0
               PROVE  failures < options.maxFail + options.threads
    BY DEF FailureBudget
  <2>1. Running \in SUBSET Tests
    BY DEF Running
  <2>2. Cardinality(Running) \in Nat
    BY <2>1, Sizes, TestRunAssumption, FS_Subset, FS_CardinalityType
  <2>3. RunTypes
    BY DEF RunInv
  <2> QED BY <2>2, <2>3, OptionTypes DEF RunInv, Budget, RunTypes
<1> QED BY <1>1, RunInvariance, PTL

(* The books of a finished run balance, whatever was retried, killed or    *)
(* skipped on the way.                                                     *)
THEOREM AlwaysAccounted == RunSpec => []Accounted
<1>1. RunInv => Accounted
  <2> SUFFICES ASSUME RunInv, \A t \in Tests : pc[t] = "done" PROVE
          /\ failures = Cardinality({t \in Tests : verdict[t] \in Failing})
          /\ \A t \in Tests : verdict[t] # "none" /\ (verdict[t] = "Skipped" => Exhausted)
          /\ started = finished
          /\ started = {t \in Tests : verdict[t] # "Skipped"}
    BY DEF Accounted
  <2>1. Counted = {t \in Tests : verdict[t] \in Failing}
    BY DEF Counted, SettledAt
  <2>2. \A t \in Tests :
          \/ verdict[t] = "Skipped" /\ Exhausted /\ t \notin started /\ t \notin finished
          \/ verdict[t] \in {"Passed"} \cup Failing /\ t \in started /\ t \in finished
    BY DEF RunInv, Books
  <2>3. started \subseteq Tests /\ finished \subseteq Tests
    BY DEF RunInv, RunTypes
  <2>4. failures = Cardinality({t \in Tests : verdict[t] \in Failing})
    BY <2>1 DEF RunInv, Ledger
  <2>5. started = finished /\ started = {t \in Tests : verdict[t] # "Skipped"}
    BY <2>2, <2>3 DEF Failing
  <2>6. \A t \in Tests : verdict[t] # "none" /\ (verdict[t] = "Skipped" => Exhausted)
    BY <2>2 DEF Failing
  <2> QED BY <2>4, <2>5, <2>6
<1> QED BY <1>1, RunInvariance, PTL
=============================================================================
