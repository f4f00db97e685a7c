--------------------------- MODULE LoweringProofs ---------------------------
(***************************************************************************)
(* The safety of ArtifactCache, and of Lowering on top of it, for every    *)
(* set of processes, provenances, lowerings, paths and contents and any    *)
(* amount of damage.  The first half is about the cache alone (CacheSpec), *)
(* the second about lowerings that share it (Spec).                        *)
(***************************************************************************)
EXTENDS Lowering, TLAPS

-----------------------------------------------------------------------------
(* The cache.  What a result promises is decided several steps before it   *)
(* is returned, so the invariant says for every step of an operation what  *)
(* the process already knows (CallSafe) and, while the directory is        *)
(* undamaged, what is in it (CallBacked).                                  *)


\* The steps of publish, and of record_index after it, hold the bytes of the
\* key; the steps after the verification hold the bytes of the key too, but
\* got them from the file they opened.
Publishing == {"warm", "create", "winner", "record"}
Presenting == {"present", "link", "rival"}

\* What a process knows at each step of an operation, damage or not.
CallSafe(c) ==
    /\ c.at \notin {"idle", "pointer"} => c.key \in Key
    /\ c.at = "pointer" => c.key.prov \in Provs /\ c.limit = None
    /\ c.at \in {"pointer", "open"} => c.bytes = None /\ c.got = None
    /\ c.at \in Publishing \cup {"mismatch"} => c.bytes # None
    /\ c.at \in Publishing => c.bytes = c.key.content
    /\ c.bytes # None => c.key \in Key /\ c.got = None
    /\ c.res = "ok" => /\ c.at \in {"idle", "record"}
                       /\ c.key \in Key
                       /\ c.bytes \in {None, c.key.content}
    /\ c.at \in {"verify"} \cup Presenting =>
          /\ c.got # None
          /\ c.limit # None => Size[c.got] <= c.limit
    /\ c.at \in Presenting => c.got = c.key.content
    /\ c.at = "idle" /\ c.got # None /\ c.res \in {"none", "ok"} =>
          /\ c.got = c.key.content
          /\ c.limit # None => Size[c.got] <= c.limit

\* A publication that succeeded, and a pointer about to be written, are
\* backed by the artifact.
CallBacked(c) ==
    c.at = "record" \/ (c.at = "idle" /\ c.bytes # None /\ c.res = "ok") =>
        store[c.key] = c.key.content

\* The directory as the program alone leaves it.
DirectoryBacked ==
    /\ \A k \in Key : /\ store[k] \in {None, k.content}
                      /\ view[k] \in {None, k.content}
    /\ \A v \in Provs : /\ index[v] # Garbage
                        /\ index[v] # None =>
                             store[[prov |-> v, content |-> index[v]]] = index[v]
    /\ \A p \in Procs : CallBacked(call[p])

CacheInv ==
    /\ CacheTypeOK
    /\ \A p \in Procs : CallSafe(call[p])
    /\ Undamaged => DirectoryBacked

-----------------------------------------------------------------------------
(* An idle call knows nothing and needs nothing.                           *)
LEMMA IdleSafe == Idle \in Call /\ CallSafe(Idle) /\ CallBacked(Idle)
BY DEF Idle, Call, CallKey, Step, Result, CallSafe, CallBacked, Publishing, Presenting

(* The cache starts empty: the invariant holds.                            *)
LEMMA CacheInitInv == CacheInit => CacheInv
<1> SUFFICES ASSUME CacheInit PROVE CacheInv
  OBVIOUS
<1>1. CacheTypeOK
  BY CacheAssumption, IdleSafe DEF CacheInit, CacheTypeOK
<1>2. \A p \in Procs : CallSafe(call[p]) /\ CallBacked(call[p])
  BY IdleSafe DEF CacheInit
<1>3. DirectoryBacked
  BY <1>2, CacheAssumption DEF CacheInit, DirectoryBacked
<1> QED BY <1>1, <1>2, <1>3 DEF CacheInv

(* A step that only moves one process on keeps the invariant when the      *)
(* process knows what its new step needs.                                  *)
LEMMA CallStep ==
    ASSUME CacheInv, NEW p \in Procs, NEW c \in Call,
           CallSafe(c), Undamaged => CallBacked(c),
           call' = [call EXCEPT ![p] = c],
           UNCHANGED <<store, view, index, tampers>>
    PROVE  CacheInv'
<1>1. CacheTypeOK'
  BY DEF CacheInv, CacheTypeOK
<1>2. \A q \in Procs : call'[q] = IF q = p THEN c ELSE call[q]
  BY DEF CacheInv, CacheTypeOK
<1>3. \A q \in Procs : CallSafe(call'[q])
  BY <1>2 DEF CacheInv
<1>4. ASSUME Undamaged PROVE DirectoryBacked'
  <2>1. \A q \in Procs : CallBacked(call[q]) /\ CallBacked(c)
    BY <1>4 DEF CacheInv, DirectoryBacked
  <2>2. \A q \in Procs : CallBacked(call[q])'
    BY <1>2, <2>1 DEF CallBacked
  <2> QED BY <1>4, <2>2 DEF CacheInv, DirectoryBacked
<1> QED BY <1>1, <1>3, <1>4 DEF CacheInv, Undamaged

(* The process forgets its call: it died, or its caller starts afresh.     *)
LEMMA ForgetInv ==
    ASSUME CacheInv, NEW p \in Procs, Enter(p, Idle),
           UNCHANGED <<store, view, index, tampers>>
    PROVE  CacheInv'
BY IdleSafe, CallStep DEF Enter

(* publish begins by comparing the digest of the bytes with the key.       *)
LEMMA StartPublishInv ==
    ASSUME CacheInv, NEW p \in Procs, NEW k \in Key, NEW b \in Bytes,
           StartPublish(p, k, b)
    PROVE  CacheInv'
<1> DEFINE c == [Idle EXCEPT !.key = k, !.bytes = b,
                   !.at = IF Digest(b) = k.content THEN "warm" ELSE "mismatch"]
<1>1. c \in Call
  BY DEF Idle, Call, CallKey, Key, Step, Result
<1>2. CallSafe(c) /\ CallBacked(c)
  BY CacheAssumption DEF Idle, CallSafe, CallBacked, Publishing, Presenting, Digest
<1> QED BY <1>1, <1>2, CallStep DEF StartPublish, Enter

(* record_index begins only after a publication that succeeded.            *)
LEMMA StartRecordInv ==
    ASSUME CacheInv, NEW p \in Procs, StartRecord(p)
    PROVE  CacheInv'
<1> DEFINE c == [call[p] EXCEPT !.at = "record"]
<1>1. call[p] \in Call /\ CallSafe(call[p])
  BY DEF CacheInv, CacheTypeOK
<1>2. c \in Call /\ call' = [call EXCEPT ![p] = c]
  BY <1>1 DEF StartRecord, Goto, Call, Step
<1>3. CallSafe(c)
  BY <1>1 DEF StartRecord, CallSafe, Call, Free, Publishing, Presenting
<1>4. Undamaged => CallBacked(c)
  BY <1>1 DEF CacheInv, DirectoryBacked, CallBacked, StartRecord, Free, Call
<1> QED BY <1>2, <1>3, <1>4, CallStep DEF StartRecord

(* indexed_key begins with the provenance alone.                           *)
LEMMA StartIndexedInv ==
    ASSUME CacheInv, NEW p \in Procs, NEW v \in Provs, StartIndexed(p, v)
    PROVE  CacheInv'
<1> DEFINE c == [Idle EXCEPT !.at = "pointer", !.key.prov = v]
<1>1. c \in Call
  BY DEF Idle, Call, CallKey, Step, Result
<1>2. CallSafe(c) /\ CallBacked(c)
  BY DEF Idle, CallSafe, CallBacked, Publishing, Presenting
<1> QED BY <1>1, <1>2, CallStep DEF StartIndexed, Enter

(* A verified read begins with the key and the limit.                      *)
LEMMA StartReadInv ==
    ASSUME CacheInv, NEW p \in Procs, NEW k \in Key, NEW l \in Limits \cup {None},
           NEW then \in {"read", "view"}, StartRead(p, k, l, then)
    PROVE  CacheInv'
<1> DEFINE c == [Idle EXCEPT !.at = "open", !.key = k, !.limit = l, !.then = then]
<1>1. c \in Call
  BY CacheAssumption DEF Idle, Call, CallKey, Key, Step, Result
<1>2. CallSafe(c) /\ CallBacked(c)
  BY DEF Idle, CallSafe, CallBacked, Publishing, Presenting
<1> QED BY <1>1, <1>2, CallStep DEF StartRead, Enter

-----------------------------------------------------------------------------
(* Goto and Return change one record of the process.                       *)
LEMMA MoveOn ==
    ASSUME CacheInv, NEW p \in Procs
    PROVE  /\ call[p] \in Call /\ CallSafe(call[p])
           /\ \A at \in Step : Goto(p, at) =>
                 /\ [call[p] EXCEPT !.at = at] \in Call
                 /\ call' = [call EXCEPT ![p] = [call[p] EXCEPT !.at = at]]
           /\ \A res \in Result : Return(p, res) =>
                 /\ [call[p] EXCEPT !.at = "idle", !.res = res] \in Call
                 /\ call' = [call EXCEPT ![p] = [call[p] EXCEPT !.at = "idle", !.res = res]]
<1>1. call \in [Procs -> Call] /\ call[p] \in Call /\ CallSafe(call[p])
  BY DEF CacheInv, CacheTypeOK
<1>2. ASSUME NEW at \in Step, Goto(p, at)
      PROVE  /\ [call[p] EXCEPT !.at = at] \in Call
             /\ call' = [call EXCEPT ![p] = [call[p] EXCEPT !.at = at]]
  BY <1>1, <1>2 DEF Goto, Call
<1>3. ASSUME NEW res \in Result, Return(p, res)
      PROVE  /\ [call[p] EXCEPT !.at = "idle", !.res = res] \in Call
             /\ call' = [call EXCEPT ![p] = [call[p] EXCEPT !.at = "idle", !.res = res]]
  <2>1. [call[p] EXCEPT !.at = "idle", !.res = res] \in Call
    BY <1>1 DEF Call, Step
  <2>2. call' = [call EXCEPT ![p] = [call[p] EXCEPT !.at = "idle", !.res = res]]
    BY <1>1, <1>3 DEF Return
  <2> QED BY <2>1, <2>2
<1> QED BY <1>1, <1>2, <1>3

(* publish reports bytes that are not the key's without writing anything.  *)
LEMMA RejectDigestInv ==
    ASSUME CacheInv, NEW p \in Procs, RejectDigest(p)
    PROVE  CacheInv'
<1>1. PICK res \in {"conflict", "digest"} : Return(p, res)
  BY DEF RejectDigest
<1> DEFINE c == [call[p] EXCEPT !.at = "idle", !.res = res]
<1>2. c \in Call /\ call' = [call EXCEPT ![p] = c] /\ call[p] \in Call /\ CallSafe(call[p])
  BY <1>1, MoveOn DEF Result
<1>3. CallSafe(c) /\ CallBacked(c)
  BY <1>1, <1>2 DEF RejectDigest, CallSafe, CallBacked, Call, Publishing, Presenting
<1> QED BY <1>2, <1>3, CallStep DEF RejectDigest

(* A verified stored copy is accepted, anything else goes on to create.    *)
LEMMA LoadExistingInv ==
    ASSUME CacheInv, NEW p \in Procs, LoadExisting(p)
    PROVE  CacheInv'
<1>1. call[p] \in Call /\ CallSafe(call[p]) /\ call[p].at = "warm"
  BY MoveOn DEF LoadExisting
<1>2. CASE Return(p, "ok") /\ store[call[p].key] = call[p].key.content
  <2> DEFINE c == [call[p] EXCEPT !.at = "idle", !.res = "ok"]
  <2>1. c \in Call /\ call' = [call EXCEPT ![p] = c]
    BY <1>2, MoveOn DEF Result
  <2>2. CallSafe(c) /\ CallBacked(c)
    BY <1>1, <1>2 DEF CallSafe, CallBacked, Call, Publishing, Presenting
  <2> QED BY <2>1, <2>2, CallStep DEF LoadExisting
<1>3. CASE Goto(p, "create")
  <2> DEFINE c == [call[p] EXCEPT !.at = "create"]
  <2>1. c \in Call /\ call' = [call EXCEPT ![p] = c]
    BY <1>3, MoveOn DEF Step
  <2>2. CallSafe(c) /\ CallBacked(c)
    BY <1>1 DEF CallSafe, CallBacked, Call, Publishing, Presenting
  <2> QED BY <2>1, <2>2, CallStep DEF LoadExisting
<1> QED BY <1>2, <1>3 DEF LoadExisting, Digest

(* atomic_write creates the whole file under its name, or nothing.         *)
LEMMA CreateOnceInv ==
    ASSUME CacheInv, NEW p \in Procs, CreateOnce(p)
    PROVE  CacheInv'
<1>1. call[p] \in Call /\ CallSafe(call[p]) /\ call[p].at = "create"
  BY MoveOn DEF CreateOnce
<1>2. CASE Goto(p, "winner") /\ UNCHANGED store
  <2> DEFINE c == [call[p] EXCEPT !.at = "winner"]
  <2>1. c \in Call /\ call' = [call EXCEPT ![p] = c]
    BY <1>2, MoveOn DEF Step
  <2>2. CallSafe(c) /\ CallBacked(c)
    BY <1>1 DEF CallSafe, CallBacked, Call, Publishing, Presenting
  <2> QED BY <1>2, <2>1, <2>2, CallStep DEF CreateOnce
<1>3. CASE /\ store[call[p].key] = None
           /\ store' = [store EXCEPT ![call[p].key] = call[p].bytes]
           /\ Return(p, "ok")
  <2> DEFINE c == [call[p] EXCEPT !.at = "idle", !.res = "ok"]
             key == call[p].key
  <2>1. c \in Call /\ call' = [call EXCEPT ![p] = c]
    BY <1>3, MoveOn DEF Result
  <2>2. /\ key \in Key /\ call[p].bytes = key.content /\ key.content \in Bytes
        /\ c.key = key
    BY <1>1 DEF CallSafe, Call, Publishing, Key
  <2>3. CallSafe(c)
    BY <1>1 DEF CallSafe, Call, Publishing, Presenting
  <2>4. \A q \in Procs : call'[q] = IF q = p THEN c ELSE call[q]
    BY <2>1 DEF CacheInv, CacheTypeOK
  <2>5. \A k \in Key : store'[k] = IF k = key THEN key.content ELSE store[k]
    BY <1>3, <2>2 DEF CacheInv, CacheTypeOK
  <2>6. CacheTypeOK'
    BY <1>3, <2>1, <2>2 DEF CreateOnce, CacheInv, CacheTypeOK
  <2>7. ASSUME Undamaged PROVE DirectoryBacked'
    <3>1. \A k \in Key : store'[k] \in {None, k.content} /\ view'[k] \in {None, k.content}
      BY <2>5, <2>7 DEF CacheInv, DirectoryBacked, CreateOnce
    <3>2. \A v \in Provs : /\ index'[v] # Garbage
                           /\ index'[v] # None =>
                                store'[[prov |-> v, content |-> index'[v]]] = index'[v]
      <4> SUFFICES ASSUME NEW v \in Provs, index[v] # None
                   PROVE  store'[[prov |-> v, content |-> index[v]]] = index[v]
        BY <2>7 DEF CacheInv, DirectoryBacked, CreateOnce
      <4>1. [prov |-> v, content |-> index[v]] \in Key
        BY <2>7 DEF CacheInv, DirectoryBacked, CacheTypeOK, Key
      <4> QED BY <4>1, <2>5, <2>7 DEF CacheInv, DirectoryBacked
    <3>3. \A q \in Procs : CallBacked(call[q])'
      <4> SUFFICES ASSUME NEW q \in Procs PROVE CallBacked(call[q])'
        OBVIOUS
      <4>1. CASE q = p
        BY <4>1, <2>2, <2>4, <2>5 DEF CallBacked
      <4>2. CASE q # p
        <5>1. CallSafe(call[q]) /\ CallBacked(call[q]) /\ call'[q] = call[q]
          BY <4>2, <2>4, <2>7 DEF CacheInv, DirectoryBacked
        <5> QED BY <5>1, <2>5 DEF CallBacked, CallSafe
      <4> QED BY <4>1, <4>2
    <3> QED BY <3>1, <3>2, <3>3 DEF DirectoryBacked
  <2> QED BY <2>3, <2>4, <2>6, <2>7 DEF CacheInv, Undamaged, CreateOnce
<1> QED BY <1>2, <1>3 DEF CreateOnce

(* A failed creation succeeds only when the winner holds the same bytes.   *)
LEMMA CompareWinnerInv ==
    ASSUME CacheInv, NEW p \in Procs, CompareWinner(p)
    PROVE  CacheInv'
<1>1. call[p] \in Call /\ CallSafe(call[p]) /\ call[p].at = "winner"
  BY MoveOn DEF CompareWinner
<1>2. PICK res \in {"io", "ok", "conflict"} :
        Return(p, res) /\ (res = "ok" => store[call[p].key] = call[p].bytes)
  BY DEF CompareWinner, CreateOutcome
<1> DEFINE c == [call[p] EXCEPT !.at = "idle", !.res = res]
<1>3. c \in Call /\ call' = [call EXCEPT ![p] = c]
  BY <1>2, MoveOn DEF Result
<1>4. CallSafe(c) /\ CallBacked(c)
  BY <1>1, <1>2 DEF CallSafe, CallBacked, Call, Publishing, Presenting
<1> QED BY <1>3, <1>4, CallStep DEF CompareWinner

(* The pointer is replaced by the digest of an artifact that is there.     *)
LEMMA StoreIndexInv ==
    ASSUME CacheInv, NEW p \in Procs, StoreIndex(p)
    PROVE  CacheInv'
<1>1. call[p] \in Call /\ CallSafe(call[p]) /\ call[p].at = "record"
  BY MoveOn DEF StoreIndex
<1>2. CASE Enter(p, [Idle EXCEPT !.res = "io"]) /\ UNCHANGED index
  <2> DEFINE c == [Idle EXCEPT !.res = "io"]
  <2>1. c \in Call /\ CallSafe(c) /\ CallBacked(c)
    BY DEF Idle, Call, CallKey, Step, Result, CallSafe, CallBacked, Publishing, Presenting
  <2> QED BY <1>2, <2>1, CallStep DEF StoreIndex, Enter
<1>3. CASE /\ index' = [index EXCEPT ![call[p].key.prov] = call[p].key.content]
           /\ Enter(p, Idle)
  <2> DEFINE key == call[p].key
  <2>1. key \in Key /\ key.prov \in Provs /\ key.content \in Bytes
    BY <1>1 DEF CallSafe, Key
  <2>2. \A q \in Procs : call'[q] = IF q = p THEN Idle ELSE call[q]
    BY <1>3 DEF Enter, CacheInv, CacheTypeOK
  <2>3. \A v \in Provs : index'[v] = IF v = key.prov THEN key.content ELSE index[v]
    BY <1>3, <2>1 DEF CacheInv, CacheTypeOK
  <2>4. CacheTypeOK'
    BY <1>3, <2>1, IdleSafe DEF StoreIndex, Enter, CacheInv, CacheTypeOK
  <2>5. ASSUME Undamaged PROVE DirectoryBacked'
    <3>1. store[key] = key.content
      BY <1>1, <2>5 DEF CacheInv, DirectoryBacked, CallBacked
    <3>2. key = [prov |-> key.prov, content |-> key.content]
      BY <2>1 DEF Key
    <3>3. \A v \in Provs : /\ index'[v] # Garbage
                           /\ index'[v] # None =>
                                store'[[prov |-> v, content |-> index'[v]]] = index'[v]
      BY <2>1, <2>3, <2>5, <3>1, <3>2, CacheAssumption
      DEF CacheInv, DirectoryBacked, StoreIndex
    <3>4. \A q \in Procs : CallBacked(call[q])'
      BY <2>2, <2>5, IdleSafe DEF CacheInv, DirectoryBacked, CallBacked, StoreIndex
    <3> QED BY <2>5, <3>3, <3>4 DEF CacheInv, DirectoryBacked, StoreIndex
  <2> QED BY <2>2, <2>4, <2>5, IdleSafe DEF CacheInv, Undamaged, StoreIndex
<1> QED BY <1>2, <1>3 DEF StoreIndex

(* indexed_key answers with a key made of the pointer's content.           *)
LEMMA LoadIndexInv ==
    ASSUME CacheInv, NEW p \in Procs, LoadIndex(p)
    PROVE  CacheInv'
<1> DEFINE found == index[call[p].key.prov]
<1>1. /\ call[p] \in Call /\ CallSafe(call[p]) /\ call[p].at = "pointer"
      /\ call[p].key.prov \in Provs /\ found \in Bytes \cup {None, Garbage}
  BY MoveOn DEF LoadIndex, CallSafe, CacheInv, CacheTypeOK
<1>2. CASE found \in {None, Garbage}
  <2>1. PICK res \in {"miss", "corrupt"} : Return(p, res)
    BY <1>2 DEF LoadIndex
  <2> DEFINE c == [call[p] EXCEPT !.at = "idle", !.res = res]
  <2>2. c \in Call /\ call' = [call EXCEPT ![p] = c]
    BY <2>1, MoveOn DEF Result
  <2>3. CallSafe(c) /\ CallBacked(c)
    BY <1>1, <2>1 DEF CallSafe, CallBacked, Call, Publishing, Presenting
  <2> QED BY <2>2, <2>3, CallStep DEF LoadIndex
<1>3. CASE found \in Bytes
  <2> DEFINE c == [call[p] EXCEPT !.at = "idle", !.got = found,
                                  !.key.content = found, !.res = "ok"]
  <2>1. call \in [Procs -> Call]
    BY DEF CacheInv, CacheTypeOK
  <2>2. call' = [call EXCEPT ![p].at = "idle", ![p].got = found,
                             ![p].key.content = found, ![p].res = "ok"]
    BY <1>3, CacheAssumption DEF LoadIndex
  <2>3. call' = [call EXCEPT ![p] = c]
    BY <2>1, <2>2
  <2>4. [call[p].key EXCEPT !.content = found] \in Key
    BY <1>1, <1>3 DEF Call, CallKey, Key
  <2>5. /\ c \in Call /\ c.at = "idle" /\ c.res = "ok" /\ c.got = found
        /\ c.key = [call[p].key EXCEPT !.content = found]
        /\ c.key.content = found
        /\ c.bytes = call[p].bytes /\ c.limit = call[p].limit
    BY <1>1, <1>3, <2>4 DEF Call, CallKey, Step, Result
  <2> HIDE DEF c
  <2>6. CallSafe(c) /\ CallBacked(c)
    BY <1>1, <2>4, <2>5 DEF CallSafe, CallBacked, Publishing, Presenting
  <2> QED BY <2>3, <2>5, <2>6, CallStep DEF LoadIndex
<1> QED BY <1>1, <1>2, <1>3

(* What is opened is bounded before it is verified.                        *)
LEMMA OpenInv ==
    ASSUME CacheInv, NEW p \in Procs, Open(p)
    PROVE  CacheInv'
<1> DEFINE opened == store[call[p].key]
<1>1. /\ call[p] \in Call /\ CallSafe(call[p]) /\ call[p].at = "open"
      /\ opened \in Bytes \cup {None}
  BY MoveOn DEF Open, CallSafe, CacheInv, CacheTypeOK
<1>2. CASE \E res \in {"corrupt", "miss", "large"} : Return(p, res)
  <2>1. PICK res \in {"corrupt", "miss", "large"} : Return(p, res)
    BY <1>2
  <2> DEFINE c == [call[p] EXCEPT !.at = "idle", !.res = res]
  <2>2. c \in Call /\ call' = [call EXCEPT ![p] = c]
    BY <2>1, MoveOn DEF Result
  <2>3. CallSafe(c) /\ CallBacked(c)
    BY <1>1, <2>1 DEF CallSafe, CallBacked, Call, Publishing, Presenting
  <2> QED BY <2>2, <2>3, CallStep DEF Open
<1>3. CASE /\ opened # None /\ ~TooLarge(opened, call[p].limit)
           /\ call' = [call EXCEPT ![p].at = "verify", ![p].got = opened]
  <2> DEFINE c == [call[p] EXCEPT !.at = "verify", !.got = opened]
  <2>1. call' = [call EXCEPT ![p] = c]
    BY <1>3 DEF CacheInv, CacheTypeOK
  <2>2. c \in Call
    BY <1>1 DEF Call, Step
  <2>3. call[p].limit # None => Size[opened] <= call[p].limit
    BY <1>1, <1>3, CacheAssumption DEF TooLarge, Call
  <2>4. CallSafe(c) /\ CallBacked(c)
    BY <1>1, <1>3, <2>3 DEF CallSafe, CallBacked, Call, Publishing, Presenting
  <2> QED BY <2>1, <2>2, <2>4, CallStep DEF Open
<1> QED BY <1>2, <1>3 DEF Open

(* Only what was opened and has the key's digest is handed on.             *)
LEMMA VerifyInv ==
    ASSUME CacheInv, NEW p \in Procs, Verify(p)
    PROVE  CacheInv'
<1>1. call[p] \in Call /\ CallSafe(call[p]) /\ call[p].at = "verify"
  BY MoveOn DEF Verify
<1>2. CASE \E res \in {"ok", "corrupt"} :
             Return(p, res) /\ (res = "ok" => Verified(call[p]))
  <2>1. PICK res \in {"ok", "corrupt"} :
          Return(p, res) /\ (res = "ok" => Verified(call[p]))
    BY <1>2
  <2> DEFINE c == [call[p] EXCEPT !.at = "idle", !.res = res]
  <2>2. c \in Call /\ call' = [call EXCEPT ![p] = c]
    BY <2>1, MoveOn DEF Result
  <2>3. CallSafe(c) /\ CallBacked(c)
    BY <1>1, <2>1 DEF CallSafe, CallBacked, Call, Publishing, Presenting, Verified, Digest
  <2> QED BY <2>2, <2>3, CallStep DEF Verify
<1>3. CASE Verified(call[p]) /\ Goto(p, "present")
  <2> DEFINE c == [call[p] EXCEPT !.at = "present"]
  <2>1. c \in Call /\ call' = [call EXCEPT ![p] = c]
    BY <1>3, MoveOn DEF Step
  <2>2. CallSafe(c) /\ CallBacked(c)
    BY <1>1, <1>3 DEF CallSafe, CallBacked, Call, Publishing, Presenting, Verified, Digest
  <2> QED BY <2>1, <2>2, CallStep DEF Verify
<1> QED BY <1>2, <1>3 DEF Verify

(* Returning from materialize_file hands out the verified bytes.           *)
LEMMA PresentedInv ==
    ASSUME CacheInv, NEW p \in Procs, call[p].at \in Presenting,
           NEW res \in Result, Return(p, res),
           UNCHANGED <<store, view, index, tampers>>
    PROVE  CacheInv'
<1> DEFINE c == [call[p] EXCEPT !.at = "idle", !.res = res]
<1>1. c \in Call /\ call' = [call EXCEPT ![p] = c] /\ call[p] \in Call /\ CallSafe(call[p])
  BY MoveOn
<1>2. CallSafe(c) /\ CallBacked(c)
  BY <1>1 DEF CallSafe, CallBacked, Call, Publishing, Presenting
<1> QED BY <1>1, <1>2, CallStep

(* The steps of materialize_file before the link keep the verified bytes.  *)
LEMMA PresentingInv ==
    ASSUME CacheInv, NEW p \in Procs, call[p].at \in Presenting,
           NEW at \in Presenting, Goto(p, at),
           UNCHANGED <<store, view, index, tampers>>
    PROVE  CacheInv'
<1> DEFINE c == [call[p] EXCEPT !.at = at]
<1>1. c \in Call /\ call' = [call EXCEPT ![p] = c] /\ call[p] \in Call /\ CallSafe(call[p])
  BY MoveOn DEF Presenting, Step
<1>2. CallSafe(c) /\ CallBacked(c)
  BY <1>1 DEF CallSafe, CallBacked, Call, Publishing, Presenting
<1> QED BY <1>1, <1>2, CallStep

(* Comparing a materialized copy with the verified bytes (present_view).   *)
LEMMA PresentViewInv ==
    ASSUME CacheInv, NEW p \in Procs, PresentView(p)
    PROVE  CacheInv'
<1>1. \/ Goto(p, "link")
      \/ Return(p, "ok")
      \/ Return(p, "corrupt")
  BY DEF PresentView
<1> QED BY <1>1, PresentedInv, PresentingInv DEF PresentView, Presenting, Result

(* The copy is linked whole under its name.                                *)
LEMMA LinkViewInv ==
    ASSUME CacheInv, NEW p \in Procs, LinkView(p)
    PROVE  CacheInv'
<1>1. call[p] \in Call /\ CallSafe(call[p]) /\ call[p].at = "link"
  BY MoveOn DEF LinkView
<1>2. CASE Goto(p, "rival") /\ UNCHANGED view
  BY <1>1, <1>2, PresentingInv DEF LinkView, Presenting
<1>3. CASE /\ view' = [view EXCEPT ![call[p].key] = call[p].got]
           /\ Return(p, "ok")
  <2> DEFINE c == [call[p] EXCEPT !.at = "idle", !.res = "ok"]
             key == call[p].key
  <2>1. c \in Call /\ call' = [call EXCEPT ![p] = c]
    BY <1>3, MoveOn DEF Result
  <2>2. key \in Key /\ call[p].got = key.content /\ key.content \in Bytes
    BY <1>1 DEF CallSafe, Call, Presenting, Key
  <2>3. CallSafe(c) /\ CallBacked(c)
    BY <1>1 DEF CallSafe, CallBacked, Call, Publishing, Presenting
  <2>4. \A q \in Procs : call'[q] = IF q = p THEN c ELSE call[q]
    BY <2>1 DEF CacheInv, CacheTypeOK
  <2>5. \A k \in Key : view'[k] = IF k = key THEN key.content ELSE view[k]
    BY <1>3, <2>2 DEF CacheInv, CacheTypeOK
  <2>6. CacheTypeOK'
    BY <1>3, <2>1, <2>2 DEF LinkView, CacheInv, CacheTypeOK
  <2>7. ASSUME Undamaged PROVE DirectoryBacked'
    <3>1. \A k \in Key : store'[k] \in {None, k.content} /\ view'[k] \in {None, k.content}
      BY <2>5, <2>7 DEF CacheInv, DirectoryBacked, LinkView
    <3>2. \A q \in Procs : CallBacked(call[q])'
      BY <2>3, <2>4, <2>7 DEF CacheInv, DirectoryBacked, CallBacked, LinkView
    <3> QED BY <2>7, <3>1, <3>2 DEF CacheInv, DirectoryBacked, LinkView
  <2> QED BY <2>3, <2>4, <2>6, <2>7 DEF CacheInv, Undamaged, LinkView
<1> QED BY <1>2, <1>3 DEF LinkView

(* A copy another process linked first is compared, never trusted.         *)
LEMMA CompareRivalInv ==
    ASSUME CacheInv, NEW p \in Procs, CompareRival(p)
    PROVE  CacheInv'
<1>1. \E res \in {"io", "ok", "conflict"} : Return(p, res)
  BY DEF CompareRival, CreateOutcome
<1> QED BY <1>1, PresentedInv DEF CompareRival, Presenting, Result

(* Damage changes files and pointers, never what a process already knows.  *)
LEMMA TamperInv ==
    ASSUME CacheInv, Tamper
    PROVE  CacheInv'
<1>1. tampers \in Nat /\ tampers' = tampers + 1 /\ tampers' \in 0 .. MaxTamper
  BY CacheAssumption DEF Tamper, CacheInv, CacheTypeOK
<1>2. store' \in [Key -> Bytes \cup {None}]
  BY DEF Tamper, CacheInv, CacheTypeOK
<1>3. view' \in [Key -> Bytes \cup {None}]
  BY DEF Tamper, CacheInv, CacheTypeOK
<1>4. index' \in [Provs -> Bytes \cup {None, Garbage}]
  BY DEF Tamper, CacheInv, CacheTypeOK
<1>5. ~Undamaged'
  BY <1>1 DEF Undamaged
<1> QED BY <1>1, <1>2, <1>3, <1>4, <1>5 DEF Tamper, CacheInv, CacheTypeOK

(* The steps inside an operation, whoever called it.                       *)
LEMMA CacheStepInv ==
    ASSUME CacheInv, NEW p \in Procs, CacheStep(p)
    PROVE  CacheInv'
BY RejectDigestInv, LoadExistingInv, CreateOnceInv, CompareWinnerInv, StoreIndexInv,
   LoadIndexInv, OpenInv, VerifyInv, PresentViewInv, LinkViewInv, CompareRivalInv
DEF CacheStep

(* Every step of every operation, and every damage, keeps the invariant.   *)
LEMMA CacheNextInv == CacheInv /\ [CacheNext]_cacheVars => CacheInv'
<1> SUFFICES ASSUME CacheInv, [CacheNext]_cacheVars PROVE CacheInv'
  OBVIOUS
<1>1. CASE UNCHANGED cacheVars
  BY <1>1 DEF cacheVars, CacheInv, CacheTypeOK, Undamaged, DirectoryBacked, CallBacked
<1>2. ASSUME NEW p \in Procs, Crash(p) PROVE CacheInv'
  BY <1>2, ForgetInv DEF Crash
<1>3. CASE CacheNext
  BY <1>2, <1>3, StartPublishInv, StartRecordInv, StartIndexedInv, StartReadInv,
     CacheStepInv, TamperInv DEF CacheNext
<1> QED BY <1>1, <1>3

(* The inductive invariant holds in every reachable state of the cache.    *)
THEOREM CacheInvariance == CacheSpec => []CacheInv
BY CacheInitInv, CacheNextInv, PTL DEF CacheSpec

(* A read or a materialization that succeeds hands out the bytes its key   *)
(* names, within the limit it was given, however often artifacts, copies   *)
(* and pointers were replaced while it ran (open_verified).                *)
THEOREM ReadsNeverWrong == CacheSpec => []NeverWrongBytes
<1>1. CacheInv => NeverWrongBytes
  BY DEF CacheInv, CallSafe, NeverWrongBytes, Presenting
<1> QED BY <1>1, CacheInvariance, PTL

(* Undamaged, an artifact is complete and correct from the moment its name *)
(* exists, and so is every materialized copy, for any number of racing     *)
(* publishers and any crash between two file-system calls (atomic_write).  *)
THEOREM StoredAlwaysVerified == CacheSpec => []StoredAreVerified
<1>1. CacheInv => StoredAreVerified
  BY DEF CacheInv, DirectoryBacked, StoredAreVerified
<1> QED BY <1>1, CacheInvariance, PTL

(* Undamaged, no pointer of the index dangles, whoever wrote it last       *)
(* (record_index).                                                         *)
THEOREM IndexAlwaysBacked == CacheSpec => []IndexBacked
<1>1. CacheInv => IndexBacked
  BY DEF CacheInv, DirectoryBacked, IndexBacked
<1> QED BY <1>1, CacheInvariance, PTL

(* Artifacts are write-once: no operation, and no crash in the middle of   *)
(* one, replaces or deletes an artifact (WriteMode::Create).               *)
THEOREM ArtifactsWrittenOnce == CacheSpec => WriteOnce
<1> DEFINE A == \A k \in Key : store[k] # None /\ store'[k] # store[k] => tampers' > tampers
<1>1. ASSUME CacheInv, CacheNext PROVE A
  <2>1. CASE Tamper
    BY <1>1, <2>1 DEF CacheInv, CacheTypeOK, Tamper
  <2>2. ASSUME NEW p \in Procs, CreateOnce(p) PROVE A
    BY <1>1, <2>2 DEF CacheInv, CacheTypeOK, CreateOnce
  <2>3. CASE UNCHANGED store
    BY <2>3
  <2> QED BY <1>1, <2>1, <2>2, <2>3
          DEF CacheNext, CacheStep, StartPublish, StartRecord, StartIndexed, StartRead,
              RejectDigest, LoadExisting, CompareWinner, StoreIndex, LoadIndex, Open,
              Verify, PresentView, LinkView, CompareRival, Crash
<1>2. CacheInv /\ [CacheNext]_cacheVars => [A]_cacheVars
  BY <1>1
<1>3. CacheSpec => [][A]_cacheVars
  BY <1>2, CacheInvariance, PTL DEF CacheSpec
<1> QED BY <1>3 DEF WriteOnce

-----------------------------------------------------------------------------
(* Lowering.  On top of the cache's invariant: which cache call goes with  *)
(* which phase of a lowering (CallFits), that whatever is certified was    *)
(* emitted (Emits, StoredWereEmitted), and, undamaged, that the files of a *)
(* manifest are stored before it can be (Published).                       *)


\* The cache call a process is in belongs to the phase of its lowering.
CallFits(t, c) ==
    /\ c.then = "read" /\ c.limit = None /\ c.at # "mismatch"
    /\ t.phase \notin {"hint", "lookup", "files", "certify", "point"} => c.at = "idle"
    /\ t.phase # "waiting" => t.lowering \in Lowerings
    /\ t.phase = "hint" => c.at \in {"pointer", "idle"} /\ c.key.prov = t.lowering
    /\ t.phase = "lookup" => /\ c.at \in {"open", "verify", "idle"}
                             /\ c.key \in Key /\ c.key.prov = t.lowering
    /\ t.phase \in {"files", "certify", "cached"} => t.tree \in Tree
    /\ t.phase \in {"files", "certify"} =>
          /\ c.at \in {"idle", "warm", "create", "winner"}
          /\ c.bytes # None /\ c.at = "idle" => c.res # "none"
    /\ t.phase = "files" /\ c.bytes # None =>
          \E m \in Members : c.key = MemberKey(m, t.tree)
    /\ t.phase = "certify" => /\ c.bytes # None
                              /\ c.key = ManifestKey(t.lowering, t.tree)
    /\ t.phase = "point" => c.at \in {"record", "idle"}

\* A process publishes, and believes, only trees a frontend produced.
Emits(t, c, trees) ==
    /\ t.phase \in {"files", "certify", "cached"} => t.tree \in trees[t.lowering]
    /\ t.phase = "lookup" /\ (c.at = "verify" \/ (c.at = "idle" /\ c.res = "ok")) =>
          (c.key.content \in Tree => c.key.content \in trees[t.lowering])

StoredWereEmitted ==
    \A l \in Lowerings, t \in Tree : store[ManifestKey(l, t)] # None => t \in emitted[l]

\* The files a process has handed to the cache are there, but for the one in
\* hand.
Published(t, c) ==
    /\ t.phase = "files" => \A m \in Members \ t.todo :
          \/ store[MemberKey(m, t.tree)] = t.tree[m]
          \/ c.bytes # None /\ c.key = MemberKey(m, t.tree)
    /\ t.phase = "certify" => \A m \in Members : store[MemberKey(m, t.tree)] = t.tree[m]

\* No call ends in anything but success, a miss or an I/O error.
Unfailing(t, c) ==
    /\ c.res \in {"none", "ok", "miss", "io"}
    /\ t.phase \in {"files", "certify", "point"} => c.res # "miss"
    /\ c.at = "verify" => c.got = c.key.content

LowInv ==
    /\ CacheInv
    /\ task \in [Procs -> Task]
    /\ emitted \in [Lowerings -> SUBSET Tree]
    /\ StoredWereEmitted
    /\ \A p \in Procs : CallFits(task[p], call[p]) /\ Emits(task[p], call[p], emitted)
    /\ Undamaged => /\ ManifestCertifies
                    /\ \A p \in Procs : /\ Published(task[p], call[p])
                                        /\ Unfailing(task[p], call[p])

-----------------------------------------------------------------------------
(* Manifests and emitted files are artifacts, under keys of different      *)
(* provenance.                                                             *)
LEMMA KeysOfTree ==
    ASSUME NEW t \in Tree
    PROVE  /\ t \in Bytes /\ t # None
           /\ \A l \in Lowerings : ManifestKey(l, t) \in Key
           /\ \A m \in Members : MemberKey(m, t) \in Key /\ t[m] \in Bytes /\ t[m] # None
           /\ \A l \in Lowerings, m \in Members, u \in Tree :
                 ManifestKey(l, t) # MemberKey(m, u)
<1>1. t \in Bytes /\ t # None
  BY CacheAssumption, LoweringAssumption
<1>2. \A m \in Members : t[m] \in Bytes /\ t[m] # None
  BY CacheAssumption, LoweringAssumption DEF Tree
<1>3. Lowerings \subseteq Provs /\ Members \subseteq Provs
  BY LoweringAssumption
<1>4. \A l \in Lowerings : ManifestKey(l, t) \in Key
  BY <1>1, <1>3 DEF ManifestKey, Key
<1>5. \A m \in Members : MemberKey(m, t) \in Key
  BY <1>2, <1>3 DEF MemberKey, Key
<1>6. \A l \in Lowerings, m \in Members, u \in Tree : ManifestKey(l, t) # MemberKey(m, u)
  <2> TAKE l \in Lowerings, m \in Members, u \in Tree
  <2>1. ManifestKey(l, t).prov = l /\ MemberKey(m, u).prov = m
    BY DEF ManifestKey, MemberKey
  <2> QED BY <2>1, LoweringAssumption
<1> QED BY <1>1, <1>2, <1>4, <1>5, <1>6

(* What a process was told stays true while trees are only added.          *)
LEMMA EmitsGrows ==
    ASSUME NEW t, NEW c, CallFits(t, c), Emits(t, c, emitted),
           \A l \in Lowerings : emitted[l] \subseteq emitted'[l]
    PROVE  Emits(t, c, emitted')
<1>1. t.phase \in {"files", "certify", "cached", "lookup"} => t.lowering \in Lowerings
  BY DEF CallFits
<1> QED BY <1>1 DEF Emits

(* A step of one process that writes no artifact keeps the invariant when  *)
(* its new call fits its new phase.                                        *)
LEMMA ProcStep ==
    ASSUME LowInv, CacheInv', NEW p \in Procs, NEW t \in Task, NEW c \in Call,
           task' = [task EXCEPT ![p] = t], call' = [call EXCEPT ![p] = c],
           UNCHANGED <<store, tampers>>,
           emitted' \in [Lowerings -> SUBSET Tree],
           \A l \in Lowerings : emitted[l] \subseteq emitted'[l],
           CallFits(t, c), Emits(t, c, emitted'),
           Undamaged => Published(t, c) /\ Unfailing(t, c)
    PROVE  LowInv'
<1>1. task' \in [Procs -> Task]
  BY DEF LowInv
<1>2. \A q \in Procs : /\ task'[q] = IF q = p THEN t ELSE task[q]
                       /\ call'[q] = IF q = p THEN c ELSE call[q]
  BY DEF LowInv, CacheInv, CacheTypeOK
<1>3. StoredWereEmitted'
  <2>1. \A l \in Lowerings, u \in Tree : store[ManifestKey(l, u)] # None => u \in emitted'[l]
    BY DEF LowInv, StoredWereEmitted
  <2> QED BY <2>1 DEF StoredWereEmitted
<1>4. ASSUME NEW q \in Procs
      PROVE  CallFits(task'[q], call'[q]) /\ Emits(task'[q], call'[q], emitted')
  <2>1. CASE q = p
    <3>1. task'[q] = t /\ call'[q] = c
      BY <1>2, <2>1
    <3> QED BY <3>1 DEF Emits
  <2>2. CASE q # p
    <3>1. task'[q] = task[q] /\ call'[q] = call[q]
      BY <1>2, <2>2
    <3>2. CallFits(task[q], call[q]) /\ Emits(task[q], call[q], emitted)
      BY DEF LowInv
    <3> QED BY <3>1, <3>2, EmitsGrows
  <2> QED BY <2>1, <2>2
<1>5. ASSUME Undamaged
      PROVE  ManifestCertifies' /\ \A q \in Procs : /\ Published(task[q], call[q])'
                                                     /\ Unfailing(task[q], call[q])'
  <2>1. ManifestCertifies'
    BY <1>5 DEF LowInv, ManifestCertifies, Undamaged
  <2>2. ASSUME NEW q \in Procs
        PROVE  Published(task[q], call[q])' /\ Unfailing(task[q], call[q])'
    <3>1. CASE q = p
      <4>1. task'[q] = t /\ call'[q] = c
        BY <1>2, <3>1
      <4> QED BY <4>1, <1>5 DEF Published, Unfailing
    <3>2. CASE q # p
      <4>1. task'[q] = task[q] /\ call'[q] = call[q]
        BY <1>2, <3>2
      <4> QED BY <4>1, <1>5 DEF LowInv, Published, Unfailing
    <3> QED BY <3>1, <3>2
  <2> QED BY <2>1, <2>2
<1>6. (\A q \in Procs : CallFits(task[q], call[q]) /\ Emits(task[q], call[q], emitted))'
  BY <1>4 DEF CallFits
<1> QED BY <1>1, <1>3, <1>5, <1>6 DEF LowInv, Undamaged

(* The same for a step inside a cache call, which the lowering does not    *)
(* notice.                                                                 *)
LEMMA InsideStep ==
    ASSUME LowInv, CacheInv', NEW p \in Procs, NEW c \in Call,
           call' = [call EXCEPT ![p] = c],
           UNCHANGED <<store, tampers, task, emitted>>,
           CallFits(task[p], c), Emits(task[p], c, emitted),
           Undamaged => Published(task[p], c) /\ Unfailing(task[p], c)
    PROVE  LowInv'
<1> DEFINE t == task[p]
<1>1. t \in Task /\ task' = [task EXCEPT ![p] = t]
  BY DEF LowInv
<1>2. Emits(t, c, emitted')
  BY DEF Emits
<1>3. /\ emitted' \in [Lowerings -> SUBSET Tree]
      /\ \A l \in Lowerings : emitted[l] \subseteq emitted'[l]
  BY DEF LowInv
<1> HIDE DEF t
<1>4. CallFits(t, c) /\ (Undamaged => Published(t, c) /\ Unfailing(t, c))
  BY DEF t
<1> QED BY <1>1, <1>2, <1>3, <1>4, ProcStep

(* The invariant holds before anything was lowered.                        *)
LEMMA LowInitInv == Init => LowInv
<1> SUFFICES ASSUME Init PROVE LowInv
  OBVIOUS
<1>1. CacheInv
  BY CacheInitInv DEF Init
<1>2. Waiting \in Task
  BY DEF Waiting, Task, Phase
<1>3. task \in [Procs -> Task] /\ emitted \in [Lowerings -> SUBSET Tree]
  BY <1>2 DEF Init
<1>4. ASSUME NEW p \in Procs
      PROVE  /\ CallFits(task[p], call[p]) /\ Emits(task[p], call[p], emitted)
             /\ Published(task[p], call[p]) /\ Unfailing(task[p], call[p])
  <2>1. task[p] = Waiting /\ call[p] = Idle
    BY DEF Init, CacheInit
  <2> QED BY <2>1 DEF Waiting, Idle, CallFits, Emits, Published, Unfailing
<1>5. StoredWereEmitted /\ ManifestCertifies
  BY KeysOfTree DEF Init, CacheInit, StoredWereEmitted, ManifestCertifies
<1> QED BY <1>1, <1>3, <1>4, <1>5 DEF LowInv

-----------------------------------------------------------------------------
(* The steps inside a cache call, each in the phase that made the call.    *)

(* The phase of a lowering whose cache call is at a given step.            *)
LEMMA PhaseOfCall ==
    ASSUME LowInv, NEW p \in Procs
    PROVE  /\ call[p] \in Call /\ CallSafe(call[p]) /\ task[p] \in Task
           /\ CallFits(task[p], call[p]) /\ Emits(task[p], call[p], emitted)
           /\ Undamaged => /\ Published(task[p], call[p]) /\ Unfailing(task[p], call[p])
                           /\ DirectoryBacked
           /\ call[p].at \in {"warm", "create", "winner"} =>
                 task[p].phase \in {"files", "certify"}
           /\ call[p].at = "record" => task[p].phase = "point"
           /\ call[p].at = "pointer" => task[p].phase = "hint"
           /\ call[p].at \in {"open", "verify"} => task[p].phase = "lookup"
           /\ call[p].at \notin {"mismatch", "present", "link", "rival"}
<1>1. /\ call[p] \in Call /\ CallSafe(call[p]) /\ task[p] \in Task
      /\ CallFits(task[p], call[p]) /\ Emits(task[p], call[p], emitted)
      /\ Undamaged => /\ Published(task[p], call[p]) /\ Unfailing(task[p], call[p])
                      /\ DirectoryBacked
  BY DEF LowInv, CacheInv, CacheTypeOK
<1>2. task[p].phase \in Phase /\ call[p].at \in Step
  BY <1>1 DEF Task, Call
<1> QED BY <1>1, <1>2 DEF CallFits, Phase, Step

(* A publication finds its artifact already stored, or not.                *)
LEMMA LoadExistingLow ==
    ASSUME LowInv, NEW p \in Procs, LoadExisting(p), UNCHANGED <<task, emitted>>
    PROVE  LowInv'
<1>1. CacheInv /\ CacheInv' /\ call[p].at = "warm"
  BY LoadExistingInv DEF LowInv, LoadExisting
<1>2. \/ Return(p, "ok")
      \/ Goto(p, "create")
  BY DEF LoadExisting
<1>3. CASE Return(p, "ok")
  <2> DEFINE c == [call[p] EXCEPT !.at = "idle", !.res = "ok"]
  <2>1. c \in Call /\ call' = [call EXCEPT ![p] = c]
    BY <1>1, <1>3, MoveOn DEF Result
  <2>2. CallFits(task[p], c) /\ Emits(task[p], c, emitted)
    BY <1>1, PhaseOfCall DEF CallFits, Emits, Call
  <2>3. Undamaged => Published(task[p], c) /\ Unfailing(task[p], c)
    BY <1>1, PhaseOfCall DEF Published, Unfailing, Call
  <2> QED BY <1>1, <2>1, <2>2, <2>3, InsideStep DEF LoadExisting
<1>4. CASE Goto(p, "create")
  <2> DEFINE c == [call[p] EXCEPT !.at = "create"]
  <2>1. c \in Call /\ call' = [call EXCEPT ![p] = c]
    BY <1>1, <1>4, MoveOn DEF Step
  <2>2. CallFits(task[p], c) /\ Emits(task[p], c, emitted)
    BY <1>1, PhaseOfCall DEF CallFits, Emits, Call
  <2>3. Undamaged => Published(task[p], c) /\ Unfailing(task[p], c)
    BY <1>1, PhaseOfCall DEF Published, Unfailing, Call
  <2> QED BY <1>1, <2>1, <2>2, <2>3, InsideStep DEF LoadExisting
<1> QED BY <1>2, <1>3, <1>4

(* A publication compares with the artifact that was there first.          *)
LEMMA CompareWinnerLow ==
    ASSUME LowInv, NEW p \in Procs, CompareWinner(p), UNCHANGED <<task, emitted>>
    PROVE  LowInv'
<1>1. CacheInv /\ CacheInv' /\ call[p].at = "winner" /\ call[p].key \in Key
      /\ call[p].bytes = call[p].key.content
  BY CompareWinnerInv, PhaseOfCall DEF LowInv, CompareWinner, CallSafe, Publishing
<1>2. PICK res \in {"io", "ok", "conflict"} :
        Return(p, res) /\ (Undamaged => res # "conflict")
  <2>1. Undamaged => store[call[p].key] \in {None, call[p].key.content}
    BY <1>1, PhaseOfCall DEF DirectoryBacked
  <2> QED BY <1>1, <2>1 DEF CompareWinner, CreateOutcome
<1> DEFINE c == [call[p] EXCEPT !.at = "idle", !.res = res]
<1>3. c \in Call /\ call' = [call EXCEPT ![p] = c]
  BY <1>1, <1>2, MoveOn DEF Result
<1>4. CallFits(task[p], c) /\ Emits(task[p], c, emitted)
  BY <1>1, <1>2, PhaseOfCall DEF CallFits, Emits, Call
<1>5. Undamaged => Published(task[p], c) /\ Unfailing(task[p], c)
  BY <1>1, <1>2, PhaseOfCall DEF Published, Unfailing, Call
<1> QED BY <1>1, <1>3, <1>4, <1>5, InsideStep DEF CompareWinner

(* The pointer of a lowering is replaced.                                  *)
LEMMA StoreIndexLow ==
    ASSUME LowInv, NEW p \in Procs, StoreIndex(p), UNCHANGED <<task, emitted>>
    PROVE  LowInv'
<1>1. CacheInv' /\ call[p].at = "record" /\ task[p].phase = "point"
  BY StoreIndexInv, PhaseOfCall DEF LowInv, StoreIndex
<1>2. PICK c \in {Idle, [Idle EXCEPT !.res = "io"]} : call' = [call EXCEPT ![p] = c]
  BY DEF StoreIndex, Enter
<1>3. c \in Call
  BY <1>2, IdleSafe DEF Idle, Call, CallKey, Step, Result
<1>4. CallFits(task[p], c) /\ Emits(task[p], c, emitted)
  BY <1>1, <1>2, PhaseOfCall DEF CallFits, Emits, Idle
<1>5. Published(task[p], c) /\ Unfailing(task[p], c)
  BY <1>1, <1>2 DEF Published, Unfailing, Idle
<1> QED BY <1>1, <1>2, <1>3, <1>4, <1>5, InsideStep DEF StoreIndex

(* A lowering reads the pointer an earlier one left.                       *)
LEMMA LoadIndexLow ==
    ASSUME LowInv, NEW p \in Procs, LoadIndex(p), UNCHANGED <<task, emitted>>
    PROVE  LowInv'
<1> DEFINE found == index[call[p].key.prov]
<1>1. /\ CacheInv /\ CacheInv' /\ call[p].at = "pointer" /\ task[p].phase = "hint"
      /\ call[p].key.prov \in Provs /\ call \in [Procs -> Call]
      /\ found \in Bytes \cup {None, Garbage}
  BY LoadIndexInv, PhaseOfCall DEF LowInv, LoadIndex, CallSafe, CacheInv, CacheTypeOK
<1>2. CASE found \in {None, Garbage}
  <2>1. PICK res \in {"miss", "corrupt"} : Return(p, res) /\ (Undamaged => res = "miss")
    BY <1>1, <1>2, PhaseOfCall DEF LoadIndex, DirectoryBacked
  <2> DEFINE c == [call[p] EXCEPT !.at = "idle", !.res = res]
  <2>2. c \in Call /\ call' = [call EXCEPT ![p] = c]
    BY <1>1, <2>1, MoveOn DEF Result
  <2>3. CallFits(task[p], c) /\ Emits(task[p], c, emitted)
    BY <1>1, <2>1, PhaseOfCall DEF CallFits, Emits, Call
  <2>4. Undamaged => Published(task[p], c) /\ Unfailing(task[p], c)
    BY <1>1, <2>1, PhaseOfCall DEF Published, Unfailing, Call
  <2> QED BY <1>1, <2>2, <2>3, <2>4, InsideStep DEF LoadIndex
<1>3. CASE found \in Bytes
  <2> DEFINE c == [call[p] EXCEPT !.at = "idle", !.got = found,
                                  !.key.content = found, !.res = "ok"]
  <2>1. call' = [call EXCEPT ![p].at = "idle", ![p].got = found,
                             ![p].key.content = found, ![p].res = "ok"]
    BY <1>3, CacheAssumption DEF LoadIndex
  <2>2. call' = [call EXCEPT ![p] = c]
    BY <1>1, <2>1
  <2>3. [call[p].key EXCEPT !.content = found] \in Key
    BY <1>1, <1>3, PhaseOfCall DEF Call, CallKey, Key
  <2>4. /\ c \in Call /\ c.at = "idle" /\ c.res = "ok"
        /\ c.then = call[p].then /\ c.limit = call[p].limit
        /\ c.key.prov = call[p].key.prov
    BY <1>3, <2>3, PhaseOfCall DEF Call, CallKey, Step, Result
  <2> HIDE DEF c
  <2>5. CallFits(task[p], c) /\ Emits(task[p], c, emitted)
    BY <1>1, <2>4, PhaseOfCall DEF CallFits, Emits
  <2>6. Undamaged => Published(task[p], c) /\ Unfailing(task[p], c)
    BY <1>1, <2>4 DEF Published, Unfailing
  <2> QED BY <1>1, <2>2, <2>4, <2>5, <2>6, InsideStep DEF LoadIndex
<1> QED BY <1>1, <1>2, <1>3

(* The file of a manifest is opened: its tree was emitted, since nothing   *)
(* else is ever stored under its name.                                     *)
LEMMA OpenLow ==
    ASSUME LowInv, NEW p \in Procs, Open(p), UNCHANGED <<task, emitted>>
    PROVE  LowInv'
<1> DEFINE opened == store[call[p].key]
<1>1. /\ CacheInv /\ CacheInv' /\ call[p].at = "open" /\ task[p].phase = "lookup"
      /\ call[p].key \in Key /\ call[p].then = "read" /\ call[p].limit = None
      /\ call[p].key.prov = task[p].lowering /\ task[p].lowering \in Lowerings
      /\ call \in [Procs -> Call] /\ opened \in Bytes \cup {None}
  BY OpenInv, PhaseOfCall DEF LowInv, Open, CallFits, CacheInv, CacheTypeOK
<1>2. CASE opened = None
  <2>1. Return(p, "miss")
    BY <1>1, <1>2 DEF Open
  <2> DEFINE c == [call[p] EXCEPT !.at = "idle", !.res = "miss"]
  <2>2. c \in Call /\ call' = [call EXCEPT ![p] = c]
    BY <1>1, <2>1, MoveOn DEF Result
  <2>3. CallFits(task[p], c) /\ Emits(task[p], c, emitted)
    BY <1>1, PhaseOfCall DEF CallFits, Emits, Call
  <2>4. Undamaged => Published(task[p], c) /\ Unfailing(task[p], c)
    BY <1>1, PhaseOfCall DEF Published, Unfailing, Call
  <2> QED BY <1>1, <2>2, <2>3, <2>4, InsideStep DEF Open
<1>3. CASE opened # None
  <2>1. call' = [call EXCEPT ![p].at = "verify", ![p].got = opened]
    BY <1>1, <1>3 DEF Open, TooLarge
  <2> DEFINE c == [call[p] EXCEPT !.at = "verify", !.got = opened]
  <2>2. call' = [call EXCEPT ![p] = c] /\ c \in Call
    <3>1. call[p] \in Call /\ "verify" \in Step /\ opened \in Bytes \cup {None}
      BY <1>1 DEF Step
    <3>2. c \in Call
      <4> HIDE DEF opened
      <4> QED BY <3>1 DEF Call
    <3>3. call' = [call EXCEPT ![p] = c]
      BY <1>1, <2>1
    <3> QED BY <3>2, <3>3
  <2>3. call[p].key.content \in Tree =>
          call[p].key.content \in emitted[task[p].lowering]
    <3>1. call[p].key = [prov |-> call[p].key.prov, content |-> call[p].key.content]
      BY <1>1 DEF Key
    <3> QED BY <1>1, <1>3, <3>1 DEF LowInv, StoredWereEmitted, ManifestKey
  <2>4. CallFits(task[p], c) /\ Emits(task[p], c, emitted)
    BY <1>1, <2>3, PhaseOfCall DEF CallFits, Emits, Call
  <2>5. Undamaged => opened = call[p].key.content
    BY <1>1, <1>3, PhaseOfCall DEF DirectoryBacked
  <2>6. Undamaged => Published(task[p], c) /\ Unfailing(task[p], c)
    BY <1>1, <2>5, PhaseOfCall DEF Published, Unfailing, Call
  <2> QED BY <1>1, <2>2, <2>4, <2>6, InsideStep DEF Open
<1> QED BY <1>2, <1>3

(* The bytes of a manifest are compared with its digest.                   *)
LEMMA VerifyLow ==
    ASSUME LowInv, NEW p \in Procs, Verify(p), UNCHANGED <<task, emitted>>
    PROVE  LowInv'
<1>1. /\ CacheInv /\ CacheInv' /\ call[p].at = "verify" /\ task[p].phase = "lookup"
      /\ call[p].then = "read"
  BY VerifyInv, PhaseOfCall DEF LowInv, Verify, CallFits
<1>2. PICK res \in {"ok", "corrupt"} : Return(p, res) /\ (Undamaged => res = "ok")
  BY <1>1, PhaseOfCall DEF Verify, Verified, Digest, Unfailing
<1> DEFINE c == [call[p] EXCEPT !.at = "idle", !.res = res]
<1>3. c \in Call /\ call' = [call EXCEPT ![p] = c]
  BY <1>1, <1>2, MoveOn DEF Result
<1>4. CallFits(task[p], c) /\ Emits(task[p], c, emitted)
  BY <1>1, <1>2, PhaseOfCall DEF CallFits, Emits, Call
<1>5. Undamaged => Published(task[p], c) /\ Unfailing(task[p], c)
  BY <1>1, <1>2, PhaseOfCall DEF Published, Unfailing, Call
<1> QED BY <1>1, <1>3, <1>4, <1>5, InsideStep DEF Verify

(* A file or a manifest appears under its name: a manifest only after all  *)
(* its files, and only of a tree that was emitted.                         *)
LEMMA CreateOnceLow ==
    ASSUME LowInv, NEW p \in Procs, CreateOnce(p), UNCHANGED <<task, emitted>>
    PROVE  LowInv'
<1> DEFINE key == call[p].key
<1>1. /\ CacheInv /\ CacheInv' /\ call[p].at = "create"
      /\ task[p].phase \in {"files", "certify"}
      /\ key \in Key /\ call[p].bytes = key.content /\ call[p].bytes # None
  BY CreateOnceInv, PhaseOfCall DEF LowInv, CreateOnce, CallSafe, Publishing
<1>2. CASE Goto(p, "winner") /\ UNCHANGED store
  <2> DEFINE c == [call[p] EXCEPT !.at = "winner"]
  <2>1. c \in Call /\ call' = [call EXCEPT ![p] = c]
    BY <1>1, <1>2, MoveOn DEF Step
  <2>2. CallFits(task[p], c) /\ Emits(task[p], c, emitted)
    BY <1>1, PhaseOfCall DEF CallFits, Emits, Call
  <2>3. Undamaged => Published(task[p], c) /\ Unfailing(task[p], c)
    BY <1>1, PhaseOfCall DEF Published, Unfailing, Call
  <2> QED BY <1>1, <1>2, <2>1, <2>2, <2>3, InsideStep DEF CreateOnce
<1>3. CASE /\ store[key] = None
           /\ store' = [store EXCEPT ![key] = call[p].bytes]
           /\ Return(p, "ok")
  <2> DEFINE c == [call[p] EXCEPT !.at = "idle", !.res = "ok"]
  <2>1. c \in Call /\ call' = [call EXCEPT ![p] = c]
    BY <1>1, <1>3, MoveOn DEF Result
  <2>2. \A q \in Procs : call'[q] = IF q = p THEN c ELSE call[q]
    BY <2>1 DEF LowInv, CacheInv, CacheTypeOK
  <2>3. \A k \in Key : store'[k] = IF k = key THEN key.content ELSE store[k]
    BY <1>1, <1>3 DEF CacheInv, CacheTypeOK
  <2>4. /\ CallFits(task[p], c) /\ Emits(task[p], c, emitted)
        /\ Undamaged => Unfailing(task[p], c)
    BY <1>1, PhaseOfCall DEF CallFits, Emits, Unfailing, Call
  <2>5. \A q \in Procs : /\ CallFits(task[q], call'[q]) /\ Emits(task[q], call'[q], emitted)
                         /\ Undamaged => Unfailing(task[q], call'[q])
    BY <2>2, <2>4, PhaseOfCall
  <2>6. \/ \E m \in Members, u \in Tree : key = MemberKey(m, u)
        \/ /\ task[p].phase = "certify" /\ task[p].lowering \in Lowerings
           /\ task[p].tree \in Tree /\ task[p].tree \in emitted[task[p].lowering]
           /\ key = ManifestKey(task[p].lowering, task[p].tree)
    BY <1>1, PhaseOfCall DEF CallFits, Emits
  <2>7. ASSUME NEW l \in Lowerings, NEW t \in Tree,
               store'[ManifestKey(l, t)] # None, store[ManifestKey(l, t)] = None
        PROVE  task[p].phase = "certify" /\ task[p].lowering = l /\ task[p].tree = t
    <3>1. key = ManifestKey(l, t)
      BY <2>3, <2>7, KeysOfTree
    <3>2. key = ManifestKey(task[p].lowering, task[p].tree) /\ task[p].phase = "certify"
      BY <2>6, <3>1, KeysOfTree
    <3> QED BY <3>1, <3>2 DEF ManifestKey
  <2>8. StoredWereEmitted'
    <3> SUFFICES ASSUME NEW l \in Lowerings, NEW t \in Tree,
                        store'[ManifestKey(l, t)] # None
                 PROVE  t \in emitted[l]
      BY DEF StoredWereEmitted, ManifestKey
    <3> QED BY <2>7, PhaseOfCall DEF LowInv, StoredWereEmitted, Emits
  <2>9. ASSUME Undamaged
        PROVE  \A m \in Members, t \in Tree :
                 store[MemberKey(m, t)] = t[m] => store'[MemberKey(m, t)] = t[m]
    BY <1>3, <2>3, KeysOfTree
  <2>10. ASSUME Undamaged PROVE ManifestCertifies'
    <3> SUFFICES ASSUME NEW l \in Lowerings, NEW t \in Tree,
                        store'[ManifestKey(l, t)] # None, NEW m \in Members
                 PROVE  store'[MemberKey(m, t)] = t[m]
      BY DEF ManifestCertifies, ManifestKey, MemberKey
    <3>1. store[MemberKey(m, t)] = t[m]
      <4>1. CASE store[ManifestKey(l, t)] # None
        BY <2>10, <4>1 DEF LowInv, ManifestCertifies
      <4>2. CASE store[ManifestKey(l, t)] = None
        BY <2>7, <2>10, <4>2, PhaseOfCall DEF Published
      <4> QED BY <4>1, <4>2
    <3> QED BY <3>1, <2>9, <2>10
  <2>11. ASSUME Undamaged, NEW q \in Procs PROVE Published(task[q], call[q])'
    <3>1. Published(task[q], call[q]) /\ (task[q].phase \in {"files", "certify"} =>
                                            task[q].tree \in Tree)
      BY <2>11, PhaseOfCall DEF CallFits
    <3>2. c.bytes = call[p].bytes /\ c.key = call[p].key
      BY PhaseOfCall DEF Call
    <3>3. call'[q].bytes = call[q].bytes /\ call'[q].key = call[q].key
      BY <2>2, <3>2
    <3>4. task'[q] = task[q]
      OBVIOUS
    <3> QED BY <3>1, <3>3, <3>4, <2>9, <2>11 DEF Published, MemberKey
  <2>12. Undamaged' => Undamaged
    BY DEF CreateOnce, Undamaged
  <2>13. (\A q \in Procs : CallFits(task[q], call[q]) /\ Emits(task[q], call[q], emitted))'
    BY <2>5 DEF CallFits, Emits
  <2>14. Undamaged => (\A q \in Procs : Unfailing(task[q], call[q]))'
    BY <2>5 DEF Unfailing
  <2> QED BY <1>1, <2>8, <2>10, <2>11, <2>12, <2>13, <2>14 DEF LowInv
<1> QED BY <1>2, <1>3 DEF CreateOnce

(* Damage never creates a name, so it cannot certify a tree.               *)
LEMMA TamperLow ==
    ASSUME LowInv, Tamper, UNCHANGED <<task, emitted>>
    PROVE  LowInv'
<1>1. CacheInv'
  BY TamperInv DEF LowInv
<1>2. ~Undamaged'
  BY CacheAssumption DEF Tamper, Undamaged, LowInv, CacheInv, CacheTypeOK
<1>3. \A k \in Key : store'[k] # None => store[k] # None
  BY DEF Tamper, LowInv, CacheInv, CacheTypeOK
<1>4. StoredWereEmitted'
  <2> SUFFICES ASSUME NEW l \in Lowerings, NEW t \in Tree, store'[ManifestKey(l, t)] # None
               PROVE  t \in emitted[l]
    BY DEF StoredWereEmitted, ManifestKey
  <2> QED BY <1>3, KeysOfTree DEF LowInv, StoredWereEmitted
<1>5. (\A p \in Procs : CallFits(task[p], call[p]) /\ Emits(task[p], call[p], emitted))'
  BY DEF LowInv, Tamper, CallFits, Emits
<1> QED BY <1>1, <1>2, <1>4, <1>5 DEF LowInv

-----------------------------------------------------------------------------
(* The driver's own steps.                                                 *)

(* A step that leaves the emitted trees alone may use ProcStep directly.   *)
LEMMA DriverStep ==
    ASSUME LowInv, CacheInv', NEW p \in Procs, NEW t \in Task, NEW c \in Call,
           task' = [task EXCEPT ![p] = t], call' = [call EXCEPT ![p] = c],
           UNCHANGED <<store, tampers, emitted>>,
           CallFits(t, c), Emits(t, c, emitted),
           Undamaged => Published(t, c) /\ Unfailing(t, c)
    PROVE  LowInv'
<1>1. /\ emitted' \in [Lowerings -> SUBSET Tree]
      /\ \A l \in Lowerings : emitted[l] \subseteq emitted'[l]
      /\ Emits(t, c, emitted')
  BY DEF LowInv
<1> QED BY <1>1, ProcStep

(* The same when the step makes no cache call.                             *)
LEMMA TaskStep ==
    ASSUME LowInv, NEW p \in Procs, NEW t \in Task,
           task' = [task EXCEPT ![p] = t], UNCHANGED <<cacheVars, emitted>>,
           CallFits(t, call[p]), Emits(t, call[p], emitted),
           Undamaged => Published(t, call[p]) /\ Unfailing(t, call[p])
    PROVE  LowInv'
<1>1. CacheInv'
  BY CacheNextInv DEF LowInv
<1>2. call[p] \in Call /\ call' = [call EXCEPT ![p] = call[p]]
  BY DEF LowInv, CacheInv, CacheTypeOK, cacheVars
<1> QED BY <1>1, <1>2, DriverStep DEF cacheVars

(* A process begins to lower.                                              *)
LEMMA LowerLow ==
    ASSUME LowInv, NEW p \in Procs, NEW l \in Lowerings, Lower(p, l)
    PROVE  LowInv'
<1> DEFINE t == [Waiting EXCEPT !.phase = "hint", !.lowering = l]
           c == [Idle EXCEPT !.at = "pointer", !.key.prov = l]
<1>1. CacheInv'
  BY StartIndexedInv, LoweringAssumption DEF LowInv, Lower
<1>2. t \in Task
  BY DEF Waiting, Task, Phase
<1>3. c \in Call
  BY LoweringAssumption DEF Idle, Call, CallKey, Step, Result
<1>4. CallFits(t, c) /\ Emits(t, c, emitted) /\ Published(t, c) /\ Unfailing(t, c)
  BY DEF CallFits, Emits, Published, Unfailing, Waiting, Idle
<1> QED BY <1>1, <1>2, <1>3, <1>4, DriverStep DEF Lower, StartIndexed, Enter

(* A task moves to another phase.                                          *)
LEMMA MoveTask ==
    ASSUME LowInv, NEW p \in Procs, NEW phase \in Phase, To(p, phase)
    PROVE  /\ [task[p] EXCEPT !.phase = phase] \in Task
           /\ task' = [task EXCEPT ![p] = [task[p] EXCEPT !.phase = phase]]
BY DEF LowInv, To, Task

(* The pointer names a manifest to look up, or there is none.              *)
LEMMA FollowHintLow ==
    ASSUME LowInv, NEW p \in Procs, FollowHint(p)
    PROVE  LowInv'
<1>1. call[p].at = "idle" /\ task[p].phase = "hint" /\ CacheInv
  BY DEF FollowHint, Returned, Free, LowInv
<1>2. CASE call[p].res = "ok" /\ StartRead(p, call[p].key, None, "read") /\ To(p, "lookup")
  <2> DEFINE t == [task[p] EXCEPT !.phase = "lookup"]
             c == [Idle EXCEPT !.at = "open", !.key = call[p].key, !.limit = None,
                               !.then = "read"]
  <2>1. call[p].key \in Key
    BY <1>2, PhaseOfCall DEF CallSafe
  <2>2. CacheInv'
    BY <1>1, <1>2, <2>1, StartReadInv
  <2>3. t \in Task /\ task' = [task EXCEPT ![p] = t]
    BY <1>2, MoveTask DEF Phase
  <2>4. c \in Call /\ call' = [call EXCEPT ![p] = c]
    BY <1>2, <2>1 DEF StartRead, Enter, Idle, Call, CallKey, Key, Step, Result
  <2>5. /\ t.phase = "lookup" /\ t.lowering = task[p].lowering
        /\ c.at = "open" /\ c.key = call[p].key /\ c.res = "none" /\ c.then = "read"
        /\ c.limit = None
    BY PhaseOfCall DEF Task, Idle
  <2> HIDE DEF t, c
  <2>6. CallFits(t, c) /\ Emits(t, c, emitted)
    BY <1>1, <2>1, <2>5, PhaseOfCall DEF CallFits, Emits
  <2>7. Published(t, c) /\ Unfailing(t, c)
    BY <2>5 DEF Published, Unfailing
  <2> QED BY <1>2, <2>2, <2>3, <2>4, <2>6, <2>7, DriverStep DEF StartRead, FollowHint
<1>3. ASSUME NEW phase \in {"run", "failed"}, To(p, phase), UNCHANGED cacheVars
      PROVE  LowInv'
  <2> DEFINE t == [task[p] EXCEPT !.phase = phase]
  <2>1. t \in Task /\ task' = [task EXCEPT ![p] = t]
    BY <1>3, MoveTask DEF Phase
  <2>2. /\ CallFits(t, call[p]) /\ Emits(t, call[p], emitted)
        /\ Undamaged => Published(t, call[p]) /\ Unfailing(t, call[p])
    BY <1>1, PhaseOfCall DEF CallFits, Emits, Published, Unfailing, Task
  <2> QED BY <1>3, <2>1, <2>2, TaskStep DEF FollowHint
<1> QED BY <1>2, <1>3 DEF FollowHint

(* The manifest a lowering is answered from was verified, so it is the     *)
(* tree its key names.                                                     *)
LEMMA UseManifestLow ==
    ASSUME LowInv, NEW p \in Procs, UseManifest(p)
    PROVE  LowInv'
<1>1. call[p].at = "idle" /\ task[p].phase = "lookup"
  BY DEF UseManifest, Returned, Free
<1>2. CASE /\ call[p].res = "ok" /\ call[p].got \in Tree
           /\ task' = [task EXCEPT ![p].phase = "cached", ![p].tree = call[p].got]
  <2> DEFINE t == [task[p] EXCEPT !.phase = "cached", !.tree = call[p].got]
  <2>1. t \in Task /\ task' = [task EXCEPT ![p] = t]
    BY <1>2, PhaseOfCall DEF LowInv, Task, Phase
  <2>2. call[p].got = call[p].key.content
    BY <1>1, <1>2, PhaseOfCall, KeysOfTree DEF CallSafe
  <2>3. call[p].got \in emitted[task[p].lowering]
    BY <1>1, <1>2, <2>2, PhaseOfCall DEF Emits
  <2>4. /\ CallFits(t, call[p]) /\ Emits(t, call[p], emitted)
        /\ Undamaged => Published(t, call[p]) /\ Unfailing(t, call[p])
    BY <1>1, <1>2, <2>3, PhaseOfCall DEF CallFits, Emits, Published, Unfailing, Task
  <2> QED BY <2>1, <2>4, TaskStep DEF UseManifest
<1>3. ASSUME NEW phase \in {"run", "failed"}, To(p, phase)
      PROVE  LowInv'
  <2> DEFINE t == [task[p] EXCEPT !.phase = phase]
  <2>1. t \in Task /\ task' = [task EXCEPT ![p] = t]
    BY <1>3, MoveTask DEF Phase
  <2>2. /\ CallFits(t, call[p]) /\ Emits(t, call[p], emitted)
        /\ Undamaged => Published(t, call[p]) /\ Unfailing(t, call[p])
    BY <1>1, PhaseOfCall DEF CallFits, Emits, Published, Unfailing, Task
  <2> QED BY <2>1, <2>2, TaskStep DEF UseManifest
<1> QED BY <1>2, <1>3 DEF UseManifest

(* The frontend emits a tree, any tree.                                    *)
LEMMA RunFrontendLow ==
    ASSUME LowInv, NEW p \in Procs, RunFrontend(p)
    PROVE  LowInv'
<1>1. task[p].phase = "run" /\ task[p].lowering \in Lowerings
  BY PhaseOfCall DEF RunFrontend, Returned, CallFits
<1>2. CacheInv' /\ call' = [call EXCEPT ![p] = Idle]
  BY ForgetInv DEF RunFrontend, LowInv, Enter
<1>3. ASSUME NEW u \in Tree,
             task' = [task EXCEPT ![p].phase = "files", ![p].tree = u, ![p].todo = Members],
             emitted' = [emitted EXCEPT ![task[p].lowering] = @ \cup {u}]
      PROVE  LowInv'
  <2> DEFINE t == [task[p] EXCEPT !.phase = "files", !.tree = u, !.todo = Members]
  <2>1. t \in Task /\ task' = [task EXCEPT ![p] = t]
    BY <1>3, PhaseOfCall DEF LowInv, Task, Phase
  <2>2. /\ emitted' \in [Lowerings -> SUBSET Tree]
        /\ \A l \in Lowerings : emitted[l] \subseteq emitted'[l]
        /\ u \in emitted'[task[p].lowering]
    BY <1>1, <1>3 DEF LowInv
  <2>3. /\ t.phase = "files" /\ t.tree = u /\ t.todo = Members
        /\ t.lowering = task[p].lowering
    BY PhaseOfCall DEF Task
  <2> HIDE DEF t
  <2>4. CallFits(t, Idle) /\ Emits(t, Idle, emitted')
    BY <1>1, <1>3, <2>2, <2>3 DEF CallFits, Emits, Idle
  <2>5. Published(t, Idle) /\ Unfailing(t, Idle)
    BY <2>3 DEF Published, Unfailing, Idle
  <2> QED BY <1>2, <2>1, <2>2, <2>4, <2>5, IdleSafe, ProcStep DEF RunFrontend
<1>4. CASE To(p, "rejected") /\ UNCHANGED emitted
  <2> DEFINE t == [task[p] EXCEPT !.phase = "rejected"]
  <2>1. t \in Task /\ task' = [task EXCEPT ![p] = t]
    BY <1>4, MoveTask DEF Phase
  <2>2. /\ CallFits(t, Idle) /\ Emits(t, Idle, emitted)
        /\ Published(t, Idle) /\ Unfailing(t, Idle)
    BY <1>1, PhaseOfCall DEF CallFits, Emits, Published, Unfailing, Idle, Task
  <2> QED BY <1>2, <1>4, <2>1, <2>2, IdleSafe, DriverStep DEF RunFrontend
<1> QED BY <1>3, <1>4 DEF RunFrontend

\* The call publish starts with when the bytes are the ones the key names.
WarmCall(k) == [Idle EXCEPT !.key = k, !.bytes = k.content, !.at = "warm"]

(* A call of publish with the bytes its key names.                         *)
LEMMA PublishCall ==
    ASSUME LowInv, NEW p \in Procs, NEW k \in Key, NEW b \in Bytes, b = k.content,
           StartPublish(p, k, b)
    PROVE  /\ CacheInv' /\ call' = [call EXCEPT ![p] = WarmCall(k)]
           /\ WarmCall(k) \in Call
           /\ WarmCall(k).at = "warm" /\ WarmCall(k).key = k /\ WarmCall(k).bytes = b
           /\ WarmCall(k).res = "none" /\ WarmCall(k).then = "read"
           /\ WarmCall(k).limit = None
<1>1. CacheInv'
  BY StartPublishInv DEF LowInv
<1>2. call' = [call EXCEPT ![p] = WarmCall(k)]
  BY DEF StartPublish, Enter, Digest, WarmCall
<1>3. /\ WarmCall(k) \in Call
      /\ WarmCall(k).at = "warm" /\ WarmCall(k).key = k /\ WarmCall(k).bytes = b
      /\ WarmCall(k).res = "none" /\ WarmCall(k).then = "read"
      /\ WarmCall(k).limit = None
  BY DEF WarmCall, Idle, Call, CallKey, Key, Step, Result
<1> QED BY <1>1, <1>2, <1>3

(* The file published before this one is stored now: its call succeeded.   *)
LEMMA PublishFileLow ==
    ASSUME LowInv, NEW p \in Procs, PublishFile(p)
    PROVE  LowInv'
<1>1. /\ task[p].phase = "files" /\ call[p].at = "idle" /\ call[p].res \in {"none", "ok"}
      /\ task[p].tree \in Tree /\ task[p].lowering \in Lowerings
  BY PhaseOfCall DEF PublishFile, Returned, Free, Proceeding, CallFits
<1>2. PICK m \in task[p].todo :
        /\ StartPublish(p, MemberKey(m, task[p].tree), task[p].tree[m])
        /\ task' = [task EXCEPT ![p].todo = @ \ {m}]
  BY DEF PublishFile
<1>3. m \in Members
  BY <1>2, PhaseOfCall DEF Task
<1> DEFINE key == MemberKey(m, task[p].tree)
           b == task[p].tree[m]
           t == [task[p] EXCEPT !.todo = @ \ {m}]
           c == WarmCall(key)
<1>4. key \in Key /\ b \in Bytes /\ b = key.content
  BY <1>1, <1>3, KeysOfTree DEF MemberKey
<1>5. /\ CacheInv' /\ c \in Call /\ call' = [call EXCEPT ![p] = c]
      /\ c.at = "warm" /\ c.key = key /\ c.bytes = b /\ c.res = "none"
      /\ c.then = "read" /\ c.limit = None
  BY <1>2, <1>4, PublishCall
<1>6. t \in Task /\ task' = [task EXCEPT ![p] = t]
  BY <1>2, PhaseOfCall DEF LowInv, Task
<1>7. /\ t.phase = "files" /\ t.tree = task[p].tree /\ t.lowering = task[p].lowering
      /\ t.todo = task[p].todo \ {m}
  BY <1>1, PhaseOfCall DEF Task
<1> HIDE DEF t, c
<1>8. CallFits(t, c) /\ Emits(t, c, emitted)
  BY <1>1, <1>3, <1>5, <1>7, PhaseOfCall DEF CallFits, Emits
<1>9. ASSUME Undamaged PROVE Published(t, c) /\ Unfailing(t, c)
  <2>1. ASSUME NEW n \in Members \ t.todo
        PROVE  \/ store[MemberKey(n, t.tree)] = t.tree[n]
               \/ c.bytes # None /\ c.key = MemberKey(n, t.tree)
    <3>1. CASE n = m
      BY <1>1, <1>3, <1>5, <1>7, <3>1, KeysOfTree
    <3>2. CASE n # m /\ call[p].bytes # None /\ call[p].key = MemberKey(n, task[p].tree)
      <4>1. call[p].res = "ok"
        BY <1>1, <3>2, PhaseOfCall DEF CallFits
      <4>2. store[call[p].key] = call[p].key.content
        BY <1>1, <1>9, <3>2, <4>1, PhaseOfCall DEF DirectoryBacked, CallBacked
      <4> QED BY <1>7, <3>2, <4>2 DEF MemberKey
    <3>3. CASE n # m /\ store[MemberKey(n, task[p].tree)] = task[p].tree[n]
      BY <1>7, <3>3
    <3>4. n # m => n \in Members \ task[p].todo
      BY <1>7, <2>1
    <3> QED BY <1>1, <1>9, <3>1, <3>2, <3>3, <3>4, PhaseOfCall DEF Published
  <2> QED BY <1>5, <1>7, <2>1 DEF Published, Unfailing
<1> QED BY <1>2, <1>5, <1>6, <1>8, <1>9, DriverStep DEF PublishFile, StartPublish

(* The manifest is published when every file is stored.                    *)
LEMMA PublishManifestLow ==
    ASSUME LowInv, NEW p \in Procs, PublishManifest(p)
    PROVE  LowInv'
<1>1. /\ task[p].phase = "files" /\ call[p].at = "idle" /\ call[p].res \in {"none", "ok"}
      /\ task[p].todo = {} /\ task[p].tree \in Tree /\ task[p].lowering \in Lowerings
  BY PhaseOfCall DEF PublishManifest, Returned, Free, Proceeding, CallFits
<1> DEFINE key == ManifestKey(task[p].lowering, task[p].tree)
           b == task[p].tree
           t == [task[p] EXCEPT !.phase = "certify"]
           c == WarmCall(key)
<1>2. key \in Key /\ b \in Bytes /\ b = key.content
  BY <1>1, KeysOfTree DEF ManifestKey
<1>3. /\ CacheInv' /\ c \in Call /\ call' = [call EXCEPT ![p] = c]
      /\ c.at = "warm" /\ c.key = key /\ c.bytes = b /\ c.res = "none"
      /\ c.then = "read" /\ c.limit = None
  BY <1>2, PublishCall DEF PublishManifest
<1>4. t \in Task /\ task' = [task EXCEPT ![p] = t]
  BY MoveTask DEF PublishManifest, Phase
<1>5. t.phase = "certify" /\ t.tree = task[p].tree /\ t.lowering = task[p].lowering
  BY <1>1, PhaseOfCall DEF Task
<1> HIDE DEF t, c
<1>6. CallFits(t, c) /\ Emits(t, c, emitted)
  BY <1>1, <1>3, <1>5, PhaseOfCall, KeysOfTree DEF CallFits, Emits
<1>7. ASSUME Undamaged PROVE Published(t, c) /\ Unfailing(t, c)
  <2>1. ASSUME NEW n \in Members
        PROVE  store[MemberKey(n, t.tree)] = t.tree[n]
    <3>1. CASE call[p].bytes # None /\ call[p].key = MemberKey(n, task[p].tree)
      <4>1. call[p].res = "ok"
        BY <1>1, <3>1, PhaseOfCall DEF CallFits
      <4>2. store[call[p].key] = call[p].key.content
        BY <1>1, <1>7, <3>1, <4>1, PhaseOfCall DEF DirectoryBacked, CallBacked
      <4> QED BY <1>5, <3>1, <4>2 DEF MemberKey
    <3> QED BY <1>1, <1>5, <1>7, <3>1, PhaseOfCall DEF Published
  <2> QED BY <1>3, <1>5, <2>1 DEF Published, Unfailing
<1> QED BY <1>3, <1>4, <1>6, <1>7, DriverStep DEF PublishManifest, StartPublish

(* A published manifest is entered in the index.                           *)
LEMMA RecordManifestLow ==
    ASSUME LowInv, NEW p \in Procs, RecordManifest(p)
    PROVE  LowInv'
<1>1. task[p].phase = "certify" /\ call[p].at = "idle" /\ call[p].res = "ok" /\ CacheInv
  BY DEF RecordManifest, Returned, Free, StartRecord, LowInv
<1> DEFINE t == [task[p] EXCEPT !.phase = "point"]
           c == [call[p] EXCEPT !.at = "record"]
<1>2. CacheInv'
  BY <1>1, StartRecordInv DEF RecordManifest
<1>3. t \in Task /\ task' = [task EXCEPT ![p] = t]
  BY MoveTask DEF RecordManifest, Phase
<1>4. c \in Call /\ call' = [call EXCEPT ![p] = c]
  BY <1>1, MoveOn DEF RecordManifest, StartRecord, Step
<1>5. /\ CallFits(t, c) /\ Emits(t, c, emitted)
      /\ Undamaged => Published(t, c) /\ Unfailing(t, c)
  BY <1>1, PhaseOfCall DEF CallFits, Emits, Published, Unfailing, Task, Call
<1> QED BY <1>2, <1>3, <1>4, <1>5, DriverStep DEF RecordManifest, StartRecord

(* A lowering ends, also in failure.                                       *)
LEMMA FinishLow ==
    ASSUME LowInv, NEW p \in Procs, Finish(p)
    PROVE  LowInv'
<1>1. task[p].phase \in {"files", "certify", "point"} /\ call[p].at = "idle"
  BY DEF Finish, Returned, Free
<1>2. PICK phase \in {"failed", "lowered"} : To(p, phase)
  BY DEF Finish
<1> DEFINE t == [task[p] EXCEPT !.phase = phase]
<1>3. t \in Task /\ task' = [task EXCEPT ![p] = t]
  BY <1>2, MoveTask DEF Phase
<1>4. /\ CallFits(t, call[p]) /\ Emits(t, call[p], emitted)
      /\ Undamaged => Published(t, call[p]) /\ Unfailing(t, call[p])
  BY <1>1, PhaseOfCall DEF CallFits, Emits, Published, Unfailing, Task
<1> QED BY <1>3, <1>4, TaskStep DEF Finish

(* A process is ready for the next lowering.                               *)
LEMMA AgainLow ==
    ASSUME LowInv, NEW p \in Procs, Again(p)
    PROVE  LowInv'
<1>1. CacheInv' /\ call' = [call EXCEPT ![p] = Idle]
  BY ForgetInv DEF Again, LowInv, Enter
<1>2. Waiting \in Task
  BY DEF Waiting, Task, Phase
<1>3. /\ CallFits(Waiting, Idle) /\ Emits(Waiting, Idle, emitted)
      /\ Published(Waiting, Idle) /\ Unfailing(Waiting, Idle)
  BY DEF CallFits, Emits, Published, Unfailing, Waiting, Idle
<1> QED BY <1>1, <1>2, <1>3, IdleSafe, DriverStep DEF Again

(* Every step of the driver, of the cache and of the outside keeps it.     *)
LEMMA LowNextInv == LowInv /\ [Next]_vars => LowInv'
<1> SUFFICES ASSUME LowInv, [Next]_vars PROVE LowInv'
  OBVIOUS
<1>1. CASE UNCHANGED vars
  <2>1. CacheInv'
    BY <1>1, CacheNextInv DEF vars, cacheVars, LowInv
  <2> QED BY <1>1, <2>1 DEF vars, LowInv, StoredWereEmitted, ManifestCertifies, Undamaged,
                            CallFits, Emits, Published, Unfailing, ManifestKey, MemberKey
<1>2. ASSUME NEW p \in Procs, CacheStep(p), UNCHANGED <<task, emitted>> PROVE LowInv'
  <2>1. call[p].at \notin {"mismatch", "present", "link", "rival"}
    BY PhaseOfCall
  <2>2. ~RejectDigest(p) /\ ~PresentView(p) /\ ~LinkView(p) /\ ~CompareRival(p)
    BY <2>1 DEF RejectDigest, PresentView, LinkView, CompareRival
  <2> QED BY <1>2, <2>2, LoadExistingLow, CreateOnceLow, CompareWinnerLow, StoreIndexLow,
             LoadIndexLow, OpenLow, VerifyLow DEF CacheStep
<1>3. CASE Next
  BY <1>2, <1>3, TamperLow, LowerLow, FollowHintLow, UseManifestLow, RunFrontendLow,
     PublishFileLow, PublishManifestLow, RecordManifestLow, FinishLow, AgainLow DEF Next
<1> QED BY <1>1, <1>3

(* The inductive invariant holds in every reachable state of a lowering.   *)
THEOREM LoweringInvariance == Spec => []LowInv
BY LowInitInv, LowNextInv, PTL DEF Spec

(* Undamaged, a readable manifest certifies every file it lists, whichever *)
(* of any number of racing publishers died or failed half-way.             *)
THEOREM ManifestAlwaysCertifies == Spec => []ManifestCertifies
<1>1. LowInv => ManifestCertifies
  BY DEF LowInv, ManifestCertifies
<1> QED BY <1>1, LoweringInvariance, PTL

(* A lowering answered from the cache is one a frontend produced for it,   *)
(* damage or not ("a stale index causes a miss, never a wrong tree").      *)
THEOREM CachedTreeAlwaysEmitted == Spec => []CachedTreeWasEmitted
<1>1. LowInv => CachedTreeWasEmitted
  BY DEF LowInv, CachedTreeWasEmitted, Emits
<1> QED BY <1>1, LoweringInvariance, PTL

(* Undamaged, only an I/O error fails a lowering: every race with another  *)
(* process that lowers the same inputs is absorbed.                        *)
THEOREM RacesAlwaysAbsorbed == Spec => RacesNeverFail
<1> DEFINE A == \A p \in Procs :
          Undamaged /\ task[p].phase # "failed" /\ task'[p].phase = "failed"
              => call[p].res = "io"
<1>1. ASSUME LowInv, Next PROVE A
  <2> SUFFICES ASSUME NEW p \in Procs, Undamaged,
                      task[p].phase # "failed", task'[p].phase = "failed"
               PROVE  call[p].res = "io"
    OBVIOUS
  <2>1. task \in [Procs -> Task] /\ Unfailing(task[p], call[p])
    BY <1>1 DEF LowInv
  <2>2. task' # task
    OBVIOUS
  <2>3. \A q \in Procs, l \in Lowerings : ~Lower(q, l)
    BY <2>1 DEF Lower, Waiting
  <2>4. ASSUME NEW q \in Procs
        PROVE  /\ ~RunFrontend(q) /\ ~PublishFile(q) /\ ~PublishManifest(q)
               /\ ~RecordManifest(q) /\ ~Again(q)
    <3>1. ~RunFrontend(q)
      BY <2>1 DEF RunFrontend, To, Task
    <3>2. ~PublishFile(q)
      BY <2>1 DEF PublishFile, Task
    <3>3. ~PublishManifest(q) /\ ~RecordManifest(q)
      BY <2>1 DEF PublishManifest, RecordManifest, To, Task
    <3>4. ~Again(q)
      BY <2>1 DEF Again, Waiting
    <3> QED BY <3>1, <3>2, <3>3, <3>4
  <2>5. ASSUME NEW q \in Procs, FollowHint(q) PROVE call[p].res = "io"
    BY <2>1, <2>5 DEF FollowHint, To, Task, Unfailing
  <2>6. ASSUME NEW q \in Procs, UseManifest(q) PROVE call[p].res = "io"
    BY <2>1, <2>6 DEF UseManifest, To, Task, Unfailing
  <2>7. ASSUME NEW q \in Procs, Finish(q) PROVE call[p].res = "io"
    BY <2>1, <2>7 DEF Finish, To, Task, Unfailing, Proceeding
  <2> QED BY <1>1, <2>2, <2>3, <2>4, <2>5, <2>6, <2>7 DEF Next
<1>2. LowInv /\ [Next]_vars => [A]_vars
  BY <1>1
<1>3. Spec => [][A]_vars
  BY <1>2, LoweringInvariance, PTL DEF Spec
<1> QED BY <1>3 DEF RacesNeverFail
=============================================================================
