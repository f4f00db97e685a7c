---------------------------- MODULE ArtifactCache ----------------------------
(***************************************************************************)
(* The artifact cache of jals-storage on its native backend: a directory   *)
(* of write-once files named by (provenance, content digest) beside an     *)
(* advisory index from provenance to content.  The directory is shared by  *)
(* several processes (a CLI build and a language server of one project),   *)
(* so every file-system call is a step of its own.  Somebody may also      *)
(* damage the directory; how often is bounded by MaxTamper.                *)
(*                                                                         *)
(* SHA-256 is taken to be injective: the digest of some bytes is those     *)
(* bytes.                                                                  *)
(*                                                                         *)
(* A definition placed before one whose name its own name begins with is a *)
(* plausible bug of it; no specification uses it, the runs check that it   *)
(* would be noticed.                                                       *)
(***************************************************************************)
EXTENDS Naturals

CONSTANTS Procs,      \* processes and tasks sharing the cache directory
          Provs,      \* provenances an artifact can have
          Bytes,      \* artifact contents
          Size,       \* length of a content
          Limits,     \* the max_bytes a bounded lookup is called with
          MaxTamper,  \* how often the directory is damaged from outside
          None,       \* absence of a file, of an index entry, of a limit
          Garbage     \* the text of a pointer file that is no digest

ASSUME CacheAssumption ==
    /\ None \notin Bytes /\ Garbage \notin Bytes /\ Garbage # None
    /\ Size \in [Bytes -> Nat]
    /\ Limits \subseteq Nat
    /\ MaxTamper \in Nat

VARIABLES store,   \* the artifact files
          view,    \* the files materialized for an OS process
          index,   \* the pointer files, provenance -> content
          call,    \* the cache operation each process is in, and its result
          tampers  \* how often the directory has been damaged

cacheVars == <<store, view, index, call, tampers>>

Digest(bytes) == bytes

Key == [prov : Provs, content : Bytes]

Step == {"idle", "mismatch", "warm", "create", "winner", "record",
         "pointer", "open", "verify", "present", "link", "rival"}
Result == {"none", "ok", "conflict", "digest", "io", "miss", "corrupt", "large"}

\* What is known of a key while an operation runs; None is not known yet.
CallKey == [prov : Provs \cup {None}, content : Bytes \cup {None}]

\* call[p].got is the opened file, the bytes read, or the content an index
\* lookup found; call[p].then what a verified read is for.
Call == [at : Step, key : CallKey, bytes : Bytes \cup {None}, limit : Nat \cup {None},
         then : {"read", "view"}, got : Bytes \cup {None}, res : Result]

Idle == [at |-> "idle", key |-> [prov |-> None, content |-> None], bytes |-> None,
         limit |-> None, then |-> "read", got |-> None, res |-> "none"]

CacheInit ==
    /\ store = [k \in Key |-> None]
    /\ view = [k \in Key |-> None]
    /\ index = [v \in Provs |-> None]
    /\ call = [p \in Procs |-> Idle]
    /\ tampers = 0

Free(p) == call[p].at = "idle"

\* Start an operation with the parts of the call it needs.
Enter(p, c) == call' = [call EXCEPT ![p] = c]

Goto(p, at) == call' = [call EXCEPT ![p].at = at]

Return(p, res) == call' = [call EXCEPT ![p].at = "idle", ![p].res = res]

-----------------------------------------------------------------------------
(* publish: check the digest, accept a verified stored copy, else create.  *)

StartPublishUnchecked(p, k, b) ==
    /\ Free(p)
    /\ Enter(p, [Idle EXCEPT !.key = k, !.bytes = b, !.at = "warm"])
    /\ UNCHANGED <<store, view, index, tampers>>

StartPublish(p, k, b) ==
    /\ Free(p)
    /\ Enter(p, [Idle EXCEPT !.key = k, !.bytes = b,
                   !.at = IF Digest(b) = k.content THEN "warm" ELSE "mismatch"])
    /\ UNCHANGED <<store, view, index, tampers>>

\* Bytes that do not belong to the key: nothing is written, the stored
\* winner only decides which error is reported.
RejectDigest(p) ==
    /\ call[p].at = "mismatch"
    /\ Return(p, IF store[call[p].key] \notin {None, call[p].bytes}
                 THEN "conflict" ELSE "digest")
    /\ UNCHANGED <<store, view, index, tampers>>

LoadExisting(p) ==
    /\ call[p].at = "warm"
    /\ LET existing == store[call[p].key]
       IN  IF existing # None /\ Digest(existing) = call[p].key.content
           THEN Return(p, "ok")
           ELSE Goto(p, "create")
    /\ UNCHANGED <<store, view, index, tampers>>

\* atomic_write with WriteMode::Create: a complete temporary file is hard
\* linked into place, which fails when the name exists.  It may also fail
\* for lack of space or rights.
CreateOnce(p) ==
    /\ call[p].at = "create"
    /\ \/ /\ store[call[p].key] = None
          /\ store' = [store EXCEPT ![call[p].key] = call[p].bytes]
          /\ Return(p, "ok")
       \/ /\ Goto(p, "winner")
          /\ UNCHANGED store
    /\ UNCHANGED <<view, index, tampers>>

CreateOutcomeExists(winner, bytes) == IF winner = None THEN "io" ELSE "conflict"

\* How a failed creation of a file now holding `winner` ends.
CreateOutcome(winner, bytes) ==
    CASE winner = None  -> "io"
      [] winner = bytes -> "ok"
      [] OTHER          -> "conflict"

CompareWinner(p) ==
    /\ call[p].at = "winner"
    /\ Return(p, CreateOutcome(store[call[p].key], call[p].bytes))
    /\ UNCHANGED <<store, view, index, tampers>>

-----------------------------------------------------------------------------
(* The index: last writer wins, so the pointer is simply replaced.         *)

StartRecordEarly(p) ==
    /\ Free(p)
    /\ call[p].bytes # None
    /\ Goto(p, "record")
    /\ UNCHANGED <<store, view, index, tampers>>

\* record_index is called with a key the caller has published.
StartRecord(p) ==
    /\ Free(p)
    /\ call[p].bytes # None
    /\ call[p].res = "ok"
    /\ Goto(p, "record")
    /\ UNCHANGED <<store, view, index, tampers>>

StoreIndex(p) ==
    /\ call[p].at = "record"
    /\ \/ /\ index' = [index EXCEPT ![call[p].key.prov] = call[p].key.content]
          /\ Enter(p, Idle)
       \/ /\ Enter(p, [Idle EXCEPT !.res = "io"])
          /\ UNCHANGED index
    /\ UNCHANGED <<store, view, tampers>>

StartIndexed(p, v) ==
    /\ Free(p)
    /\ Enter(p, [Idle EXCEPT !.at = "pointer", !.key.prov = v])
    /\ UNCHANGED <<store, view, index, tampers>>

\* indexed_key: the key the pointer names, with the provenance asked for.
LoadIndex(p) ==
    /\ call[p].at = "pointer"
    /\ LET found == index[call[p].key.prov]
       IN  CASE found = None    -> Return(p, "miss")
             [] found = Garbage -> Return(p, "corrupt")
             [] OTHER -> call' = [call EXCEPT ![p].at = "idle", ![p].got = found,
                                    ![p].key.content = found, ![p].res = "ok"]
    /\ UNCHANGED <<store, view, index, tampers>>

-----------------------------------------------------------------------------
(* Verified reads: open the file once, bound it, digest what was opened,   *)
(* and hand out what was opened.                                           *)

StartRead(p, k, limit, then) ==
    /\ Free(p)
    /\ Enter(p, [Idle EXCEPT !.at = "open", !.key = k, !.limit = limit, !.then = then])
    /\ UNCHANGED <<store, view, index, tampers>>

TooLarge(bytes, limit) == limit # None /\ Size[bytes] > limit

\* materialize_file turns a missing artifact into an error.
Open(p) ==
    /\ call[p].at = "open"
    /\ LET opened == store[call[p].key]
       IN  IF opened = None
           THEN Return(p, IF call[p].then = "view" THEN "corrupt" ELSE "miss")
           ELSE IF TooLarge(opened, call[p].limit)
                THEN Return(p, "large")
                ELSE call' = [call EXCEPT ![p].at = "verify", ![p].got = opened]
    /\ UNCHANGED <<store, view, index, tampers>>

VerifiedByName(c) == store[c.key] = c.key.content

VerifiedAlways(c) == TRUE

Verified(c) == Digest(c.got) = c.key.content

Verify(p) ==
    /\ call[p].at = "verify"
    /\ IF Verified(call[p])
       THEN IF call[p].then = "view"
            THEN Goto(p, "present")
            ELSE Return(p, "ok")
       ELSE Return(p, "corrupt")
    /\ UNCHANGED <<store, view, index, tampers>>

-----------------------------------------------------------------------------
(* materialize_file: the verified bytes under a name of their own.         *)

PresentView(p) ==
    /\ call[p].at = "present"
    /\ LET existing == view[call[p].key]
       IN  CASE existing = None        -> Goto(p, "link")
             [] existing = call[p].got -> Return(p, "ok")
             [] OTHER                  -> Return(p, "corrupt")
    /\ UNCHANGED <<store, view, index, tampers>>

LinkView(p) ==
    /\ call[p].at = "link"
    /\ \/ /\ view[call[p].key] = None
          /\ view' = [view EXCEPT ![call[p].key] = call[p].got]
          /\ Return(p, "ok")
       \/ /\ Goto(p, "rival")
          /\ UNCHANGED view
    /\ UNCHANGED <<store, index, tampers>>

CompareRival(p) ==
    /\ call[p].at = "rival"
    /\ Return(p, CreateOutcome(view[call[p].key], call[p].got))
    /\ UNCHANGED <<store, view, index, tampers>>

-----------------------------------------------------------------------------
(* A process may die between any two steps; an artifact may be replaced or *)
(* deleted by name, a pointer overwritten.  The directory holds artifacts  *)
(* only under names that were published.                                   *)

Crash(p) ==
    /\ ~Free(p)
    /\ Enter(p, Idle)
    /\ UNCHANGED <<store, view, index, tampers>>

Tamper ==
    /\ tampers < MaxTamper
    /\ tampers' = tampers + 1
    /\ \/ /\ \E k \in Key, b \in Bytes \cup {None} :
                store[k] # None /\ store' = [store EXCEPT ![k] = b]
          /\ UNCHANGED <<view, index>>
       \/ /\ \E k \in Key, b \in Bytes \cup {None} :
                view[k] # None /\ view' = [view EXCEPT ![k] = b]
          /\ UNCHANGED <<store, index>>
       \/ /\ \E v \in Provs, b \in Bytes \cup {None, Garbage} :
                index' = [index EXCEPT ![v] = b]
          /\ UNCHANGED <<store, view>>
    /\ UNCHANGED call

\* The steps inside an operation, whoever called it.
CacheStep(p) ==
    \/ RejectDigest(p) \/ LoadExisting(p) \/ CreateOnce(p) \/ CompareWinner(p)
    \/ StoreIndex(p) \/ LoadIndex(p) \/ Open(p) \/ Verify(p)
    \/ PresentView(p) \/ LinkView(p) \/ CompareRival(p)

CacheNext ==
    \/ \E p \in Procs :
          \/ \E k \in Key, b \in Bytes : StartPublish(p, k, b)
          \/ StartRecord(p)
          \/ \E v \in Provs : StartIndexed(p, v)
          \/ \E k \in Key, l \in Limits \cup {None} : StartRead(p, k, l, "read")
          \/ \E k \in Key : StartRead(p, k, None, "view")
          \/ CacheStep(p)
          \/ Crash(p)
    \/ Tamper

CacheSpec == CacheInit /\ [][CacheNext]_cacheVars

-----------------------------------------------------------------------------
\* The shape of the state.
CacheTypeOK ==
    /\ store \in [Key -> Bytes \cup {None}]
    /\ view \in [Key -> Bytes \cup {None}]
    /\ index \in [Provs -> Bytes \cup {None, Garbage}]
    /\ call \in [Procs -> Call]
    /\ tampers \in 0 .. MaxTamper

Undamaged == tampers = 0

\* A read or a materialization that succeeds gives the bytes the key names
\* and no more of them than was asked for, whatever has been swapped under
\* the reader's feet (open_verified: "a post-verification swap of the
\* stored location cannot redirect reads").
NeverWrongBytes ==
    \A p \in Procs :
        LET c == call[p]
        IN  c.at \in {"idle", "present", "link", "rival"} /\ c.got # None
            /\ c.res \in {"none", "ok"} =>
                /\ c.got = c.key.content
                /\ c.limit # None => Size[c.got] <= c.limit

\* While nobody damages the directory, an artifact is complete and correct
\* the moment its name exists, and so is every materialized copy: readers
\* racing publishers never see a partial file (atomic_write).
StoredAreVerified ==
    Undamaged => \A k \in Key : /\ store[k] \in {None, k.content}
                                /\ view[k] \in {None, k.content}

\* While nobody damages the directory, every pointer of the index names a
\* stored artifact (record_index: "every racer records a digest its own
\* verified artifact backs").
IndexBacked ==
    Undamaged => \A v \in Provs :
        index[v] # None => store[[prov |-> v, content |-> index[v]]] = index[v]

\* Write-once: the program itself never changes or deletes an artifact, and
\* only damage from outside does.
WriteOnce ==
    [][\A k \in Key : store[k] # None /\ store'[k] # store[k] => tampers' > tampers]_cacheVars
=============================================================================
