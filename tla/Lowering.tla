------------------------------ MODULE Lowering ------------------------------
(***************************************************************************)
(* Driver::lower of jals-frontend on the shared artifact cache: recover a  *)
(* finished lowering through the index, or run the frontend, publish every *)
(* emitted file, then the manifest that certifies them, then the pointer.  *)
(* PreparedBuildScript::persist (jals-build) writes the cache in the same  *)
(* order.                                                                  *)
(*                                                                         *)
(* A manifest is the function from emitted paths to contents; it is the    *)
(* content of an artifact whose provenance is the lowering.  A frontend's  *)
(* output is not known in advance, and two runs may differ.                *)
(***************************************************************************)
EXTENDS ArtifactCache, FiniteSets

CONSTANTS Lowerings,  \* provenances of whole lowerings (of the manifests)
          Members,    \* paths a frontend emits, and the provenances of the files
          Texts,      \* contents of emitted files
          MaxTrees    \* bound: distinct outputs the runs of one lowering have

Tree == [Members -> Texts]

ASSUME LoweringAssumption ==
    /\ Provs = Lowerings \cup Members
    /\ Lowerings \cap Members = {}
    /\ Bytes = Tree \cup Texts

VARIABLES task,     \* what each process is lowering and how far it is
          emitted   \* every tree a frontend has produced, per lowering

vars == <<store, view, index, call, tampers, task, emitted>>

Phase == {"waiting", "hint", "lookup", "run", "files", "certify", "point",
          "cached", "lowered", "rejected", "failed"}

Task == [phase : Phase, lowering : Lowerings \cup {None}, tree : Tree \cup {None},
         todo : SUBSET Members]

Waiting == [phase |-> "waiting", lowering |-> None, tree |-> None, todo |-> {}]

Init ==
    /\ CacheInit
    /\ task = [p \in Procs |-> Waiting]
    /\ emitted = [l \in Lowerings |-> {}]

MemberKey(m, tree) == [prov |-> m, content |-> tree[m]]
ManifestKey(l, tree) == [prov |-> l, content |-> tree]

To(p, phase) == task' = [task EXCEPT ![p].phase = phase]

\* The previous cache call of p has returned.
Returned(p, phase) == task[p].phase = phase /\ Free(p)

Lower(p, l) ==
    /\ Returned(p, "waiting")
    /\ StartIndexed(p, l)
    /\ task' = [task EXCEPT ![p] = [Waiting EXCEPT !.phase = "hint", !.lowering = l]]
    /\ UNCHANGED emitted

\* indexed_key's `?`: an unreadable pointer ends the lowering.
FollowHint(p) ==
    /\ Returned(p, "hint")
    /\ \/ /\ call[p].res = "ok"
          /\ StartRead(p, call[p].key, None, "read")
          /\ To(p, "lookup")
       \/ /\ call[p].res = "miss"
          /\ To(p, "run")
          /\ UNCHANGED cacheVars
       \/ /\ call[p].res = "corrupt"
          /\ To(p, "failed")
          /\ UNCHANGED cacheVars
    /\ UNCHANGED emitted

\* A verified manifest that decodes is the answer; a missing one, or bytes
\* that are no manifest, only cost a run.
UseManifest(p) ==
    /\ Returned(p, "lookup")
    /\ \/ /\ call[p].res = "ok"
          /\ call[p].got \in Tree
          /\ task' = [task EXCEPT ![p].phase = "cached", ![p].tree = call[p].got]
       \/ /\ call[p].res \in {"ok", "miss"}
          /\ call[p].got \notin Tree
          /\ To(p, "run")
       \/ /\ call[p].res = "corrupt"
          /\ To(p, "failed")
    /\ UNCHANGED <<cacheVars, emitted>>

\* frontend.run: errors reject the lowering and publish nothing.
RunFrontend(p) ==
    /\ Returned(p, "run")
    /\ \/ /\ \E t \in Tree :
                /\ Cardinality(emitted[task[p].lowering] \cup {t}) <= MaxTrees
                /\ task' = [task EXCEPT ![p].phase = "files", ![p].tree = t,
                                        ![p].todo = Members]
                /\ emitted' = [emitted EXCEPT ![task[p].lowering] = @ \cup {t}]
       \/ /\ To(p, "rejected")
          /\ UNCHANGED emitted
    /\ call' = [call EXCEPT ![p] = Idle]
    /\ UNCHANGED <<store, view, index, tampers>>

\* The last publication did not fail.
Proceeding(p) == call[p].res \in {"none", "ok"}

PublishFile(p) ==
    /\ Returned(p, "files")
    /\ Proceeding(p)
    /\ \E m \in task[p].todo :
          /\ StartPublish(p, MemberKey(m, task[p].tree), task[p].tree[m])
          /\ task' = [task EXCEPT ![p].todo = @ \ {m}]
    /\ UNCHANGED emitted

PublishManifestEarly(p) ==
    /\ Returned(p, "files")
    /\ Proceeding(p)
    /\ StartPublish(p, ManifestKey(task[p].lowering, task[p].tree), task[p].tree)
    /\ To(p, "certify")
    /\ UNCHANGED emitted

PublishManifest(p) ==
    /\ Returned(p, "files")
    /\ Proceeding(p)
    /\ task[p].todo = {}
    /\ StartPublish(p, ManifestKey(task[p].lowering, task[p].tree), task[p].tree)
    /\ To(p, "certify")
    /\ UNCHANGED emitted

RecordManifest(p) ==
    /\ Returned(p, "certify")
    /\ StartRecord(p)
    /\ To(p, "point")
    /\ UNCHANGED emitted

\* The `?` of publish and record_index, and the result.
Finish(p) ==
    /\ \/ /\ task[p].phase \in {"files", "certify", "point"}
          /\ Free(p)
          /\ ~Proceeding(p)
          /\ To(p, "failed")
       \/ /\ Returned(p, "point")
          /\ Proceeding(p)
          /\ To(p, "lowered")
    /\ UNCHANGED <<cacheVars, emitted>>

\* The process lowers again, or is replaced by a new one after a crash.
Again(p) ==
    /\ task[p].phase # "waiting"
    /\ \/ task[p].phase \in {"cached", "lowered", "rejected", "failed"} /\ Free(p)
       \/ ~Free(p)
    /\ task' = [task EXCEPT ![p] = Waiting]
    /\ call' = [call EXCEPT ![p] = Idle]
    /\ UNCHANGED <<store, view, index, tampers, emitted>>

Next ==
    \/ \E p \in Procs :
          \/ \E l \in Lowerings : Lower(p, l)
          \/ FollowHint(p) \/ UseManifest(p) \/ RunFrontend(p)
          \/ PublishFile(p) \/ PublishManifest(p) \/ RecordManifest(p)
          \/ Finish(p) \/ Again(p)
          \/ CacheStep(p) /\ UNCHANGED <<task, emitted>>
    \/ Tamper /\ UNCHANGED <<task, emitted>>

Spec == Init /\ [][Next]_vars

-----------------------------------------------------------------------------
\* The shape of the state.
TypeOK ==
    /\ CacheTypeOK
    /\ task \in [Procs -> Task]
    /\ emitted \in [Lowerings -> SUBSET Tree]

\* The manifest "is the certificate that every member above is present, so
\* it must never be reachable before they are": while nobody damages the
\* directory, whoever can read a manifest can read every file it lists,
\* also when its publisher died, failed, or was overtaken by another one.
ManifestCertifies ==
    Undamaged => \A l \in Lowerings, t \in Tree :
        store[ManifestKey(l, t)] # None =>
            \A m \in Members : store[MemberKey(m, t)] = t[m]

\* A lowering answered from the cache is a tree a frontend really produced
\* for that lowering, even when pointers or artifacts were damaged ("a
\* stale index causes a miss, never a wrong tree").
CachedTreeWasEmitted ==
    \A p \in Procs :
        task[p].phase = "cached" => task[p].tree \in emitted[task[p].lowering]

\* Undamaged and without I/O failures, a lowering never fails: races with
\* other processes lowering the same inputs are all absorbed.
RacesNeverFail ==
    [][\A p \in Procs :
         Undamaged /\ task[p].phase # "failed" /\ task'[p].phase = "failed"
             => call[p].res = "io"]_vars
=============================================================================
