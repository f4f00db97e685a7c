------------------------- MODULE LspDocumentsProofs -------------------------
(***************************************************************************)
(* What the language server answers from and shows, for any documents,     *)
(* directories, projects and commands.  The two queues are one sequence to *)
(* the proof: whatever the coalescer sets aside, the text a request was    *)
(* made about is the one the commands before it lead to (Sequenced), and   *)
(* between commands every open document is held, with that text, by the    *)
(* analysis that answers for it, and shown as that analysis sees it        *)
(* (Right).                                                                *)
(***************************************************************************)
EXTENDS LspDocuments, FiniteSetTheorems, WellFoundedInduction, TLAPS

Command ==
    [op : {"open", "change"}, uri : Docs, text : Text \ {0}]
        \cup [op : {"close"}, uri : Docs]
        \cup [op : {"query", "full", "delta"}, uri : Docs, id : Nat, about : Text \ {0},
              previous : Nat]
        \cup [op : {"watched"}]
        \cup [op : {"ready"}, result : {"full", "fallback", "bare"}, owned : SUBSET Under,
              script : Under \cup {None}]

Views == [by : Nat, with : SUBSET Docs, text : Text]

Held == [overlay : [Docs -> Text], mounted : [Docs -> Text],
         shown : [Docs -> Views \cup {None}]]

Slot == [state : {"absent", "loading", "stuck", "ready"}, owned : SUBSET Under,
         script : Under \cup {None}, assembled : Nat]

Types ==
    /\ channel \in Seq(Command) /\ pending \in Seq(Command)
    /\ busy \in [uri : Docs, at : {"draining", "coalescing"}] \cup {None}
    /\ client \in [Docs -> Text] /\ store \in [Docs -> Text]
    /\ inputs \in Text /\ resultId \in Nat
    /\ slot \in Slot
    /\ overlay \in [Docs -> Text] /\ mounted \in [Docs -> Text]
    /\ shown \in [Docs -> Views \cup {None}]
    /\ DOMAIN tokens = Docs
    /\ \A s \in sent : s.id \in Nat

-----------------------------------------------------------------------------
(* The commands on their way to the actor, in the order it serves them.    *)
Queue == pending \o channel

Sets(c, d) == c.op \in {"open", "change", "close"} /\ c.uri = d
TextOf(c)  == IF c.op = "close" THEN 0 ELSE c.text

\* t is the text of d once the commands of q before the k-th are served,
\* for an actor that now holds the text `start`.
AsOf(q, d, k, t, start) ==
    \/ \E j \in DOMAIN q :
          /\ j < k /\ Sets(q[j], d) /\ t = TextOf(q[j])
          /\ \A m \in DOMAIN q : j < m /\ m < k => ~Sets(q[m], d)
    \/ t = start /\ \A m \in DOMAIN q : m < k => ~Sets(q[m], d)

Fits(q, st, k) ==
    /\ q[k].op \in {"query", "full", "delta"} =>
          AsOf(q, q[k].uri, k, q[k].about, st[q[k].uri])
    /\ q[k].op = "change" =>
          \E t \in Text \ {0} : AsOf(q, q[k].uri, k, t, st[q[k].uri])

InOrder(q, st, cl) ==
    /\ \A k \in DOMAIN q : Fits(q, st, k)
    /\ \A d \in Docs : AsOf(q, d, Len(q) + 1, cl[d], st[d])

Sequenced == InOrder(Queue, store, client)

-----------------------------------------------------------------------------
(* The analysis that answers for d holds its text, no other holds it, and  *)
(* the client shows what that analysis says.                               *)
Right(a, s, st, d) ==
    /\ a.mounted[d] = IF d = s.script \/ st[d] = 0 \/ Owns(s, d) THEN 0 ELSE st[d]
    /\ d # s.script /\ Owns(s, d) /\ st[d] # 0 => a.overlay[d] = st[d]
    /\ d # s.script => a.shown[d] = IF st[d] = 0 THEN None ELSE WorkspaceFor(a, s, d)

Routed ==
    /\ \A d \in Docs : (busy # None /\ busy.uri = d) \/ Right(Analyses, slot, store, d)
    /\ busy # None => /\ store[busy.uri] # 0
                      /\ busy.uri = slot.script => mounted[busy.uri] = 0

\* The cached token set of a document is one the client was sent.
Cached ==
    \A d \in Docs : tokens[d] # None =>
        [uri |-> d, id |-> tokens[d].id, data |-> tokens[d].data] \in sent

IInv == Types /\ Sequenced /\ Routed /\ Cached

-----------------------------------------------------------------------------
(* What routing and publishing do to the documents they are not about.     *)

(* An answer is a view of a known shape or none.                           *)
LEMMA WorkspaceForType ==
    ASSUME NEW a \in Held, NEW s \in Slot, NEW d \in Docs
    PROVE  WorkspaceFor(a, s, d) \in Views \cup {None}
<1>1. a.overlay[d] \in Text /\ a.mounted[d] \in Text /\ s.assembled \in Nat
  BY DEF Held, Slot
<1>2. Group(a.mounted, d) \in SUBSET Docs
  BY DEF Group
<1> QED BY <1>1, <1>2 DEF WorkspaceFor, Views

(* Publishing changes what is shown and what answers for nobody.           *)
LEMMA PublishFacts ==
    ASSUME NEW a \in Held, NEW s \in Slot, NEW st \in [Docs -> Text], NEW ds
    PROVE  LET b == Publish(a, s, st, ds)
           IN  /\ b \in Held /\ b.overlay = a.overlay /\ b.mounted = a.mounted
               /\ \A e \in Docs :
                     /\ b.shown[e] = IF e \in ds /\ st[e] # 0 THEN WorkspaceFor(a, s, e)
                                     ELSE a.shown[e]
                     /\ WorkspaceFor(b, s, e) = WorkspaceFor(a, s, e)
<1> DEFINE b == Publish(a, s, st, ds)
           sh == [e \in Docs |-> IF e \in ds /\ st[e] # 0 THEN WorkspaceFor(a, s, e)
                                 ELSE a.shown[e]]
<1>1. b = [a EXCEPT !.shown = sh]
  BY DEF Publish
<1>2. sh \in [Docs -> Views \cup {None}]
  BY WorkspaceForType DEF Held
<1>3. b \in Held /\ b.overlay = a.overlay /\ b.mounted = a.mounted /\ b.shown = sh
  <2> HIDE DEF sh
  <2> QED BY <1>1, <1>2 DEF Held
<1>4. \A e \in Docs : WorkspaceFor(b, s, e) = WorkspaceFor(a, s, e)
  <2> HIDE DEF b, sh
  <2> QED BY <1>3 DEF WorkspaceFor
<1> QED BY <1>3, <1>4

(* A text laid over a file of the project.                                 *)
LEMMA Overlaid ==
    ASSUME NEW a \in Held, NEW t \in Text, NEW d \in Docs
    PROVE  LET o == [a EXCEPT !.overlay[d] = t]
           IN  /\ o \in Held /\ o.mounted = a.mounted /\ o.shown = a.shown
               /\ \A e \in Docs : o.overlay[e] = IF e = d THEN t ELSE a.overlay[e]
BY DEF Held

(* A text mounted in a detached group.                                     *)
LEMMA Mounted ==
    ASSUME NEW a \in Held, NEW t \in Text, NEW d \in Docs
    PROVE  LET m == [a EXCEPT !.mounted[d] = t]
           IN  /\ m \in Held /\ m.overlay = a.overlay /\ m.shown = a.shown
               /\ \A e \in Docs : m.mounted[e] = IF e = d THEN t ELSE a.mounted[e]
BY DEF Held

(* Texts taken out of their groups.                                        *)
LEMMA Unmounted ==
    ASSUME NEW a \in Held, NEW ds
    PROVE  LET l == [a EXCEPT !.mounted = [e \in Docs |-> IF e \in ds THEN 0 ELSE @[e]]]
           IN  /\ l \in Held /\ l.overlay = a.overlay /\ l.shown = a.shown
               /\ \A e \in Docs : l.mounted[e] = IF e \in ds THEN 0 ELSE a.mounted[e]
<1>1. 0 \in Text
  BY DocumentsAssumption DEF Text
<1> QED BY <1>1 DEF Held

(* A document stays right when its texts stay and it is shown what its     *)
(* analysis says, or nothing about it changes.                             *)
LEMMA Steady ==
    ASSUME NEW a, NEW b, NEW s, NEW st, NEW e, Right(a, s, st, e),
           b.overlay[e] = a.overlay[e], b.mounted[e] = a.mounted[e],
           \/ st[e] # 0 /\ b.shown[e] = WorkspaceFor(b, s, e)
           \/ b.shown[e] = a.shown[e] /\ st[e] = 0
           \/ b.shown[e] = a.shown[e] /\ WorkspaceFor(b, s, e) = WorkspaceFor(a, s, e)
    PROVE  Right(b, s, st, e)
BY DEF Right

(* The answer for a document follows from its own texts and its group.     *)
LEMMA SameAnswer ==
    ASSUME NEW a, NEW b, NEW s, NEW e,
           b.overlay[e] = a.overlay[e], b.mounted[e] = a.mounted[e],
           Owns(s, e) \/ a.mounted[e] = 0 \/ Group(b.mounted, e) = Group(a.mounted, e)
    PROVE  WorkspaceFor(b, s, e) = WorkspaceFor(a, s, e)
BY DEF WorkspaceFor

(* Forgetting documents keeps the others right: the survivors of a group   *)
(* that lost a member are published again.                                 *)
LEMMA ForgetFacts ==
    ASSUME NEW a \in Held, NEW s \in Slot, NEW st \in [Docs -> Text], NEW ds
    PROVE  LET b == Forget(a, s, st, ds)
           IN  /\ b \in Held /\ b.overlay = a.overlay
               /\ \A e \in Docs : e \in ds => b.mounted[e] = 0 /\ b.shown[e] = a.shown[e]
               /\ \A e \in Docs : e \notin ds => b.mounted[e] = a.mounted[e]
               /\ \A e \in Docs : e \notin ds /\ Right(a, s, st, e) => Right(b, s, st, e)
<1> DEFINE b == Forget(a, s, st, ds)
           l == [a EXCEPT !.mounted = [e \in Docs |-> IF e \in ds THEN 0 ELSE @[e]]]
           affected == UNION {Group(l.mounted, d) : d \in {e \in ds : a.mounted[e] # 0}}
<1>0. b = Publish(l, s, st, affected)
  BY DEF Forget
<1>1. /\ l \in Held /\ l.overlay = a.overlay /\ l.shown = a.shown
      /\ \A e \in Docs : l.mounted[e] = IF e \in ds THEN 0 ELSE a.mounted[e]
  BY Unmounted
<1> HIDE DEF l
<1>2. /\ b \in Held /\ b.overlay = a.overlay /\ b.mounted = l.mounted
      /\ \A e \in Docs :
            /\ b.shown[e] = IF e \in affected /\ st[e] # 0 THEN WorkspaceFor(l, s, e)
                            ELSE a.shown[e]
            /\ WorkspaceFor(b, s, e) = WorkspaceFor(l, s, e)
  <2> HIDE DEF affected
  <2> QED BY <1>0, <1>1, PublishFacts
<1> HIDE DEF b
<1>3. ASSUME NEW e \in Docs, e \in ds
      PROVE  b.mounted[e] = 0 /\ b.shown[e] = a.shown[e]
  <2>1. l.mounted[e] = 0
    BY <1>1, <1>3
  <2>2. e \notin affected
    BY <2>1 DEF Group
  <2> HIDE DEF affected
  <2> QED BY <1>2, <2>1, <2>2
<1>4. ASSUME NEW e \in Docs, e \notin ds, Right(a, s, st, e)
      PROVE  Right(b, s, st, e)
  <2>1. l.mounted[e] = a.mounted[e] /\ b.mounted[e] = a.mounted[e]
    BY <1>1, <1>2, <1>4
  <2>2. CASE e \in affected
    <3> HIDE DEF affected
    <3>1. st[e] = 0 => b.shown[e] = a.shown[e]
      BY <1>2
    <3>2. st[e] # 0 => b.shown[e] = WorkspaceFor(b, s, e)
      BY <1>2, <2>2
    <3> QED BY <1>2, <1>4, <2>1, <3>1, <3>2, Steady
  <2>3. CASE e \notin affected
    <3>1. b.shown[e] = a.shown[e]
      <4> HIDE DEF affected
      <4> QED BY <1>2, <2>3
    <3>2. CASE a.mounted[e] = 0
      BY <1>2, <1>4, <2>1, <3>1, <3>2, SameAnswer, Steady
    <3>3. CASE a.mounted[e] # 0
      <4>1. ASSUME NEW d \in Docs, d \in ds, Dir[d] = Dir[e] PROVE a.mounted[d] = 0
        BY <2>1, <2>3, <3>3, <4>1 DEF Group
      <4>2. Group(b.mounted, e) = Group(a.mounted, e)
        <5> HIDE DEF affected
        <5>1. b.mounted = l.mounted
          BY <1>2
        <5> QED BY <1>1, <4>1, <5>1 DEF Group
      <4> HIDE DEF affected
      <4> QED BY <1>2, <1>4, <2>1, <3>1, <4>2, SameAnswer, Steady
    <3> QED BY <3>2, <3>3
  <2> QED BY <2>2, <2>3
<1>5. \A e \in Docs : e \notin ds => b.mounted[e] = a.mounted[e]
  <2> HIDE DEF affected
  <2> QED BY <1>1, <1>2
<1> QED BY <1>2, <1>3, <1>4, <1>5 DEF b

(* Mounting a document keeps the others right: its siblings are published  *)
(* again when it is new to them.                                           *)
LEMMA MountFacts ==
    ASSUME NEW a \in Held, NEW s \in Slot, NEW st \in [Docs -> Text], NEW d \in Docs,
           st[d] # 0
    PROVE  LET b == Mount(a, s, st, d)
           IN  /\ b \in Held /\ b.overlay = a.overlay
               /\ \A e \in Docs : b.mounted[e] = IF e = d THEN st[d] ELSE a.mounted[e]
               /\ \A e \in Docs : e # d /\ Right(a, s, st, e) => Right(b, s, st, e)
<1> DEFINE b == Mount(a, s, st, d)
           h == [a EXCEPT !.mounted[d] = st[d]]
           affected == Group(h.mounted, d) \ {d}
<1>0. b = IF a.mounted[d] # 0 THEN h ELSE Publish(h, s, st, affected)
  BY DEF Mount
<1>1. /\ h \in Held /\ h.overlay = a.overlay /\ h.shown = a.shown
      /\ \A e \in Docs : h.mounted[e] = IF e = d THEN st[d] ELSE a.mounted[e]
  <2>1. st[d] \in Text
    OBVIOUS
  <2> QED BY <2>1, Mounted
<1> HIDE DEF h
<1>2. /\ b \in Held /\ b.overlay = a.overlay /\ b.mounted = h.mounted
      /\ \A e \in Docs :
            /\ b.shown[e] = IF a.mounted[d] = 0 /\ e \in affected /\ st[e] # 0
                            THEN WorkspaceFor(h, s, e) ELSE a.shown[e]
            /\ WorkspaceFor(b, s, e) = WorkspaceFor(h, s, e)
  <2> HIDE DEF affected
  <2>1. CASE a.mounted[d] # 0
    BY <1>0, <1>1, <2>1
  <2>2. CASE a.mounted[d] = 0
    <3>1. b = Publish(h, s, st, affected)
      BY <1>0, <2>2
    <3> HIDE DEF b
    <3> QED BY <1>1, <2>2, <3>1, PublishFacts
  <2> QED BY <2>1, <2>2
<1> HIDE DEF b
<1>4. ASSUME NEW e \in Docs, e # d, Right(a, s, st, e)
      PROVE  Right(b, s, st, e)
  <2>1. h.mounted[e] = a.mounted[e] /\ b.mounted[e] = a.mounted[e]
    BY <1>1, <1>2, <1>4
  <2>2. CASE e \in affected /\ a.mounted[d] = 0
    <3> HIDE DEF affected
    <3>1. st[e] = 0 => b.shown[e] = a.shown[e]
      BY <1>2
    <3>2. st[e] # 0 => b.shown[e] = WorkspaceFor(b, s, e)
      BY <1>2, <2>2
    <3> QED BY <1>2, <1>4, <2>1, <3>1, <3>2, Steady
  <2>3. CASE ~(e \in affected /\ a.mounted[d] = 0)
    <3>1. b.shown[e] = a.shown[e]
      <4> HIDE DEF affected
      <4> QED BY <1>2, <2>3
    <3>2. CASE a.mounted[e] = 0
      BY <1>2, <1>4, <2>1, <3>1, <3>2, SameAnswer, Steady
    <3>3. CASE a.mounted[e] # 0
      <4>1. Dir[d] = Dir[e] => a.mounted[d] # 0
        BY <1>4, <2>1, <2>3, <3>3 DEF Group
      <4>2. Group(b.mounted, e) = Group(a.mounted, e)
        <5> HIDE DEF affected
        <5>1. b.mounted = h.mounted
          BY <1>2
        <5> QED BY <1>1, <4>1, <5>1 DEF Group
      <4> HIDE DEF affected
      <4> QED BY <1>2, <1>4, <2>1, <3>1, <4>2, SameAnswer, Steady
    <3> QED BY <3>2, <3>3
  <2> QED BY <2>2, <2>3
<1> HIDE DEF affected
<1> QED BY <1>1, <1>2, <1>4 DEF b

(* Refreshing an open document makes it right and keeps the others so.     *)
LEMMA RefreshFacts ==
    ASSUME NEW a \in Held, NEW s \in Slot, NEW st \in [Docs -> Text], NEW d \in Docs
    PROVE  LET b == RefreshAndPublish(a, s, st, d)
           IN  /\ b \in Held
               /\ \A e \in Docs : e # d /\ Right(a, s, st, e) => Right(b, s, st, e)
               /\ d # s.script /\ st[d] # 0 => Right(b, s, st, d)
               /\ Right(a, s, st, d) => Right(b, s, st, d)
<1> DEFINE b == RefreshAndPublish(a, s, st, d)
           r == RouteDocument(a, s, st, d)
<1>1. CASE d = s.script \/ st[d] = 0
  <2>1. b = a
    BY <1>1 DEF RefreshAndPublish
  <2> QED BY <1>1, <2>1
<1>2. CASE d # s.script /\ st[d] # 0
  <2>1. b = Publish(r, s, st, {d})
    BY <1>2 DEF RefreshAndPublish
  <2>2. /\ r \in Held
        /\ \A e \in Docs : e # d /\ Right(a, s, st, e) => Right(r, s, st, e)
        /\ Owns(s, d) => r.overlay[d] = st[d] /\ r.mounted[d] = 0
        /\ ~Owns(s, d) => r.mounted[d] = st[d]
    <3>1. CASE Owns(s, d)
      <4> DEFINE o == [a EXCEPT !.overlay[d] = st[d]]
      <4>1. r = Forget(o, s, st, {d})
        BY <3>1 DEF RouteDocument
      <4>2. /\ o \in Held /\ o.mounted = a.mounted /\ o.shown = a.shown
            /\ \A e \in Docs : o.overlay[e] = IF e = d THEN st[d] ELSE a.overlay[e]
        <5>1. st[d] \in Text
          OBVIOUS
        <5> QED BY <5>1, Overlaid
      <4> HIDE DEF o
      <4>3. ASSUME NEW e \in Docs, e # d, Right(a, s, st, e) PROVE Right(o, s, st, e)
        <5>1. o.overlay[e] = a.overlay[e]
          BY <4>2, <4>3
        <5>2. WorkspaceFor(o, s, e) = WorkspaceFor(a, s, e)
          BY <4>2, <5>1, SameAnswer
        <5> QED BY <4>2, <4>3, <5>1, <5>2, Steady
      <4> HIDE DEF r
      <4>4. /\ r \in Held /\ r.overlay = o.overlay /\ r.mounted[d] = 0
            /\ \A e \in Docs : e # d /\ Right(o, s, st, e) => Right(r, s, st, e)
        BY <4>1, <4>2, ForgetFacts
      <4> QED BY <3>1, <4>2, <4>3, <4>4
    <3>2. CASE ~Owns(s, d)
      <4>1. r = Mount(a, s, st, d)
        BY <3>2 DEF RouteDocument
      <4> HIDE DEF r
      <4> QED BY <1>2, <3>2, <4>1, MountFacts
    <3> QED BY <3>1, <3>2
  <2> HIDE DEF r, b
  <2>3. /\ b \in Held /\ b.overlay = r.overlay /\ b.mounted = r.mounted
        /\ \A e \in Docs :
              /\ b.shown[e] = IF e \in {d} /\ st[e] # 0 THEN WorkspaceFor(r, s, e)
                              ELSE r.shown[e]
              /\ WorkspaceFor(b, s, e) = WorkspaceFor(r, s, e)
    BY <2>1, <2>2, PublishFacts
  <2>4. ASSUME NEW e \in Docs, e # d, Right(a, s, st, e) PROVE Right(b, s, st, e)
    <3>1. b.shown[e] = r.shown[e]
      BY <2>3, <2>4
    <3>2. Right(r, s, st, e)
      BY <2>2, <2>4
    <3> QED BY <2>3, <3>1, <3>2, Steady
  <2>5. Right(b, s, st, d)
    <3>1. b.shown[d] = WorkspaceFor(b, s, d)
      BY <1>2, <2>3
    <3> QED BY <1>2, <2>2, <2>3, <3>1 DEF Right
  <2> QED BY <2>3, <2>4, <2>5 DEF b
<1> QED BY <1>1, <1>2

-----------------------------------------------------------------------------
(* Refreshing document after document.                                     *)

(* A non-empty set of numbers has a least element.                         *)
LEMMA LeastNat ==
    ASSUME NEW T \in SUBSET Nat, T # {}
    PROVE  \E x \in T : \A y \in T : x <= y
<1>1. PICK x \in T : \A y \in T : <<y, x>> \notin OpToRel(<, Nat)
  BY NatLessThanWellFounded, WFMin
<1>2. \A y \in T : ~(y < x)
  BY <1>1 DEF OpToRel
<1> QED BY <1>2

\* The fold of RefreshAll: what the documents of T leave behind, given what
\* those but one do.
Walk(g, a, s, st, T) ==
    IF T = {} THEN a
    ELSE LET x == CHOOSE x \in T : TRUE
         IN  RefreshAndPublish(g[T \ {x}], s, st, x)

IsWalk(g, a, s, st, ds) == g = [T \in SUBSET ds |-> Walk(g, a, s, st, T)]

(* A document less: the walk that is left is shorter.                      *)
LEMMA Shorter ==
    ASSUME NEW ds, IsFiniteSet(ds), NEW T \in SUBSET ds, T # {}
    PROVE  LET x == CHOOSE x \in T : TRUE
           IN  /\ x \in T /\ T \ {x} \in SUBSET ds
               /\ Cardinality(T) \in Nat /\ Cardinality(T \ {x}) \in Nat
               /\ Cardinality(T) # 0
               /\ Cardinality(T \ {x}) = Cardinality(T) - 1
<1> DEFINE x == CHOOSE x \in T : TRUE
<1>1. x \in T
  OBVIOUS
<1> HIDE DEF x
<1>2. IsFiniteSet(T) /\ IsFiniteSet(T \ {x})
  BY FS_Subset, FS_RemoveElement
<1>3. Cardinality(T) \in Nat /\ Cardinality(T \ {x}) \in Nat
  BY <1>2, FS_CardinalityType
<1>4. Cardinality(T \ {x}) = Cardinality(T) - 1
  BY <1>1, <1>2, FS_RemoveElement
<1>5. Cardinality(T) # 0
  BY <1>2, FS_EmptySet
<1> QED BY <1>1, <1>3, <1>4, <1>5 DEF x

(* The recursion of the fold defines a function on every finite set.       *)
LEMMA WalkExists ==
    ASSUME NEW a, NEW s, NEW st, NEW ds, IsFiniteSet(ds)
    PROVE  \E g : IsWalk(g, a, s, st, ds)
<1> DEFINE Upto(g, k) == \A T \in SUBSET ds : Cardinality(T) <= k => g[T] = Walk(g, a, s, st, T)
           E(k) == \E h : h = [T \in SUBSET ds |-> h[T]] /\ Upto(h, k)
           B == {k \in Nat : ~E(k)}
<1>0. \A T \in SUBSET ds : Cardinality(T) \in Nat
  BY FS_Subset, FS_CardinalityType
<1>1. B = {}
  <2>1. SUFFICES ASSUME B # {} PROVE FALSE
    OBVIOUS
  <2>2. PICK k \in B : \A y \in B : k <= y
    <3> HIDE DEF E
    <3> QED BY <2>1, LeastNat
  <2>3. k \in Nat /\ ~E(k)
    OBVIOUS
  <2>4. k # 0
    <3>1. SUFFICES ASSUME k = 0 PROVE E(0)
      BY <2>3
    <3> DEFINE h == [T \in SUBSET ds |-> a]
    <3>2. h = [T \in SUBSET ds |-> h[T]]
      OBVIOUS
    <3>3. ASSUME NEW T \in SUBSET ds, Cardinality(T) <= 0 PROVE h[T] = Walk(h, a, s, st, T)
      <4>1. T = {}
        BY <1>0, <3>3, FS_Subset, FS_EmptySet
      <4> QED BY <4>1 DEF Walk
    <3> HIDE DEF h
    <3> QED BY <3>2, <3>3
  <2>5. k - 1 \in Nat /\ k - 1 \notin B
    <3> HIDE DEF B, E
    <3> QED BY <2>2, <2>3, <2>4
  <2>6. PICK h : h = [T \in SUBSET ds |-> h[T]] /\ Upto(h, k - 1)
    BY <2>5
  <2> DEFINE g == [T \in SUBSET ds |-> IF Cardinality(T) = k THEN Walk(h, a, s, st, T) ELSE h[T]]
  <2>7. g = [T \in SUBSET ds |-> g[T]]
    OBVIOUS
  <2>8. ASSUME NEW T \in SUBSET ds, Cardinality(T) <= k PROVE g[T] = Walk(g, a, s, st, T)
    <3>1. g[T] = Walk(h, a, s, st, T)
      <4>1. CASE Cardinality(T) = k
        BY <4>1
      <4>2. CASE Cardinality(T) # k
        <5>1. Cardinality(T) <= k - 1
          BY <1>0, <2>3, <2>8, <4>2
        <5> QED BY <2>6, <4>2, <5>1
      <4> QED BY <4>1, <4>2
    <3>2. Walk(g, a, s, st, T) = Walk(h, a, s, st, T)
      <4>1. CASE T = {}
        BY <4>1 DEF Walk
      <4>2. CASE T # {}
        <5> DEFINE x == CHOOSE x \in T : TRUE
        <5>1. T \ {x} \in SUBSET ds /\ Cardinality(T \ {x}) # k
          <6>1. /\ T \ {x} \in SUBSET ds /\ Cardinality(T) \in Nat
                /\ Cardinality(T \ {x}) = Cardinality(T) - 1
            BY <4>2, Shorter
          <6> HIDE DEF x
          <6> QED BY <2>3, <2>8, <6>1
        <5>2. g[T \ {x}] = h[T \ {x}]
          <6> HIDE DEF x
          <6> QED BY <5>1
        <5> HIDE DEF g
        <5> QED BY <4>2, <5>2, Zenon DEF Walk
      <4> QED BY <4>1, <4>2
    <3> HIDE DEF g
    <3> QED BY <3>1, <3>2
  <2>9. E(k)
    <3> HIDE DEF g
    <3> QED BY <2>7, <2>8
  <2> QED BY <2>3, <2>9
<1>2. Cardinality(ds) \in Nat /\ E(Cardinality(ds))
  <2>1. Cardinality(ds) \in Nat
    BY <1>0
  <2> HIDE DEF E
  <2> QED BY <1>1, <2>1
<1>3. PICK h : h = [T \in SUBSET ds |-> h[T]] /\ Upto(h, Cardinality(ds))
  BY <1>2
<1>4. \A T \in SUBSET ds : Cardinality(T) <= Cardinality(ds)
  BY FS_Subset
<1>5. \A T \in SUBSET ds : h[T] = Walk(h, a, s, st, T)
  BY <1>3, <1>4
<1>6. h = [T \in SUBSET ds |-> Walk(h, a, s, st, T)]
  BY <1>3, <1>5
<1> QED BY <1>6, Zenon DEF IsWalk

(* RefreshAll is the end of such a walk.                                   *)
LEMMA RefreshAllWalks ==
    ASSUME NEW a, NEW s, NEW st, NEW ds, IsFiniteSet(ds)
    PROVE  \E g : IsWalk(g, a, s, st, ds) /\ RefreshAll(a, s, st, ds) = g[ds]
<1> DEFINE it == CHOOSE g : IsWalk(g, a, s, st, ds)
<1>1. IsWalk(it, a, s, st, ds)
  <2>1. \E g : IsWalk(g, a, s, st, ds)
    BY WalkExists
  <2> QED BY <2>1, Zenon
<1>2. RefreshAll(a, s, st, ds) = it[ds]
  BY Zenon DEF RefreshAll, FoldSet, MapThenFoldSet, IsWalk, Walk
<1> QED BY <1>1, <1>2, Zenon

(* Refreshing documents keeps what is right and makes the open ones so.    *)
LEMMA RefreshAllFacts ==
    ASSUME NEW a \in Held, NEW s \in Slot, NEW st \in [Docs -> Text], NEW ds \in SUBSET Docs
    PROVE  LET b == RefreshAll(a, s, st, ds)
           IN  /\ b \in Held
               /\ \A e \in Docs : Right(a, s, st, e) => Right(b, s, st, e)
               /\ \A e \in ds : e # s.script /\ st[e] # 0 => Right(b, s, st, e)
<1>0. IsFiniteSet(ds)
  BY DocumentsAssumption, FS_Subset
<1>1. PICK g : IsWalk(g, a, s, st, ds) /\ RefreshAll(a, s, st, ds) = g[ds]
  BY <1>0, RefreshAllWalks, Zenon
<1>2. \A T \in SUBSET ds : g[T] = Walk(g, a, s, st, T)
  BY <1>1, Zenon DEF IsWalk
<1> DEFINE Fine(b, T) ==
              /\ b \in Held
              /\ \A e \in Docs : Right(a, s, st, e) => Right(b, s, st, e)
              /\ \A e \in T : e # s.script /\ st[e] # 0 => Right(b, s, st, e)
           B == {n \in Nat : \E T \in SUBSET ds : Cardinality(T) = n /\ ~Fine(g[T], T)}
<1>3. B = {}
  <2>1. SUFFICES ASSUME B # {} PROVE FALSE
    OBVIOUS
  <2>2. PICK n \in B : \A y \in B : n <= y
    <3> HIDE DEF Fine
    <3> QED BY <2>1, LeastNat
  <2>3. PICK T \in SUBSET ds : Cardinality(T) = n /\ ~Fine(g[T], T)
    <3> HIDE DEF Fine
    <3> QED BY <2>2
  <2>4. T # {}
    <3>1. SUFFICES ASSUME T = {} PROVE Fine(g[T], T)
      BY <2>3
    <3>2. g[T] = a
      BY <1>2, <3>1 DEF Walk
    <3> QED BY <3>1, <3>2
  <2> DEFINE x == CHOOSE x \in T : TRUE
             R == T \ {x}
  <2>5. /\ x \in T /\ R \in SUBSET ds /\ Cardinality(R) \in Nat /\ n \in Nat
        /\ Cardinality(R) = n - 1
    BY <1>0, <2>3, <2>4, Shorter
  <2>6. g[T] = RefreshAndPublish(g[R], s, st, x)
    BY <1>2, <2>4, Zenon DEF Walk
  <2> HIDE DEF x, R
  <2>7. Fine(g[R], R)
    <3>1. Cardinality(R) \notin B
      <4> HIDE DEF B
      <4> QED BY <2>2, <2>5
    <3> HIDE DEF Fine
    <3> QED BY <2>5, <3>1
  <2>8. Fine(g[T], T)
    <3>1. x \in Docs
      BY <2>5
    <3>2. /\ g[T] \in Held
          /\ \A e \in Docs : e # x /\ Right(g[R], s, st, e) => Right(g[T], s, st, e)
          /\ x # s.script /\ st[x] # 0 => Right(g[T], s, st, x)
          /\ Right(g[R], s, st, x) => Right(g[T], s, st, x)
      BY <2>6, <2>7, <3>1, RefreshFacts
    <3>3. T = R \cup {x}
      BY <2>5 DEF R
    <3> QED BY <2>7, <3>2, <3>3
  <2> QED BY <2>3, <2>8
<1>4. Fine(g[ds], ds)
  <2>1. Cardinality(ds) \in Nat /\ Cardinality(ds) \notin B
    BY <1>0, <1>3, FS_CardinalityType
  <2> HIDE DEF Fine
  <2> QED BY <2>1
<1> QED BY <1>1, <1>4

-----------------------------------------------------------------------------
(* The commands on their way.                                              *)

(* The texts a command names.                                              *)
LEMMA CommandFacts ==
    ASSUME NEW c \in Command
    PROVE  /\ c.op \in {"open", "change", "close", "query", "full", "delta", "watched", "ready"}
           /\ c.op \in {"open", "change"} => c.uri \in Docs /\ c.text \in Text \ {0}
           /\ c.op = "close" => c.uri \in Docs
           /\ c.op \in {"query", "full", "delta"} => c.uri \in Docs /\ c.about \in Text \ {0}
           /\ c.op = "ready" => c.owned \in SUBSET Under /\ c.script \in Under \cup {None}
BY DEF Command

(* The text before a command does not depend on what follows it.           *)
LEMMA AppendAsOf ==
    ASSUME NEW q \in Seq(Command), NEW c \in Command, NEW d, NEW k \in Nat, NEW t, NEW start,
           k <= Len(q) + 1
    PROVE  AsOf(Append(q, c), d, k, t, start) <=> AsOf(q, d, k, t, start)
<1> DEFINE r == Append(q, c)
<1>1. Len(q) \in Nat /\ DOMAIN q = 1 .. Len(q)
  OBVIOUS
<1>2. /\ DOMAIN r = 1 .. (Len(q) + 1)
      /\ \A n \in DOMAIN q : n \in DOMAIN r /\ r[n] = q[n]
  BY <1>1
<1>3. \A n \in DOMAIN r : n < k => n \in DOMAIN q
  BY <1>1, <1>2
<1> HIDE DEF r
<1>4. ASSUME AsOf(r, d, k, t, start) PROVE AsOf(q, d, k, t, start)
  BY <1>2, <1>3, <1>4 DEF AsOf
<1>5. ASSUME AsOf(q, d, k, t, start) PROVE AsOf(r, d, k, t, start)
  BY <1>2, <1>3, <1>5 DEF AsOf
<1> QED BY <1>4, <1>5 DEF r

(* A command that is put at the end and made for the client's text.        *)
LEMMA SentInOrder ==
    ASSUME NEW q \in Seq(Command), NEW c \in Command, NEW st, NEW cl, NEW cl2,
           InOrder(q, st, cl),
           c.op \in {"query", "full", "delta"} => c.about = cl[c.uri],
           c.op = "change" => cl[c.uri] \in Text \ {0},
           \A d \in Docs : cl2[d] = IF Sets(c, d) THEN TextOf(c) ELSE cl[d]
    PROVE  InOrder(Append(q, c), st, cl2)
<1> DEFINE r == Append(q, c)
<1>1. Len(q) \in Nat /\ DOMAIN q = 1 .. Len(q)
  OBVIOUS
<1>2. /\ Len(r) = Len(q) + 1 /\ DOMAIN r = 1 .. (Len(q) + 1)
      /\ \A n \in DOMAIN q : r[n] = q[n]
      /\ r[Len(q) + 1] = c
  BY <1>1
<1>3. \A k \in Nat : \A d, t, start : k <= Len(q) + 1 =>
         (AsOf(r, d, k, t, start) <=> AsOf(q, d, k, t, start))
  BY AppendAsOf
<1> HIDE DEF r
<1>4. ASSUME NEW k \in DOMAIN r PROVE Fits(r, st, k)
  <2>0. k \in Nat /\ k <= Len(q) + 1
    BY <1>1, <1>2
  <2>1. CASE k \in DOMAIN q
    <3>1. Fits(q, st, k) /\ r[k] = q[k]
      BY <1>2, <2>1 DEF InOrder
    <3> QED BY <1>3, <2>0, <3>1 DEF Fits
  <2>2. CASE k = Len(q) + 1
    <3>1. \A d \in Docs : AsOf(q, d, k, cl[d], st[d])
      BY <2>2 DEF InOrder
    <3>2. r[k] = c
      BY <1>2, <2>2
    <3>3. c.op \in {"query", "full", "delta", "change"} => c.uri \in Docs
      BY CommandFacts
    <3>4. c.op \in {"query", "full", "delta"} => AsOf(r, c.uri, k, c.about, st[c.uri])
      BY <1>3, <2>0, <3>1, <3>3
    <3>5. c.op = "change" => \E t \in Text \ {0} : AsOf(r, c.uri, k, t, st[c.uri])
      BY <1>3, <2>0, <3>1, <3>3
    <3> QED BY <3>2, <3>4, <3>5 DEF Fits
  <2> QED BY <1>1, <1>2, <2>1, <2>2
<1>5. ASSUME NEW d \in Docs PROVE AsOf(r, d, Len(r) + 1, cl2[d], st[d])
  <2>1. CASE Sets(c, d)
    <3> DEFINE j == Len(q) + 1
    <3>1. j \in DOMAIN r /\ j < Len(r) + 1 /\ Sets(r[j], d) /\ cl2[d] = TextOf(r[j])
      BY <1>1, <1>2, <2>1
    <3>2. \A m \in DOMAIN r : ~(j < m /\ m < Len(r) + 1)
      BY <1>1, <1>2
    <3> HIDE DEF j
    <3> QED BY <3>1, <3>2 DEF AsOf
  <2>2. CASE ~Sets(c, d)
    <3>1. AsOf(q, d, Len(q) + 1, cl[d], st[d]) /\ cl2[d] = cl[d]
      BY <2>2 DEF InOrder
    <3>2. AsOf(r, d, Len(q) + 1, cl2[d], st[d])
      BY <1>1, <1>3, <3>1
    <3>3. \A m \in DOMAIN r : m < Len(r) + 1 => m < Len(q) + 1 \/ ~Sets(r[m], d)
      BY <1>1, <1>2, <2>2
    <3>4. \A m \in DOMAIN r : m < Len(q) + 1 => m < Len(r) + 1
      BY <1>1, <1>2
    <3> QED BY <3>2, <3>3, <3>4 DEF AsOf
  <2> QED BY <2>1, <2>2
<1> QED BY <1>4, <1>5 DEF InOrder, r

(* The first command has no other before it.                               *)
LEMMA FirstAsOf ==
    ASSUME NEW q \in Seq(Command), NEW d, NEW t, NEW start, AsOf(q, d, 1, t, start)
    PROVE  t = start
<1>1. \A j \in DOMAIN q : ~(j < 1)
  OBVIOUS
<1> QED BY <1>1 DEF AsOf

(* Serving the first command keeps the texts before the others.            *)
LEMMA TailAsOf ==
    ASSUME NEW q \in Seq(Command), q # <<>>, NEW d, NEW k \in Nat, k # 0, NEW t,
           NEW start, NEW start2, AsOf(q, d, k + 1, t, start),
           start2 = IF Sets(q[1], d) THEN TextOf(q[1]) ELSE start
    PROVE  AsOf(Tail(q), d, k, t, start2)
<1> DEFINE r == Tail(q)
<1>1. Len(q) \in Nat /\ DOMAIN q = 1 .. Len(q) /\ Len(q) # 0
  OBVIOUS
<1>2. DOMAIN r = 1 .. (Len(q) - 1) /\ \A n \in DOMAIN r : r[n] = q[n + 1]
  BY <1>1
<1>3. \A n \in DOMAIN r : n \in Nat /\ n + 1 \in DOMAIN q /\ (n < k <=> n + 1 < k + 1) /\ 1 < n + 1
  BY <1>1, <1>2
<1> HIDE DEF r
<1>4. CASE t = start /\ \A m \in DOMAIN q : m < k + 1 => ~Sets(q[m], d)
  <2>1. 1 \in DOMAIN q /\ 1 < k + 1
    BY <1>1
  <2>2. start2 = start
    BY <1>4, <2>1
  <2>3. \A m \in DOMAIN r : m < k => ~Sets(r[m], d)
    BY <1>2, <1>3, <1>4
  <2> QED BY <1>4, <2>2, <2>3 DEF AsOf, r
<1>5. ASSUME NEW j \in DOMAIN q, j < k + 1, Sets(q[j], d), t = TextOf(q[j]),
             \A m \in DOMAIN q : j < m /\ m < k + 1 => ~Sets(q[m], d)
      PROVE  AsOf(Tail(q), d, k, t, start2)
  <2>1. CASE j = 1
    <3>1. \A m \in DOMAIN r : m < k => ~Sets(r[m], d)
      BY <1>2, <1>3, <1>5, <2>1
    <3>2. t = start2
      BY <1>5, <2>1
    <3> QED BY <3>1, <3>2 DEF AsOf, r
  <2>2. CASE j # 1
    <3>1. j - 1 \in DOMAIN r /\ (j - 1) + 1 = j /\ j - 1 < k
      BY <1>1, <1>2, <1>5, <2>2
    <3>2. r[j - 1] = q[j]
      BY <1>2, <3>1
    <3>3. \A m \in DOMAIN r : j - 1 < m <=> j < m + 1
      BY <1>1, <1>2
    <3>4. \A m \in DOMAIN r : j - 1 < m /\ m < k => ~Sets(r[m], d)
      BY <1>2, <1>3, <1>5, <3>3
    <3> QED BY <1>5, <3>1, <3>2, <3>4 DEF AsOf, r
  <2> QED BY <2>1, <2>2
<1> QED BY <1>4, <1>5 DEF AsOf

(* The actor serves the first command.                                     *)
LEMMA ServedInOrder ==
    ASSUME NEW q \in Seq(Command), q # <<>>, NEW st, NEW st2, NEW cl, InOrder(q, st, cl),
           \A d \in Docs : st2[d] = IF Sets(q[1], d) THEN TextOf(q[1]) ELSE st[d]
    PROVE  InOrder(Tail(q), st2, cl)
<1> DEFINE r == Tail(q)
<1>1. Len(q) \in Nat /\ DOMAIN q = 1 .. Len(q) /\ Len(q) # 0
  OBVIOUS
<1>2. /\ Len(r) = Len(q) - 1 /\ DOMAIN r = 1 .. (Len(q) - 1)
      /\ \A n \in DOMAIN r : r[n] = q[n + 1]
  BY <1>1
<1>3. \A k \in Nat : \A d \in Docs : \A t : k # 0 /\ AsOf(q, d, k + 1, t, st[d]) => AsOf(r, d, k, t, st2[d])
  BY TailAsOf
<1> HIDE DEF r
<1>4. ASSUME NEW k \in DOMAIN r PROVE Fits(r, st2, k)
  <2>1. k \in Nat /\ k # 0 /\ k + 1 \in DOMAIN q /\ r[k] = q[k + 1] /\ q[k + 1] \in Command
    BY <1>1, <1>2
  <2>2. Fits(q, st, k + 1)
    BY <2>1 DEF InOrder
  <2>3. r[k].op \in {"query", "full", "delta", "change"} => r[k].uri \in Docs
    BY <2>1, CommandFacts
  <2>4. r[k].op \in {"query", "full", "delta"} => AsOf(r, r[k].uri, k, r[k].about, st2[r[k].uri])
    BY <1>3, <2>1, <2>2, <2>3 DEF Fits
  <2>5. r[k].op = "change" => \E t \in Text \ {0} : AsOf(r, r[k].uri, k, t, st2[r[k].uri])
    BY <1>3, <2>1, <2>2, <2>3 DEF Fits
  <2> QED BY <2>4, <2>5 DEF Fits
<1>5. ASSUME NEW d \in Docs PROVE AsOf(r, d, Len(r) + 1, cl[d], st2[d])
  <2>1. Len(r) + 1 \in Nat /\ Len(r) + 1 # 0 /\ (Len(r) + 1) + 1 = Len(q) + 1
    BY <1>1, <1>2
  <2>2. AsOf(q, d, Len(q) + 1, cl[d], st[d])
    BY DEF InOrder
  <2> QED BY <1>3, <2>1, <2>2
<1> QED BY <1>4, <1>5 DEF InOrder, r

(* The two queues are read as one: its end is the channel's end ...        *)
LEMMA AppendQueue ==
    ASSUME NEW S, NEW p \in Seq(S), NEW q \in Seq(S), NEW c \in S
    PROVE  p \o Append(q, c) = Append(p \o q, c)
<1>1. <<c>> \in Seq(S)
  OBVIOUS
<1>2. Append(q, c) = q \o <<c>> /\ Append(p \o q, c) = (p \o q) \o <<c>>
  OBVIOUS
<1> QED BY <1>1, <1>2

(* ... and its head that of the set-aside commands, if there are any.      *)
LEMMA TailQueue ==
    ASSUME NEW S, NEW p \in Seq(S), NEW q \in Seq(S), p \o q # <<>>
    PROVE  /\ p \o q \in Seq(S) /\ Head(p \o q) = (p \o q)[1] /\ (p \o q)[1] \in S
           /\ p # <<>> => /\ Tail(p) \in Seq(S) /\ Head(p) = (p \o q)[1]
                          /\ Tail(p) \o q = Tail(p \o q)
           /\ p = <<>> => Tail(q) \in Seq(S) /\ p \o Tail(q) = Tail(p \o q)
<1>1. p \o q \in Seq(S) /\ Head(p \o q) = (p \o q)[1] /\ (p \o q)[1] \in S
  OBVIOUS
<1>2. CASE p # <<>>
  <2>1. Tail(p) \in Seq(S) /\ Head(p) = (p \o q)[1]
    BY <1>2
  <2>2. Len(Tail(p) \o q) = Len(Tail(p \o q))
    BY <1>2
  <2>3. \A i \in 1 .. Len(Tail(p \o q)) : (Tail(p) \o q)[i] = Tail(p \o q)[i]
    BY <1>2
  <2> QED BY <1>1, <1>2, <2>1, <2>2, <2>3
<1>3. CASE p = <<>>
  <2>1. p \o q = q /\ q # <<>>
    BY <1>3
  <2>2. Tail(q) \in Seq(S)
    BY <2>1
  <2>3. p \o Tail(q) = Tail(q)
    BY <1>3, <2>2
  <2> QED BY <1>1, <1>3, <2>1, <2>2, <2>3
<1> QED BY <1>2, <1>3

(* What a step takes is the first of the commands on their way.            *)
LEMMA TakenFacts ==
    ASSUME Types, NEW op, Taken(op)
    PROVE  /\ busy = None /\ Next1 = Queue[1] /\ Next1 \in Command /\ Next1.op = op
           /\ Queue # <<>> /\ Queue \in Seq(Command) /\ Queue' = Tail(Queue)
           /\ channel' \in Seq(Command) /\ pending' \in Seq(Command)
           /\ client' = client /\ inputs' = inputs
<1>1. /\ busy = None /\ Next1.op = op /\ Queue # <<>>
      /\ pending' = IF pending # <<>> THEN Tail(pending) ELSE pending
      /\ channel' = IF pending # <<>> THEN channel ELSE Tail(channel)
      /\ client' = client /\ inputs' = inputs
  BY DEF Taken, Queue
<1>2. pending \in Seq(Command) /\ channel \in Seq(Command)
  BY DEF Types
<1>3. CASE pending # <<>>
  BY <1>1, <1>2, <1>3, TailQueue DEF Queue, Next1
<1>4. CASE pending = <<>>
  BY <1>1, <1>2, <1>4, TailQueue DEF Queue, Next1
<1> QED BY <1>3, <1>4

(* The first command finds the text it was made for.                       *)
LEMMA HeadFits ==
    ASSUME IInv, Queue # <<>>, Queue \in Seq(Command)
    PROVE  LET c == Queue[1]
           IN  /\ c.op \in {"query", "full", "delta"} => c.about = store[c.uri]
               /\ c.op = "change" => store[c.uri] \in Text \ {0}
<1>1. 1 \in DOMAIN Queue
  OBVIOUS
<1>2. Fits(Queue, store, 1)
  BY <1>1 DEF IInv, Sequenced, InOrder
<1> QED BY <1>2, FirstAsOf DEF Fits

(* Serving a command as it says keeps the rest in order.                   *)
LEMMA ServedSequenced ==
    ASSUME IInv, NEW op, Taken(op),
           \A d \in Docs : store'[d] = IF Sets(Queue[1], d) THEN TextOf(Queue[1]) ELSE store[d]
    PROVE  Sequenced'
<1>1. /\ Queue # <<>> /\ Queue \in Seq(Command) /\ Queue' = Tail(Queue) /\ client' = client
  BY TakenFacts DEF IInv
<1>2. InOrder(Queue, store, client)
  BY DEF IInv, Sequenced
<1>3. InOrder(Tail(Queue), store', client)
  BY <1>1, <1>2, ServedInOrder
<1> QED BY <1>1, <1>3 DEF Sequenced

(* The record of the analyses is what a step makes it.                     *)
LEMMA BecomeFacts ==
    ASSUME NEW a \in Held, Become(a)
    PROVE  /\ Analyses' = a
           /\ overlay' \in [Docs -> Text] /\ mounted' \in [Docs -> Text]
           /\ shown' \in [Docs -> Views \cup {None}]
BY DEF Become, Held, Analyses

(* The analyses have the shape of the record.                              *)
LEMMA AnalysesHeld == ASSUME Types PROVE Analyses \in Held
BY DEF Types, Held, Analyses

(* Right depends on the document's own text and on the routing alone.      *)
LEMMA SameRight ==
    ASSUME NEW a, NEW s, NEW st, NEW s2, NEW st2, NEW e, Right(a, s, st, e), st2[e] = st[e],
           s2.script = s.script, Owns(s2, e) <=> Owns(s, e), s2.assembled = s.assembled
    PROVE  Right(a, s2, st2, e)
BY DEF Right, WorkspaceFor

-----------------------------------------------------------------------------
(* The steps.                                                              *)

(* Nothing is open and nothing is on its way.                              *)
LEMMA InitIInv == Init => IInv
<1> SUFFICES ASSUME Init PROVE IInv
  OBVIOUS
<1>0. 0 \in Text /\ 0 \in Nat
  BY DocumentsAssumption DEF Text
<1>1. Types
  BY <1>0 DEF Init, Types, Slot, Absent
<1>2. Queue = <<>> /\ Queue \in Seq(Command)
  BY DEF Init, Queue
<1>3. Sequenced
  <2>1. DOMAIN Queue = {} /\ Len(Queue) = 0
    BY <1>2
  <2>2. \A d \in Docs : client[d] = store[d]
    BY DEF Init
  <2> QED BY <2>1, <2>2 DEF Sequenced, InOrder, AsOf
<1>4. Routed
  BY DEF Init, Routed, Right, Analyses, Owns, Absent
<1>5. Cached
  BY DEF Init, Cached
<1> QED BY <1>1, <1>3, <1>4, <1>5 DEF IInv

(* What the actor does not read does not disturb it.                       *)
LEMMA SameRouted ==
    ASSUME Routed, UNCHANGED <<busy, store, analyses>>
    PROVE  Routed'
BY DEF Routed, analyses, Analyses, Right, WorkspaceFor, Group, Owns

(* A command enters the channel.                                           *)
LEMMA SendIInv ==
    ASSUME IInv, NEW c \in Command, Send(c), UNCHANGED <<pending, busy, store, answers, analyses>>,
           c.op \in {"query", "full", "delta"} => c.about = client[c.uri],
           c.op = "change" => client[c.uri] \in Text \ {0},
           client' \in [Docs -> Text], inputs' \in Text,
           \A d \in Docs : client'[d] = IF Sets(c, d) THEN TextOf(c) ELSE client[d]
    PROVE  IInv'
<1>1. channel \in Seq(Command) /\ pending \in Seq(Command)
  BY DEF IInv, Types
<1>2. Queue' = Append(Queue, c) /\ Queue \in Seq(Command) /\ channel' \in Seq(Command)
  BY <1>1, AppendQueue DEF Send, Queue
<1>3. Types'
  BY <1>1, <1>2 DEF IInv, Types, answers, analyses
<1>4. Sequenced'
  <2>1. InOrder(Queue, store, client)
    BY DEF IInv, Sequenced
  <2>2. InOrder(Append(Queue, c), store, client')
    BY <1>2, <2>1, SentInOrder
  <2> QED BY <1>2, <2>2 DEF Sequenced
<1>5. Routed'
  BY SameRouted DEF IInv
<1>6. Cached'
  BY DEF IInv, Cached, answers
<1> QED BY <1>3, <1>4, <1>5, <1>6 DEF IInv

(* The client's next text or request has a number.                         *)
LEMMA InputFacts ==
    ASSUME Types, NEW c, Input(c)
    PROVE  /\ inputs + 1 \in Text \ {0} /\ inputs + 1 \in Nat /\ inputs' \in Text
           /\ Send(c) /\ UNCHANGED <<pending, busy, store, answers, analyses>>
BY DocumentsAssumption DEF Types, Input, Text

(* The client opens a document.                                            *)
LEMMA OpenDocIInv == ASSUME IInv, NEW d \in Docs, OpenDoc(d) PROVE IInv'
<1> DEFINE c == [op |-> "open", uri |-> d, text |-> inputs + 1]
<1>1. Types /\ Input(c) /\ client' = [client EXCEPT ![d] = inputs + 1]
  BY DEF IInv, OpenDoc
<1>2. /\ inputs + 1 \in Text \ {0} /\ inputs' \in Text
      /\ Send(c) /\ UNCHANGED <<pending, busy, store, answers, analyses>>
  <2> HIDE DEF c
  <2> QED BY <1>1, InputFacts
<1>3. c \in Command
  BY <1>2 DEF Command
<1>4. client' \in [Docs -> Text]
  BY <1>1, <1>2 DEF Types
<1>5. \A e \in Docs : client'[e] = IF Sets(c, e) THEN TextOf(c) ELSE client[e]
  BY <1>1 DEF Sets, TextOf, Types
<1>6. c.op = "open"
  OBVIOUS
<1> HIDE DEF c
<1> QED BY <1>2, <1>3, <1>4, <1>5, <1>6, SendIInv

(* The client edits an open document: the change is made for its text.     *)
LEMMA ChangeDocIInv == ASSUME IInv, NEW d \in Docs, ChangeDoc(d) PROVE IInv'
<1> DEFINE c == [op |-> "change", uri |-> d, text |-> inputs + 1]
<1>1. Types /\ Input(c) /\ client' = [client EXCEPT ![d] = inputs + 1] /\ client[d] # 0
  BY DEF IInv, ChangeDoc
<1>2. /\ inputs + 1 \in Text \ {0} /\ inputs' \in Text
      /\ Send(c) /\ UNCHANGED <<pending, busy, store, answers, analyses>>
  <2> HIDE DEF c
  <2> QED BY <1>1, InputFacts
<1>3. c \in Command
  BY <1>2 DEF Command
<1>4. client' \in [Docs -> Text] /\ client[d] \in Text \ {0}
  BY <1>1, <1>2 DEF Types
<1>5. \A e \in Docs : client'[e] = IF Sets(c, e) THEN TextOf(c) ELSE client[e]
  BY <1>1 DEF Sets, TextOf, Types
<1>6. c.op = "change" /\ c.uri = d
  OBVIOUS
<1> HIDE DEF c
<1> QED BY <1>2, <1>3, <1>4, <1>5, <1>6, SendIInv

(* The client closes a document.                                           *)
LEMMA CloseDocIInv == ASSUME IInv, NEW d \in Docs, CloseDoc(d) PROVE IInv'
<1> DEFINE c == [op |-> "close", uri |-> d]
<1>1. Types /\ Input(c) /\ client' = [client EXCEPT ![d] = 0]
  BY DEF IInv, CloseDoc
<1>2. /\ inputs' \in Text
      /\ Send(c) /\ UNCHANGED <<pending, busy, store, answers, analyses>>
  <2> HIDE DEF c
  <2> QED BY <1>1, InputFacts
<1>3. c \in Command
  BY DEF Command
<1>4. client' \in [Docs -> Text]
  BY <1>1, DocumentsAssumption DEF Types, Text
<1>5. \A e \in Docs : client'[e] = IF Sets(c, e) THEN TextOf(c) ELSE client[e]
  BY <1>1 DEF Sets, TextOf, Types
<1>6. c.op = "close"
  OBVIOUS
<1> HIDE DEF c
<1> QED BY <1>2, <1>3, <1>4, <1>5, <1>6, SendIInv

(* A request is about the text the client has.                             *)
LEMMA AskIInv ==
    ASSUME IInv, NEW d \in Docs, NEW kind \in {"query", "full", "delta"}, NEW previous \in Nat,
           Ask(d, kind, previous)
    PROVE  IInv'
<1> DEFINE c == [op |-> kind, uri |-> d, id |-> inputs + 1, about |-> client[d],
                 previous |-> previous]
<1>1. Types /\ Input(c) /\ client' = client /\ client[d] # 0
  BY DEF IInv, Ask
<1>2. /\ inputs + 1 \in Nat /\ inputs' \in Text
      /\ Send(c) /\ UNCHANGED <<pending, busy, store, answers, analyses>>
  <2> HIDE DEF c
  <2> QED BY <1>1, InputFacts
<1>3. client[d] \in Text \ {0} /\ client' \in [Docs -> Text]
  BY <1>1 DEF Types
<1>4. c \in Command
  BY <1>2, <1>3 DEF Command
<1>5. c.op \in {"query", "full", "delta"} /\ c.about = client[c.uri]
  OBVIOUS
<1> HIDE DEF c
<1>6. \A e \in Docs : ~Sets(c, e)
  BY <1>5 DEF Sets
<1> QED BY <1>1, <1>2, <1>3, <1>4, <1>5, <1>6, SendIInv

(* Every step of the client.                                               *)
LEMMA ClientIInv == ASSUME IInv, Client PROVE IInv'
<1>1. ASSUME NEW d \in Docs, Request(d) PROVE IInv'
  <2>1. ASSUME NEW s \in sent, Ask(d, "delta", s.id) PROVE IInv'
    <3>1. s.id \in Nat
      BY DEF IInv, Types
    <3> QED BY <2>1, <3>1, AskIInv
  <2> QED BY <1>1, <2>1, AskIInv DEF Request
<1>2. ASSUME NEW id, Cancel(id) PROVE IInv'
  <2>1. UNCHANGED <<queues, busy, client, inputs, store, answers, analyses>>
    BY <1>2 DEF Cancel
  <2>2. Routed' /\ Queue' = Queue
    BY <2>1, SameRouted DEF IInv, Queue, queues
  <2>3. Types' /\ Sequenced' /\ Cached'
    BY <2>1, <2>2 DEF IInv, Types, Sequenced, Cached, queues, answers, analyses
  <2> QED BY <2>2, <2>3 DEF IInv
<1>3. CASE NotifyWatched
  <2> DEFINE c == [op |-> "watched"]
  <2>1. Types /\ Input(c) /\ client' = client
    BY <1>3 DEF IInv, NotifyWatched
  <2>2. c \in Command /\ c.op = "watched"
    BY DEF Command
  <2> HIDE DEF c
  <2>3. /\ inputs' \in Text
        /\ Send(c) /\ UNCHANGED <<pending, busy, store, answers, analyses>>
    BY <2>1, InputFacts
  <2>4. client' \in [Docs -> Text] /\ \A e \in Docs : ~Sets(c, e)
    BY <2>1, <2>2 DEF Types, Sets
  <2> QED BY <2>1, <2>2, <2>3, <2>4, SendIInv
<1> QED BY <1>1, <1>2, <1>3, OpenDocIInv, ChangeDocIInv, CloseDocIInv DEF Client

(* The end of an assembly is one more command.                             *)
LEMMA AssemblyIInv == ASSUME IInv, Assembly PROVE IInv'
<1>1. PICK result \in {"full", "fallback", "bare"}, owned \in SUBSET Under,
           script \in Under \cup {None} : Assembled(result, owned, script)
  BY DocumentsAssumption DEF Assembly
<1> DEFINE c == [op |-> "ready", result |-> result, owned |-> owned, script |-> script]
<1>2. /\ Send(c) /\ UNCHANGED <<pending, busy, store, answers, analyses>>
      /\ client' = client /\ inputs' = inputs
  BY <1>1 DEF Assembled, clientState
<1>3. c \in Command /\ c.op = "ready"
  BY DEF Command
<1> HIDE DEF c
<1>4. /\ client' \in [Docs -> Text] /\ inputs' \in Text
      /\ \A e \in Docs : ~Sets(c, e)
  BY <1>2, <1>3 DEF IInv, Types, Sets
<1> QED BY <1>2, <1>3, <1>4, SendIInv

(* Between changes every document is routed as Right says.                 *)
LEMMA RestingRight == ASSUME IInv, busy = None PROVE \A e \in Docs : Right(Analyses, slot, store, e)
BY DEF IInv, Routed

(* A step that leaves every document right between changes.                *)
LEMMA BecomeRouted ==
    ASSUME NEW a, Analyses' = a, busy' = None, \A e \in Docs : Right(a, slot', store', e)
    PROVE  Routed'
BY DEF Routed

(* did_open stores the text and routes the document.                       *)
LEMMA DidOpenIInv == ASSUME IInv, DidOpen PROVE IInv'
<1> DEFINE d == Next1.uri
           st == [store EXCEPT ![d] = Next1.text]
           s == IF d \in Under /\ slot.state = "absent"
                THEN [slot EXCEPT !.state = "loading"] ELSE slot
           b == RefreshAndPublish(Analyses, s, st, d)
<1>0. Types /\ Taken("open")
  BY DEF IInv, DidOpen
<1>1. /\ store' = st /\ slot' = s /\ Become(b) /\ UNCHANGED <<busy, sent, tokens, resultId>>
  BY DEF DidOpen, answers
<1>2. /\ busy = None /\ Next1 = Queue[1] /\ Next1 \in Command /\ Next1.op = "open"
      /\ channel' \in Seq(Command) /\ pending' \in Seq(Command)
      /\ client' = client /\ inputs' = inputs
  BY <1>0, TakenFacts
<1>3. d \in Docs /\ Next1.text \in Text \ {0}
  BY <1>2, CommandFacts
<1>4. /\ st \in [Docs -> Text] /\ st[d] # 0 /\ \A e \in Docs : e # d => st[e] = store[e]
  BY <1>0, <1>3 DEF Types
<1>5. /\ s \in Slot /\ s.script = slot.script /\ s.assembled = slot.assembled
      /\ \A e : Owns(s, e) <=> Owns(slot, e)
  BY <1>0 DEF Types, Slot, Owns
<1>6. Sequenced'
  <2>1. \A e \in Docs : store'[e] = IF Sets(Queue[1], e) THEN TextOf(Queue[1]) ELSE store[e]
    BY <1>0, <1>1, <1>2, <1>3 DEF Sets, TextOf, Types
  <2> QED BY <1>0, <2>1, ServedSequenced
<1> HIDE DEF d, st, s
<1>7. Analyses \in Held
  BY <1>0, AnalysesHeld
<1>8. \A e \in Docs : e # d => Right(Analyses, s, st, e)
  BY <1>2, <1>4, <1>5, RestingRight, SameRight
<1>9. d = s.script => Right(Analyses, s, st, d)
  <2>1. Right(Analyses, slot, store, d)
    BY <1>2, <1>3, RestingRight
  <2> QED BY <1>5, <2>1 DEF Right
<1>10. b \in Held /\ \A e \in Docs : Right(b, s, st, e)
  <2>1. /\ b \in Held
        /\ \A e \in Docs : e # d /\ Right(Analyses, s, st, e) => Right(b, s, st, e)
        /\ d # s.script /\ st[d] # 0 => Right(b, s, st, d)
        /\ Right(Analyses, s, st, d) => Right(b, s, st, d)
    BY <1>3, <1>4, <1>5, <1>7, RefreshFacts
  <2> HIDE DEF b
  <2> QED BY <1>4, <1>8, <1>9, <2>1
<1> HIDE DEF b
<1>11. /\ Analyses' = b
       /\ overlay' \in [Docs -> Text] /\ mounted' \in [Docs -> Text]
       /\ shown' \in [Docs -> Views \cup {None}]
  BY <1>1, <1>10, BecomeFacts
<1>12. Routed'
  BY <1>1, <1>2, <1>10, <1>11, BecomeRouted
<1>13. Types' /\ Cached'
  BY <1>0, <1>1, <1>2, <1>4, <1>5, <1>11 DEF IInv, Types, Cached
<1> QED BY <1>6, <1>12, <1>13 DEF IInv

(* did_change applies the first change; the document stays to be routed.   *)
LEMMA DidChangeIInv == ASSUME IInv, DidChange PROVE IInv'
<1> DEFINE d == Next1.uri
           b == [uri |-> d, at |-> "draining"]
<1>0. Types /\ Taken("change")
  BY DEF IInv, DidChange
<1>1. /\ store' = [store EXCEPT ![d] = IF @ = 0 THEN 0 ELSE Next1.text]
      /\ busy' = b /\ UNCHANGED <<sent, tokens, resultId, slot, overlay, mounted, shown>>
  BY DEF DidChange, ApplyChange, answers, analyses
<1>2. /\ busy = None /\ Next1 = Queue[1] /\ Next1 \in Command /\ Next1.op = "change"
      /\ channel' \in Seq(Command) /\ pending' \in Seq(Command)
      /\ client' = client /\ inputs' = inputs
      /\ Queue # <<>> /\ Queue \in Seq(Command)
  BY <1>0, TakenFacts
<1>3. d \in Docs /\ Next1.text \in Text \ {0}
  BY <1>2, CommandFacts
<1>4. store[d] # 0
  BY <1>2, HeadFits
<1>5. /\ store' \in [Docs -> Text] /\ store'[d] # 0
      /\ \A e \in Docs : store'[e] = IF e = d THEN Next1.text ELSE store[e]
  BY <1>0, <1>1, <1>3, <1>4 DEF Types
<1>6. Sequenced'
  <2>1. \A e \in Docs : store'[e] = IF Sets(Queue[1], e) THEN TextOf(Queue[1]) ELSE store[e]
    BY <1>2, <1>5 DEF Sets, TextOf
  <2> QED BY <1>0, <2>1, ServedSequenced
<1>7. /\ b \in [uri : Docs, at : {"draining", "coalescing"}] /\ b.uri = d
  BY <1>3
<1> HIDE DEF b, d
<1>8. busy' # None
  BY <1>1, <1>7, NoneAssumption
<1>9. Routed'
  <2>0. Analyses' = Analyses
    BY <1>1 DEF Analyses
  <2>1. ASSUME NEW e \in Docs, e # d PROVE Right(Analyses, slot, store', e)
    BY <1>2, <1>5, <2>1, RestingRight, SameRight
  <2>2. d = slot.script => mounted[d] = 0
    <3>1. Right(Analyses, slot, store, d)
      BY <1>2, <1>3, RestingRight
    <3> QED BY <3>1 DEF Right, Analyses
  <2>3. busy'.uri = d
    BY <1>1, <1>7
  <2> QED BY <1>1, <1>5, <1>8, <2>0, <2>1, <2>2, <2>3 DEF Routed
<1>10. Types' /\ Cached'
  BY <1>0, <1>1, <1>2, <1>5, <1>7 DEF IInv, Types, Cached
<1> QED BY <1>6, <1>9, <1>10 DEF IInv

(* Setting commands aside leaves their order as it is.                     *)
LEMMA DrainIInv == ASSUME IInv, Drain PROVE IInv'
<1>1. /\ Types /\ busy # None /\ pending' = pending \o channel /\ channel' = <<>>
      /\ busy' = [busy EXCEPT !.at = "coalescing"]
      /\ UNCHANGED <<clientState, store, answers, analyses>>
  BY DEF IInv, Drain
<1>2. busy \in [uri : Docs, at : {"draining", "coalescing"}]
  BY <1>1 DEF Types
<1>3. /\ busy' \in [uri : Docs, at : {"draining", "coalescing"}] /\ busy'.uri = busy.uri
      /\ busy' # None
  <2>1. /\ busy' \in [uri : Docs, at : {"draining", "coalescing"}] /\ busy'.uri = busy.uri
    BY <1>1, <1>2
  <2> QED BY <2>1, NoneAssumption
<1>4. /\ pending' \in Seq(Command) /\ channel' \in Seq(Command) /\ Queue' = Queue
  BY <1>1 DEF Types, Queue
<1>5. Types' /\ Sequenced' /\ Cached'
  BY <1>1, <1>3, <1>4
     DEF IInv, Types, Sequenced, Cached, clientState, answers, analyses
<1>6. Routed'
  <2>1. UNCHANGED <<store, slot, mounted, Analyses>>
    BY <1>1 DEF analyses, Analyses
  <2>2. Routed
    BY DEF IInv
  <2> QED BY <1>1, <1>3, <2>1, <2>2 DEF Routed
<1> QED BY <1>5, <1>6 DEF IInv

(* The changes that follow at once are served where they stand.            *)
LEMMA CoalesceIInv == ASSUME IInv, Coalesce PROVE IInv'
<1> DEFINE d == busy.uri
           c == Head(pending)
<1>1. /\ Types /\ busy # None /\ pending # <<>> /\ c.op = "change" /\ c.uri = d
      /\ store' = [store EXCEPT ![d] = IF @ = 0 THEN 0 ELSE c.text]
      /\ pending' = Tail(pending)
      /\ UNCHANGED <<channel, busy, clientState, answers, analyses>>
  BY DEF IInv, Coalesce, MoreOf, ApplyChange
<1>2. pending \in Seq(Command) /\ channel \in Seq(Command)
  BY <1>1 DEF Types
<1>3. /\ Queue # <<>> /\ Queue \in Seq(Command) /\ c = Queue[1] /\ c \in Command
      /\ pending' \in Seq(Command) /\ Queue' = Tail(Queue)
  <2>1. pending \o channel # <<>>
    BY <1>1, <1>2
  <2> QED BY <1>1, <1>2, <2>1, TailQueue DEF Queue
<1>4. d \in Docs /\ c.text \in Text \ {0} /\ store[d] # 0
  <2>1. d \in Docs /\ c.text \in Text \ {0}
    BY <1>1, <1>3, CommandFacts
  <2>2. store[d] # 0
    BY <1>1 DEF IInv, Routed
  <2> QED BY <2>1, <2>2
<1> HIDE DEF c, d
<1>5. /\ store' \in [Docs -> Text] /\ store'[d] # 0
      /\ \A e \in Docs : store'[e] = IF e = d THEN c.text ELSE store[e]
  BY <1>1, <1>4 DEF Types
<1>6. Sequenced'
  <2>1. \A e \in Docs : store'[e] = IF Sets(Queue[1], e) THEN TextOf(Queue[1]) ELSE store[e]
    BY <1>1, <1>3, <1>5 DEF Sets, TextOf
  <2>2. InOrder(Queue, store, client) /\ client' = client
    BY <1>1 DEF IInv, Sequenced, clientState
  <2>3. InOrder(Tail(Queue), store', client)
    BY <1>3, <2>1, <2>2, ServedInOrder
  <2> QED BY <1>3, <2>2, <2>3 DEF Sequenced
<1>7. Routed'
  <2>1. UNCHANGED <<busy, slot, mounted, Analyses>>
    BY <1>1 DEF analyses, Analyses
  <2>2. ASSUME NEW e \in Docs, e # d PROVE Right(Analyses, slot, store', e)
    <3>1. Right(Analyses, slot, store, e)
      BY <1>1, <2>2 DEF IInv, Routed, d
    <3> QED BY <1>5, <2>2, <3>1, SameRight
  <2>3. d = slot.script => mounted[d] = 0
    BY <1>1 DEF IInv, Routed, d
  <2> QED BY <1>1, <1>5, <2>1, <2>2, <2>3 DEF Routed, d
<1>8. Types' /\ Cached'
  BY <1>1, <1>3, <1>5 DEF IInv, Types, Cached, clientState, answers, analyses
<1> QED BY <1>6, <1>7, <1>8 DEF IInv

(* The end of did_change routes the document again.                        *)
LEMMA FinishChangeIInv == ASSUME IInv, FinishChange PROVE IInv'
<1> DEFINE d == busy.uri
           b == RefreshAndPublish(Analyses, slot, store, d)
<1>1. /\ Types /\ busy # None /\ Become(b) /\ busy' = None
      /\ UNCHANGED <<queues, clientState, store, slot, answers>>
  BY DEF IInv, FinishChange
<1>2. d \in Docs /\ slot \in Slot /\ store \in [Docs -> Text] /\ Analyses \in Held
  BY <1>1, AnalysesHeld DEF Types
<1>3. /\ store[d] # 0
      /\ d = slot.script => mounted[d] = 0
      /\ \A e \in Docs : e # d => Right(Analyses, slot, store, e)
  BY <1>1 DEF IInv, Routed
<1>4. d = slot.script => Right(Analyses, slot, store, d)
  BY <1>3 DEF Right, Analyses
<1>5. b \in Held /\ \A e \in Docs : Right(b, slot, store, e)
  <2> HIDE DEF d
  <2>1. /\ b \in Held
        /\ \A e \in Docs : e # d /\ Right(Analyses, slot, store, e) => Right(b, slot, store, e)
        /\ d # slot.script /\ store[d] # 0 => Right(b, slot, store, d)
        /\ Right(Analyses, slot, store, d) => Right(b, slot, store, d)
    BY <1>2, RefreshFacts
  <2> HIDE DEF b
  <2> QED BY <1>3, <1>4, <2>1
<1> HIDE DEF b, d
<1>6. /\ Analyses' = b
      /\ overlay' \in [Docs -> Text] /\ mounted' \in [Docs -> Text]
      /\ shown' \in [Docs -> Views \cup {None}]
  BY <1>1, <1>5, BecomeFacts
<1>7. Routed'
  BY <1>1, <1>5, <1>6, BecomeRouted
<1>8. Types' /\ Cached' /\ Sequenced'
  <2>1. Queue' = Queue
    BY <1>1 DEF Queue, queues
  <2> QED BY <1>1, <1>6, <2>1
      DEF IInv, Types, Cached, Sequenced, queues, clientState, answers
<1> QED BY <1>7, <1>8 DEF IInv

(* did_close takes the document out of its analysis.                       *)
LEMMA DidCloseIInv == ASSUME IInv, DidClose PROVE IInv'
<1> DEFINE d == Next1.uri
           st == [store EXCEPT ![d] = 0]
           a == Forget(Analyses, slot, st, {d})
           b == IF d = slot.script THEN a ELSE [a EXCEPT !.shown[d] = None]
<1>0. Types /\ Taken("close")
  BY DEF IInv, DidClose
<1>1. /\ store' = st /\ Become(b) /\ tokens' = [tokens EXCEPT ![d] = None]
      /\ UNCHANGED <<busy, sent, resultId, slot>>
  BY DEF DidClose
<1>2. /\ busy = None /\ Next1 = Queue[1] /\ Next1 \in Command /\ Next1.op = "close"
      /\ channel' \in Seq(Command) /\ pending' \in Seq(Command)
      /\ client' = client /\ inputs' = inputs
  BY <1>0, TakenFacts
<1>3. d \in Docs /\ slot \in Slot
  BY <1>0, <1>2, CommandFacts DEF Types
<1>4. /\ st \in [Docs -> Text] /\ st[d] = 0 /\ \A e \in Docs : e # d => st[e] = store[e]
  BY <1>0, <1>3, DocumentsAssumption DEF Types, Text
<1>5. Sequenced'
  <2>1. \A e \in Docs : store'[e] = IF Sets(Queue[1], e) THEN TextOf(Queue[1]) ELSE store[e]
    BY <1>0, <1>1, <1>2, <1>3 DEF Sets, TextOf, Types
  <2> QED BY <1>0, <2>1, ServedSequenced
<1> HIDE DEF d, st
<1>6. Analyses \in Held
  BY <1>0, AnalysesHeld
<1>7. \A e \in Docs : e # d => Right(Analyses, slot, st, e)
  BY <1>2, <1>4, RestingRight, SameRight
<1>8. /\ a \in Held /\ a.mounted[d] = 0
      /\ \A e \in Docs : e \notin {d} /\ Right(Analyses, slot, st, e) => Right(a, slot, st, e)
  <2>1. d \in {d}
    OBVIOUS
  <2> QED BY <1>3, <1>4, <1>6, <2>1, ForgetFacts
<1> HIDE DEF a
<1>9. /\ b \in Held /\ b.overlay = a.overlay /\ b.mounted = a.mounted
      /\ d # slot.script => b.shown[d] = None
      /\ \A e \in Docs : e # d => b.shown[e] = a.shown[e]
  BY <1>3, <1>8 DEF Held
<1> HIDE DEF b
<1>10. ASSUME NEW e \in Docs PROVE Right(b, slot, st, e)
  <2>1. CASE e = d
    BY <1>4, <1>8, <1>9, <2>1 DEF Right
  <2>2. CASE e # d
    <3>1. Right(a, slot, st, e)
      BY <1>7, <1>8, <2>2
    <3>2. WorkspaceFor(b, slot, e) = WorkspaceFor(a, slot, e)
      BY <1>9 DEF WorkspaceFor
    <3> QED BY <1>9, <2>2, <3>1, <3>2, Steady
  <2> QED BY <2>1, <2>2
<1>11. /\ Analyses' = b
       /\ overlay' \in [Docs -> Text] /\ mounted' \in [Docs -> Text]
       /\ shown' \in [Docs -> Views \cup {None}]
  BY <1>1, <1>9, BecomeFacts
<1>12. Routed'
  BY <1>1, <1>2, <1>10, <1>11, BecomeRouted
<1>13. Types' /\ Cached'
  <2>1. Types'
    BY <1>0, <1>1, <1>2, <1>4, <1>11 DEF Types
  <2>2. DOMAIN tokens = Docs /\ DOMAIN tokens' = Docs
    BY <1>0, <2>1 DEF Types
  <2>3. \A e \in Docs : tokens'[e] # None => tokens'[e] = tokens[e]
    BY <1>1, <2>2
  <2> QED BY <1>1, <2>1, <2>3 DEF IInv, Cached
<1> QED BY <1>5, <1>12, <1>13 DEF IInv

(* A command that sets no text leaves the texts as they are.               *)
LEMMA UnsetSequenced ==
    ASSUME IInv, NEW op, Taken(op), op \notin {"open", "change", "close"}, store' = store
    PROVE  Sequenced'
<1>1. Queue[1].op = op
  BY TakenFacts DEF IInv
<1>2. \A d \in Docs : ~Sets(Queue[1], d)
  BY <1>1 DEF Sets
<1> QED BY <1>2, ServedSequenced

(* A refresh from disk routes the open documents below the root again.     *)
LEMMA WatchedFilesChangedIInv == ASSUME IInv, WatchedFilesChanged PROVE IInv'
<1> DEFINE b == IF slot.state = "ready" THEN RefreshAll(Analyses, slot, store, Under)
                ELSE Analyses
<1>0. Types /\ Taken("watched")
  BY DEF IInv, WatchedFilesChanged
<1>1. Become(b) /\ UNCHANGED <<busy, store, slot, sent, tokens, resultId>>
  BY DEF WatchedFilesChanged, answers
<1>2. /\ busy = None
      /\ channel' \in Seq(Command) /\ pending' \in Seq(Command)
      /\ client' = client /\ inputs' = inputs
  BY <1>0, TakenFacts
<1>3. Sequenced'
  BY <1>0, <1>1, UnsetSequenced
<1>4. b \in Held /\ \A e \in Docs : Right(b, slot, store, e)
  <2>1. /\ Analyses \in Held /\ slot \in Slot /\ store \in [Docs -> Text]
        /\ Under \in SUBSET Docs
    BY <1>0, AnalysesHeld, DocumentsAssumption DEF Types
  <2>2. /\ RefreshAll(Analyses, slot, store, Under) \in Held
        /\ \A e \in Docs : Right(Analyses, slot, store, e) =>
              Right(RefreshAll(Analyses, slot, store, Under), slot, store, e)
    BY <2>1, RefreshAllFacts
  <2> QED BY <1>2, <2>1, <2>2, RestingRight
<1> HIDE DEF b
<1>5. /\ Analyses' = b
      /\ overlay' \in [Docs -> Text] /\ mounted' \in [Docs -> Text]
      /\ shown' \in [Docs -> Views \cup {None}]
  BY <1>1, <1>4, BecomeFacts
<1>6. Routed'
  BY <1>1, <1>2, <1>4, <1>5, BecomeRouted
<1>7. Types' /\ Cached'
  BY <1>0, <1>1, <1>2, <1>5 DEF IInv, Types, Cached
<1> QED BY <1>3, <1>6, <1>7 DEF IInv

(* A workspace takes the place of another: the documents outside the       *)
(* project lose siblings at most, and those of the project are replayed.   *)
LEMMA InstallFacts ==
    ASSUME Types, NEW s \in Slot, \A e \in Docs : Right(Analyses, slot, store, e),
           InstallWorkspace(s)
    PROVE  /\ \A e \in Docs : Right(Analyses', s, store, e)
           /\ overlay' \in [Docs -> Text] /\ mounted' \in [Docs -> Text]
           /\ shown' \in [Docs -> Views \cup {None}]
<1> DEFINE script == [d \in Docs |-> IF d = s.script
                                     THEN [by |-> s.assembled, with |-> {}, text |-> 0]
                                     ELSE IF d = slot.script THEN None ELSE shown[d]]
           fresh == [overlay |-> [d \in Docs |-> 0], mounted |-> mounted, shown |-> script]
           f == Forget(fresh, s, store, Under)
           b == RefreshAll(f, s, store, Under)
<1>0. /\ 0 \in Text /\ store \in [Docs -> Text] /\ slot \in Slot /\ Under \in SUBSET Docs
      /\ mounted \in [Docs -> Text] /\ shown \in [Docs -> Views \cup {None}]
  BY DocumentsAssumption DEF Types, Text
<1>1. Become(b)
  BY DEF InstallWorkspace
<1>2. script \in [Docs -> Views \cup {None}]
  <2>1. [by |-> s.assembled, with |-> {}, text |-> 0] \in Views
    BY <1>0 DEF Slot, Views
  <2> QED BY <1>0, <2>1
<1>3. fresh \in Held
  <2> HIDE DEF script
  <2> QED BY <1>0, <1>2 DEF Held
<1>4. /\ fresh.mounted = mounted
      /\ \A e \in Docs : fresh.shown[e] = script[e]
  OBVIOUS
<1>5. \A e \in Docs : e # s.script =>
         fresh.shown[e] = IF e = slot.script THEN None ELSE shown[e]
  OBVIOUS
<1> HIDE DEF script, fresh
<1>6. ASSUME NEW e \in Docs, e \notin Under PROVE Right(fresh, s, store, e)
  <2>1. e # s.script /\ e # slot.script /\ ~Owns(s, e) /\ ~Owns(slot, e)
    BY <1>0, <1>6, NoneAssumption DEF Slot, Owns
  <2>2. Right(Analyses, slot, store, e)
    OBVIOUS
  <2>3. /\ Analyses.mounted = mounted /\ Analyses.shown = shown
    BY DEF Analyses
  <2>4. fresh.shown[e] = shown[e]
    BY <1>5, <2>1
  <2> QED BY <1>4, <2>1, <2>2, <2>3, <2>4 DEF Right, WorkspaceFor
<1>7. /\ f \in Held
      /\ \A e \in Docs : e \in Under => f.mounted[e] = 0 /\ f.shown[e] = fresh.shown[e]
      /\ \A e \in Docs : e \notin Under /\ Right(fresh, s, store, e) => Right(f, s, store, e)
  BY <1>0, <1>3, ForgetFacts
<1> HIDE DEF f
<1>8. ASSUME NEW e \in Docs, e \notin Under \/ e = s.script \/ store[e] = 0
      PROVE  Right(f, s, store, e)
  <2>1. CASE e \notin Under
    BY <1>6, <1>7, <2>1
  <2>2. CASE e \in Under /\ e = s.script
    BY <1>7, <2>2 DEF Right
  <2>3. CASE e \in Under /\ e # s.script
    <3>1. store[e] = 0
      BY <1>8, <2>3
    <3>2. f.shown[e] = None
      <4>1. Right(Analyses, slot, store, e) /\ Analyses.shown = shown
        BY DEF Analyses
      <4>2. e # slot.script => shown[e] = None
        BY <3>1, <4>1 DEF Right
      <4> QED BY <1>5, <1>7, <2>3, <4>2
    <3> QED BY <1>7, <2>3, <3>1, <3>2 DEF Right
  <2> QED BY <2>1, <2>2, <2>3
<1>9. /\ b \in Held
      /\ \A e \in Docs : Right(f, s, store, e) => Right(b, s, store, e)
      /\ \A e \in Under : e # s.script /\ store[e] # 0 => Right(b, s, store, e)
  BY <1>0, <1>7, RefreshAllFacts
<1> HIDE DEF b
<1> QED BY <1>1, <1>8, <1>9, BecomeFacts

(* workspace_ready keeps the workspace or installs another.                *)
LEMMA WorkspaceReadyIInv == ASSUME IInv, WorkspaceReady PROVE IInv'
<1>0. /\ Types /\ Taken("ready") /\ UNCHANGED <<busy, store, sent, tokens, resultId>>
  BY DEF IInv, WorkspaceReady, answers
<1>1. /\ busy = None /\ Next1 \in Command /\ Next1.op = "ready"
      /\ channel' \in Seq(Command) /\ pending' \in Seq(Command)
      /\ client' = client /\ inputs' = inputs
  BY <1>0, TakenFacts
<1>2. Sequenced'
  BY <1>0, UnsetSequenced
<1>3. \A e \in Docs : Right(Analyses, slot, store, e)
  BY <1>1, RestingRight
<1>4. CASE UNCHANGED analyses
  <2>1. Routed'
    BY <1>0, <1>4, SameRouted DEF IInv
  <2>2. Types' /\ Cached'
    BY <1>0, <1>1, <1>4 DEF IInv, Types, Cached, analyses
  <2> QED BY <1>2, <2>1, <2>2 DEF IInv
<1>5. CASE /\ slot' = [state |-> "ready", assembled |-> slot.assembled + 1,
                       owned |-> Next1.owned, script |-> Next1.script]
           /\ InstallWorkspace(slot')
  <2>1. slot' \in Slot
    <3>1. slot.assembled + 1 \in Nat
      BY <1>0 DEF Types, Slot
    <3>2. Next1.owned \in SUBSET Under /\ Next1.script \in Under \cup {None}
      BY <1>1, CommandFacts
    <3> QED BY <1>5, <3>1, <3>2 DEF Slot
  <2>2. /\ \A e \in Docs : Right(Analyses', slot', store, e)
        /\ overlay' \in [Docs -> Text] /\ mounted' \in [Docs -> Text]
        /\ shown' \in [Docs -> Views \cup {None}]
    BY <1>0, <1>3, <1>5, <2>1, InstallFacts
  <2>3. Routed'
    BY <1>0, <1>1, <2>2, BecomeRouted
  <2>4. Types' /\ Cached'
    BY <1>0, <1>1, <2>1, <2>2 DEF IInv, Types, Cached
  <2> QED BY <1>2, <2>3, <2>4 DEF IInv
<1>6. CASE /\ slot.state = "loading" /\ slot' = [slot EXCEPT !.state = "stuck"]
           /\ UNCHANGED <<overlay, mounted, shown>>
  <2>1. /\ slot' \in Slot /\ slot'.script = slot.script
        /\ \A e \in Docs : ~Owns(slot, e) /\ ~Owns(slot', e)
    BY <1>0, <1>6 DEF Types, Slot, Owns
  <2>2. Analyses' = Analyses
    BY <1>6 DEF Analyses
  <2>3. \A e \in Docs : Right(Analyses, slot', store, e)
    BY <1>3, <2>1 DEF Right, WorkspaceFor
  <2>4. Routed'
    BY <1>0, <1>1, <2>2, <2>3, BecomeRouted
  <2>5. Types' /\ Cached'
    BY <1>0, <1>1, <1>6, <2>1 DEF IInv, Types, Cached
  <2> QED BY <1>2, <2>4, <2>5 DEF IInv
<1> QED BY <1>4, <1>5, <1>6 DEF WorkspaceReady

(* A request leaves everything as it is but the tokens it was answered.    *)
LEMMA RequestIInv ==
    ASSUME IInv, NEW op \in {"query", "full", "delta"}, Taken(op),
           UNCHANGED <<busy, store, analyses>>, UNCHANGED answers \/ SendTokens
    PROVE  IInv'
<1>1. /\ Types /\ Next1 \in Command /\ Next1.op = op
      /\ channel' \in Seq(Command) /\ pending' \in Seq(Command)
      /\ client' = client /\ inputs' = inputs
  BY TakenFacts DEF IInv
<1>2. Sequenced'
  BY UnsetSequenced
<1>3. Routed'
  BY SameRouted DEF IInv
<1>4. /\ resultId' \in Nat /\ DOMAIN tokens' = Docs /\ \A x \in sent' : x.id \in Nat
      /\ Cached'
  <2>1. CASE UNCHANGED <<sent, tokens, resultId>>
    BY <1>1, <2>1 DEF IInv, Types, Cached
  <2>2. CASE SendTokens /\ ~UNCHANGED <<sent, tokens, resultId>>
    <3> DEFINE d == Next1.uri
               data == WorkspaceFor(Analyses, slot, d)
    <3>1. /\ resultId' = resultId + 1
          /\ tokens' = [tokens EXCEPT ![d] = [id |-> resultId', data |-> data]]
          /\ sent' = sent \cup {[uri |-> d, id |-> resultId', data |-> data]}
      BY <2>2 DEF SendTokens
    <3>2. d \in Docs /\ DOMAIN tokens = Docs /\ resultId \in Nat
      BY <1>1, CommandFacts DEF Types
    <3> HIDE DEF d, data
    <3>3. resultId' \in Nat /\ DOMAIN tokens' = Docs
      BY <3>1, <3>2
    <3>4. \A x \in sent' : x.id \in Nat
      BY <1>1, <3>1, <3>3 DEF Types
    <3>5. ASSUME NEW e \in Docs, tokens'[e] # None
          PROVE  [uri |-> e, id |-> tokens'[e].id, data |-> tokens'[e].data] \in sent'
      <4>1. CASE e = d
        <5>1. tokens'[e] = [id |-> resultId', data |-> data]
          BY <3>1, <3>2, <4>1
        <5> QED BY <3>1, <4>1, <5>1
      <4>2. CASE e # d
        <5>1. tokens'[e] = tokens[e]
          BY <3>1, <3>2, <4>2
        <5> QED BY <3>1, <3>5, <5>1 DEF IInv, Cached
      <4> QED BY <4>1, <4>2
    <3> QED BY <3>3, <3>4, <3>5 DEF Cached
  <2> QED BY <2>1, <2>2 DEF answers
<1>5. Types'
  BY <1>1, <1>4 DEF Types, analyses
<1> QED BY <1>2, <1>3, <1>4, <1>5 DEF IInv

(* The conjunction is inductive.                                           *)
LEMMA NextIInv == IInv /\ [Next]_vars => IInv'
<1> SUFFICES ASSUME IInv, [Next]_vars PROVE IInv'
  OBVIOUS
<1>1. CASE Client
  BY <1>1, ClientIInv
<1>2. CASE Assembly
  BY <1>2, AssemblyIInv
<1>3. CASE DidOpen \/ DidChange \/ Drain \/ Coalesce \/ FinishChange \/ DidClose
           \/ WatchedFilesChanged \/ WorkspaceReady
  BY <1>3, DidOpenIInv, DidChangeIInv, DrainIInv, CoalesceIInv, FinishChangeIInv,
     DidCloseIInv, WatchedFilesChangedIInv, WorkspaceReadyIInv
<1>4. CASE AnswerQuery
  BY <1>4, RequestIInv DEF AnswerQuery, Answer
<1>5. CASE AnswerFull \/ AnswerDelta
  <2>1. /\ \E op \in {"query", "full", "delta"} : Taken(op)
        /\ UNCHANGED <<busy, store, analyses>> /\ SendTokens
    BY <1>5 DEF AnswerFull, AnswerDelta, Answer
  <2> QED BY <2>1, RequestIInv
<1>6. ASSUME NEW op \in {"query", "full", "delta"}, Skip(op) \/ Panicked(op) PROVE IInv'
  BY <1>6, RequestIInv DEF Skip, Panicked
<1>7. CASE UNCHANGED vars
  <2>1. Routed' /\ Queue' = Queue
    BY <1>7, SameRouted DEF IInv, Queue, vars, analyses
  <2> QED BY <1>7, <2>1 DEF IInv, Types, Sequenced, Cached, vars
<1> QED BY <1>1, <1>2, <1>3, <1>4, <1>5, <1>6, <1>7 DEF Next, Actor

-----------------------------------------------------------------------------
(* The theorems.                                                           *)

(* The commands are served in order and every document is routed, in every *)
(* reachable state.                                                        *)
THEOREM Invariance == Spec => []IInv
BY InitIInv, NextIInv, PTL DEF Spec

(* However the actor reads ahead through its two queues, a request is      *)
(* answered from the text the client had when it asked, and always by some *)
(* analysis.                                                               *)
THEOREM RequestsSeeTheirText == Spec => []RequestSeesItsText
<1>1. IInv => RequestSeesItsText
  <2> SUFFICES ASSUME IInv, Answering, Next1.uri # slot.script
               PROVE  LET found == WorkspaceFor(Analyses, slot, Next1.uri)
                      IN  found # None /\ found.text = Next1.about
    BY DEF RequestSeesItsText
  <2> DEFINE d == Next1.uri
             found == WorkspaceFor(Analyses, slot, d)
  <2>1. /\ busy = None /\ Queue # <<>> /\ Next1.op \in {"query", "full", "delta"} /\ Types
    BY DEF IInv, Answering, Queue
  <2>2. Queue \in Seq(Command) /\ Next1 = Queue[1] /\ Next1 \in Command
    BY <2>1, TailQueue DEF Types, Queue, Next1
  <2>3. d \in Docs /\ Next1.about \in Text \ {0} /\ Next1.about = store[d]
    BY <2>1, <2>2, CommandFacts, HeadFits
  <2>4. Right(Analyses, slot, store, d)
    BY <2>1, <2>3, RestingRight
  <2>5. Analyses.mounted = mounted /\ Analyses.overlay = overlay
    BY DEF Analyses
  <2>6. found.text = Next1.about /\ found \in Views
    <3>1. Analyses \in Held /\ slot \in Slot
      BY <2>1, AnalysesHeld DEF Types
    <3>2. Group(mounted, d) \in SUBSET Docs /\ slot.assembled \in Nat
      BY <3>1 DEF Group, Slot
    <3>3. CASE Owns(slot, d)
      <4>1. overlay[d] = store[d]
        BY <2>3, <2>4, <2>5, <3>3 DEF Right
      <4>2. found = [by |-> slot.assembled, with |-> {}, text |-> overlay[d]]
        BY <2>5, <3>3 DEF WorkspaceFor
      <4> QED BY <2>3, <3>2, <4>1, <4>2 DEF Views
    <3>4. CASE ~Owns(slot, d)
      <4>1. mounted[d] = store[d]
        BY <2>3, <2>4, <2>5, <3>4 DEF Right
      <4>2. found = [by |-> 0, with |-> Group(mounted, d), text |-> mounted[d]]
        BY <2>3, <2>5, <3>4, <4>1 DEF WorkspaceFor
      <4> QED BY <2>3, <3>2, <4>1, <4>2 DEF Views
    <3> QED BY <3>3, <3>4
  <2>7. found # None
    <3> HIDE DEF found
    <3>1. Text \subseteq Nat
      BY DocumentsAssumption DEF Text
    <3>2. Views \subseteq [by : Nat, with : SUBSET Docs, text : Nat]
      BY <3>1 DEF Views
    <3> QED BY <2>6, <3>2, NoneAssumption
  <2> QED BY <2>6, <2>7
<1> QED BY <1>1, Invariance, PTL

(* Between changes, what the client shows for a document is what the       *)
(* analysis that answers for it now says of its current text, and nothing  *)
(* for a closed one.                                                       *)
THEOREM ShownAlwaysCurrent == Spec => []ShownIsCurrent
<1>1. IInv => ShownIsCurrent
  BY RestingRight DEF ShownIsCurrent, Right, Analyses
<1> QED BY <1>1, Invariance, PTL

(* A delta is computed from a token set the client was sent under the id   *)
(* it named.                                                               *)
THEOREM DeltasFitTheirBaseline == Spec => []DeltaFitsBaseline
<1>1. IInv => DeltaFitsBaseline
  <2> SUFFICES ASSUME IInv, Answering, Next1.op = "delta",
                      Baseline(Next1.uri, Next1.previous) # None
               PROVE  [uri |-> Next1.uri, id |-> Next1.previous,
                       data |-> Baseline(Next1.uri, Next1.previous)] \in sent
    BY DEF DeltaFitsBaseline
  <2>1. Queue # <<>> /\ Types
    BY DEF IInv, Answering, Queue
  <2>2. Next1 \in Command
    BY <2>1, TailQueue DEF Types, Queue, Next1
  <2>3. Next1.uri \in Docs
    BY <2>2, CommandFacts
  <2> QED BY <2>3 DEF Baseline, IInv, Cached
<1> QED BY <1>1, Invariance, PTL
=============================================================================
