------------------------- MODULE BuildOutputsProofs -------------------------
(***************************************************************************)
(* What builds leave in a project, for any scripts, features, plans,       *)
(* processes and edits.                                                    *)
(*                                                                         *)
(* First the changes of a build as a set and the entries after them, then  *)
(* the invariant: a planned build has the changes of some preparation of   *)
(* its snapshot (Types); a published tree is recorded, and builds and      *)
(* cleans under way know of it (Trees); the user's files have the user's   *)
(* bytes (Users); as long as every build was recorded, one process is at   *)
(* work (Alone), what scripts generated is on record or about to be        *)
(* (Known), and what the last build left is what it was asked for          *)
(* (Settled).                                                              *)
(***************************************************************************)
EXTENDS BuildOutputs, FiniteSetTheorems, WellFoundedInduction, TLAPS

-----------------------------------------------------------------------------
(* Sequences of changes. *)

Found(c, x) == \E i \in 1 .. Len(c) : c[i] = x

(* A finite set is listed with each of its elements (SetToSeq).            *)
LEMMA SetToSeqFacts ==
    ASSUME NEW S, IsFiniteSet(S)
    PROVE  /\ SetToSeq(S) \in Seq(S)
           /\ \A x \in S : \E i \in 1 .. Len(SetToSeq(S)) : SetToSeq(S)[i] = x
<1> DEFINE n == Cardinality(S)
           P(f) == f \in [1 .. n -> S] /\ IsInjective(f)
<1>1. n \in Nat /\ ExistsBijection(1 .. n, S)
  BY FS_CardinalityType
<1>2. PICK g \in Bijection(1 .. n, S) : TRUE
  BY <1>1 DEF ExistsBijection
<1>3. g \in [1 .. n -> S] /\ IsInjective(g)
  BY <1>2 DEF Bijection, Injection
<1>4. SetToSeq(S) \in [1 .. n -> S] /\ IsInjective(SetToSeq(S))
  BY <1>3 DEF SetToSeq
<1>5. SetToSeq(S) \in Injection(1 .. n, S)
  BY <1>4 DEF Injection
<1>6. IsFiniteSet(1 .. n) /\ Cardinality(1 .. n) = n
  BY <1>1, FS_Interval
<1>7. SetToSeq(S) \in Surjection(1 .. n, S)
  BY <1>5, <1>6, FS_Injection
<1>8. \A x \in S : \E i \in 1 .. n : SetToSeq(S)[i] = x
  BY <1>7 DEF Surjection
<1> HIDE DEF n
<1>9. SetToSeq(S) \in Seq(S) /\ Len(SetToSeq(S)) = n
  BY <1>1, <1>4
<1> QED BY <1>8, <1>9

(* The changes of a finite function are its values (Listed).               *)
LEMMA ListedFacts ==
    ASSUME NEW S, IsFiniteSet(S), NEW T, NEW f \in [S -> T]
    PROVE  /\ Listed(f) \in Seq(T)
           /\ \A i \in 1 .. Len(Listed(f)) : Listed(f)[i] \in {f[k] : k \in S}
           /\ \A k \in S : Found(Listed(f), f[k])
<1> DEFINE s == SetToSeq(S)
<1>1. /\ s \in Seq(S)
      /\ \A x \in S : \E i \in 1 .. Len(s) : s[i] = x
  BY SetToSeqFacts
<1>2. DOMAIN f = S
  OBVIOUS
<1>3. Listed(f) = [i \in DOMAIN s |-> f[s[i]]]
  BY <1>2 DEF Listed
<1> HIDE DEF s
<1>4. DOMAIN s = 1 .. Len(s) /\ Len(s) \in Nat /\ \A i \in 1 .. Len(s) : s[i] \in S
  BY <1>1
<1>5. /\ Listed(f) \in Seq(T) /\ Len(Listed(f)) = Len(s)
      /\ \A i \in 1 .. Len(s) : Listed(f)[i] = f[s[i]]
  BY <1>3, <1>4
<1> QED BY <1>1, <1>4, <1>5 DEF Found

(* The places of a concatenation.                                          *)
LEMMA ConcatFacts ==
    ASSUME NEW T, NEW a \in Seq(T), NEW b \in Seq(T)
    PROVE  /\ a \o b \in Seq(T)
           /\ Len(a \o b) = Len(a) + Len(b)
           /\ \A i \in 1 .. Len(a) : (a \o b)[i] = a[i]
           /\ \A i \in 1 .. Len(b) : (a \o b)[Len(a) + i] = b[i]
           /\ \A i \in 1 .. Len(a \o b) :
                \/ i \in 1 .. Len(a)
                \/ i - Len(a) \in 1 .. Len(b) /\ i = Len(a) + (i - Len(a))
OBVIOUS

(* Some number of a set of numbers is the least.                           *)
LEMMA LeastNat ==
    ASSUME NEW T \in SUBSET Nat, T # {}
    PROVE  \E x \in T : \A y \in T : x <= y
<1>1. PICK x \in T : \A y \in T : <<y, x>> \notin OpToRel(<, Nat)
  BY NatLessThanWellFounded, WFMin
<1>2. \A y \in T : ~(y < x)
  BY <1>1 DEF OpToRel
<1> QED BY <1>2

(* The last change of an entry is one of its changes, and no other comes   *)
(* after it.                                                               *)
LEMMA LastToFacts ==
    ASSUME NEW n \in Nat, NEW c, DOMAIN c = 1 .. n, NEW kind, NEW key,
           To(c, kind, key) # {}
    PROVE  \E i \in To(c, kind, key) :
             /\ LastTo(c, kind, key) = c[i]
             /\ \A j \in To(c, kind, key) : j <= i
<1> DEFINE at == To(c, kind, key)
           T == {n - i : i \in at}
<1>1. at \subseteq 1 .. n
  BY DEF To
<1> HIDE DEF at
<1>2. T \in SUBSET Nat /\ T # {}
  BY <1>1 DEF at
<1>3. PICK x \in T : \A y \in T : x <= y
  BY <1>2, LeastNat
<1>4. PICK i \in at : x = n - i
  BY <1>3
<1>5. \A j \in at : j <= i
  <2>1. ASSUME NEW j \in at PROVE j <= i
    <3>1. n - j \in T /\ i \in 1 .. n /\ j \in 1 .. n
      BY <1>1
    <3>2. n - i <= n - j
      BY <1>3, <1>4, <3>1
    <3> QED BY <3>1, <3>2
  <2> QED BY <2>1
<1>6. (CHOOSE k \in at : \A j \in at : j <= k) \in at
      /\ \A j \in at : j <= (CHOOSE k \in at : \A j2 \in at : j2 <= k)
  BY <1>4, <1>5
<1> QED BY <1>6 DEF LastTo, at

-----------------------------------------------------------------------------
(* The changes of a build. *)

Write(prep, o) == Change("out", o, prep.outputs[o], "script")
RemoveOut(o) == Change("out", o, "none", "script")
Text(view, o) == Change("out", o, view.input, "text")
Unpublish(r) == Change("tree", r, "none", "task")
Publish(view, r) == Change("tree", r, view.input, "task")
Own(view, does) == Change("owned", "owned", Owners(view, does), "task")

\* Whether a build replaces published trees (publication_changes).
Publishes(view, request, does) ==
    /\ request.apply
    /\ ~(view.disk.owned = Owners(view, does) /\ Matches(view.disk, Owners(view, does)))

TreeSet(view, does) ==
    {Change("tree", r, bytes, "task") : r \in does.trees, bytes \in {"mixed", view.input}}

PublicationSet(view, does) ==
    {Unpublish(r) : r \in Replaced(view, does)} \cup TreeSet(view, does)
      \cup {Own(view, does)}

ChangeSet(view, request, prep) ==
    {Write(prep, o) : o \in Writable(view, prep)}
      \cup {RemoveOut(o) : o \in Removable(view, prep)}
      \cup {Text(view, o) : o \in Texts(view, prep)}
      \cup (IF Publishes(view, request, prep.does) THEN PublicationSet(view, prep.does) ELSE {})

\* What a task and a script declare, and what a build knows of the last one.
PrepShape(prep) ==
    /\ IsFiniteSet(DOMAIN prep.outputs) /\ IsFiniteSet(DOMAIN prep.recovered)
    /\ IsFiniteSet(prep.does.texts) /\ IsFiniteSet(prep.does.trees)

(* Every tree is finished after it was begun (publication_changes).        *)
LEMMA TreeChangesFacts ==
    ASSUME NEW view, NEW does, IsFiniteSet(does.trees)
    PROVE  LET c == TreeChanges(view, does) IN
           /\ c \in Seq(TreeSet(view, does))
           /\ \A r \in does.trees : \E i \in 1 .. Len(c) : c[i] = Publish(view, r)
           /\ \A i \in 1 .. Len(c) : \E j \in 1 .. Len(c) :
                i <= j /\ c[j] = Publish(view, c[i].key)
<1> DEFINE s == SetToSeq(does.trees)
           c == TreeChanges(view, does)
           t(n) == Change("tree", s[(n + 1) \div 2],
                          IF n % 2 = 1 THEN "mixed" ELSE view.input, "task")
<1>1. /\ s \in Seq(does.trees)
      /\ \A x \in does.trees : \E i \in 1 .. Len(s) : s[i] = x
  BY SetToSeqFacts
<1>2. c = [n \in 1 .. (2 * Len(s)) |-> t(n)]
  BY DEF TreeChanges
<1> HIDE DEF s, c
<1>3. Len(s) \in Nat /\ \A i \in 1 .. Len(s) : s[i] \in does.trees
  BY <1>1
<1>4. \A n \in 1 .. (2 * Len(s)) : (n + 1) \div 2 \in 1 .. Len(s)
  BY <1>3
<1>5. \A n \in 1 .. (2 * Len(s)) : t(n) \in TreeSet(view, does)
  <2> SUFFICES ASSUME NEW n \in 1 .. (2 * Len(s)) PROVE t(n) \in TreeSet(view, does)
    OBVIOUS
  <2> DEFINE r == s[(n + 1) \div 2]
             bytes == IF n % 2 = 1 THEN "mixed" ELSE view.input
  <2>1. r \in does.trees /\ bytes \in {"mixed", view.input}
    BY <1>3, <1>4
  <2>2. t(n) = Change("tree", r, bytes, "task")
    OBVIOUS
  <2> HIDE DEF r, bytes, t
  <2> QED BY <2>1, <2>2 DEF TreeSet
<1> HIDE DEF t
<1>6. c \in Seq(TreeSet(view, does)) /\ Len(c) = 2 * Len(s)
  <2>1. 2 * Len(s) \in Nat
    BY <1>3
  <2>2. c \in [1 .. (2 * Len(s)) -> TreeSet(view, does)]
    BY <1>2, <1>5
  <2> QED BY <2>1, <2>2
<1>7. \A n \in 1 .. (2 * Len(s)) : c[n] = t(n)
  BY <1>2
<1>8. ASSUME NEW k \in 1 .. Len(s)
      PROVE  2 * k \in 1 .. Len(c) /\ c[2 * k] = Publish(view, s[k])
  <2>1. 2 * k \in 1 .. Len(c) /\ (2 * k + 1) \div 2 = k /\ (2 * k) % 2 = 0
    BY <1>3, <1>6
  <2>2. c[2 * k] = t(2 * k)
    BY <1>6, <1>7, <2>1
  <2> QED BY <2>1, <2>2 DEF t, Publish
<1>9. \A r \in does.trees : \E i \in 1 .. Len(c) : c[i] = Publish(view, r)
  BY <1>1, <1>8
<1>10. ASSUME NEW i \in 1 .. Len(c)
       PROVE  \E j \in 1 .. Len(c) : i <= j /\ c[j] = Publish(view, c[i].key)
  <2> DEFINE k == (i + 1) \div 2
  <2>1. k \in 1 .. Len(s) /\ i <= 2 * k
    BY <1>3, <1>6
  <2>2. c[i].key = s[k]
    BY <1>6, <1>7 DEF t, Change
  <2> HIDE DEF k
  <2> QED BY <1>8, <2>1, <2>2
<1> QED BY <1>6, <1>9, <1>10 DEF c

\* The first change of a tree that is published.
Starts(x, view, trees) ==
    x.kind = "tree" /\ x.bytes = "mixed" /\ x.bytes # view.input /\ x.key \in trees

\* A change of a tree that is published is followed by the one that finishes it.
Finishing(c, view, trees) ==
    \A i \in 1 .. Len(c) : c[i].kind = "tree" /\ c[i].key \in trees =>
        \E j \in 1 .. Len(c) : i <= j /\ c[j] = Publish(view, c[i].key)

(* Changes are found, and trees finished, in a concatenation.              *)
LEMMA ConcatFound ==
    ASSUME NEW T, NEW a \in Seq(T), NEW b \in Seq(T), NEW view, NEW trees
    PROVE  /\ \A x : Found(a, x) \/ Found(b, x) => Found(a \o b, x)
           /\ /\ Finishing(a, view, trees) \/ \A r \in trees : Found(b, Publish(view, r))
              /\ Finishing(b, view, trees)
              => Finishing(a \o b, view, trees)
<1> DEFINE c == a \o b
<1>1. /\ c \in Seq(T) /\ Len(c) = Len(a) + Len(b) /\ Len(a) \in Nat /\ Len(b) \in Nat
      /\ \A i \in 1 .. Len(a) : c[i] = a[i]
      /\ \A i \in 1 .. Len(b) : c[Len(a) + i] = b[i]
      /\ \A i \in 1 .. Len(c) :
           \/ i \in 1 .. Len(a)
           \/ i - Len(a) \in 1 .. Len(b) /\ i = Len(a) + (i - Len(a))
  BY ConcatFacts
<1> HIDE DEF c
<1>2. \A i \in 1 .. Len(a) : i \in 1 .. Len(c)
  BY <1>1
<1>3. \A i \in 1 .. Len(b) : Len(a) + i \in 1 .. Len(c)
  BY <1>1
<1>4. ASSUME NEW x, Found(a, x) \/ Found(b, x) PROVE Found(c, x)
  BY <1>1, <1>2, <1>3, <1>4 DEF Found
<1>5. ASSUME Finishing(a, view, trees) \/ \A r \in trees : Found(b, Publish(view, r)),
             Finishing(b, view, trees),
             NEW i \in 1 .. Len(c), c[i].kind = "tree", c[i].key \in trees
      PROVE  \E j \in 1 .. Len(c) : i <= j /\ c[j] = Publish(view, c[i].key)
  <2>1. CASE i \in 1 .. Len(a) /\ Finishing(a, view, trees)
    BY <1>1, <1>2, <1>5, <2>1 DEF Finishing
  <2>2. CASE i \in 1 .. Len(a) /\ \A r \in trees : Found(b, Publish(view, r))
    <3>1. PICK j \in 1 .. Len(b) : b[j] = Publish(view, c[i].key)
      BY <1>5, <2>2 DEF Found
    <3>2. Len(a) + j \in 1 .. Len(c) /\ i <= Len(a) + j
      BY <1>1, <1>3, <2>2
    <3> QED BY <1>1, <3>1, <3>2
  <2>3. CASE i - Len(a) \in 1 .. Len(b) /\ i = Len(a) + (i - Len(a))
    <3> DEFINE k == i - Len(a)
    <3>1. k \in 1 .. Len(b) /\ c[i] = b[k]
      BY <1>1, <2>3
    <3> HIDE DEF k
    <3>2. PICK j \in 1 .. Len(b) : k <= j /\ b[j] = Publish(view, c[i].key)
      BY <1>5, <3>1 DEF Finishing
    <3>3. Len(a) + j \in 1 .. Len(c) /\ i <= Len(a) + j /\ c[Len(a) + j] = b[j]
      BY <1>1, <1>3, <3>2 DEF k
    <3> QED BY <3>2, <3>3
  <2> QED BY <1>1, <1>5, <2>1, <2>2, <2>3
<1> QED BY <1>4, <1>5 DEF Finishing, c

(* What a build changes is decided by its snapshot, its request and what it *)
(* prepared; a tree that it publishes is finished last.                     *)
LEMMA BuildChangesFacts ==
    ASSUME NEW view, NEW request, NEW prep, PrepShape(prep),
           IsFiniteSet(Replaced(view, prep.does))
    PROVE  LET c == BuildChanges(view, request, prep) IN
           /\ c \in Seq(ChangeSet(view, request, prep))
           /\ \A x \in ChangeSet(view, request, prep) :
                Found(c, x) \/ Starts(x, view, prep.does.trees)
           /\ Finishing(c, view, prep.does.trees)
<1> DEFINE U == ChangeSet(view, request, prep)
           does == prep.does
           P == Publishes(view, request, does)
           fa == [o \in Writable(view, prep) |-> Write(prep, o)]
           fb == [o \in Removable(view, prep) |-> RemoveOut(o)]
           fd == [o \in Texts(view, prep) |-> Text(view, o)]
           fx == [r \in Replaced(view, does) |-> Unpublish(r)]
           a == Listed(fa)
           b == Listed(fb)
           d == Listed(fd)
           x0 == Listed(fx)
           y0 == TreeChanges(view, does)
           z0 == <<Own(view, does)>>
           p0 == (x0 \o y0) \o z0
           p1 == IF P THEN p0 ELSE <<>>
<1>1. /\ IsFiniteSet(Writable(view, prep)) /\ IsFiniteSet(Removable(view, prep))
      /\ IsFiniteSet(Texts(view, prep))
  BY FS_Subset DEF PrepShape, Writable, Removable, Texts
<1>2. BuildChanges(view, request, prep) = ((a \o b) \o p1) \o d
  BY DEF BuildChanges, OutputChanges, PublicationChanges, TextChanges, Publishes, Write,
         RemoveOut, Text, Unpublish, Own
<1>3. /\ a \in Seq(U) /\ \A o \in Writable(view, prep) : Found(a, Write(prep, o))
      /\ \A i \in 1 .. Len(a) : \E o \in Writable(view, prep) : a[i] = Write(prep, o)
  <2>1. fa \in [Writable(view, prep) -> U]
    BY DEF ChangeSet
  <2>2. \A o \in Writable(view, prep) : fa[o] = Write(prep, o)
    OBVIOUS
  <2> HIDE DEF U, fa
  <2>3. /\ Listed(fa) \in Seq(U)
        /\ \A i \in 1 .. Len(Listed(fa)) : Listed(fa)[i] \in {fa[o] : o \in Writable(view, prep)}
        /\ \A o \in Writable(view, prep) : Found(Listed(fa), fa[o])
    BY <1>1, <2>1, ListedFacts
  <2> QED BY <2>2, <2>3
<1>4. /\ b \in Seq(U) /\ \A o \in Removable(view, prep) : Found(b, RemoveOut(o))
      /\ \A i \in 1 .. Len(b) : \E o \in Removable(view, prep) : b[i] = RemoveOut(o)
  <2>1. fb \in [Removable(view, prep) -> U]
    BY DEF ChangeSet
  <2>2. \A o \in Removable(view, prep) : fb[o] = RemoveOut(o)
    OBVIOUS
  <2> HIDE DEF U, fb
  <2>3. /\ Listed(fb) \in Seq(U)
        /\ \A i \in 1 .. Len(Listed(fb)) : Listed(fb)[i] \in {fb[o] : o \in Removable(view, prep)}
        /\ \A o \in Removable(view, prep) : Found(Listed(fb), fb[o])
    BY <1>1, <2>1, ListedFacts
  <2> QED BY <2>2, <2>3
<1>5. /\ d \in Seq(U) /\ \A o \in Texts(view, prep) : Found(d, Text(view, o))
      /\ \A i \in 1 .. Len(d) : \E o \in Texts(view, prep) : d[i] = Text(view, o)
  <2>1. fd \in [Texts(view, prep) -> U]
    BY DEF ChangeSet
  <2>2. \A o \in Texts(view, prep) : fd[o] = Text(view, o)
    OBVIOUS
  <2> HIDE DEF U, fd
  <2>3. /\ Listed(fd) \in Seq(U)
        /\ \A i \in 1 .. Len(Listed(fd)) : Listed(fd)[i] \in {fd[o] : o \in Texts(view, prep)}
        /\ \A o \in Texts(view, prep) : Found(Listed(fd), fd[o])
    BY <1>1, <2>1, ListedFacts
  <2> QED BY <2>2, <2>3
<1>6. /\ Finishing(a, view, does.trees) /\ Finishing(b, view, does.trees)
      /\ Finishing(d, view, does.trees)
  <2>1. /\ \A o : Write(prep, o).kind = "out" /\ RemoveOut(o).kind = "out"
        /\ \A o : Text(view, o).kind = "out"
    BY DEF Write, RemoveOut, Text, Change
  <2> HIDE DEF a, b, d
  <2>2. Finishing(a, view, does.trees)
    BY <1>3, <2>1 DEF Finishing
  <2>3. Finishing(b, view, does.trees)
    BY <1>4, <2>1 DEF Finishing
  <2>4. Finishing(d, view, does.trees)
    BY <1>5, <2>1 DEF Finishing
  <2> QED BY <2>2, <2>3, <2>4
<1>7. ASSUME P
      PROVE  /\ p0 \in Seq(U) /\ Finishing(p0, view, does.trees)
             /\ \A x \in PublicationSet(view, does) :
                  Found(p0, x) \/ Starts(x, view, does.trees)
  <2>1. PublicationSet(view, does) \subseteq U
    BY <1>7 DEF ChangeSet
  <2>2. fx \in [Replaced(view, does) -> U]
    BY <2>1 DEF PublicationSet
  <2>3. x0 \in Seq(U) /\ \A r \in Replaced(view, does) : Found(x0, Unpublish(r))
    <3>1. \A r \in Replaced(view, does) : fx[r] = Unpublish(r)
      OBVIOUS
    <3> HIDE DEF U, fx
    <3>2. /\ Listed(fx) \in Seq(U)
          /\ \A r \in Replaced(view, does) : Found(Listed(fx), fx[r])
      BY <2>2, ListedFacts
    <3> QED BY <3>1, <3>2
  <2>4. /\ y0 \in Seq(TreeSet(view, does))
        /\ \A r \in does.trees : Found(y0, Publish(view, r))
        /\ Finishing(y0, view, does.trees)
    <3>1. IsFiniteSet(does.trees)
      BY DEF PrepShape
    <3> HIDE DEF does
    <3> QED BY <3>1, TreeChangesFacts, Zenon DEF Found, Finishing
  <2>5. y0 \in Seq(U)
    <3>1. TreeSet(view, does) \subseteq U
      BY <2>1 DEF PublicationSet
    <3> HIDE DEF U, y0
    <3> QED BY <2>4, <3>1
  <2>6. z0 \in Seq(U) /\ Found(z0, Own(view, does)) /\ Finishing(z0, view, does.trees)
    <3>1. Own(view, does) \in U /\ Own(view, does).kind = "owned"
      BY <2>1 DEF PublicationSet, Own, Change
    <3> HIDE DEF U
    <3>2. z0 \in Seq(U) /\ Len(z0) = 1 /\ z0[1] = Own(view, does)
      BY <3>1
    <3> HIDE DEF z0
    <3> QED BY <3>1, <3>2 DEF Found, Finishing
  <2> HIDE DEF U, x0, y0, z0
  <2>7. /\ x0 \o y0 \in Seq(U) /\ Finishing(x0 \o y0, view, does.trees)
        /\ \A x : Found(x0, x) \/ Found(y0, x) => Found(x0 \o y0, x)
    BY <2>3, <2>4, <2>5, ConcatFound, ConcatFacts
  <2>8. /\ p0 \in Seq(U) /\ Finishing(p0, view, does.trees)
        /\ \A x : Found(x0 \o y0, x) \/ Found(z0, x) => Found(p0, x)
    BY <2>6, <2>7, ConcatFound, ConcatFacts
  <2>9. ASSUME NEW x \in PublicationSet(view, does)
        PROVE  Found(p0, x) \/ Starts(x, view, does.trees)
    <3> HIDE DEF p0
    <3>1. CASE x \in {Unpublish(r) : r \in Replaced(view, does)}
      BY <2>3, <2>7, <2>8, <3>1
    <3>2. CASE x = Own(view, does)
      BY <2>6, <2>8, <3>2
    <3>3. CASE x \in TreeSet(view, does)
      <4>1. PICK r \in does.trees, bytes \in {"mixed", view.input} :
              x = Change("tree", r, bytes, "task")
        BY <3>3 DEF TreeSet
      <4>2. x.kind = "tree" /\ x.key = r /\ x.bytes = bytes
        BY <4>1 DEF Change
      <4>3. bytes = view.input => x = Publish(view, r)
        BY <4>1 DEF Publish
      <4> QED BY <2>4, <2>7, <2>8, <4>1, <4>2, <4>3 DEF Starts
    <3> QED BY <3>1, <3>2, <3>3 DEF PublicationSet
  <2> QED BY <2>8, <2>9
<1>8. /\ p1 \in Seq(U) /\ Finishing(p1, view, does.trees)
      /\ P => p1 = p0
  <2> HIDE DEF p0, P, U
  <2>1. CASE P
    BY <1>7, <2>1
  <2>2. CASE ~P
    <3>1. p1 = <<>> /\ Len(<<>>) = 0 /\ <<>> \in Seq(U)
      BY <2>2
    <3> HIDE DEF p1
    <3> QED BY <2>2, <3>1 DEF Finishing
  <2> QED BY <2>1, <2>2
<1> HIDE DEF a, b, d, p0, p1
<1>9. /\ a \o b \in Seq(U) /\ Finishing(a \o b, view, does.trees)
      /\ \A x : Found(a, x) \/ Found(b, x) => Found(a \o b, x)
  <2> HIDE DEF U
  <2> QED BY <1>3, <1>4, <1>6, ConcatFound, ConcatFacts
<1>10. /\ (a \o b) \o p1 \in Seq(U) /\ Finishing((a \o b) \o p1, view, does.trees)
       /\ \A x : Found(a \o b, x) \/ Found(p1, x) => Found((a \o b) \o p1, x)
  <2> HIDE DEF U
  <2> QED BY <1>8, <1>9, ConcatFound, ConcatFacts
<1> DEFINE c == ((a \o b) \o p1) \o d
<1>11. /\ c \in Seq(U) /\ Finishing(c, view, does.trees)
       /\ \A x : Found((a \o b) \o p1, x) \/ Found(d, x) => Found(c, x)
  <2> HIDE DEF U
  <2> QED BY <1>5, <1>6, <1>10, ConcatFound, ConcatFacts
<1>12. ASSUME NEW x \in U
       PROVE  Found(c, x) \/ Starts(x, view, does.trees)
  <2> HIDE DEF c
  <2>1. \/ x \in {Write(prep, o) : o \in Writable(view, prep)}
        \/ x \in {RemoveOut(o) : o \in Removable(view, prep)}
        \/ x \in {Text(view, o) : o \in Texts(view, prep)}
        \/ P /\ x \in PublicationSet(view, does)
    BY DEF ChangeSet
  <2> HIDE DEF U, P
  <2>2. P /\ x \in PublicationSet(view, does) =>
          Found(p1, x) \/ Starts(x, view, does.trees)
    BY <1>7, <1>8
  <2> QED BY <1>3, <1>4, <1>5, <1>9, <1>10, <1>11, <2>1, <2>2
<1> HIDE DEF U
<1>13. BuildChanges(view, request, prep) = c
  BY <1>2
<1> HIDE DEF c
<1> QED BY <1>11, <1>12, <1>13 DEF U

\* A prepared build whose script and tasks write different files.
Ready(view, prep) ==
    /\ PrepShape(prep)
    /\ IsFiniteSet(Replaced(view, prep.does))
    /\ DOMAIN prep.outputs \cap prep.does.texts = {}

(* The entries that the changes of a build are to.                         *)
LEMMA ChangeKinds ==
    ASSUME NEW view, NEW request, NEW prep, NEW x \in ChangeSet(view, request, prep)
    PROVE  \/ x.kind = "out" /\ x.key \in Writable(view, prep) /\ x = Write(prep, x.key)
           \/ x.kind = "out" /\ x.key \in Removable(view, prep) /\ x = RemoveOut(x.key)
           \/ x.kind = "out" /\ x.key \in Texts(view, prep) /\ x = Text(view, x.key)
           \/ /\ Publishes(view, request, prep.does)
              /\ \/ /\ x.kind = "tree" /\ x.key \in Replaced(view, prep.does)
                    /\ x = Unpublish(x.key)
                 \/ /\ x.kind = "tree" /\ x.key \in prep.does.trees
                    /\ x.bytes \in {"mixed", view.input}
                 \/ x.kind = "owned" /\ x.key = "owned" /\ x = Own(view, prep.does)
<1>1. ASSUME NEW o, x = Write(prep, o) PROVE x.kind = "out" /\ x.key = o
  BY <1>1 DEF Write, Change
<1>2. ASSUME NEW o, x = RemoveOut(o) PROVE x.kind = "out" /\ x.key = o
  BY <1>2 DEF RemoveOut, Change
<1>3. ASSUME NEW o, x = Text(view, o) PROVE x.kind = "out" /\ x.key = o
  BY <1>3 DEF Text, Change
<1>4. ASSUME NEW r, x = Unpublish(r) PROVE x.kind = "tree" /\ x.key = r
  BY <1>4 DEF Unpublish, Change
<1>5. ASSUME NEW r, NEW b, x = Change("tree", r, b, "task")
      PROVE  x.kind = "tree" /\ x.key = r /\ x.bytes = b
  BY <1>5 DEF Change
<1>6. ASSUME x = Own(view, prep.does) PROVE x.kind = "owned" /\ x.key = "owned"
  BY <1>6 DEF Own, Change
<1>7. CASE x \in {Write(prep, o) : o \in Writable(view, prep)}
  BY <1>1, <1>7
<1>8. CASE x \in {RemoveOut(o) : o \in Removable(view, prep)}
  BY <1>2, <1>8
<1>9. CASE x \in {Text(view, o) : o \in Texts(view, prep)}
  BY <1>3, <1>9
<1>10. CASE Publishes(view, request, prep.does) /\ x \in PublicationSet(view, prep.does)
  <2>1. CASE x \in {Unpublish(r) : r \in Replaced(view, prep.does)}
    BY <1>4, <1>10, <2>1
  <2>2. CASE x \in TreeSet(view, prep.does)
    BY <1>5, <1>10, <2>2 DEF TreeSet
  <2>3. CASE x = Own(view, prep.does)
    BY <1>6, <1>10, <2>3
  <2> QED BY <1>10, <2>1, <2>2, <2>3 DEF PublicationSet
<1> QED BY <1>7, <1>8, <1>9, <1>10 DEF ChangeSet

(* Each generated file has at most one kind of change, and it decides.     *)
LEMMA OutAfter ==
    ASSUME NEW view, NEW request, NEW prep, Ready(view, prep), NEW o
    PROVE  LET c == BuildChanges(view, request, prep) IN
           /\ To(c, "out", o) = {} <=>
                o \notin Writable(view, prep) \cup Removable(view, prep) \cup Texts(view, prep)
           /\ o \in Writable(view, prep) => LastTo(c, "out", o) = Write(prep, o)
           /\ o \in Removable(view, prep) => LastTo(c, "out", o) = RemoveOut(o)
           /\ o \in Texts(view, prep) => LastTo(c, "out", o) = Text(view, o)
<1> DEFINE c == BuildChanges(view, request, prep)
           U == ChangeSet(view, request, prep)
           at == To(c, "out", o)
<1>1. c \in Seq(U) /\ \A x \in U : Found(c, x) \/ Starts(x, view, prep.does.trees)
  BY BuildChangesFacts DEF Ready
<1>2. /\ Writable(view, prep) \cap Removable(view, prep) = {}
      /\ Writable(view, prep) \cap Texts(view, prep) = {}
      /\ Removable(view, prep) \cap Texts(view, prep) = {}
  BY DEF Ready, Writable, Removable, Texts
<1>3. ASSUME NEW x \in U, x.kind = "out", x.key = o
      PROVE  \/ o \in Writable(view, prep) /\ x = Write(prep, o)
             \/ o \in Removable(view, prep) /\ x = RemoveOut(o)
             \/ o \in Texts(view, prep) /\ x = Text(view, o)
  BY <1>3, ChangeKinds
<1>4. /\ o \in Writable(view, prep) => Write(prep, o) \in U
      /\ o \in Removable(view, prep) => RemoveOut(o) \in U
      /\ o \in Texts(view, prep) => Text(view, o) \in U
  BY DEF ChangeSet
<1> HIDE DEF U
<1>5. /\ Write(prep, o).kind = "out" /\ Write(prep, o).key = o
      /\ RemoveOut(o).kind = "out" /\ RemoveOut(o).key = o
      /\ Text(view, o).kind = "out" /\ Text(view, o).key = o
  BY DEF Write, RemoveOut, Text, Change
<1> HIDE DEF c
<1>6. DOMAIN c = 1 .. Len(c) /\ Len(c) \in Nat /\ \A i \in 1 .. Len(c) : c[i] \in U
  BY <1>1
<1>7. \A i \in at : c[i] \in U /\ c[i].kind = "out" /\ c[i].key = o
  BY <1>6 DEF To
<1>8. \A x \in U : x.kind = "out" /\ x.key = o => at # {}
  BY <1>1, <1>6 DEF To, Found, Starts
<1>9. at = {} <=> o \notin Writable(view, prep) \cup Removable(view, prep) \cup Texts(view, prep)
  <2> HIDE DEF at
  <2> QED BY <1>3, <1>4, <1>5, <1>7, <1>8
<1>10. at # {} => \E i \in at : LastTo(c, "out", o) = c[i]
  BY <1>6, LastToFacts
<1> HIDE DEF at
<1>11. at # {} => LastTo(c, "out", o) \in {x \in U : x.kind = "out" /\ x.key = o}
  BY <1>7, <1>10
<1>12. /\ o \in Writable(view, prep) => LastTo(c, "out", o) = Write(prep, o)
       /\ o \in Removable(view, prep) => LastTo(c, "out", o) = RemoveOut(o)
       /\ o \in Texts(view, prep) => LastTo(c, "out", o) = Text(view, o)
  BY <1>2, <1>3, <1>9, <1>11
<1> QED BY <1>9, <1>12 DEF c, at

(* A tree that is declared is published in full, and one that is retired   *)
(* is gone (publication_changes).                                          *)
LEMMA TreeAfter ==
    ASSUME NEW view, NEW request, NEW prep, Ready(view, prep), NEW r
    PROVE  LET c == BuildChanges(view, request, prep)
               does == prep.does
               P == Publishes(view, request, does) IN
           /\ To(c, "tree", r) = {} <=> ~(P /\ r \in Replaced(view, does) \cup does.trees)
           /\ P /\ r \in does.trees => LastTo(c, "tree", r) = Publish(view, r)
           /\ P /\ r \in Replaced(view, does) \ does.trees => LastTo(c, "tree", r) = Unpublish(r)
<1> DEFINE c == BuildChanges(view, request, prep)
           does == prep.does
           P == Publishes(view, request, does)
           U == ChangeSet(view, request, prep)
           at == To(c, "tree", r)
<1>1. c \in Seq(U) /\ \A x \in U : Found(c, x) \/ Starts(x, view, does.trees)
  BY BuildChangesFacts DEF Ready
<1>2. Finishing(c, view, does.trees)
  BY BuildChangesFacts DEF Ready
<1>3. ASSUME NEW x \in U, x.kind = "tree", x.key = r
      PROVE  P /\ (r \in does.trees \/ (r \in Replaced(view, does) /\ x = Unpublish(r)))
  BY <1>3, ChangeKinds
<1>4. ASSUME P
      PROVE  /\ r \in does.trees => Publish(view, r) \in U
             /\ r \in Replaced(view, does) => Unpublish(r) \in U
  BY <1>4 DEF ChangeSet, PublicationSet, TreeSet, Publish
<1> HIDE DEF U, P, does
<1>5. /\ Publish(view, r).kind = "tree" /\ Publish(view, r).key = r
      /\ Unpublish(r).kind = "tree" /\ Unpublish(r).key = r
      /\ Publish(view, r).bytes = view.input /\ Unpublish(r).bytes = "none"
  BY DEF Publish, Unpublish, Change
<1> HIDE DEF c
<1>6. DOMAIN c = 1 .. Len(c) /\ Len(c) \in Nat /\ \A i \in 1 .. Len(c) : c[i] \in U
  BY <1>1
<1>7. \A i \in at : i \in 1 .. Len(c) /\ c[i] \in U /\ c[i].kind = "tree" /\ c[i].key = r
  BY <1>6 DEF To
<1>8. \A x : Found(c, x) /\ x.kind = "tree" /\ x.key = r => at # {}
  BY <1>6 DEF To, Found
<1>9. ASSUME P, r \in does.trees PROVE at # {} /\ LastTo(c, "tree", r) = Publish(view, r)
  <2>1. PICK i \in 1 .. Len(c) : c[i].kind = "tree" /\ c[i].key = r
    <3>1. Publish(view, r) \in U
      BY <1>4, <1>9
    <3> QED BY <1>1, <1>5, <3>1 DEF Starts, Found
  <2>2. at # {}
    BY <1>6, <2>1 DEF To
  <2>3. PICK k \in at : LastTo(c, "tree", r) = c[k] /\ \A j \in at : j <= k
    BY <1>6, <2>2, LastToFacts
  <2>4. PICK j \in 1 .. Len(c) : k <= j /\ c[j] = Publish(view, r)
    BY <1>2, <1>7, <1>9, <2>3 DEF Finishing
  <2>5. j \in at
    BY <1>5, <1>6, <2>4 DEF To
  <2>6. j = k
    <3>1. k \in 1 .. Len(c) /\ j <= k
      BY <1>7, <2>3, <2>5
    <3> HIDE DEF at
    <3> QED BY <1>6, <2>4, <3>1
  <2> QED BY <2>2, <2>3, <2>4, <2>6
<1>10. ASSUME P, r \in Replaced(view, does) PROVE at # {}
  <2>1. Unpublish(r) \in U /\ ~Starts(Unpublish(r), view, does.trees)
    BY <1>4, <1>5, <1>10 DEF Starts
  <2> QED BY <1>1, <1>5, <1>8, <2>1
<1>11. at # {} => P /\ r \in Replaced(view, does) \cup does.trees
  BY <1>3, <1>7
<1>12. ASSUME P, r \in Replaced(view, does) \ does.trees
       PROVE  LastTo(c, "tree", r) = Unpublish(r)
  <2>1. PICK k \in at : LastTo(c, "tree", r) = c[k]
    BY <1>6, <1>10, <1>12, LastToFacts
  <2> QED BY <1>3, <1>7, <1>12, <2>1
<1> HIDE DEF at
<1> QED BY <1>9, <1>10, <1>11, <1>12 DEF c, at, P, does

(* The ownership file is written by the builds that publish.               *)
LEMMA OwnedAfter ==
    ASSUME NEW view, NEW request, NEW prep, Ready(view, prep)
    PROVE  LET c == BuildChanges(view, request, prep)
               P == Publishes(view, request, prep.does) IN
           /\ To(c, "owned", "owned") = {} <=> ~P
           /\ P => LastTo(c, "owned", "owned") = Own(view, prep.does)
<1> DEFINE c == BuildChanges(view, request, prep)
           own == Own(view, prep.does)
           P == Publishes(view, request, prep.does)
           U == ChangeSet(view, request, prep)
           at == To(c, "owned", "owned")
<1>1. c \in Seq(U) /\ \A x \in U : Found(c, x) \/ Starts(x, view, prep.does.trees)
  BY BuildChangesFacts DEF Ready
<1>2. \A x \in U : x.kind = "owned" => P /\ x = own
  BY ChangeKinds
<1>3. P => own \in U
  BY DEF ChangeSet, PublicationSet
<1>4. own.kind = "owned" /\ own.key = "owned"
  BY DEF Own, Change
<1> HIDE DEF U, P, own, c
<1>5. DOMAIN c = 1 .. Len(c) /\ Len(c) \in Nat /\ \A i \in 1 .. Len(c) : c[i] \in U
  BY <1>1
<1>6. \A i \in at : P /\ c[i] = own
  BY <1>2, <1>5 DEF To
<1>7. P => at # {}
  BY <1>1, <1>3, <1>4, <1>5 DEF Found, Starts, To
<1>8. P => LastTo(c, "owned", "owned") = own
  BY <1>5, <1>6, <1>7, LastToFacts
<1> HIDE DEF at
<1> QED BY <1>6, <1>7, <1>8 DEF c, P, at, own

-----------------------------------------------------------------------------
(* The files after a build. *)

Owner == [root : Roots, plan : [trees : SUBSET Roots, texts : SUBSET Outs], tree : Inputs]
Files == [out : [Outs -> Contents], tree : [Roots -> Contents], owned : SUBSET Owner]
View == [disk : Files, script : Scripts, input : Inputs]
Work == [writes : SUBSET Outs, texts : SUBSET Outs, trees : SUBSET Roots]

\* What a build of some script is to produce.
WantedOf(script, features) == IF script = NoScript THEN Nothing ELSE Does[script][features]

\* What is prepared is what the snapshot asks for, replayed or evaluated, and
\* what is recovered was generated.
PrepOk(view, request, prep) ==
    /\ prep.does = WantedOf(view.script, request.features)
    /\ prep.outputs = [o \in prep.does.writes |-> view.input]
    /\ DOMAIN prep.recovered \subseteq Outs
    /\ \A o \in DOMAIN prep.recovered : prep.recovered[o] \in Inputs
    /\ prep.does.writes \cap prep.does.texts = {}
    /\ view.script = NoScript => DOMAIN prep.recovered = {}

(* A script does something to files and roots of the project.              *)
LEMMA WantedType ==
    ASSUME NEW script \in Scripts, NEW request \in Requests
    PROVE  WantedOf(script, request.features) \in Work
BY BuildOutputsAssumption DEF WantedOf, Nothing, Work

(* The facts about a prepared build that its changes rest on.              *)
LEMMA PrepReady ==
    ASSUME NEW view \in View, NEW request \in Requests, NEW prep, PrepOk(view, request, prep)
    PROVE  /\ Ready(view, prep)
           /\ prep.does \in Work
           /\ DOMAIN prep.outputs = prep.does.writes
           /\ \A o \in prep.does.writes : prep.outputs[o] = view.input
           /\ view.input \in Inputs
           /\ view.input \notin {"none", "user", "mixed"}
           /\ Replaced(view, prep.does) \subseteq Roots
<1>1. prep.does \in Work
  BY WantedType DEF PrepOk, View
<1>2. DOMAIN prep.outputs = prep.does.writes
      /\ \A o \in prep.does.writes : prep.outputs[o] = view.input
  BY DEF PrepOk
<1>3. view.input \in Inputs /\ view.input \notin {"none", "user", "mixed"}
  BY BuildOutputsAssumption DEF View
<1>4. /\ prep.does.writes \subseteq Outs /\ prep.does.texts \subseteq Outs
      /\ prep.does.trees \subseteq Roots
  BY <1>1 DEF Work
<1>5. Replaced(view, prep.does) \subseteq Roots
  <2>1. \A w \in view.disk.owned : w.root \in Roots
    BY DEF View, Files, Owner
  <2> QED BY <1>4, <2>1 DEF Replaced
<1>6. PrepShape(prep)
  <2>1. IsFiniteSet(Outs) /\ IsFiniteSet(Roots)
    BY BuildOutputsAssumption
  <2>2. DOMAIN prep.recovered \subseteq Outs
    BY DEF PrepOk
  <2> QED BY <1>2, <1>4, <2>1, <2>2, FS_Subset DEF PrepShape
<1>7. IsFiniteSet(Replaced(view, prep.does))
  BY <1>5, FS_Subset, BuildOutputsAssumption
<1>8. DOMAIN prep.outputs \cap prep.does.texts = {}
  BY <1>2 DEF PrepOk
<1> QED BY <1>1, <1>2, <1>3, <1>5, <1>6, <1>7, <1>8 DEF Ready

(* The generated files after a build.                                      *)
LEMMA OutFiles ==
    ASSUME NEW view \in View, NEW request \in Requests, NEW prep, PrepOk(view, request, prep),
           NEW d, NEW o \in Outs
    PROVE  LET c == BuildChanges(view, request, prep)
               out == AllApplied(d, c).out[o] IN
           /\ o \in Writable(view, prep) => out = view.input /\ WroteBy(c)[o] = "script"
           /\ o \in Removable(view, prep) => out = "none" /\ WroteBy(c)[o] = "none"
           /\ o \in Texts(view, prep) => out = view.input /\ WroteBy(c)[o] = "text"
           /\ o \notin Writable(view, prep) \cup Removable(view, prep) \cup Texts(view, prep) =>
                out = d.out[o] /\ WroteBy(c)[o] = wrote[o]
<1> DEFINE c == BuildChanges(view, request, prep)
<1>1. /\ Ready(view, prep) /\ view.input \notin {"none", "user", "mixed"}
      /\ DOMAIN prep.outputs = prep.does.writes
      /\ \A q \in prep.does.writes : prep.outputs[q] = view.input
  BY PrepReady
<1>2. /\ To(c, "out", o) = {} <=>
           o \notin Writable(view, prep) \cup Removable(view, prep) \cup Texts(view, prep)
      /\ o \in Writable(view, prep) => LastTo(c, "out", o) = Write(prep, o)
      /\ o \in Removable(view, prep) => LastTo(c, "out", o) = RemoveOut(o)
      /\ o \in Texts(view, prep) => LastTo(c, "out", o) = Text(view, o)
  BY <1>1, OutAfter
<1> HIDE DEF c
<1>3. /\ AllApplied(d, c).out[o] =
           IF To(c, "out", o) = {} THEN d.out[o] ELSE LastTo(c, "out", o).bytes
      /\ WroteBy(c)[o] =
           IF To(c, "out", o) = {} THEN wrote[o]
           ELSE IF LastTo(c, "out", o).bytes = "none" THEN "none" ELSE LastTo(c, "out", o).by
  BY DEF AllApplied, After, WroteBy
<1>4. o \in Writable(view, prep) =>
        Write(prep, o).bytes = view.input /\ Write(prep, o).by = "script"
  BY <1>1 DEF Writable, Write, Change
<1>5. /\ RemoveOut(o).bytes = "none"
      /\ Text(view, o).bytes = view.input /\ Text(view, o).by = "text"
  BY DEF RemoveOut, Text, Change
<1>6. CASE o \in Writable(view, prep)
  BY <1>1, <1>2, <1>3, <1>4, <1>6 DEF Writable, Removable, Texts, Ready, c
<1>7. CASE o \in Removable(view, prep)
  BY <1>1, <1>2, <1>3, <1>5, <1>7 DEF Writable, Removable, Texts, Ready, c
<1>8. CASE o \in Texts(view, prep)
  BY <1>1, <1>2, <1>3, <1>5, <1>8 DEF Writable, Removable, Texts, Ready, c
<1>9. CASE o \notin Writable(view, prep) \cup Removable(view, prep) \cup Texts(view, prep)
  BY <1>2, <1>3, <1>9 DEF c
<1> QED BY <1>6, <1>7, <1>8, <1>9

(* The published trees and the ownership file after a build.               *)
LEMMA TreeFiles ==
    ASSUME NEW view \in View, NEW request \in Requests, NEW prep, PrepOk(view, request, prep),
           NEW d
    PROVE  LET c == BuildChanges(view, request, prep)
               does == prep.does
               e == AllApplied(d, c) IN
           /\ Publishes(view, request, does) =>
                /\ e.owned = Owners(view, does)
                /\ BuiltBy(c) = (built \ Replaced(view, does)) \cup does.trees
                /\ \A r \in Roots :
                     e.tree[r] = IF r \in does.trees THEN view.input
                                 ELSE IF r \in Replaced(view, does) THEN "none" ELSE d.tree[r]
           /\ ~Publishes(view, request, does) =>
                /\ e.owned = d.owned
                /\ BuiltBy(c) = built
                /\ \A r \in Roots : e.tree[r] = d.tree[r]
<1> DEFINE c == BuildChanges(view, request, prep)
           does == prep.does
           P == Publishes(view, request, does)
           U == ChangeSet(view, request, prep)
<1>1. Ready(view, prep) /\ view.input # "none"
  BY PrepReady
<1>2. /\ To(c, "owned", "owned") = {} <=> ~P
      /\ P => LastTo(c, "owned", "owned") = Own(view, does)
  BY <1>1, OwnedAfter
<1>3. \A r : /\ To(c, "tree", r) = {} <=> ~(P /\ r \in Replaced(view, does) \cup does.trees)
             /\ P /\ r \in does.trees => LastTo(c, "tree", r) = Publish(view, r)
             /\ P /\ r \in Replaced(view, does) \ does.trees =>
                  LastTo(c, "tree", r) = Unpublish(r)
  BY <1>1, TreeAfter
<1>4. /\ c \in Seq(U) /\ \A x \in U : Found(c, x) \/ Starts(x, view, does.trees)
      /\ Finishing(c, view, does.trees)
  BY <1>1, BuildChangesFacts DEF Ready
<1>5. \A x \in U : x.kind = "tree" =>
        /\ P
        /\ x.bytes = "none" => x.key \in Replaced(view, does)
        /\ x.bytes # "none" => x.key \in does.trees
  BY <1>1, ChangeKinds DEF Unpublish, Change
<1>6. P => /\ \A r \in Replaced(view, does) : Unpublish(r) \in U
           /\ \A r \in does.trees : Publish(view, r) \in U
  BY DEF ChangeSet, PublicationSet, TreeSet, Publish
<1> HIDE DEF U, P, does, c
<1>7. /\ \A r : /\ Unpublish(r).kind = "tree" /\ Unpublish(r).key = r
                /\ Unpublish(r).bytes = "none"
      /\ \A r : /\ Publish(view, r).kind = "tree" /\ Publish(view, r).key = r
                /\ Publish(view, r).bytes = view.input
      /\ Own(view, does).bytes = Owners(view, does)
  BY DEF Unpublish, Publish, Own, Change
<1>8. /\ AllApplied(d, c).owned =
           IF To(c, "owned", "owned") = {} THEN d.owned ELSE LastTo(c, "owned", "owned").bytes
      /\ \A r \in Roots : AllApplied(d, c).tree[r] =
           IF To(c, "tree", r) = {} THEN d.tree[r] ELSE LastTo(c, "tree", r).bytes
  BY DEF AllApplied, After
<1>9. ToSet(c) \subseteq U /\ \A x : Found(c, x) => x \in ToSet(c)
  BY <1>4 DEF ToSet, Found
<1> DEFINE put == {y.key : y \in {x \in ToSet(c) : x.kind = "tree" /\ x.bytes # "none"}}
           gone == {y.key : y \in {x \in ToSet(c) : x.kind = "tree" /\ x.bytes = "none"}}
<1>10. BuiltBy(c) = (built \ gone) \cup put
  BY DEF BuiltBy
<1>11. /\ P => gone = Replaced(view, does) /\ put = does.trees
       /\ ~P => gone = {} /\ put = {}
  <2>1. ~P => gone = {} /\ put = {}
    BY <1>5, <1>9
  <2>2. gone \subseteq Replaced(view, does) /\ put \subseteq does.trees
    BY <1>5, <1>9
  <2>3. ASSUME P, NEW r \in Replaced(view, does) PROVE r \in gone
    <3>1. Unpublish(r) \in U /\ ~Starts(Unpublish(r), view, does.trees)
      BY <1>6, <1>7, <2>3 DEF Starts
    <3>2. Unpublish(r) \in ToSet(c)
      BY <1>4, <1>9, <3>1
    <3> QED BY <1>7, <3>2
  <2>4. ASSUME P, NEW r \in does.trees PROVE r \in put
    <3>1. Publish(view, r) \in U /\ ~Starts(Publish(view, r), view, does.trees)
      BY <1>6, <1>7, <2>4 DEF Starts
    <3>2. Publish(view, r) \in ToSet(c)
      BY <1>4, <1>9, <3>1
    <3> QED BY <1>1, <1>7, <3>2
  <2> HIDE DEF gone, put
  <2> QED BY <2>1, <2>2, <2>3, <2>4
<1> HIDE DEF gone, put
<1>12. P => BuiltBy(c) = (built \ Replaced(view, does)) \cup does.trees
  BY <1>10, <1>11
<1>13. ~P => BuiltBy(c) = built
  BY <1>10, <1>11
<1>14. ASSUME P, NEW r \in Roots
       PROVE  AllApplied(d, c).tree[r] =
                IF r \in does.trees THEN view.input
                ELSE IF r \in Replaced(view, does) THEN "none" ELSE d.tree[r]
  BY <1>3, <1>7, <1>8, <1>14
<1>15. ~P => \A r \in Roots : AllApplied(d, c).tree[r] = d.tree[r]
  BY <1>3, <1>8
<1>16. AllApplied(d, c).owned = IF P THEN Owners(view, does) ELSE d.owned
  BY <1>2, <1>7, <1>8
<1> QED BY <1>12, <1>13, <1>14, <1>15, <1>16 DEF P, c, does

(* A build that is not refused found the entries it touches as its         *)
(* snapshot had them, and one that touches nothing has no changes.         *)
LEMMA TouchedFiles ==
    ASSUME NEW view \in View, NEW request \in Requests, NEW prep, PrepOk(view, request, prep),
           NEW d
    PROVE  LET c == BuildChanges(view, request, prep) IN
           /\ (\A x \in ToSet(c) : Entry(d, x) = Entry(view.disk, x)) =>
                /\ \A o \in Writable(view, prep) \cup Removable(view, prep) \cup Texts(view, prep) :
                     d.out[o] = view.disk.out[o]
                /\ Publishes(view, request, prep.does) => d.owned = view.disk.owned
           /\ /\ Writable(view, prep) = {} /\ Removable(view, prep) = {} /\ Texts(view, prep) = {}
              /\ ~Publishes(view, request, prep.does)
              => c = <<>>
<1> DEFINE c == BuildChanges(view, request, prep)
           does == prep.does
           P == Publishes(view, request, does)
           U == ChangeSet(view, request, prep)
<1>1. Ready(view, prep)
  BY PrepReady
<1>2. c \in Seq(U) /\ \A x \in U : Found(c, x) \/ Starts(x, view, does.trees)
  BY <1>1, BuildChangesFacts DEF Ready
<1>3. ASSUME \A x \in ToSet(c) : Entry(d, x) = Entry(view.disk, x),
             NEW o \in Writable(view, prep) \cup Removable(view, prep) \cup Texts(view, prep)
      PROVE  d.out[o] = view.disk.out[o]
  <2>1. PICK x \in U : x.kind = "out" /\ x.key = o
    <3>1. /\ Write(prep, o).kind = "out" /\ Write(prep, o).key = o
          /\ RemoveOut(o).kind = "out" /\ RemoveOut(o).key = o
          /\ Text(view, o).kind = "out" /\ Text(view, o).key = o
      BY DEF Write, RemoveOut, Text, Change
    <3>2. \E x \in {Write(prep, o), RemoveOut(o), Text(view, o)} : x \in U
      BY DEF ChangeSet
    <3> HIDE DEF U
    <3> QED BY <3>1, <3>2
  <2>2. x \in ToSet(c)
    <3> HIDE DEF c, U
    <3> QED BY <1>2, <2>1 DEF ToSet, Found, Starts
  <2> HIDE DEF c
  <2> QED BY <1>3, <2>1, <2>2 DEF Entry
<1>4. ASSUME \A x \in ToSet(c) : Entry(d, x) = Entry(view.disk, x), P
      PROVE  d.owned = view.disk.owned
  <2>1. Own(view, does) \in U
    BY <1>4 DEF ChangeSet, PublicationSet
  <2>2. Own(view, does).kind = "owned"
    BY DEF Own, Change
  <2>3. Own(view, does) \in ToSet(c)
    <3> HIDE DEF c, U, does
    <3> QED BY <1>2, <2>1, <2>2 DEF ToSet, Found, Starts
  <2> HIDE DEF c
  <2> QED BY <1>4, <2>2, <2>3 DEF Entry
<1>5. ASSUME Writable(view, prep) = {}, Removable(view, prep) = {}, Texts(view, prep) = {}, ~P
      PROVE  c = <<>>
  <2>1. U = {}
    BY <1>5 DEF ChangeSet
  <2> HIDE DEF c, U
  <2> QED BY <1>2, <2>1
<1> QED BY <1>3, <1>4, <1>5

-----------------------------------------------------------------------------
(* The invariant. *)

Building(b) == b.pc \in {"opened", "planned"}
Gap(d) == \E w \in d.owned : d.tree[w.root] = "none"

\* A recorded state is that of the script and the features it names.
StateOk(s) ==
    /\ DOMAIN s = {"script", "does", "outputs", "fingerprint"}
    /\ s.does = WantedOf(s.fingerprint.script, s.fingerprint.features)
    /\ s.does \in Work
    /\ s.fingerprint.script # NoScript
    /\ s.fingerprint.files[1] \in Inputs
    /\ s.outputs = [o \in s.does.writes |-> s.fingerprint.files[1]]

\* A planned build has the changes of some preparation of its snapshot.
PlanOk(b) ==
    /\ DOMAIN b = {"pc", "request", "view", "outputs", "state", "changes"}
    /\ \E prep : /\ PrepOk(b.view, b.request, prep)
                 /\ b.outputs = prep.outputs
                 /\ b.changes = BuildChanges(b.view, b.request, prep)
    /\ b.state = NoState \/ (StateOk(b.state) /\ b.state.outputs = b.outputs)
    /\ b.view.script = NoScript => b.state = NoState

ProcOk(b) ==
    /\ b.pc \in {"idle", "opened", "planned", "committed", "clean"}
    /\ b.pc \in {"opened", "planned", "committed"} => b.request \in Requests /\ b.view \in View
    /\ b.pc \in {"planned", "committed"} => PlanOk(b)
    /\ b.pc = "clean" => DOMAIN b = {"pc", "todo"} /\ b.todo \subseteq Roots

Types ==
    /\ disk \in Files
    /\ project \in [script : Scripts, input : Inputs]
    /\ indexed = NoState \/ StateOk(indexed)
    /\ DOMAIN proc = Builders
    /\ \A p \in Builders : ProcOk(proc[p])
    /\ wrote \in [Outs -> {"none", "user", "script", "text"}]
    /\ built \subseteq Roots

\* As long as nothing was forgotten: a published tree is recorded and in place;
\* no build sees an owned root as empty whose tree is there, and only one that
\* runs alone sees an empty one at all; a clean runs alone and has every
\* published tree before it.
Trees ==
    ~forgotten =>
      /\ \A r \in built : \E w \in disk.owned : w.root = r
      /\ \A r \in built : disk.tree[r] # "none"
      /\ \A p \in Builders : Building(proc[p]) =>
           \A w \in proc[p].view.disk.owned :
             proc[p].view.disk.tree[w.root] = "none" => w.root \notin built
      /\ \A p, q \in Builders :
           p # q /\ Building(proc[p]) /\ Building(proc[q]) => ~Gap(proc[p].view.disk)
      /\ \A p \in Builders : proc[p].pc = "clean" =>
           built \subseteq proc[p].todo /\ \A q \in Builders \ {p} : proc[q].pc = "idle"

\* A file that the user wrote has the user's bytes.
Users == \A o \in Outs : wrote[o] = "user" => disk.out[o] = "user"

Alone ==
    ~degraded => \A p, q \in Builders : p # q => proc[p].pc = "idle" \/ proc[q].pc = "idle"

\* A committed build whose state is still to be recorded, and one that found
\* its state on record.
Pending(b) == b.pc = "committed" /\ b.state # NoState

Replayed(b) ==
    b.pc \in {"planned", "committed"} /\ b.view.script # NoScript /\ b.state = NoState

HasRecord(s, kept, o, bytes) ==
    s # NoState /\ o \in DOMAIN s.outputs /\ s.outputs[o] = bytes /\ <<o, bytes>> \in kept

\* As long as every build was recorded: a file that a script generated is on
\* record, or in the state that is about to be recorded; a planned build saw it
\* as it is and changes it unless its script still generates it.
Known ==
    ~degraded =>
      /\ \A p \in Builders : Building(proc[p]) =>
           \A o \in Outs : wrote[o] = "script" => disk.out[o] = proc[p].view.disk.out[o]
      /\ \A p \in Builders : proc[p].pc = "planned" /\ proc[p].view.script # NoScript =>
           \A o \in Outs : wrote[o] = "script" /\ o \notin DOMAIN proc[p].outputs =>
             To(proc[p].changes, "out", o) # {}
      /\ \A p \in Builders : Replayed(proc[p]) =>
           /\ indexed # NoState /\ indexed.outputs = proc[p].outputs
           /\ \A o \in DOMAIN proc[p].outputs : <<o, proc[p].outputs[o]>> \in artifacts
      /\ \A p \in Builders : Pending(proc[p]) =>
           \A o \in Outs : wrote[o] = "script" =>
             o \in DOMAIN proc[p].state.outputs /\ disk.out[o] = proc[p].state.outputs[o]
      /\ (\A p \in Builders : ~Pending(proc[p])) =>
           \A o \in Outs : wrote[o] = "script" => HasRecord(indexed, artifacts, o, disk.out[o])

\* What the last build left is what it was asked for, and its script's files
\* are the ones on record or about to be.
Settled ==
    ~degraded /\ settled # NotSettled =>
      LET w == WantedOf(settled.script, settled.features) IN
      /\ \A o \in w.writes \cup w.texts : settled.disk.out[o] = settled.input
      /\ settled.apply => /\ settled.disk.owned = Owners(settled, w)
                          /\ Matches(settled.disk, Owners(settled, w))
      /\ settled.script # NoScript =>
           /\ \A p \in Builders : Pending(proc[p]) => DOMAIN proc[p].state.outputs = w.writes
           /\ (\A p \in Builders : ~Pending(proc[p])) =>
                indexed # NoState /\ DOMAIN indexed.outputs = w.writes
      /\ \A p \in Builders :
           proc[p].pc = "planned" /\ settled = Asked(p, proc[p].view.disk) =>
             proc[p].changes = <<>>

IInv == Types /\ Trees /\ Users /\ Alone /\ Known /\ Settled

-----------------------------------------------------------------------------
(* What the steps do to the processes, and what they prepare and apply. *)

(* A process takes a step and the others do not.                           *)
LEMMA ProcStep ==
    ASSUME NEW p \in Builders, DOMAIN proc = Builders, NEW b, proc' = [proc EXCEPT ![p] = b]
    PROVE  /\ DOMAIN proc' = Builders
           /\ proc'[p] = b
           /\ \A q \in Builders \ {p} : proc'[q] = proc[q]
OBVIOUS

(* A commit keeps what was planned.                                        *)
LEMMA CommitStep ==
    ASSUME NEW p \in Builders, DOMAIN proc = Builders, PlanOk(proc[p]),
           proc' = [proc EXCEPT ![p].pc = "committed"]
    PROVE  /\ DOMAIN proc' = Builders
           /\ proc'[p].pc = "committed"
           /\ DOMAIN proc'[p] = DOMAIN proc[p]
           /\ proc'[p].request = proc[p].request /\ proc'[p].view = proc[p].view
           /\ proc'[p].outputs = proc[p].outputs /\ proc'[p].state = proc[p].state
           /\ proc'[p].changes = proc[p].changes
           /\ \A q \in Builders \ {p} : proc'[q] = proc[q]
<1>1. DOMAIN proc[p] = {"pc", "request", "view", "outputs", "state", "changes"}
  BY DEF PlanOk
<1>2. proc'[p] = [proc[p] EXCEPT !.pc = "committed"]
  OBVIOUS
<1> QED BY <1>1, <1>2

(* A recorded state is not the absence of one.                             *)
LEMMA StateIsNotNone == ASSUME NEW s, StateOk(s) PROVE s # NoState
<1>1. DOMAIN NoState = {"script"}
  BY DEF NoState
<1>2. "does" \in DOMAIN s
  BY DEF StateOk
<1> QED BY <1>1, <1>2

(* What is recovered is on record and its bytes are kept.                  *)
LEMMA RecoveredFacts ==
    ASSUME Types
    PROVE  /\ \A o : o \in DOMAIN Recovered <=>
                /\ indexed # NoState /\ o \in DOMAIN indexed.outputs
                /\ <<o, indexed.outputs[o]>> \in artifacts
           /\ \A o \in DOMAIN Recovered : /\ Recovered[o] = indexed.outputs[o]
                                          /\ o \in Outs /\ Recovered[o] \in Inputs
<1>1. CASE indexed = NoState
  BY <1>1 DEF Recovered, NoOutputs
<1>2. CASE indexed # NoState
  <2>1. StateOk(indexed)
    BY <1>2 DEF Types
  <2>2. /\ DOMAIN indexed.outputs \subseteq Outs
        /\ \A o \in DOMAIN indexed.outputs : indexed.outputs[o] \in Inputs
    BY <2>1 DEF StateOk, Work
  <2>3. Recovered =
          [o \in {q \in DOMAIN indexed.outputs : <<q, indexed.outputs[q]>> \in artifacts}
             |-> indexed.outputs[o]]
    BY <1>2 DEF Recovered
  <2> QED BY <1>2, <2>2, <2>3
<1> QED BY <1>1, <1>2

(* A replayed script is the one that would have been evaluated             *)
(* (load_cached_build_script).                                             *)
LEMMA HitFacts ==
    ASSUME Types, NEW view \in View, NEW request \in Requests, view.script # NoScript,
           Hit(view, request.features)
    PROVE  /\ indexed # NoState
           /\ indexed.does = WantedOf(view.script, request.features)
           /\ indexed.outputs = [o \in indexed.does.writes |-> view.input]
           /\ \A o \in DOMAIN indexed.outputs : <<o, indexed.outputs[o]>> \in artifacts
<1>1. indexed # NoState /\ indexed.fingerprint = Fingerprint(view, request.features)
  BY DEF Hit
<1>2. StateOk(indexed)
  BY <1>1 DEF Types
<1>3. /\ indexed.fingerprint.script = view.script
      /\ indexed.fingerprint.features = request.features
      /\ indexed.fingerprint.files = IF Tracks[view.script] = "declared" THEN <<view.input>>
                                     ELSE <<view.input, view.disk.tree>>
  BY <1>1 DEF Fingerprint
<1>4. indexed.fingerprint.files[1] = view.input
  BY <1>3
<1>5. \A o \in DOMAIN indexed.outputs : <<o, indexed.outputs[o]>> \in artifacts
  BY RecoveredFacts DEF Hit
<1> QED BY <1>1, <1>2, <1>3, <1>4, <1>5 DEF StateOk

(* The preparation of a build, and how it knows of the last one            *)
(* (prepare_build_script).                                                 *)
LEMMA PreparedFacts ==
    ASSUME Types, NEW view \in View, NEW request \in Requests, view.script # NoScript,
           LET prep == Prepared(view, request.features)
           IN DOMAIN prep.outputs \cap prep.does.texts = {}
    PROVE  LET prep == Prepared(view, request.features) IN
           /\ PrepOk(view, request, prep)
           /\ prep.state = NoState \/ (StateOk(prep.state) /\ prep.state.outputs = prep.outputs)
           /\ prep.state = NoState =>
                /\ indexed # NoState /\ indexed.outputs = prep.outputs
                /\ \A o \in DOMAIN prep.outputs : <<o, prep.outputs[o]>> \in artifacts
                /\ DOMAIN prep.recovered = {}
           /\ prep.state # NoState => prep.recovered = Recovered
<1> DEFINE prep == Prepared(view, request.features)
<1>1. CASE Hit(view, request.features)
  <2>1. prep = [outputs |-> indexed.outputs, does |-> indexed.does, recovered |-> NoOutputs,
                state |-> NoState]
    BY <1>1 DEF Prepared
  <2>2. DOMAIN NoOutputs = {}
    BY DEF NoOutputs
  <2> HIDE DEF prep
  <2>3. prep.does.writes \cap prep.does.texts = {}
    BY <1>1, <2>1, HitFacts DEF prep
  <2>4. /\ prep.does = indexed.does /\ prep.outputs = indexed.outputs
        /\ prep.recovered = NoOutputs /\ prep.state = NoState
    BY <2>1
  <2>5. /\ indexed # NoState
        /\ indexed.does = WantedOf(view.script, request.features)
        /\ indexed.outputs = [o \in indexed.does.writes |-> view.input]
        /\ \A o \in DOMAIN indexed.outputs : <<o, indexed.outputs[o]>> \in artifacts
    BY <1>1, HitFacts
  <2>6. PrepOk(view, request, prep)
    BY <2>2, <2>3, <2>4, <2>5 DEF PrepOk
  <2> QED BY <2>2, <2>4, <2>5, <2>6 DEF prep
<1>2. CASE ~Hit(view, request.features)
  <2> DEFINE does == Does[view.script][request.features]
             outputs == [o \in does.writes |-> view.input]
             state == [script |-> view.script, does |-> does, outputs |-> outputs,
                       fingerprint |-> Fingerprint(view, request.features)]
  <2>1. prep = [outputs |-> outputs, does |-> does, recovered |-> Recovered, state |-> state]
    BY <1>2 DEF Prepared
  <2>2. does = WantedOf(view.script, request.features) /\ does \in Work
    BY WantedType DEF WantedOf, View
  <2>3. /\ state.fingerprint.script = view.script
        /\ state.fingerprint.features = request.features
        /\ state.fingerprint.files[1] = view.input
    <3>1. Fingerprint(view, request.features).files =
            IF Tracks[view.script] = "declared" THEN <<view.input>>
            ELSE <<view.input, view.disk.tree>>
      BY DEF Fingerprint
    <3>2. Fingerprint(view, request.features).files[1] = view.input
      BY <3>1
    <3> HIDE DEF does, outputs
    <3> QED BY <3>2 DEF Fingerprint
  <2>4. view.input \in Inputs
    BY DEF View
  <2> HIDE DEF does
  <2>5. /\ DOMAIN state = {"script", "does", "outputs", "fingerprint"}
        /\ state.does = does /\ state.outputs = outputs
    OBVIOUS
  <2>6. outputs = [o \in does.writes |-> view.input]
    OBVIOUS
  <2> HIDE DEF state, outputs
  <2>7. StateOk(state)
    BY <2>2, <2>3, <2>4, <2>5, <2>6 DEF StateOk
  <2>8. state # NoState
    BY <2>7, StateIsNotNone
  <2>9. /\ prep.outputs = outputs /\ prep.does = does /\ prep.recovered = Recovered
        /\ prep.state = state
    <3> HIDE DEF prep
    <3> QED BY <2>1
  <2>10. DOMAIN prep.outputs = does.writes /\ does.writes \cap does.texts = {}
    BY <2>6, <2>9
  <2> HIDE DEF prep
  <2>11. PrepOk(view, request, prep)
    BY <2>2, <2>6, <2>9, <2>10, RecoveredFacts DEF PrepOk
  <2> QED BY <2>5, <2>7, <2>8, <2>9, <2>11 DEF prep
<1> QED BY <1>1, <1>2

(* What is planned, whether there is a script or not (execute_root).       *)
LEMMA PlanFacts ==
    ASSUME Types, NEW p \in Builders, PlanBuild(p)
    PROVE  \E prep :
           /\ PrepOk(proc[p].view, proc[p].request, prep)
           /\ DOMAIN proc' = Builders
           /\ proc'[p] = [pc |-> "planned", request |-> proc[p].request, view |-> proc[p].view,
                          outputs |-> prep.outputs, state |-> prep.state,
                          changes |-> BuildChanges(proc[p].view, proc[p].request, prep)]
           /\ \A q \in Builders \ {p} : proc'[q] = proc[q]
           /\ prep.state = NoState \/ (StateOk(prep.state) /\ prep.state.outputs = prep.outputs)
           /\ proc[p].view.script # NoScript =>
                /\ prep.state = NoState =>
                     /\ indexed # NoState /\ indexed.outputs = prep.outputs
                     /\ \A o \in DOMAIN prep.outputs : <<o, prep.outputs[o]>> \in artifacts
                     /\ DOMAIN prep.recovered = {}
                /\ prep.state # NoState => prep.recovered = Recovered
           /\ proc[p].view.script = NoScript =>
                prep.state = NoState /\ prep.does = Nothing /\ DOMAIN prep.recovered = {}
<1> DEFINE v == proc[p].view
           rq == proc[p].request
           prep == IF v.script = NoScript
                   THEN [outputs |-> NoOutputs, does |-> Nothing, recovered |-> NoOutputs,
                         state |-> NoState]
                   ELSE Prepared(v, rq.features)
           b == [pc |-> "planned", request |-> rq, view |-> v, outputs |-> prep.outputs,
                 state |-> prep.state, changes |-> BuildChanges(v, rq, prep)]
<1>1. v \in View /\ rq \in Requests
  BY DEF Types, ProcOk, PlanBuild
<1>2. DOMAIN prep.outputs \cap prep.does.texts = {} /\ proc' = [proc EXCEPT ![p] = b]
  BY DEF PlanBuild
<1>3. DOMAIN proc' = Builders /\ proc'[p] = b /\ \A q \in Builders \ {p} : proc'[q] = proc[q]
  <2> HIDE DEF b
  <2> QED BY <1>2, ProcStep DEF Types
<1>4. CASE v.script = NoScript
  <2>1. prep = [outputs |-> NoOutputs, does |-> Nothing, recovered |-> NoOutputs,
                state |-> NoState]
    BY <1>4
  <2> HIDE DEF prep, v, rq
  <2>2. /\ prep.outputs = NoOutputs /\ prep.does = Nothing /\ prep.recovered = NoOutputs
        /\ prep.state = NoState
    BY <2>1
  <2>3. DOMAIN NoOutputs = {} /\ Nothing.writes = {} /\ NoOutputs = [o \in {} |-> v.input]
    BY DEF NoOutputs, Nothing
  <2>4. PrepOk(v, rq, prep)
    BY <1>4, <2>2, <2>3 DEF PrepOk, WantedOf
  <2> QED BY <1>3, <1>4, <2>2, <2>3, <2>4 DEF v, rq
<1>5. CASE v.script # NoScript
  <2>1. prep = Prepared(v, rq.features)
    BY <1>5
  <2> HIDE DEF prep, v, rq
  <2>2. /\ PrepOk(v, rq, prep)
        /\ prep.state = NoState \/ (StateOk(prep.state) /\ prep.state.outputs = prep.outputs)
        /\ prep.state = NoState =>
             /\ indexed # NoState /\ indexed.outputs = prep.outputs
             /\ \A o \in DOMAIN prep.outputs : <<o, prep.outputs[o]>> \in artifacts
             /\ DOMAIN prep.recovered = {}
        /\ prep.state # NoState => prep.recovered = Recovered
    BY <1>1, <1>2, <1>5, <2>1, PreparedFacts
  <2> QED BY <1>3, <1>5, <2>2 DEF v, rq
<1> QED BY <1>4, <1>5

(* A plan keeps the snapshot and the request.                              *)
LEMMA PlanStep ==
    ASSUME Types, NEW p \in Builders, PlanBuild(p)
    PROVE  /\ DOMAIN proc' = Builders /\ proc'[p].pc = "planned" /\ proc[p].pc = "opened"
           /\ proc'[p].view = proc[p].view /\ proc'[p].request = proc[p].request
           /\ \A q \in Builders \ {p} : proc'[q] = proc[q]
<1>1. PICK prep :
        /\ DOMAIN proc' = Builders
        /\ proc'[p] = [pc |-> "planned", request |-> proc[p].request, view |-> proc[p].view,
                       outputs |-> prep.outputs, state |-> prep.state,
                       changes |-> BuildChanges(proc[p].view, proc[p].request, prep)]
        /\ \A q \in Builders \ {p} : proc'[q] = proc[q]
  BY PlanFacts
<1> QED BY <1>1 DEF PlanBuild

\* A change of an entry that there is, to bytes it may have.
ChangeOk(x) ==
    /\ x.kind = "out" => x.bytes \in Contents /\ x.by \in {"script", "text"}
    /\ x.kind = "tree" => x.key \in Roots /\ x.bytes \in Contents
    /\ x.kind = "owned" => x.bytes \in SUBSET Owner

(* The changes of a build are such changes.                                *)
LEMMA ChangesOk ==
    ASSUME NEW view \in View, NEW request \in Requests, NEW prep, PrepOk(view, request, prep)
    PROVE  LET c == BuildChanges(view, request, prep) IN
           /\ DOMAIN c = 1 .. Len(c) /\ Len(c) \in Nat
           /\ \A i \in 1 .. Len(c) : ChangeOk(c[i])
<1> DEFINE c == BuildChanges(view, request, prep)
           U == ChangeSet(view, request, prep)
<1>1. /\ Ready(view, prep) /\ prep.does \in Work /\ view.input \in Inputs
      /\ DOMAIN prep.outputs = prep.does.writes
      /\ \A o \in prep.does.writes : prep.outputs[o] = view.input
      /\ Replaced(view, prep.does) \subseteq Roots
  BY PrepReady
<1>2. c \in Seq(U)
  BY <1>1, BuildChangesFacts DEF Ready
<1>3. /\ DOMAIN c = 1 .. Len(c) /\ Len(c) \in Nat
      /\ \A i \in 1 .. Len(c) : c[i] \in U
  <2> HIDE DEF c, U
  <2> QED BY <1>2
<1>4. /\ prep.does.writes \subseteq Outs /\ prep.does.texts \subseteq Outs
      /\ prep.does.trees \subseteq Roots
  BY <1>1 DEF Work
<1>5. Owners(view, prep.does) \in SUBSET Owner
  BY <1>1, <1>4 DEF Owners, Owner, Plan
<1>6. ASSUME NEW x \in U PROVE ChangeOk(x)
  <2>1. CASE x.kind = "out" /\ x.key \in Writable(view, prep) /\ x = Write(prep, x.key)
    <3>1. x.bytes = prep.outputs[x.key] /\ x.by = "script"
      BY <2>1 DEF Write, Change
    <3>2. x.key \in prep.does.writes
      BY <1>1, <2>1 DEF Writable
    <3> QED BY <1>1, <2>1, <3>1, <3>2 DEF ChangeOk, Contents
  <2>2. CASE x.kind = "out" /\ x.key \in Removable(view, prep) /\ x = RemoveOut(x.key)
    BY <2>2 DEF ChangeOk, RemoveOut, Change, Contents
  <2>3. CASE x.kind = "out" /\ x.key \in Texts(view, prep) /\ x = Text(view, x.key)
    BY <1>1, <2>3 DEF ChangeOk, Text, Change, Contents
  <2>4. CASE x.kind = "tree" /\ x.key \in Replaced(view, prep.does) /\ x = Unpublish(x.key)
    BY <1>1, <2>4 DEF ChangeOk, Unpublish, Change, Contents
  <2>5. CASE x.kind = "tree" /\ x.key \in prep.does.trees /\ x.bytes \in {"mixed", view.input}
    BY <1>1, <1>4, <2>5 DEF ChangeOk, Contents
  <2>6. CASE x.kind = "owned" /\ x = Own(view, prep.does)
    <3>1. x.bytes = Owners(view, prep.does)
      BY <2>6 DEF Own, Change
    <3> QED BY <1>5, <2>6, <3>1 DEF ChangeOk
  <2> QED BY <2>1, <2>2, <2>3, <2>4, <2>5, <2>6, ChangeKinds
<1> HIDE DEF U, c
<1> QED BY <1>3, <1>6 DEF c

(* Applying changes, all of them or the first few, gives files; none of    *)
(* them is taken for the user's.                                           *)
LEMMA AppliedFiles ==
    ASSUME NEW d \in Files, NEW n \in Nat, NEW c, DOMAIN c = 1 .. n,
           \A i \in 1 .. n : ChangeOk(c[i]),
           wrote \in [Outs -> {"none", "user", "script", "text"}], built \subseteq Roots
    PROVE  /\ AllApplied(d, c) \in Files
           /\ WroteBy(c) \in [Outs -> {"none", "user", "script", "text"}]
           /\ BuiltBy(c) \subseteq Roots
           /\ \A o \in Outs : WroteBy(c)[o] = "user" =>
                wrote[o] = "user" /\ AllApplied(d, c).out[o] = d.out[o]
<1>1. \A kind, key : To(c, kind, key) # {} =>
        ChangeOk(LastTo(c, kind, key)) /\ LastTo(c, kind, key).kind = kind
  <2>1. ASSUME NEW kind, NEW key, To(c, kind, key) # {}
        PROVE  ChangeOk(LastTo(c, kind, key)) /\ LastTo(c, kind, key).kind = kind
    <3>1. PICK i \in To(c, kind, key) : LastTo(c, kind, key) = c[i]
      BY <2>1, LastToFacts
    <3>2. i \in 1 .. n /\ c[i].kind = kind
      BY DEF To
    <3> QED BY <3>1, <3>2
  <2> QED BY <2>1
<1>2. ASSUME NEW o \in Outs PROVE After(c, "out", o, d.out[o]) \in Contents
  BY <1>1 DEF After, ChangeOk, Files
<1>3. ASSUME NEW r \in Roots PROVE After(c, "tree", r, d.tree[r]) \in Contents
  BY <1>1 DEF After, ChangeOk, Files
<1>4. After(c, "owned", "owned", d.owned) \in SUBSET Owner
  BY <1>1 DEF After, ChangeOk, Files
<1>5. AllApplied(d, c) \in Files
  BY <1>2, <1>3, <1>4 DEF AllApplied, Files
<1>6. ASSUME NEW o \in Outs
      PROVE  /\ WroteBy(c)[o] \in {"none", "user", "script", "text"}
             /\ WroteBy(c)[o] = "user" =>
                  wrote[o] = "user" /\ AllApplied(d, c).out[o] = d.out[o]
  <2>1. WroteBy(c)[o] = IF To(c, "out", o) = {} THEN wrote[o]
                        ELSE IF LastTo(c, "out", o).bytes = "none" THEN "none"
                             ELSE LastTo(c, "out", o).by
    BY DEF WroteBy
  <2>2. CASE To(c, "out", o) = {}
    BY <2>1, <2>2 DEF AllApplied, After
  <2>3. CASE To(c, "out", o) # {}
    BY <1>1, <2>1, <2>3 DEF ChangeOk
  <2> QED BY <2>2, <2>3
<1>7. WroteBy(c) \in [Outs -> {"none", "user", "script", "text"}]
  <2>1. WroteBy(c) = [o \in Outs |-> WroteBy(c)[o]]
    BY DEF WroteBy
  <2> QED BY <1>6, <2>1
<1>8. BuiltBy(c) \subseteq Roots
  <2>1. \A x \in ToSet(c) : ChangeOk(x)
    BY DEF ToSet
  <2> QED BY <2>1 DEF BuiltBy, ChangeOk
<1> QED BY <1>5, <1>6, <1>7, <1>8

-----------------------------------------------------------------------------
(* Types. *)

(* A project that was never built.                                         *)
LEMMA InitIInv == ASSUME Init PROVE IInv
<1>1. Types
  <2>1. disk \in Files
    BY DEF Init, Files, Contents
  <2>2. \A p \in Builders : ProcOk(proc[p])
    BY DEF Init, ProcOk, Idle
  <2> QED BY <2>1, <2>2 DEF Init, Types
<1>2. \A p \in Builders : proc[p].pc = "idle"
  BY DEF Init, Idle
<1>3. Trees
  BY <1>2 DEF Init, Trees, Building
<1>4. Users /\ Alone
  BY <1>2 DEF Init, Users, Alone
<1>5. Known
  BY <1>2 DEF Init, Known, Building, Pending, Replayed
<1>6. Settled
  BY DEF Init, Settled
<1> QED BY <1>1, <1>3, <1>4, <1>5, <1>6 DEF IInv

(* The processes that take no step stay well typed.                        *)
LEMMA OthersOk ==
    ASSUME Types, NEW p \in Builders, ProcOk(proc'[p]),
           \A q \in Builders \ {p} : proc'[q] = proc[q]
    PROVE  \A q \in Builders : ProcOk(proc'[q])
BY DEF Types

(* A build or a clean that ends leaves its process idle.                   *)
LEMMA EndStep ==
    ASSUME Types, NEW p \in Builders, End(p)
    PROVE  /\ DOMAIN proc' = Builders /\ proc'[p] = Idle /\ proc'[p].pc = "idle"
           /\ \A q \in Builders \ {p} : proc'[q] = proc[q]
           /\ \A q \in Builders : ProcOk(proc'[q])
<1>1. /\ DOMAIN proc' = Builders /\ proc'[p] = Idle
      /\ \A q \in Builders \ {p} : proc'[q] = proc[q]
  BY DEF End, Types
<1>2. Idle.pc = "idle"
  BY DEF Idle
<1>3. ProcOk(Idle)
  BY <1>2 DEF ProcOk
<1> QED BY <1>1, <1>2, <1>3, OthersOk

(* A commit that lands, in full or in part, leaves typed files.            *)
LEMMA LandedFiles ==
    ASSUME Types, NEW p \in Builders, proc[p].pc = "planned",
           NEW n \in 0 .. Len(proc[p].changes)
    PROVE  LET c == SubSeq(proc[p].changes, 1, n) IN
           /\ AllApplied(disk, c) \in Files
           /\ WroteBy(c) \in [Outs -> {"none", "user", "script", "text"}]
           /\ BuiltBy(c) \subseteq Roots
           /\ \A o \in Outs : WroteBy(c)[o] = "user" =>
                wrote[o] = "user" /\ AllApplied(disk, c).out[o] = disk.out[o]
           /\ n = Len(proc[p].changes) => c = proc[p].changes
<1> DEFINE all == proc[p].changes
           c == SubSeq(all, 1, n)
<1>1. /\ proc[p].view \in View /\ proc[p].request \in Requests
      /\ PlanOk(proc[p])
  BY DEF Types, ProcOk
<1>2. /\ DOMAIN all = 1 .. Len(all) /\ Len(all) \in Nat
      /\ \A i \in 1 .. Len(all) : ChangeOk(all[i])
  BY <1>1, ChangesOk DEF PlanOk
<1> HIDE DEF all
<1>3. n \in Nat /\ n <= Len(all)
  BY <1>2 DEF all
<1>4. c = [i \in 1 .. n |-> all[i]]
  BY <1>3 DEF SubSeq
<1>5. DOMAIN c = 1 .. n /\ \A i \in 1 .. n : ChangeOk(c[i])
  BY <1>2, <1>3, <1>4
<1>6. n = Len(all) => c = all
  <2>1. \E T : all \in Seq(T)
    BY <1>1, PrepReady, BuildChangesFacts DEF PlanOk, Ready, all
  <2> QED BY <1>2, <1>4, <2>1
<1> HIDE DEF c
<1>7. /\ disk \in Files /\ built \subseteq Roots
      /\ wrote \in [Outs -> {"none", "user", "script", "text"}]
  BY DEF Types
<1>8. /\ AllApplied(disk, c) \in Files
      /\ WroteBy(c) \in [Outs -> {"none", "user", "script", "text"}]
      /\ BuiltBy(c) \subseteq Roots
      /\ \A o \in Outs : WroteBy(c)[o] = "user" =>
           wrote[o] = "user" /\ AllApplied(disk, c).out[o] = disk.out[o]
  BY <1>3, <1>5, <1>7, AppliedFiles
<1> QED BY <1>6, <1>8 DEF c, all

(* Every step keeps the types.                                             *)
LEMMA TypesNext == ASSUME Types, Next PROVE Types'
<1>1. ASSUME NEW p \in Builders, NEW request \in Requests, Begin(p, request) PROVE Types'
  <2> DEFINE b == [pc |-> "opened", request |-> request,
                   view |-> [disk |-> disk, script |-> project.script, input |-> project.input]]
  <2>1. proc' = [proc EXCEPT ![p] = b]
    BY <1>1 DEF Begin
  <2>2. b.view \in View /\ b.pc = "opened" /\ b.request \in Requests
    BY DEF Types, View
  <2> HIDE DEF b
  <2>3. ProcOk(b)
    BY <2>2 DEF ProcOk
  <2>4. DOMAIN proc' = Builders /\ proc'[p] = b /\ \A q \in Builders \ {p} : proc'[q] = proc[q]
    BY <2>1, ProcStep DEF Types
  <2>5. \A q \in Builders : ProcOk(proc'[q])
    BY <2>3, <2>4, OthersOk
  <2> QED BY <1>1, <2>4, <2>5 DEF Begin, Types
<1>2. ASSUME NEW p \in Builders, Refuse(p) PROVE Types'
  BY <1>2, EndStep DEF Refuse, Types, history
<1>3. ASSUME NEW p \in Builders, PlanBuild(p) PROVE Types'
  <2>1. PICK prep :
           /\ PrepOk(proc[p].view, proc[p].request, prep)
           /\ DOMAIN proc' = Builders
           /\ proc'[p] = [pc |-> "planned", request |-> proc[p].request, view |-> proc[p].view,
                          outputs |-> prep.outputs, state |-> prep.state,
                          changes |-> BuildChanges(proc[p].view, proc[p].request, prep)]
           /\ \A q \in Builders \ {p} : proc'[q] = proc[q]
           /\ prep.state = NoState \/ (StateOk(prep.state) /\ prep.state.outputs = prep.outputs)
           /\ proc[p].view.script = NoScript => prep.state = NoState
    BY <1>3, PlanFacts
  <2>2. proc[p].view \in View /\ proc[p].request \in Requests
    BY <1>3 DEF PlanBuild, Types, ProcOk
  <2>3. /\ proc'[p].pc = "planned"
        /\ proc'[p].view = proc[p].view /\ proc'[p].request = proc[p].request
        /\ proc'[p].outputs = prep.outputs /\ proc'[p].state = prep.state
        /\ proc'[p].changes = BuildChanges(proc[p].view, proc[p].request, prep)
        /\ DOMAIN proc'[p] = {"pc", "request", "view", "outputs", "state", "changes"}
    BY <2>1
  <2>4. PlanOk(proc'[p])
    BY <2>1, <2>3 DEF PlanOk
  <2>5. ProcOk(proc'[p])
    BY <2>2, <2>3, <2>4 DEF ProcOk
  <2>6. \A q \in Builders : ProcOk(proc'[q])
    BY <2>1, <2>5, OthersOk
  <2> QED BY <1>3, <2>1, <2>6 DEF PlanBuild, Types, history
<1>4. ASSUME NEW p \in Builders, Commit(p) PROVE Types'
  <2>1. PlanOk(proc[p]) /\ proc[p].view \in View /\ proc[p].request \in Requests
    BY <1>4 DEF Commit, Types, ProcOk
  <2>2. /\ DOMAIN proc' = Builders
        /\ proc'[p].pc = "committed"
        /\ DOMAIN proc'[p] = DOMAIN proc[p]
        /\ proc'[p].request = proc[p].request /\ proc'[p].view = proc[p].view
        /\ proc'[p].outputs = proc[p].outputs /\ proc'[p].state = proc[p].state
        /\ proc'[p].changes = proc[p].changes
        /\ \A q \in Builders \ {p} : proc'[q] = proc[q]
    BY <1>4, <2>1, CommitStep DEF Commit, Types
  <2>3. PlanOk(proc'[p])
    BY <2>1, <2>2 DEF PlanOk
  <2>4. \A q \in Builders : ProcOk(proc'[q])
    BY <2>1, <2>2, <2>3, OthersOk DEF ProcOk
  <2>5. Len(proc[p].changes) \in 0 .. Len(proc[p].changes)
    BY <2>1, ChangesOk DEF PlanOk
  <2>6. disk' \in Files /\ built' \subseteq Roots
        /\ wrote' \in [Outs -> {"none", "user", "script", "text"}]
    BY <1>4, <2>5, LandedFiles DEF Commit
  <2> QED BY <1>4, <2>2, <2>4, <2>6 DEF Commit, Types
<1>5. ASSUME NEW p \in Builders, proc[p].pc = "planned",
             NEW n \in 0 .. (Len(proc[p].changes) - 1), CrashInCommit(p, n)
      PROVE  Types'
  <2>1. PlanOk(proc[p]) /\ proc[p].view \in View /\ proc[p].request \in Requests
    BY <1>5 DEF Types, ProcOk
  <2>2. Len(proc[p].changes) \in Nat
    BY <2>1, ChangesOk DEF PlanOk
  <2>3. n \in 0 .. Len(proc[p].changes)
    BY <2>2
  <2>4. disk' \in Files /\ built' \subseteq Roots
        /\ wrote' \in [Outs -> {"none", "user", "script", "text"}]
    BY <1>5, <2>3, LandedFiles DEF CrashInCommit
  <2> QED BY <1>5, <2>4, EndStep DEF CrashInCommit, Types
<1>6. ASSUME NEW p \in Builders, Persist(p) PROVE Types'
  <2>1. proc[p].state = NoState \/ StateOk(proc[p].state)
    BY <1>6 DEF Persist, Types, ProcOk, PlanOk
  <2>2. indexed' = NoState \/ StateOk(indexed')
    BY <1>6, <2>1 DEF Persist, Types
  <2> QED BY <1>6, <2>2, EndStep DEF Persist, Types, history
<1>7. ASSUME NEW p \in Builders, NotPersisted(p) PROVE Types'
  BY <1>7, EndStep DEF NotPersisted, Types
<1>8. ASSUME NEW p \in Builders, BeginClean(p) PROVE Types'
  <2> DEFINE b == [pc |-> "clean", todo |-> {w.root : w \in disk.owned}]
  <2>1. proc' = [proc EXCEPT ![p] = b]
    BY <1>8 DEF BeginClean
  <2>2. b.pc = "clean" /\ b.todo \subseteq Roots /\ DOMAIN b = {"pc", "todo"}
    BY DEF Types, Files, Owner
  <2> HIDE DEF b
  <2>3. ProcOk(b)
    BY <2>2 DEF ProcOk
  <2>4. DOMAIN proc' = Builders /\ proc'[p] = b /\ \A q \in Builders \ {p} : proc'[q] = proc[q]
    BY <2>1, ProcStep DEF Types
  <2>5. \A q \in Builders : ProcOk(proc'[q])
    BY <2>3, <2>4, OthersOk
  <2> QED BY <1>8, <2>4, <2>5 DEF BeginClean, Types
<1>9. ASSUME NEW p \in Builders, NEW r \in Roots, CleanRoot(p, r) PROVE Types'
  <2>1. DOMAIN proc[p] = {"pc", "todo"} /\ proc[p].todo \subseteq Roots /\ proc[p].pc = "clean"
    BY <1>9 DEF CleanRoot, Types, ProcOk
  <2>2. DOMAIN proc' = Builders /\ \A q \in Builders \ {p} : proc'[q] = proc[q]
    BY <1>9 DEF CleanRoot, Types
  <2>3. proc'[p] = [proc[p] EXCEPT !.todo = proc[p].todo \ {r}]
    BY <1>9 DEF CleanRoot, Types
  <2>4. /\ proc'[p].pc = "clean" /\ proc'[p].todo = proc[p].todo \ {r}
        /\ DOMAIN proc'[p] = {"pc", "todo"}
    BY <2>1, <2>3
  <2>5. ProcOk(proc'[p])
    BY <2>1, <2>4 DEF ProcOk
  <2>6. \A q \in Builders : ProcOk(proc'[q])
    BY <2>2, <2>5, OthersOk
  <2>7. disk' \in Files
    BY <1>9 DEF CleanRoot, Types, Files, Contents
  <2>8. built' \subseteq Roots
    BY <1>9 DEF CleanRoot, Types
  <2> QED BY <1>9, <2>2, <2>6, <2>7, <2>8 DEF CleanRoot, Types
<1>10. ASSUME NEW p \in Builders, CleanBuildDir(p) PROVE Types'
  <2>1. disk' \in Files
    BY <1>10 DEF CleanBuildDir, CleanedBuild, Types, Files, Contents
  <2>2. wrote' \in [Outs -> {"none", "user", "script", "text"}]
    BY <1>10 DEF CleanBuildDir
  <2> QED BY <1>10, <2>1, <2>2, EndStep DEF CleanBuildDir, Types
<1>11. ASSUME NEW p \in Builders, CleanStops(p) PROVE Types'
  <2>1. disk' \in Files
    BY <1>11 DEF CleanStops, Types, Files, Contents
  <2>2. wrote' \in [Outs -> {"none", "user", "script", "text"}]
    BY <1>11 DEF CleanStops, Types
  <2> QED BY <1>11, <2>1, <2>2, EndStep DEF CleanStops, Types
<1>12. CASE EditProject
  BY <1>12 DEF EditProject, Edit, Types
<1>13. ASSUME NEW o \in Outs, NEW bytes \in {"none", "user"}, EditOutput(o, bytes) PROVE Types'
  <2>1. disk' \in Files
    BY <1>13 DEF EditOutput, Types, Files, Contents
  <2>2. wrote' \in [Outs -> {"none", "user", "script", "text"}]
    BY <1>13 DEF EditOutput, Types
  <2> QED BY <1>13, <2>1, <2>2 DEF EditOutput, Edit, Types
<1>14. ASSUME NEW r \in Roots, NEW bytes \in {"none", "user"}, EditTree(r, bytes) PROVE Types'
  <2>1. disk' \in Files
    BY <1>14 DEF EditTree, Types, Files, Contents
  <2> QED BY <1>14, <2>1 DEF EditTree, Edit, Types
<1>15. CASE LoseCache
  BY <1>15 DEF LoseCache, Types
<1> QED BY <1>1, <1>2, <1>3, <1>4, <1>5, <1>6, <1>7, <1>8, <1>9, <1>10, <1>11, <1>12, <1>13,
           <1>14, <1>15 DEF Next

-----------------------------------------------------------------------------
(* A commit, entry by entry. *)

Touched(view, prep) == Writable(view, prep) \cup Removable(view, prep) \cup Texts(view, prep)

(* What a commit leaves of each entry, and what it found (Commit).         *)
LEMMA CommitFacts ==
    ASSUME Types, NEW p \in Builders, Commit(p)
    PROVE  LET v == proc[p].view
               rq == proc[p].request IN
           \E prep :
           /\ PrepOk(v, rq, prep) /\ prep.outputs = proc[p].outputs
           /\ prep.does = Wanted(p) /\ prep.does = WantedOf(v.script, rq.features)
           /\ v \in View /\ rq \in Requests
           /\ proc[p].changes = BuildChanges(v, rq, prep)
           /\ \A o \in Outs :
                /\ o \in Writable(v, prep) => disk'.out[o] = v.input /\ wrote'[o] = "script"
                /\ o \in Removable(v, prep) => disk'.out[o] = "none" /\ wrote'[o] = "none"
                /\ o \in Texts(v, prep) => disk'.out[o] = v.input /\ wrote'[o] = "text"
                /\ o \notin Touched(v, prep) => disk'.out[o] = disk.out[o] /\ wrote'[o] = wrote[o]
                /\ o \in Touched(v, prep) => disk.out[o] = v.disk.out[o]
           /\ Publishes(v, rq, prep.does) =>
                /\ disk'.owned = Owners(v, prep.does)
                /\ built' = (built \ Replaced(v, prep.does)) \cup prep.does.trees
                /\ \A r \in Roots :
                     disk'.tree[r] = IF r \in prep.does.trees THEN v.input
                                     ELSE IF r \in Replaced(v, prep.does) THEN "none"
                                     ELSE disk.tree[r]
                /\ disk.owned = v.disk.owned
           /\ ~Publishes(v, rq, prep.does) =>
                /\ disk'.owned = disk.owned
                /\ built' = built
                /\ \A r \in Roots : disk'.tree[r] = disk.tree[r]
<1> DEFINE v == proc[p].view
           rq == proc[p].request
<1>1. PlanOk(proc[p]) /\ v \in View /\ rq \in Requests
  BY DEF Commit, Types, ProcOk
<1>2. PICK prep : /\ PrepOk(v, rq, prep) /\ proc[p].outputs = prep.outputs
                  /\ proc[p].changes = BuildChanges(v, rq, prep)
  BY <1>1 DEF PlanOk
<1> DEFINE c == BuildChanges(v, rq, prep)
<1>3. disk' = AllApplied(disk, c) /\ wrote' = WroteBy(c) /\ built' = BuiltBy(c)
  BY <1>2 DEF Commit
<1>4. \A x \in ToSet(c) : Entry(disk, x) = Entry(v.disk, x)
  BY <1>2 DEF Commit, Stale
<1>5. prep.does = WantedOf(v.script, rq.features) /\ prep.does = Wanted(p)
  BY <1>2 DEF PrepOk, Wanted, WantedOf
<1> HIDE DEF v, rq
<1>6. ASSUME NEW o \in Outs
      PROVE  /\ o \in Writable(v, prep) => disk'.out[o] = v.input /\ wrote'[o] = "script"
             /\ o \in Removable(v, prep) => disk'.out[o] = "none" /\ wrote'[o] = "none"
             /\ o \in Texts(v, prep) => disk'.out[o] = v.input /\ wrote'[o] = "text"
             /\ o \notin Touched(v, prep) => disk'.out[o] = disk.out[o] /\ wrote'[o] = wrote[o]
  BY <1>1, <1>2, <1>3, OutFiles DEF Touched
<1>7. /\ \A o \in Touched(v, prep) : disk.out[o] = v.disk.out[o]
      /\ Publishes(v, rq, prep.does) => disk.owned = v.disk.owned
  BY <1>1, <1>2, <1>4, TouchedFiles DEF Touched
<1>8. /\ Publishes(v, rq, prep.does) =>
           /\ disk'.owned = Owners(v, prep.does)
           /\ built' = (built \ Replaced(v, prep.does)) \cup prep.does.trees
           /\ \A r \in Roots :
                disk'.tree[r] = IF r \in prep.does.trees THEN v.input
                                ELSE IF r \in Replaced(v, prep.does) THEN "none"
                                ELSE disk.tree[r]
      /\ ~Publishes(v, rq, prep.does) =>
           /\ disk'.owned = disk.owned
           /\ built' = built
           /\ \A r \in Roots : disk'.tree[r] = disk.tree[r]
  <2> HIDE DEF c
  <2>1. LET e == AllApplied(disk, c) IN
           /\ Publishes(v, rq, prep.does) =>
                /\ e.owned = Owners(v, prep.does)
                /\ BuiltBy(c) = (built \ Replaced(v, prep.does)) \cup prep.does.trees
                /\ \A r \in Roots :
                     e.tree[r] = IF r \in prep.does.trees THEN v.input
                                 ELSE IF r \in Replaced(v, prep.does) THEN "none"
                                 ELSE disk.tree[r]
           /\ ~Publishes(v, rq, prep.does) =>
                /\ e.owned = disk.owned
                /\ BuiltBy(c) = built
                /\ \A r \in Roots : e.tree[r] = disk.tree[r]
    BY <1>1, <1>2, TreeFiles DEF c
  <2> QED BY <1>3, <2>1
<1> QED BY <1>1, <1>2, <1>5, <1>6, <1>7, <1>8 DEF v, rq

(* Only Commit commits.                                                    *)
LEMMA OnlyCommits ==
    ASSUME Types, Next, NEW p \in Builders, Commits(p)
    PROVE  Commit(p)
<1> SUFFICES ASSUME ~Commit(p) PROVE FALSE
  OBVIOUS
<1>0. proc[p].pc = "planned" /\ proc'[p].pc = "committed"
  BY DEF Commits
<1>1. ASSUME NEW q \in Builders, NEW request \in Requests, Begin(q, request) PROVE FALSE
  BY <1>0, <1>1 DEF Begin, Types
<1>2. ASSUME NEW q \in Builders, End(q) PROVE FALSE
  BY <1>0, <1>2, EndStep
<1>3. ASSUME NEW q \in Builders, PlanBuild(q) PROVE FALSE
  <2>1. proc[q].pc = "opened" /\ q # p
    BY <1>0, <1>3 DEF PlanBuild
  <2> QED BY <1>0, <1>3, <2>1, PlanFacts
<1>4. ASSUME NEW q \in Builders, Commit(q) PROVE FALSE
  <2>1. proc'[p] = proc[p]
    BY <1>4 DEF Commit, Types
  <2> QED BY <1>0, <2>1
<1>5. ASSUME NEW q \in Builders, BeginClean(q) PROVE FALSE
  BY <1>0, <1>5 DEF BeginClean, Types
<1>6. ASSUME NEW q \in Builders, NEW r \in Roots, CleanRoot(q, r) PROVE FALSE
  <2>1. q # p
    BY <1>0, <1>6 DEF CleanRoot
  <2> QED BY <1>0, <1>6, <2>1 DEF CleanRoot, Types
<1>7. ASSUME proc' = proc PROVE FALSE
  BY <1>0, <1>7
<1>8. ASSUME NEW q \in Builders, Refuse(q) \/ Persist(q) \/ NotPersisted(q) \/ CleanBuildDir(q)
             \/ CleanStops(q) PROVE FALSE
  BY <1>2, <1>8 DEF Refuse, Persist, NotPersisted, CleanBuildDir, CleanStops
<1>9. ASSUME NEW q \in Builders, NEW n, CrashInCommit(q, n) PROVE FALSE
  BY <1>2, <1>9 DEF CrashInCommit
<1>10. ASSUME EditProject \/ (\E o \in Outs, bytes \in {"none", "user"} : EditOutput(o, bytes))
              \/ (\E r \in Roots, bytes \in {"none", "user"} : EditTree(r, bytes)) \/ LoseCache
       PROVE  FALSE
  BY <1>7, <1>10 DEF EditProject, EditOutput, EditTree, Edit, LoseCache
<1> QED BY <1>1, <1>3, <1>4, <1>5, <1>6, <1>8, <1>9, <1>10 DEF Next

(* A committed build leaves what a build from nothing would have left.     *)
LEMMA CommitLikeNew ==
    ASSUME Types, NEW p \in Builders, Commit(p)
    PROVE  LET v == proc[p].view
               retired == {w.root : w \in v.disk.owned} \ Wanted(p).trees IN
           /\ \A o \in Wanted(p).writes \cup Wanted(p).texts :
                disk.out[o] = v.disk.out[o] => disk'.out[o] = v.input
           /\ \A r \in Wanted(p).trees \cup retired :
                proc[p].request.apply /\ disk.tree[r] = v.disk.tree[r] =>
                  disk'.tree[r] = IF r \in retired THEN "none" ELSE v.input
<1> DEFINE v == proc[p].view
           rq == proc[p].request
           retired == {w.root : w \in v.disk.owned} \ Wanted(p).trees
<1>1. PICK prep :
           /\ PrepOk(v, rq, prep) /\ prep.outputs = proc[p].outputs
           /\ prep.does = Wanted(p) /\ prep.does = WantedOf(v.script, rq.features)
           /\ v \in View /\ rq \in Requests
           /\ \A o \in Outs :
                /\ o \in Writable(v, prep) => disk'.out[o] = v.input /\ wrote'[o] = "script"
                /\ o \in Removable(v, prep) => disk'.out[o] = "none" /\ wrote'[o] = "none"
                /\ o \in Texts(v, prep) => disk'.out[o] = v.input /\ wrote'[o] = "text"
                /\ o \notin Touched(v, prep) => disk'.out[o] = disk.out[o] /\ wrote'[o] = wrote[o]
           /\ Publishes(v, rq, prep.does) =>
                \A r \in Roots :
                     disk'.tree[r] = IF r \in prep.does.trees THEN v.input
                                     ELSE IF r \in Replaced(v, prep.does) THEN "none"
                                     ELSE disk.tree[r]
           /\ ~Publishes(v, rq, prep.does) => \A r \in Roots : disk'.tree[r] = disk.tree[r]
  BY CommitFacts
<1> HIDE DEF v, rq
<1>2. /\ prep.does \in Work /\ DOMAIN prep.outputs = prep.does.writes
      /\ \A o \in prep.does.writes : prep.outputs[o] = v.input
      /\ prep.does.writes \cap prep.does.texts = {}
  BY <1>1, PrepReady DEF PrepOk
<1>3. ASSUME NEW o \in Wanted(p).writes \cup Wanted(p).texts, disk.out[o] = v.disk.out[o]
      PROVE  disk'.out[o] = v.input
  <2>1. o \in Outs
    BY <1>1, <1>2 DEF Work
  <2>2. CASE o \in Wanted(p).writes
    BY <1>1, <1>2, <1>3, <2>1, <2>2 DEF Touched, Writable, Removable, Texts
  <2>3. CASE o \in Wanted(p).texts
    BY <1>1, <1>2, <1>3, <2>1, <2>3 DEF Touched, Writable, Removable, Texts
  <2> QED BY <2>2, <2>3
<1>4. ASSUME NEW r \in Wanted(p).trees \cup retired, rq.apply, disk.tree[r] = v.disk.tree[r]
      PROVE  disk'.tree[r] = IF r \in retired THEN "none" ELSE v.input
  <2>1. r \in Roots
    BY <1>1, <1>2 DEF Work, View, Files, Owner
  <2>2. CASE Publishes(v, rq, prep.does)
    <3>1. CASE r \in Wanted(p).trees
      BY <1>1, <2>1, <2>2, <3>1
    <3>2. CASE r \in retired
      BY <1>1, <1>4, <2>1, <2>2, <3>2 DEF Replaced
    <3> QED BY <3>1, <3>2
  <2>3. CASE ~Publishes(v, rq, prep.does)
    <3>1. v.disk.owned = Owners(v, prep.does) /\ Matches(v.disk, Owners(v, prep.does))
      BY <1>4, <2>3 DEF Publishes
    <3>2. r \notin retired
      BY <1>1, <3>1 DEF Owners
    <3>3. [root |-> r, plan |-> Plan(prep.does), tree |-> v.input] \in Owners(v, prep.does)
      BY <1>1, <1>4, <3>2 DEF Owners
    <3>4. v.disk.tree[r] = v.input
      BY <3>1, <3>3 DEF Matches
    <3> QED BY <1>1, <1>4, <2>1, <2>3, <3>2, <3>4
  <2> QED BY <2>2, <2>3
<1> QED BY <1>3, <1>4 DEF v, rq

-----------------------------------------------------------------------------
(* Published trees stay on record. *)

\* A process that stays as it was, or goes on without a new snapshot.
GoesOn(a, b) ==
    \/ b = a
    \/ b.pc = "idle"
    \/ b.pc = "committed" /\ a.pc = "planned"
    \/ b.pc = "planned" /\ a.pc = "opened" /\ b.view = a.view

(* A step that publishes nothing and leaves the ownership file alone.      *)
LEMMA TreesQuiet ==
    ASSUME Trees, ~forgotten, disk'.owned = disk.owned, built' \subseteq built,
           \A r \in built' : disk'.tree[r] # "none",
           \A q \in Builders : GoesOn(proc[q], proc'[q])
    PROVE  Trees'
<1>1. \A r \in built' : \E w \in disk'.owned : w.root = r
  BY DEF Trees
<1>2. \A q \in Builders : Building(proc'[q]) =>
        Building(proc[q]) /\ proc'[q].view = proc[q].view
  BY DEF GoesOn, Building
<1>3. ASSUME NEW q \in Builders, Building(proc'[q]), NEW w \in proc'[q].view.disk.owned,
             proc'[q].view.disk.tree[w.root] = "none"
      PROVE  w.root \notin built'
  BY <1>2, <1>3 DEF Trees
<1>4. ASSUME NEW q1 \in Builders, NEW q2 \in Builders, q1 # q2, Building(proc'[q1]),
             Building(proc'[q2])
      PROVE  ~Gap(proc'[q1].view.disk)
  BY <1>2, <1>4 DEF Trees
<1>5. ASSUME NEW q \in Builders, proc'[q].pc = "clean"
      PROVE  built' \subseteq proc'[q].todo /\ \A q2 \in Builders \ {q} : proc'[q2].pc = "idle"
  <2>1. proc'[q] = proc[q]
    BY <1>5 DEF GoesOn
  <2>2. built \subseteq proc[q].todo /\ \A q2 \in Builders \ {q} : proc[q2].pc = "idle"
    BY <1>5, <2>1 DEF Trees
  <2>3. \A q2 \in Builders \ {q} : proc'[q2].pc = "idle"
    BY <2>2 DEF GoesOn
  <2> QED BY <2>1, <2>2, <2>3
<1> QED BY <1>1, <1>3, <1>4, <1>5 DEF Trees

(* A process that ends, with all others idle, leaves nothing under way.    *)
LEMMA TreesIdle ==
    ASSUME \A q \in Builders : proc'[q].pc = "idle",
           \A r \in built' : \E w \in disk'.owned : w.root = r,
           \A r \in built' : disk'.tree[r] # "none"
    PROVE  Trees'
BY DEF Trees, Building

(* A commit records what it publishes and publishes over all that was      *)
(* recorded (publication_changes).                                         *)
LEMMA TreesCommit ==
    ASSUME Types, Trees, ~forgotten, NEW p \in Builders, Commit(p)
    PROVE  Trees'
<1> DEFINE v == proc[p].view
           rq == proc[p].request
<1>1. PICK prep :
           /\ PrepOk(v, rq, prep) /\ v \in View /\ rq \in Requests
           /\ Publishes(v, rq, prep.does) =>
                /\ disk'.owned = Owners(v, prep.does)
                /\ built' = (built \ Replaced(v, prep.does)) \cup prep.does.trees
                /\ \A r \in Roots :
                     disk'.tree[r] = IF r \in prep.does.trees THEN v.input
                                     ELSE IF r \in Replaced(v, prep.does) THEN "none"
                                     ELSE disk.tree[r]
                /\ disk.owned = v.disk.owned
           /\ ~Publishes(v, rq, prep.does) =>
                /\ disk'.owned = disk.owned
                /\ built' = built
                /\ \A r \in Roots : disk'.tree[r] = disk.tree[r]
  BY CommitFacts
<1>2. v.input # "none" /\ prep.does.trees \subseteq Roots
  BY <1>1, PrepReady DEF Work
<1>3. PlanOk(proc[p]) /\ proc[p].pc = "planned" /\ built \subseteq Roots
  BY DEF Commit, Types, ProcOk
<1>4. proc'[p].pc = "committed" /\ \A q \in Builders \ {p} : proc'[q] = proc[q]
  BY <1>3, CommitStep DEF Commit, Types
<1>5. \A q \in Builders : GoesOn(proc[q], proc'[q])
  BY <1>3, <1>4 DEF GoesOn
<1>6. CASE ~Publishes(v, rq, prep.does)
  <2> HIDE DEF v, rq
  <2>1. \A r \in built' : disk'.tree[r] # "none"
    BY <1>1, <1>3, <1>6 DEF Trees
  <2> QED BY <1>1, <1>5, <1>6, <2>1, TreesQuiet
<1>7. CASE Publishes(v, rq, prep.does)
  <2>1. built' \subseteq prep.does.trees
    <3> SUFFICES ASSUME NEW r \in built \ Replaced(v, prep.does) PROVE FALSE
      BY <1>1, <1>7
    <3>1. PICK w \in v.disk.owned : w.root = r
      BY <1>1, <1>7 DEF Trees
    <3>2. v.disk.tree[r] = "none"
      BY <3>1 DEF Replaced
    <3>3. Building(proc[p])
      BY <1>3 DEF Building
    <3> QED BY <3>1, <3>2, <3>3 DEF Trees
  <2>2. \A r \in built' : disk'.tree[r] # "none"
    BY <1>1, <1>2, <1>7, <2>1
  <2>3. \A r \in built' : \E w \in disk'.owned : w.root = r
    <3>1. disk'.owned = Owners(v, prep.does)
      BY <1>1, <1>7
    <3> SUFFICES ASSUME NEW r \in built' PROVE \E w \in Owners(v, prep.does) : w.root = r
      BY <3>1
    <3> DEFINE w == [root |-> r, plan |-> Plan(prep.does), tree |-> v.input]
    <3>2. r \in prep.does.trees
      BY <2>1
    <3>3. w \in Owners(v, prep.does) /\ w.root = r
      BY <3>2 DEF Owners
    <3> QED BY <3>3
  <2>4. \A q \in Builders : Building(proc'[q]) =>
          q # p /\ proc'[q] = proc[q] /\ Building(proc[q]) /\ ~Gap(proc[q].view.disk)
    BY <1>3, <1>4 DEF Building, Trees
  <2>5. \A q \in Builders : proc'[q].pc # "clean"
    BY <1>3, <1>4 DEF Trees
  <2>6. \A q \in Builders : Building(proc'[q]) => ~Gap(proc'[q].view.disk)
    BY <2>4
  <2> QED BY <2>2, <2>3, <2>5, <2>6 DEF Trees, Gap
<1> QED BY <1>6, <1>7

(* Every step keeps the published trees on record.                         *)
LEMMA TreesNext == ASSUME Types, Trees, Next PROVE Trees'
<1> SUFFICES ASSUME ~forgotten' PROVE Trees'
  BY DEF Trees
<1>1. ASSUME NEW p \in Builders, NEW request \in Requests, Begin(p, request) PROVE Trees'
  <2>1. /\ ~forgotten /\ ~Cleaning /\ ~OverlappingGap /\ disk' = disk /\ built' = built
    BY <1>1 DEF Begin
  <2>2. /\ proc'[p].pc = "opened" /\ proc'[p].view.disk = disk
        /\ \A q \in Builders \ {p} : proc'[q] = proc[q]
    BY <1>1 DEF Begin, Types
  <2>3. \A q \in Builders : proc[q].pc # "clean"
    BY <2>1 DEF Cleaning
  <2>4. \A q \in Builders : Building(proc[q]) => ~Gap(disk) /\ ~Gap(proc[q].view.disk)
    BY <2>1 DEF OverlappingGap, Building, Gap
  <2>5. ~Building(proc[p])
    BY <1>1 DEF Begin, Building
  <2>6. ASSUME NEW q \in Builders, Building(proc'[q]), NEW w \in proc'[q].view.disk.owned,
               proc'[q].view.disk.tree[w.root] = "none"
        PROVE  w.root \notin built'
    <3>1. CASE q = p
      BY <2>1, <2>2, <2>6, <3>1 DEF Trees
    <3>2. CASE q # p
      BY <2>1, <2>2, <2>6, <3>2 DEF Trees
    <3> QED BY <3>1, <3>2
  <2>7. ASSUME NEW q1 \in Builders, NEW q2 \in Builders, q1 # q2, Building(proc'[q1]),
               Building(proc'[q2])
        PROVE  ~Gap(proc'[q1].view.disk)
    <3>1. CASE q1 = p
      BY <2>2, <2>4, <2>7, <3>1
    <3>2. CASE q1 # p
      BY <2>2, <2>4, <2>7, <3>2
    <3> QED BY <3>1, <3>2
  <2>8. \A q \in Builders : proc'[q].pc # "clean"
    BY <2>2, <2>3
  <2>9. /\ \A r \in built' : \E w \in disk'.owned : w.root = r
        /\ \A r \in built' : disk'.tree[r] # "none"
    BY <2>1 DEF Trees
  <2> QED BY <2>6, <2>7, <2>8, <2>9 DEF Trees
<1>2. ASSUME NEW p \in Builders, Refuse(p) \/ Persist(p) \/ NotPersisted(p) PROVE Trees'
  <2>1. End(p) /\ disk' = disk /\ built' = built /\ forgotten' = forgotten
    BY <1>2 DEF Refuse, Persist, NotPersisted, history
  <2>2. \A q \in Builders : GoesOn(proc[q], proc'[q])
    BY <2>1, EndStep DEF GoesOn
  <2>3. \A r \in built' : disk'.tree[r] # "none"
    BY <2>1 DEF Trees
  <2> QED BY <2>1, <2>2, <2>3, TreesQuiet
<1>3. ASSUME NEW p \in Builders, PlanBuild(p) PROVE Trees'
  <2>1. disk' = disk /\ built' = built /\ forgotten' = forgotten /\ proc[p].pc = "opened"
    BY <1>3 DEF PlanBuild, history
  <2>2. /\ proc'[p].pc = "planned" /\ proc'[p].view = proc[p].view
        /\ \A q \in Builders \ {p} : proc'[q] = proc[q]
    BY <1>3, PlanStep
  <2>3. \A q \in Builders : GoesOn(proc[q], proc'[q])
    BY <2>1, <2>2 DEF GoesOn
  <2>4. \A r \in built' : disk'.tree[r] # "none"
    BY <2>1 DEF Trees
  <2> QED BY <2>1, <2>3, <2>4, TreesQuiet
<1>4. ASSUME NEW p \in Builders, Commit(p) PROVE Trees'
  BY <1>4, TreesCommit DEF Commit
<1>5. ASSUME NEW p \in Builders, NEW n, CrashInCommit(p, n) PROVE Trees'
  BY <1>5 DEF CrashInCommit
<1>6. ASSUME NEW p \in Builders, BeginClean(p) PROVE Trees'
  <2>1. ~forgotten /\ ~Overlapping /\ disk' = disk /\ built' = built
    BY <1>6 DEF BeginClean
  <2>2. /\ proc'[p].pc = "clean" /\ proc'[p].todo = {w.root : w \in disk.owned}
        /\ \A q \in Builders \ {p} : proc'[q] = proc[q]
    BY <1>6 DEF BeginClean, Types
  <2>3. \A q \in Builders \ {p} : proc'[q].pc = "idle"
    BY <2>1, <2>2 DEF Overlapping
  <2>4. built' \subseteq proc'[p].todo
    BY <2>1, <2>2 DEF Trees
  <2>5. \A q \in Builders : ~Building(proc'[q]) /\ (proc'[q].pc = "clean" => q = p)
    BY <2>2, <2>3 DEF Building
  <2>6. /\ \A r \in built' : \E w \in disk'.owned : w.root = r
        /\ \A r \in built' : disk'.tree[r] # "none"
    BY <2>1 DEF Trees
  <2> QED BY <2>3, <2>4, <2>5, <2>6 DEF Trees
<1>7. ASSUME NEW p \in Builders, NEW r \in Roots, CleanRoot(p, r) PROVE Trees'
  <2>1. ~forgotten /\ proc[p].pc = "clean" /\ built' = built \ {r}
    BY <1>7 DEF CleanRoot
  <2>2. built \subseteq proc[p].todo /\ \A q \in Builders \ {p} : proc[q].pc = "idle"
    BY <2>1 DEF Trees
  <2>3. DOMAIN proc[p] = {"pc", "todo"} /\ proc[p].todo \subseteq Roots
    BY <2>1 DEF Types, ProcOk
  <2>4. /\ proc'[p] = [proc[p] EXCEPT !.todo = proc[p].todo \ {r}]
        /\ \A q \in Builders \ {p} : proc'[q] = proc[q]
    BY <1>7 DEF CleanRoot, Types
  <2>5. proc'[p].pc = "clean" /\ proc'[p].todo = proc[p].todo \ {r}
    BY <2>1, <2>3, <2>4
  <2>6. disk'.owned = disk.owned /\ \A s \in Roots \ {r} : disk'.tree[s] = disk.tree[s]
    BY <1>7 DEF CleanRoot, Types, Files
  <2>7. \A s \in built' : (\E w \in disk'.owned : w.root = s) /\ disk'.tree[s] # "none"
    BY <2>1, <2>6 DEF Trees, Types
  <2>8. \A q \in Builders : ~Building(proc'[q]) /\ (proc'[q].pc = "clean" => q = p)
    BY <2>2, <2>4, <2>5 DEF Building
  <2>9. built' \subseteq proc'[p].todo /\ \A q \in Builders \ {p} : proc'[q].pc = "idle"
    BY <2>1, <2>2, <2>4, <2>5
  <2> QED BY <2>7, <2>8, <2>9 DEF Trees
<1>8. ASSUME NEW p \in Builders, CleanBuildDir(p) PROVE Trees'
  <2>1. ~forgotten /\ proc[p].pc = "clean" /\ proc[p].todo = {} /\ built' = built /\ End(p)
    BY <1>8 DEF CleanBuildDir
  <2>2. built = {} /\ \A q \in Builders \ {p} : proc[q].pc = "idle"
    BY <2>1 DEF Trees
  <2>3. \A q \in Builders : proc'[q].pc = "idle"
    BY <2>1, <2>2, EndStep
  <2> QED BY <2>1, <2>2, <2>3, TreesIdle
<1>9. ASSUME NEW p \in Builders, CleanStops(p) PROVE Trees'
  <2>1. ~forgotten /\ proc[p].pc = "clean" /\ built' = built /\ End(p)
    BY <1>9 DEF CleanStops
  <2>2. built \subseteq proc[p].todo /\ \A q \in Builders \ {p} : proc[q].pc = "idle"
    BY <2>1 DEF Trees
  <2>3. \A q \in Builders : proc'[q].pc = "idle"
    BY <2>1, <2>2, EndStep
  <2>4. disk'.owned = disk.owned \/ built = {}
    BY <1>9, <2>2 DEF CleanStops, Types, Files
  <2>5. \A r \in Roots : disk'.tree[r] = disk.tree[r] \/ disk'.tree[r] = "mixed"
    BY <1>9 DEF CleanStops, Types, Files
  <2>6. \A r \in built' : (\E w \in disk'.owned : w.root = r) /\ disk'.tree[r] # "none"
    BY <2>1, <2>4, <2>5 DEF Trees, Types
  <2> QED BY <2>3, <2>6, TreesIdle
<1>10. ASSUME proc' = proc, disk'.owned = disk.owned, built' \subseteq built,
              forgotten' = forgotten, \A r \in built' : disk'.tree[r] # "none"
       PROVE  Trees'
  <2>1. \A q \in Builders : GoesOn(proc[q], proc'[q])
    BY <1>10 DEF GoesOn
  <2> QED BY <1>10, <2>1, TreesQuiet
<1>11. ASSUME EditProject \/ LoseCache PROVE Trees'
  <2>1. proc' = proc /\ disk' = disk /\ built' = built /\ forgotten' = forgotten
    BY <1>11 DEF EditProject, Edit, LoseCache
  <2>2. \A r \in built' : disk'.tree[r] # "none"
    BY <2>1 DEF Trees
  <2> QED BY <1>10, <2>1, <2>2
<1>12. ASSUME NEW o \in Outs, NEW bytes \in {"none", "user"}, EditOutput(o, bytes) PROVE Trees'
  <2>1. /\ proc' = proc /\ built' = built /\ forgotten' = forgotten
        /\ disk'.owned = disk.owned /\ disk'.tree = disk.tree
    BY <1>12 DEF EditOutput, Edit, Types, Files
  <2>2. \A r \in built' : disk'.tree[r] # "none"
    BY <2>1 DEF Trees
  <2> QED BY <1>10, <2>1, <2>2
<1>13. ASSUME NEW r \in Roots, NEW bytes \in {"none", "user"}, EditTree(r, bytes) PROVE Trees'
  <2>1. /\ proc' = proc /\ forgotten' = forgotten /\ disk'.owned = disk.owned
        /\ disk'.tree = [disk.tree EXCEPT ![r] = bytes]
        /\ built' = IF bytes = "none" THEN built \ {r} ELSE built
    BY <1>13 DEF EditTree, Edit, Types, Files
  <2>2. disk.tree \in [Roots -> Contents] /\ built \subseteq Roots
    BY DEF Types, Files
  <2>3. \A s \in built' : disk'.tree[s] # "none"
    BY <2>1, <2>2 DEF Trees
  <2> QED BY <1>10, <2>1, <2>3
<1> QED BY <1>1, <1>2, <1>3, <1>4, <1>5, <1>6, <1>7, <1>8, <1>9, <1>11, <1>12, <1>13 DEF Next

-----------------------------------------------------------------------------
(* What the user wrote, and who is at work. *)

(* Every step keeps track of the user's files.                             *)
LEMMA UsersNext == ASSUME Types, Users, Next PROVE Users'
<1>1. ASSUME \A o \in Outs : wrote'[o] = "user" => wrote[o] = "user" /\ disk'.out[o] = disk.out[o]
      PROVE  Users'
  BY <1>1 DEF Users
<1>2. ASSUME NEW p \in Builders, Commit(p) PROVE Users'
  <2>1. PlanOk(proc[p]) /\ proc[p].view \in View /\ proc[p].request \in Requests
    BY <1>2 DEF Commit, Types, ProcOk
  <2>2. Len(proc[p].changes) \in 0 .. Len(proc[p].changes)
    BY <2>1, ChangesOk DEF PlanOk
  <2> DEFINE c == SubSeq(proc[p].changes, 1, Len(proc[p].changes))
  <2>3. proc[p].pc = "planned"
    BY <1>2 DEF Commit
  <2>4. /\ c = proc[p].changes
        /\ \A o \in Outs : WroteBy(c)[o] = "user" =>
             wrote[o] = "user" /\ AllApplied(disk, c).out[o] = disk.out[o]
    BY <2>2, <2>3, LandedFiles
  <2> HIDE DEF c
  <2>5. \A o \in Outs : wrote'[o] = "user" => wrote[o] = "user" /\ disk'.out[o] = disk.out[o]
    BY <1>2, <2>4 DEF Commit
  <2> QED BY <1>1, <2>5
<1>3. ASSUME NEW p \in Builders, proc[p].pc = "planned",
             NEW n \in 0 .. (Len(proc[p].changes) - 1), CrashInCommit(p, n)
      PROVE  Users'
  <2>1. PlanOk(proc[p]) /\ proc[p].view \in View /\ proc[p].request \in Requests
    BY <1>3 DEF Types, ProcOk
  <2>2. Len(proc[p].changes) \in Nat
    BY <2>1, ChangesOk DEF PlanOk
  <2>3. n \in 0 .. Len(proc[p].changes)
    BY <2>2
  <2>4. \A o \in Outs : wrote'[o] = "user" => wrote[o] = "user" /\ disk'.out[o] = disk.out[o]
    BY <1>3, <2>3, LandedFiles DEF CrashInCommit
  <2> QED BY <1>1, <2>4
<1>4. ASSUME NEW p \in Builders, CleanBuildDir(p) PROVE Users'
  BY <1>1, <1>4 DEF CleanBuildDir
<1>5. ASSUME NEW p \in Builders, CleanStops(p) PROVE Users'
  <2>1. ASSUME NEW o \in Outs, wrote'[o] = "user"
        PROVE  wrote[o] = "user" /\ disk'.out[o] = disk.out[o]
    <3>1. disk'.out[o] # "none" /\ wrote[o] = "user"
      BY <1>5, <2>1 DEF CleanStops
    <3>2. disk'.out[o] = disk.out[o] \/ disk'.out[o] = "none"
      BY <1>5 DEF CleanStops, Types, Files
    <3> QED BY <3>1, <3>2
  <2> QED BY <1>1, <2>1
<1>6. ASSUME NEW o \in Outs, NEW bytes \in {"none", "user"}, EditOutput(o, bytes) PROVE Users'
  BY <1>6 DEF EditOutput, Users, Types, Files
<1>7. ASSUME NEW p \in Builders,
             (\E request \in Requests : Begin(p, request)) \/ Refuse(p) \/ PlanBuild(p)
             \/ Persist(p) \/ NotPersisted(p) \/ BeginClean(p)
      PROVE  Users'
  BY <1>7 DEF Begin, Refuse, PlanBuild, Persist, NotPersisted, BeginClean, history, Users
<1>8. ASSUME NEW p \in Builders, NEW r \in Roots, CleanRoot(p, r) PROVE Users'
  BY <1>8 DEF CleanRoot, Users, Types, Files
<1>9. ASSUME NEW r \in Roots, NEW bytes \in {"none", "user"}, EditTree(r, bytes) PROVE Users'
  BY <1>9 DEF EditTree, Users, Types, Files
<1>10. ASSUME EditProject \/ LoseCache PROVE Users'
  BY <1>10 DEF EditProject, Edit, LoseCache, Users
<1> QED BY <1>2, <1>3, <1>4, <1>5, <1>6, <1>7, <1>8, <1>9, <1>10 DEF Next

(* As long as no build overlapped, one process is at work at a time.       *)
LEMMA AloneNext == ASSUME Types, Alone, Next PROVE Alone'
<1> SUFFICES ASSUME ~degraded' PROVE Alone'
  BY DEF Alone
<1>1. ASSUME ~degraded, \A q \in Builders : proc[q].pc = "idle" => proc'[q].pc = "idle"
      PROVE  Alone'
  BY <1>1 DEF Alone
<1>2. ASSUME NEW p \in Builders, \A q \in Builders : proc[q].pc = "idle",
             \A q \in Builders \ {p} : proc'[q] = proc[q]
      PROVE  Alone'
  BY <1>2 DEF Alone
<1>3. ASSUME NEW p \in Builders, NEW request \in Requests, Begin(p, request) PROVE Alone'
  <2>1. \A q \in Builders : proc[q].pc = "idle"
    BY <1>3 DEF Begin, Overlapping
  <2> QED BY <1>2, <1>3, <2>1 DEF Begin, Types
<1>4. ASSUME NEW p \in Builders, BeginClean(p) PROVE Alone'
  <2>1. \A q \in Builders : proc[q].pc = "idle"
    BY <1>4 DEF BeginClean, Overlapping
  <2> QED BY <1>2, <1>4, <2>1 DEF BeginClean, Types
<1>5. ASSUME NEW p \in Builders, Refuse(p) \/ Persist(p) \/ CleanBuildDir(p) \/ CleanStops(p)
      PROVE  Alone'
  <2>1. End(p) /\ ~degraded
    BY <1>5 DEF Refuse, Persist, CleanBuildDir, CleanStops, history
  <2> QED BY <1>1, <2>1, EndStep
<1>6. ASSUME NEW p \in Builders, NotPersisted(p) PROVE Alone'
  BY <1>6 DEF NotPersisted
<1>7. ASSUME NEW p \in Builders, PlanBuild(p) PROVE Alone'
  <2>1. ~degraded
    BY <1>7 DEF PlanBuild, history
  <2>2. \A q \in Builders : proc[q].pc = "idle" => proc'[q].pc = "idle"
    BY <1>7, PlanStep
  <2> QED BY <1>1, <2>1, <2>2
<1>8. ASSUME NEW p \in Builders, Commit(p) PROVE Alone'
  BY <1>1, <1>8 DEF Commit, Types
<1>9. ASSUME NEW p \in Builders, NEW r \in Roots, CleanRoot(p, r) PROVE Alone'
  BY <1>1, <1>9 DEF CleanRoot, Types
<1>10. ASSUME EditProject \/ LoseCache
              \/ (\E o \in Outs, bytes \in {"none", "user"} : EditOutput(o, bytes))
              \/ (\E r \in Roots, bytes \in {"none", "user"} : EditTree(r, bytes))
       PROVE  Alone'
  <2>1. proc' = proc /\ ~degraded
    BY <1>10 DEF EditProject, EditOutput, EditTree, Edit, LoseCache
  <2> QED BY <1>1, <2>1
<1>11. ASSUME NEW p \in Builders, NEW n, CrashInCommit(p, n) PROVE Alone'
  BY <1>11 DEF CrashInCommit
<1> QED BY <1>3, <1>4, <1>5, <1>6, <1>7, <1>8, <1>9, <1>10, <1>11 DEF Next

-----------------------------------------------------------------------------
(* What scripts generated stays on record. *)

(* A step that generates nothing, and records and loses nothing.           *)
LEMMA KnownQuiet ==
    ASSUME Known, ~degraded, indexed' = indexed, artifacts' = artifacts,
           \A o \in Outs : wrote'[o] = "script" =>
             wrote[o] = "script" /\ disk'.out[o] = disk.out[o],
           \A q \in Builders :
             \/ proc'[q] = proc[q]
             \/ proc'[q].pc \in {"idle", "clean"} /\ ~Pending(proc[q])
             \/ proc'[q].pc = "opened" /\ ~Pending(proc[q]) /\ proc'[q].view.disk = disk'
    PROVE  Known'
<1>1. ASSUME NEW q \in Builders, Building(proc'[q]), NEW o \in Outs, wrote'[o] = "script"
      PROVE  disk'.out[o] = proc'[q].view.disk.out[o]
  BY <1>1 DEF Known, Building
<1>2. ASSUME NEW q \in Builders, proc'[q].pc = "planned", proc'[q].view.script # NoScript,
             NEW o \in Outs, wrote'[o] = "script", o \notin DOMAIN proc'[q].outputs
      PROVE  To(proc'[q].changes, "out", o) # {}
  <2>1. proc'[q] = proc[q]
    BY <1>2
  <2> QED BY <1>2, <2>1 DEF Known
<1>3. ASSUME NEW q \in Builders, Replayed(proc'[q])
      PROVE  /\ indexed' # NoState /\ indexed'.outputs = proc'[q].outputs
             /\ \A o \in DOMAIN proc'[q].outputs : <<o, proc'[q].outputs[o]>> \in artifacts'
  <2>1. proc'[q] = proc[q]
    BY <1>3 DEF Replayed
  <2> QED BY <1>3, <2>1 DEF Known
<1>4. ASSUME NEW q \in Builders, Pending(proc'[q]), NEW o \in Outs, wrote'[o] = "script"
      PROVE  o \in DOMAIN proc'[q].state.outputs /\ disk'.out[o] = proc'[q].state.outputs[o]
  <2>1. proc'[q] = proc[q]
    BY <1>4 DEF Pending
  <2> QED BY <1>4, <2>1 DEF Known
<1>5. ASSUME \A q \in Builders : ~Pending(proc'[q]), NEW o \in Outs, wrote'[o] = "script"
      PROVE  HasRecord(indexed', artifacts', o, disk'.out[o])
  <2>1. \A q \in Builders : ~Pending(proc[q])
    BY <1>5
  <2> QED BY <1>5, <2>1 DEF Known
<1> QED BY <1>1, <1>2, <1>3, <1>4, <1>5 DEF Known

(* After a commit the script's files are those that it generates now       *)
(* (reconcile_output_changes).                                             *)
LEMMA CommitKnown ==
    ASSUME Types, Known, ~degraded, NEW p \in Builders, Commit(p),
           proc[p].view.script # NoScript, NEW o \in Outs, wrote'[o] = "script"
    PROVE  /\ o \in DOMAIN proc[p].outputs /\ disk'.out[o] = proc[p].outputs[o]
           /\ o \in Wanted(p).writes
<1> DEFINE v == proc[p].view
           rq == proc[p].request
<1>1. PICK prep :
           /\ PrepOk(v, rq, prep) /\ prep.outputs = proc[p].outputs
           /\ prep.does = Wanted(p)
           /\ v \in View /\ rq \in Requests
           /\ proc[p].changes = BuildChanges(v, rq, prep)
           /\ o \in Writable(v, prep) => disk'.out[o] = v.input /\ wrote'[o] = "script"
           /\ o \in Removable(v, prep) => disk'.out[o] = "none" /\ wrote'[o] = "none"
           /\ o \in Texts(v, prep) => disk'.out[o] = v.input /\ wrote'[o] = "text"
           /\ o \notin Touched(v, prep) => disk'.out[o] = disk.out[o] /\ wrote'[o] = wrote[o]
  BY CommitFacts
<1>2. proc[p].pc = "planned"
  BY DEF Commit
<1> HIDE DEF v, rq
<1>3. /\ Ready(v, prep) /\ DOMAIN prep.outputs = prep.does.writes
      /\ \A q \in prep.does.writes : prep.outputs[q] = v.input
  BY <1>1, PrepReady
<1>4. To(proc[p].changes, "out", o) = {} <=> o \notin Touched(v, prep)
  BY <1>1, <1>3, OutAfter DEF Touched
<1>5. CASE o \in Touched(v, prep)
  <2>1. o \in Writable(v, prep)
    BY <1>1, <1>5 DEF Touched
  <2> QED BY <1>1, <1>3, <2>1 DEF Writable
<1>6. CASE o \notin Touched(v, prep)
  <2>1. wrote[o] = "script" /\ disk'.out[o] = disk.out[o]
    BY <1>1, <1>6
  <2>2. o \in DOMAIN prep.outputs
    BY <1>1, <1>2, <1>4, <1>6, <2>1 DEF Known
  <2>3. disk.out[o] = v.disk.out[o]
    BY <1>2, <2>1 DEF Known, Building, v
  <2>4. v.disk.out[o] = prep.outputs[o]
    BY <1>6, <2>2 DEF Touched, Writable
  <2> QED BY <1>1, <1>3, <2>1, <2>2, <2>3, <2>4
<1> QED BY <1>5, <1>6

(* Every step keeps what scripts generated on record.                      *)
LEMMA KnownNext == ASSUME Types, Alone, Known, Next PROVE Known'
<1> SUFFICES ASSUME ~degraded' PROVE Known'
  BY DEF Known
<1>0. ASSUME NEW p \in Builders, ~degraded, proc[p].pc # "idle"
      PROVE  \A q \in Builders \ {p} : proc[q].pc = "idle"
  BY <1>0 DEF Alone
<1>1. ASSUME NEW p \in Builders, NEW request \in Requests, Begin(p, request) PROVE Known'
  <2>1. /\ ~degraded /\ disk' = disk /\ wrote' = wrote /\ indexed' = indexed
        /\ artifacts' = artifacts /\ proc[p].pc = "idle"
    BY <1>1 DEF Begin
  <2>2. /\ proc'[p].pc = "opened" /\ proc'[p].view.disk = disk
        /\ \A q \in Builders \ {p} : proc'[q] = proc[q]
    BY <1>1 DEF Begin, Types
  <2>3. ~Pending(proc[p])
    BY <2>1 DEF Pending
  <2> QED BY <2>1, <2>2, <2>3, KnownQuiet
<1>2. ASSUME NEW p \in Builders, Refuse(p) PROVE Known'
  <2>1. /\ End(p) /\ ~degraded /\ disk' = disk /\ wrote' = wrote /\ indexed' = indexed
        /\ artifacts' = artifacts /\ proc[p].pc \in {"opened", "planned"}
    BY <1>2 DEF Refuse, history
  <2>2. ~Pending(proc[p])
    BY <2>1 DEF Pending
  <2>3. proc'[p].pc = "idle" /\ \A q \in Builders \ {p} : proc'[q] = proc[q]
    BY <2>1, EndStep
  <2> QED BY <2>1, <2>2, <2>3, KnownQuiet
<1>3. ASSUME NEW p \in Builders, PlanBuild(p) PROVE Known'
  <2>1. /\ ~degraded /\ disk' = disk /\ wrote' = wrote /\ indexed' = indexed
        /\ artifacts' = artifacts /\ proc[p].pc = "opened"
    BY <1>3 DEF PlanBuild, history
  <2>2. PICK prep :
           /\ PrepOk(proc[p].view, proc[p].request, prep)
           /\ proc'[p] = [pc |-> "planned", request |-> proc[p].request, view |-> proc[p].view,
                          outputs |-> prep.outputs, state |-> prep.state,
                          changes |-> BuildChanges(proc[p].view, proc[p].request, prep)]
           /\ \A q \in Builders \ {p} : proc'[q] = proc[q]
           /\ proc[p].view.script # NoScript =>
                /\ prep.state = NoState =>
                     /\ indexed # NoState /\ indexed.outputs = prep.outputs
                     /\ \A o \in DOMAIN prep.outputs : <<o, prep.outputs[o]>> \in artifacts
                /\ prep.state # NoState => prep.recovered = Recovered
    BY <1>3, PlanFacts
  <2>3. /\ proc'[p].pc = "planned" /\ proc'[p].view = proc[p].view
        /\ proc'[p].outputs = prep.outputs /\ proc'[p].state = prep.state
        /\ proc'[p].changes = BuildChanges(proc[p].view, proc[p].request, prep)
    BY <2>2
  <2>4. \A q \in Builders \ {p} : proc[q].pc = "idle" /\ proc'[q].pc = "idle"
    BY <1>0, <2>1, <2>2
  <2>5. \A q \in Builders : ~Pending(proc[q]) /\ ~Pending(proc'[q])
    BY <2>1, <2>3, <2>4 DEF Pending
  <2>6. \A o \in Outs : wrote[o] = "script" => HasRecord(indexed, artifacts, o, disk.out[o])
    BY <2>1, <2>5 DEF Known
  <2>7. \A o \in Outs : wrote[o] = "script" => disk.out[o] = proc[p].view.disk.out[o]
    BY <2>1 DEF Known, Building
  <2>8. ASSUME proc[p].view.script # NoScript, NEW o \in Outs, wrote[o] = "script",
               o \notin DOMAIN prep.outputs
        PROVE  To(proc'[p].changes, "out", o) # {}
    <3> DEFINE v == proc[p].view
               rq == proc[p].request
    <3>1. HasRecord(indexed, artifacts, o, disk.out[o])
      BY <2>6, <2>8
    <3>2. prep.state # NoState
      BY <2>2, <2>8, <3>1 DEF HasRecord
    <3>3. o \in DOMAIN prep.recovered /\ prep.recovered[o] = disk.out[o]
      BY <2>2, <2>8, <3>1, <3>2, RecoveredFacts DEF HasRecord
    <3>4. v.disk.out[o] = prep.recovered[o]
      BY <2>7, <2>8, <3>3
    <3>5. o \in Removable(v, prep) \cup Texts(v, prep)
      BY <2>8, <3>3, <3>4 DEF Removable
    <3>6. v \in View /\ rq \in Requests
      BY <2>1 DEF Types, ProcOk
    <3> HIDE DEF v, rq
    <3>7. Ready(v, prep)
      BY <2>2, <3>6, PrepReady DEF v, rq
    <3>8. To(BuildChanges(v, rq, prep), "out", o) # {}
      BY <3>5, <3>7, OutAfter
    <3> QED BY <2>3, <3>8 DEF v, rq
  <2>9. Replayed(proc'[p]) =>
          /\ indexed # NoState /\ indexed.outputs = proc'[p].outputs
          /\ \A o \in DOMAIN proc'[p].outputs : <<o, proc'[p].outputs[o]>> \in artifacts
    BY <2>2, <2>3 DEF Replayed
  <2>10. \A q \in Builders : /\ Building(proc'[q]) \/ Replayed(proc'[q]) => q = p
                             /\ proc'[q].pc = "planned" => q = p
    BY <2>4 DEF Building, Replayed
  <2> QED BY <2>1, <2>3, <2>5, <2>6, <2>7, <2>8, <2>9, <2>10 DEF Known
<1>4. ASSUME NEW p \in Builders, Commit(p) PROVE Known'
  <2>1. /\ ~degraded /\ indexed' = indexed /\ artifacts' = artifacts /\ proc[p].pc = "planned"
    BY <1>4 DEF Commit
  <2>2. PlanOk(proc[p]) /\ proc[p].view \in View /\ proc[p].request \in Requests
    BY <2>1 DEF Types, ProcOk
  <2>3. /\ proc'[p].pc = "committed" /\ proc'[p].view = proc[p].view
        /\ proc'[p].outputs = proc[p].outputs /\ proc'[p].state = proc[p].state
        /\ \A q \in Builders \ {p} : proc'[q] = proc[q]
    BY <1>4, <2>2, CommitStep DEF Commit, Types
  <2>4. \A q \in Builders \ {p} : proc[q].pc = "idle" /\ proc'[q].pc = "idle"
    BY <1>0, <2>1, <2>3
  <2>5. \A q \in Builders : /\ ~Building(proc'[q]) /\ proc'[q].pc # "planned"
                            /\ Pending(proc'[q]) \/ Replayed(proc'[q]) => q = p
    BY <2>3, <2>4 DEF Building, Pending, Replayed
  <2>6. Replayed(proc'[p]) =>
          /\ indexed # NoState /\ indexed.outputs = proc[p].outputs
          /\ \A o \in DOMAIN proc[p].outputs : <<o, proc[p].outputs[o]>> \in artifacts
    <3>1. Replayed(proc'[p]) => Replayed(proc[p])
      BY <2>1, <2>3 DEF Replayed
    <3> QED BY <2>1, <3>1 DEF Known
  <2>7. ASSUME Pending(proc'[p]), NEW o \in Outs, wrote'[o] = "script"
        PROVE  o \in DOMAIN proc'[p].state.outputs /\ disk'.out[o] = proc'[p].state.outputs[o]
    <3>1. proc[p].state # NoState
      BY <2>3, <2>7 DEF Pending
    <3>2. proc[p].view.script # NoScript /\ proc[p].state.outputs = proc[p].outputs
      BY <2>2, <3>1 DEF PlanOk
    <3> QED BY <1>4, <2>1, <2>3, <2>7, <3>2, CommitKnown
  <2>8. ASSUME ~Pending(proc'[p]), NEW o \in Outs, wrote'[o] = "script"
        PROVE  HasRecord(indexed, artifacts, o, disk'.out[o])
    <3>1. proc[p].state = NoState
      BY <2>3, <2>8 DEF Pending
    <3>2. CASE proc[p].view.script # NoScript
      <4>1. Replayed(proc'[p])
        BY <2>3, <3>1, <3>2 DEF Replayed
      <4>2. o \in DOMAIN proc[p].outputs /\ disk'.out[o] = proc[p].outputs[o]
        BY <1>4, <2>1, <2>8, <3>2, CommitKnown
      <4> QED BY <2>6, <4>1, <4>2 DEF HasRecord
    <3>3. CASE proc[p].view.script = NoScript
      <4>1. PICK prep :
              /\ PrepOk(proc[p].view, proc[p].request, prep)
              /\ o \notin Touched(proc[p].view, prep) =>
                   disk'.out[o] = disk.out[o] /\ wrote'[o] = wrote[o]
        BY <1>4, CommitFacts
      <4>2. prep.does = Nothing /\ DOMAIN prep.recovered = {}
        BY <3>3, <4>1 DEF PrepOk, WantedOf
      <4>3. DOMAIN prep.outputs = {} /\ prep.does.texts = {}
        BY <2>2, <4>1, <4>2, PrepReady DEF Nothing
      <4>4. o \notin Touched(proc[p].view, prep)
        BY <4>2, <4>3 DEF Touched, Writable, Removable, Texts
      <4>5. \A q \in Builders : ~Pending(proc[q])
        BY <2>1, <2>4 DEF Pending
      <4> QED BY <2>1, <2>8, <4>1, <4>4, <4>5 DEF Known
    <3> QED BY <3>2, <3>3
  <2> QED BY <2>1, <2>3, <2>5, <2>6, <2>7, <2>8 DEF Known
<1>5. ASSUME NEW p \in Builders, Persist(p) PROVE Known'
  <2> DEFINE s == proc[p].state
  <2>1. /\ End(p) /\ ~degraded /\ disk' = disk /\ wrote' = wrote /\ proc[p].pc = "committed"
        /\ indexed' = (IF s = NoState THEN indexed ELSE s)
        /\ artifacts' = artifacts \cup (IF s = NoState THEN {}
                                        ELSE {<<o, s.outputs[o]>> : o \in DOMAIN s.outputs})
    BY <1>5 DEF Persist, history
  <2>2. \A q \in Builders \ {p} : proc[q].pc = "idle"
    BY <1>0, <2>1
  <2>3. \A q \in Builders : proc'[q].pc = "idle"
    BY <2>1, <2>2, EndStep
  <2> HIDE DEF s
  <2>4. ASSUME NEW o \in Outs, wrote[o] = "script"
        PROVE  HasRecord(indexed', artifacts', o, disk.out[o])
    <3>1. CASE s = NoState
      <4>1. \A q \in Builders : ~Pending(proc[q])
        BY <2>2, <3>1 DEF Pending, s
      <4>2. HasRecord(indexed, artifacts, o, disk.out[o])
        BY <2>1, <2>4, <4>1 DEF Known
      <4> QED BY <2>1, <3>1, <4>2
    <3>2. CASE s # NoState
      <4>1. Pending(proc[p])
        BY <2>1, <3>2 DEF Pending, s
      <4>2. o \in DOMAIN s.outputs /\ disk.out[o] = s.outputs[o]
        BY <2>1, <2>4, <4>1 DEF Known, s
      <4>3. indexed' = s /\ <<o, s.outputs[o]>> \in artifacts'
        BY <2>1, <3>2, <4>2
      <4> QED BY <3>2, <4>2, <4>3 DEF HasRecord
    <3> QED BY <3>1, <3>2
  <2>5. \A q \in Builders : ~Building(proc'[q]) /\ ~Pending(proc'[q]) /\ ~Replayed(proc'[q])
                            /\ proc'[q].pc # "planned"
    BY <2>3 DEF Building, Pending, Replayed
  <2> QED BY <2>1, <2>4, <2>5 DEF Known
<1>6. ASSUME NEW p \in Builders, BeginClean(p) PROVE Known'
  <2>1. /\ ~degraded /\ disk' = disk /\ wrote' = wrote /\ indexed' = indexed
        /\ artifacts' = artifacts /\ proc[p].pc = "idle"
    BY <1>6 DEF BeginClean
  <2>2. proc'[p].pc = "clean" /\ \A q \in Builders \ {p} : proc'[q] = proc[q]
    BY <1>6 DEF BeginClean, Types
  <2>3. ~Pending(proc[p])
    BY <2>1 DEF Pending
  <2> QED BY <2>1, <2>2, <2>3, KnownQuiet
<1>7. ASSUME NEW p \in Builders, NEW r \in Roots, CleanRoot(p, r) PROVE Known'
  <2>1. /\ ~degraded /\ wrote' = wrote /\ indexed' = indexed /\ artifacts' = artifacts
        /\ proc[p].pc = "clean" /\ disk'.out = disk.out
    BY <1>7 DEF CleanRoot, Types, Files
  <2>2. DOMAIN proc[p] = {"pc", "todo"}
    BY <2>1 DEF Types, ProcOk
  <2>3. /\ proc'[p] = [proc[p] EXCEPT !.todo = proc[p].todo \ {r}]
        /\ \A q \in Builders \ {p} : proc'[q] = proc[q]
    BY <1>7 DEF CleanRoot, Types
  <2>4. proc'[p].pc = "clean" /\ ~Pending(proc[p])
    BY <2>1, <2>2, <2>3 DEF Pending
  <2> QED BY <2>1, <2>3, <2>4, KnownQuiet
<1>8. ASSUME NEW p \in Builders, CleanBuildDir(p) \/ CleanStops(p) PROVE Known'
  <2>1. /\ End(p) /\ ~degraded /\ indexed' = indexed /\ artifacts' = artifacts
        /\ proc[p].pc = "clean"
    BY <1>8 DEF CleanBuildDir, CleanStops
  <2>2. proc'[p].pc = "idle" /\ \A q \in Builders \ {p} : proc'[q] = proc[q]
    BY <2>1, EndStep
  <2>3. ~Pending(proc[p])
    BY <2>1 DEF Pending
  <2>4. ASSUME NEW o \in Outs, wrote'[o] = "script"
        PROVE  wrote[o] = "script" /\ disk'.out[o] = disk.out[o]
    <3>1. CASE CleanBuildDir(p)
      BY <2>4, <3>1 DEF CleanBuildDir
    <3>2. CASE CleanStops(p)
      <4>1. disk'.out[o] # "none" /\ wrote[o] = "script"
        BY <2>4, <3>2 DEF CleanStops
      <4>2. disk'.out[o] = disk.out[o] \/ disk'.out[o] = "none"
        BY <3>2 DEF CleanStops, Types, Files
      <4> QED BY <4>1, <4>2
    <3> QED BY <1>8, <3>1, <3>2
  <2> QED BY <2>1, <2>2, <2>3, <2>4, KnownQuiet
<1>9. CASE EditProject
  <2>1. /\ ~degraded /\ disk' = disk /\ wrote' = wrote /\ indexed' = indexed
        /\ artifacts' = artifacts /\ proc' = proc
    BY <1>9 DEF EditProject, Edit
  <2> QED BY <2>1, KnownQuiet
<1>10. ASSUME NEW o \in Outs, NEW bytes \in {"none", "user"}, EditOutput(o, bytes) PROVE Known'
  <2>1. /\ ~degraded /\ indexed' = indexed /\ artifacts' = artifacts /\ proc' = proc
    BY <1>10 DEF EditOutput, Edit
  <2>2. /\ wrote'[o] # "script"
        /\ \A q \in Outs \ {o} : wrote'[q] = wrote[q] /\ disk'.out[q] = disk.out[q]
    BY <1>10 DEF EditOutput, Types, Files
  <2> QED BY <2>1, <2>2, KnownQuiet
<1>11. ASSUME NEW r \in Roots, NEW bytes \in {"none", "user"}, EditTree(r, bytes) PROVE Known'
  <2>1. /\ ~degraded /\ indexed' = indexed /\ artifacts' = artifacts /\ proc' = proc
        /\ wrote' = wrote /\ disk'.out = disk.out
    BY <1>11 DEF EditTree, Edit, Types, Files
  <2> QED BY <2>1, KnownQuiet
<1>12. ASSUME LoseCache \/ (\E p \in Builders : NotPersisted(p))
              \/ (\E p \in Builders : \E n : CrashInCommit(p, n))
       PROVE  Known'
  BY <1>12 DEF LoseCache, NotPersisted, CrashInCommit
<1> QED BY <1>1, <1>2, <1>3, <1>4, <1>5, <1>6, <1>7, <1>8, <1>9, <1>10, <1>11, <1>12 DEF Next

-----------------------------------------------------------------------------
(* What the last build left. *)

(* A request in a project is not the absence of one.                       *)
LEMMA AskedIsSettled == ASSUME NEW p, NEW d PROVE Asked(p, d) # NotSettled
<1>1. DOMAIN NotSettled = {"features"}
  BY DEF NotSettled
<1>2. "disk" \in DOMAIN Asked(p, d)
  BY DEF Asked
<1> QED BY <1>1, <1>2

(* A step that plans, commits and records nothing.                         *)
LEMMA SettledQuiet ==
    ASSUME Settled, ~degraded, indexed' = indexed, settled' = settled,
           \A q \in Builders :
             \/ proc'[q] = proc[q]
             \/ proc'[q].pc \in {"idle", "clean", "opened"} /\ ~Pending(proc[q])
    PROVE  Settled'
<1> SUFFICES ASSUME settled # NotSettled PROVE Settled'
  BY DEF Settled
<1> DEFINE w == WantedOf(settled.script, settled.features)
<1>1. /\ \A o \in w.writes \cup w.texts : settled.disk.out[o] = settled.input
      /\ settled.apply => /\ settled.disk.owned = Owners(settled, w)
                          /\ Matches(settled.disk, Owners(settled, w))
  BY DEF Settled
<1> HIDE DEF w
<1>2. ASSUME NEW q \in Builders, settled.script # NoScript, Pending(proc'[q])
      PROVE  DOMAIN proc'[q].state.outputs = w.writes
  <2>1. proc'[q] = proc[q]
    BY <1>2 DEF Pending
  <2> QED BY <1>2, <2>1 DEF Settled, w
<1>3. ASSUME \A q \in Builders : ~Pending(proc'[q]), settled.script # NoScript
      PROVE  indexed # NoState /\ DOMAIN indexed.outputs = w.writes
  <2>1. \A q \in Builders : ~Pending(proc[q])
    BY <1>3
  <2> QED BY <1>3, <2>1 DEF Settled, w
<1>4. ASSUME NEW q \in Builders, proc'[q].pc = "planned",
             settled = Asked(q, proc[q].view.disk)'
      PROVE  proc'[q].changes = <<>>
  <2>1. proc'[q] = proc[q]
    BY <1>4
  <2>2. settled = Asked(q, proc[q].view.disk)
    BY <1>4, <2>1 DEF Asked
  <2> QED BY <1>4, <2>1, <2>2 DEF Settled
<1> QED BY <1>1, <1>2, <1>3, <1>4 DEF Settled, w

(* A build of what the last build left has nothing to change.              *)
LEMMA SettledPlan ==
    ASSUME Types, Alone, Settled, ~degraded, NEW p \in Builders, PlanBuild(p)
    PROVE  Settled'
<1> DEFINE v == proc[p].view
           rq == proc[p].request
<1>1. /\ ~degraded /\ indexed' = indexed /\ settled' = settled /\ proc[p].pc = "opened"
  BY DEF PlanBuild, history
<1>2. PICK prep :
        /\ PrepOk(v, rq, prep)
        /\ proc'[p] = [pc |-> "planned", request |-> rq, view |-> v,
                       outputs |-> prep.outputs, state |-> prep.state,
                       changes |-> BuildChanges(v, rq, prep)]
        /\ \A q \in Builders \ {p} : proc'[q] = proc[q]
        /\ v.script # NoScript => DOMAIN prep.recovered = {} \/ prep.recovered = Recovered
  BY PlanFacts
<1>3. v \in View /\ rq \in Requests
  BY <1>1 DEF Types, ProcOk
<1> HIDE DEF v, rq
<1>4. /\ proc'[p].pc = "planned" /\ proc'[p].view = v /\ proc'[p].request = rq
      /\ proc'[p].changes = BuildChanges(v, rq, prep)
  BY <1>2
<1>5. \A q \in Builders \ {p} : proc[q].pc = "idle" /\ proc'[q].pc = "idle"
  BY <1>1, <1>2 DEF Alone
<1>6. \A q \in Builders : /\ ~Pending(proc[q]) /\ ~Pending(proc'[q])
                          /\ proc'[q].pc = "planned" => q = p
  BY <1>1, <1>4, <1>5 DEF Pending
<1> SUFFICES ASSUME settled # NotSettled PROVE Settled'
  BY <1>1 DEF Settled
<1> DEFINE w == WantedOf(settled.script, settled.features)
<1>7. /\ \A o \in w.writes \cup w.texts : settled.disk.out[o] = settled.input
      /\ settled.apply => /\ settled.disk.owned = Owners(settled, w)
                          /\ Matches(settled.disk, Owners(settled, w))
      /\ settled.script # NoScript => indexed # NoState /\ DOMAIN indexed.outputs = w.writes
  BY <1>6 DEF Settled
<1>8. ASSUME settled = Asked(p, proc[p].view.disk)'
      PROVE  proc'[p].changes = <<>>
  <2>1. /\ settled.features = rq.features /\ settled.apply = rq.apply
        /\ settled.script = v.script /\ settled.input = v.input /\ settled.disk = v.disk
    BY <1>4, <1>8 DEF Asked
  <2>2. prep.does = w
    BY <1>2, <2>1 DEF PrepOk
  <2> HIDE DEF w
  <2>3. /\ DOMAIN prep.outputs = w.writes
        /\ \A o \in w.writes : prep.outputs[o] = v.input
    BY <1>2, <1>3, <2>2, PrepReady
  <2>4. DOMAIN prep.recovered \subseteq w.writes
    <3>1. CASE v.script = NoScript
      BY <1>2, <3>1 DEF PrepOk
    <3>2. CASE v.script # NoScript
      BY <1>2, <1>7, <2>1, <3>2, RecoveredFacts
    <3> QED BY <3>1, <3>2
  <2>5. Writable(v, prep) = {} /\ Texts(v, prep) = {} /\ Removable(v, prep) = {}
    BY <1>7, <2>1, <2>2, <2>3, <2>4 DEF Writable, Texts, Removable
  <2>6. ~Publishes(v, rq, prep.does)
    <3>1. Owners(settled, w) = Owners(v, w)
      BY <2>1 DEF Owners
    <3> QED BY <1>7, <2>1, <2>2, <3>1 DEF Publishes
  <2>7. BuildChanges(v, rq, prep) = <<>>
    BY <1>2, <1>3, <2>5, <2>6, TouchedFiles
  <2> QED BY <1>4, <2>7
<1> HIDE DEF w
<1> QED BY <1>1, <1>6, <1>7, <1>8 DEF Settled, w

(* What a commit leaves is what it was asked for.                          *)
LEMMA SettledCommit ==
    ASSUME Types, Alone, Known, ~degraded, NEW p \in Builders, Commit(p)
    PROVE  Settled'
<1> DEFINE v == proc[p].view
           rq == proc[p].request
<1>1. /\ indexed' = indexed /\ proc[p].pc = "planned"
      /\ settled' = (IF disk = v.disk THEN Asked(p, disk') ELSE NotSettled)
  BY DEF Commit
<1> SUFFICES ASSUME disk = v.disk PROVE Settled'
  BY <1>1 DEF Settled
<1>2. PlanOk(proc[p])
  BY <1>1 DEF Types, ProcOk
<1>3. /\ proc'[p].pc = "committed" /\ proc'[p].state = proc[p].state
      /\ \A q \in Builders \ {p} : proc'[q] = proc[q]
  BY <1>2, CommitStep DEF Commit, Types
<1>4. \A q \in Builders \ {p} : proc'[q].pc = "idle"
  BY <1>1, <1>3 DEF Alone
<1>5. \A q \in Builders : proc'[q].pc # "planned" /\ (Pending(proc'[q]) => q = p)
  BY <1>3, <1>4 DEF Pending
<1>6. PICK prep :
        /\ PrepOk(v, rq, prep) /\ prep.outputs = proc[p].outputs
        /\ prep.does = Wanted(p) /\ prep.does = WantedOf(v.script, rq.features)
        /\ v \in View /\ rq \in Requests
        /\ Publishes(v, rq, prep.does) =>
             /\ disk'.owned = Owners(v, prep.does)
             /\ \A r \in Roots :
                  disk'.tree[r] = IF r \in prep.does.trees THEN v.input
                                  ELSE IF r \in Replaced(v, prep.does) THEN "none"
                                  ELSE disk.tree[r]
        /\ ~Publishes(v, rq, prep.does) =>
             /\ disk'.owned = disk.owned
             /\ \A r \in Roots : disk'.tree[r] = disk.tree[r]
  BY CommitFacts
<1> DEFINE w == prep.does
<1>7. /\ settled'.features = rq.features /\ settled'.apply = rq.apply
      /\ settled'.script = v.script /\ settled'.input = v.input /\ settled'.disk = disk'
  BY <1>1 DEF Asked
<1>8. \A o \in w.writes \cup w.texts : disk'.out[o] = v.input
  BY <1>6, CommitLikeNew
<1> HIDE DEF v, rq
<1>9. DOMAIN prep.outputs = w.writes /\ w.trees \subseteq Roots
  BY <1>6, PrepReady DEF Work
<1>10. ASSUME rq.apply
       PROVE  disk'.owned = Owners(v, w) /\ Matches(disk', Owners(v, w))
  <2>1. CASE Publishes(v, rq, w)
    <3>1. \A x \in Owners(v, w) : x.root \in w.trees /\ x.tree = v.input
      BY DEF Owners
    <3> QED BY <1>6, <1>9, <2>1, <3>1 DEF Matches
  <2>2. CASE ~Publishes(v, rq, w)
    <3>1. disk.owned = Owners(v, w) /\ Matches(disk, Owners(v, w))
      BY <1>10, <2>2 DEF Publishes
    <3>2. \A x \in Owners(v, w) : x.root \in Roots
      BY <1>9 DEF Owners
    <3> QED BY <1>6, <2>2, <3>1, <3>2 DEF Matches
  <2> QED BY <2>1, <2>2
<1>11. Owners(settled', w) = Owners(v, w)
  BY <1>7 DEF Owners
<1>12. Pending(proc'[p]) => DOMAIN proc'[p].state.outputs = w.writes
  BY <1>2, <1>3, <1>6, <1>9 DEF Pending, PlanOk
<1>13. ASSUME v.script # NoScript, ~Pending(proc'[p])
       PROVE  indexed # NoState /\ DOMAIN indexed.outputs = w.writes
  <2>1. Replayed(proc[p])
    BY <1>1, <1>3, <1>13 DEF Replayed, Pending, v
  <2>2. indexed # NoState /\ indexed.outputs = proc[p].outputs
    BY <2>1 DEF Known
  <2> QED BY <1>6, <1>9, <2>2
<1>14. WantedOf(settled'.script, settled'.features) = w
  BY <1>6, <1>7
<1> HIDE DEF w
<1> QED BY <1>1, <1>5, <1>7, <1>8, <1>10, <1>11, <1>12, <1>13, <1>14 DEF Settled

(* Every step keeps what the last build left as it was asked for.          *)
LEMMA SettledNext == ASSUME Types, Alone, Known, Settled, Next PROVE Settled'
<1> SUFFICES ASSUME ~degraded' PROVE Settled'
  BY DEF Settled
<1>1. ASSUME NEW p \in Builders, ~degraded, indexed' = indexed, settled' = settled,
             proc[p].pc # "committed", proc'[p].pc \in {"idle", "clean", "opened"},
             \A q \in Builders \ {p} : proc'[q] = proc[q]
      PROVE  Settled'
  <2>1. ~Pending(proc[p])
    BY <1>1 DEF Pending
  <2> QED BY <1>1, <2>1, SettledQuiet
<1>2. ASSUME NEW p \in Builders, NEW request \in Requests, Begin(p, request) PROVE Settled'
  BY <1>1, <1>2 DEF Begin, Types
<1>3. ASSUME NEW p \in Builders, Refuse(p) \/ CleanBuildDir(p) \/ CleanStops(p) PROVE Settled'
  <2>1. /\ End(p) /\ ~degraded /\ indexed' = indexed /\ settled' = settled
        /\ proc[p].pc # "committed"
    BY <1>3 DEF Refuse, CleanBuildDir, CleanStops, history
  <2> QED BY <1>1, <2>1, EndStep
<1>4. ASSUME NEW p \in Builders, PlanBuild(p) PROVE Settled'
  BY <1>4, SettledPlan DEF PlanBuild, history
<1>5. ASSUME NEW p \in Builders, Commit(p) PROVE Settled'
  BY <1>5, SettledCommit DEF Commit
<1>6. ASSUME NEW p \in Builders, Persist(p) PROVE Settled'
  <2> DEFINE s == proc[p].state
             w == WantedOf(settled.script, settled.features)
  <2>1. /\ End(p) /\ ~degraded /\ settled' = settled /\ proc[p].pc = "committed"
        /\ indexed' = (IF s = NoState THEN indexed ELSE s)
    BY <1>6 DEF Persist, history
  <2>2. \A q \in Builders \ {p} : proc[q].pc = "idle"
    BY <2>1 DEF Alone
  <2>3. \A q \in Builders : proc'[q].pc = "idle"
    BY <2>1, <2>2, EndStep
  <2> SUFFICES ASSUME settled # NotSettled PROVE Settled'
    BY <2>1 DEF Settled
  <2>4. /\ \A o \in w.writes \cup w.texts : settled.disk.out[o] = settled.input
        /\ settled.apply => /\ settled.disk.owned = Owners(settled, w)
                            /\ Matches(settled.disk, Owners(settled, w))
    BY <2>1 DEF Settled
  <2> HIDE DEF w, s
  <2>5. ASSUME settled.script # NoScript
        PROVE  indexed' # NoState /\ DOMAIN indexed'.outputs = w.writes
    <3>1. CASE s = NoState
      <4>1. \A q \in Builders : ~Pending(proc[q])
        BY <2>2, <3>1 DEF Pending, s
      <4> QED BY <2>1, <2>5, <3>1, <4>1 DEF Settled, w
    <3>2. CASE s # NoState
      <4>1. Pending(proc[p])
        BY <2>1, <3>2 DEF Pending, s
      <4>2. DOMAIN s.outputs = w.writes
        BY <2>1, <2>5, <4>1 DEF Settled, w, s
      <4> QED BY <2>1, <3>2, <4>2
    <3> QED BY <3>1, <3>2
  <2>6. \A q \in Builders : ~Pending(proc'[q]) /\ proc'[q].pc # "planned"
    BY <2>3 DEF Pending
  <2> QED BY <2>1, <2>4, <2>5, <2>6 DEF Settled, w
<1>7. ASSUME NEW p \in Builders, BeginClean(p) PROVE Settled'
  BY <1>1, <1>7 DEF BeginClean, Types
<1>8. ASSUME NEW p \in Builders, NEW r \in Roots, CleanRoot(p, r) PROVE Settled'
  <2>1. /\ ~degraded /\ indexed' = indexed /\ settled' = settled /\ proc[p].pc = "clean"
    BY <1>8 DEF CleanRoot
  <2>2. DOMAIN proc[p] = {"pc", "todo"}
    BY <2>1 DEF Types, ProcOk
  <2>3. /\ proc'[p] = [proc[p] EXCEPT !.todo = proc[p].todo \ {r}]
        /\ \A q \in Builders \ {p} : proc'[q] = proc[q]
    BY <1>8 DEF CleanRoot, Types
  <2>4. proc'[p].pc = "clean"
    BY <2>1, <2>2, <2>3
  <2> QED BY <1>1, <2>1, <2>3, <2>4
<1>9. ASSUME EditProject \/ (\E o \in Outs, bytes \in {"none", "user"} : EditOutput(o, bytes))
             \/ (\E r \in Roots, bytes \in {"none", "user"} : EditTree(r, bytes))
      PROVE  Settled'
  <2>1. ~degraded /\ indexed' = indexed /\ settled' = settled /\ proc' = proc
    BY <1>9 DEF EditProject, EditOutput, EditTree, Edit
  <2> QED BY <2>1, SettledQuiet
<1>10. ASSUME LoseCache \/ (\E p \in Builders : NotPersisted(p))
              \/ (\E p \in Builders : \E n : CrashInCommit(p, n))
       PROVE  Settled'
  BY <1>10 DEF LoseCache, NotPersisted, CrashInCommit
<1> QED BY <1>2, <1>3, <1>4, <1>5, <1>6, <1>7, <1>8, <1>9, <1>10 DEF Next

-----------------------------------------------------------------------------
(* The theorems. *)

(* The invariant is inductive.                                             *)
LEMMA NextIInv == IInv /\ [Next]_vars => IInv'
<1> SUFFICES ASSUME IInv, [Next]_vars PROVE IInv'
  OBVIOUS
<1>1. CASE Next
  BY <1>1, TypesNext, TreesNext, UsersNext, AloneNext, KnownNext, SettledNext DEF IInv
<1>2. CASE UNCHANGED vars
  <2>1. Types' /\ Trees' /\ Users' /\ Alone' /\ Known'
    BY <1>2 DEF IInv, vars, Types, Trees, Users, Alone, Known
  <2>2. Settled'
    BY <1>2 DEF IInv, vars, Settled, Asked
  <2> QED BY <2>1, <2>2 DEF IInv
<1> QED BY <1>1, <1>2

(* The inductive invariant holds of every behaviour.                       *)
THEOREM Invariance == Spec => []IInv
BY InitIInv, NextIInv, PTL DEF Spec

(* Every variable keeps its type.                                          *)
THEOREM TypeCorrect == Spec => []TypeOK
<1>1. IInv => TypeOK
  BY DEF IInv, Types, TypeOK, Files, Owner, ProcOk
<1> QED BY <1>1, Invariance, PTL

(* A published tree stays on record until it is gone, whoever builds with  *)
(* whichever plans, edits and cleans, unless a commit is cut short.        *)
THEOREM TreesStayRecorded == Spec => []TreesRecorded
<1>1. IInv => TreesRecorded
  BY DEF IInv, Trees, TreesRecorded
<1> QED BY <1>1, Invariance, PTL

(* A committed build leaves what a build from nothing would, replayed or   *)
(* evaluated, whatever crashed, was edited or was lost before.             *)
THEOREM BuildsAlwaysLikeNew == Spec => BuildsLikeNew
<1> DEFINE A == \A p \in Builders : Commits(p) =>
       LET v == proc[p].view
           retired == {w.root : w \in v.disk.owned} \ Wanted(p).trees
       IN /\ \A o \in Wanted(p).writes \cup Wanted(p).texts :
               disk.out[o] = v.disk.out[o] => disk'.out[o] = v.input
          /\ \A r \in Wanted(p).trees \cup retired :
               proc[p].request.apply /\ disk.tree[r] = v.disk.tree[r] =>
                 disk'.tree[r] = IF r \in retired THEN "none" ELSE v.input
<1>1. IInv /\ [Next]_vars => [A]_vars
  <2> SUFFICES ASSUME IInv, Next PROVE A
    OBVIOUS
  <2> SUFFICES ASSUME NEW p \in Builders, Commits(p)
               PROVE  LET v == proc[p].view
                          retired == {w.root : w \in v.disk.owned} \ Wanted(p).trees
                      IN /\ \A o \in Wanted(p).writes \cup Wanted(p).texts :
                              disk.out[o] = v.disk.out[o] => disk'.out[o] = v.input
                         /\ \A r \in Wanted(p).trees \cup retired :
                              proc[p].request.apply /\ disk.tree[r] = v.disk.tree[r] =>
                                disk'.tree[r] = IF r \in retired THEN "none" ELSE v.input
    OBVIOUS
  <2>1. Types /\ Commit(p)
    BY OnlyCommits DEF IInv
  <2> QED BY <2>1, CommitLikeNew
<1> HIDE DEF A
<1>2. Spec => [][A]_vars
  BY <1>1, Invariance, PTL DEF Spec
<1> QED BY <1>2 DEF A, BuildsLikeNew

(* No file that a script generated outlives the build after which the      *)
(* script no longer generates it, as long as every build was recorded.     *)
THEOREM StaleOutputsAlwaysRemoved == Spec => StaleOutputsRemoved
<1> DEFINE A == \A p \in Builders : Commits(p) /\ ~degraded /\ proc[p].view.script # NoScript =>
       \A o \in Outs : wrote'[o] = "script" => o \in Wanted(p).writes
<1>1. IInv /\ [Next]_vars => [A]_vars
  <2> SUFFICES ASSUME IInv, Next, NEW p \in Builders, Commits(p), ~degraded,
                      proc[p].view.script # NoScript, NEW o \in Outs, wrote'[o] = "script"
               PROVE  o \in Wanted(p).writes
    OBVIOUS
  <2>1. Types /\ Known /\ Commit(p)
    BY OnlyCommits DEF IInv
  <2> QED BY <2>1, CommitKnown
<1> HIDE DEF A
<1>2. Spec => [][A]_vars
  BY <1>1, Invariance, PTL DEF Spec
<1> QED BY <1>2 DEF A, StaleOutputsRemoved

(* A build removes no output file that the user wrote, also when the user  *)
(* saves it while the build runs.                                          *)
THEOREM ForeignOutputsAlwaysKept == Spec => ForeignOutputsKept
<1> DEFINE A == \A p \in Builders : Commits(p) =>
       \A o \in Outs : wrote[o] = "user" => disk'.out[o] # "none"
<1>1. IInv /\ [Next]_vars => [A]_vars
  <2> SUFFICES ASSUME IInv, Next, NEW p \in Builders, Commits(p), NEW o \in Outs,
                      wrote[o] = "user"
               PROVE  disk'.out[o] # "none"
    OBVIOUS
  <2> DEFINE v == proc[p].view
             rq == proc[p].request
  <2>1. Types /\ Users /\ Commit(p)
    BY OnlyCommits DEF IInv
  <2>2. PICK prep :
          /\ PrepOk(v, rq, prep) /\ v \in View /\ rq \in Requests
          /\ o \in Writable(v, prep) => disk'.out[o] = v.input
          /\ o \in Texts(v, prep) => disk'.out[o] = v.input
          /\ o \notin Touched(v, prep) => disk'.out[o] = disk.out[o]
          /\ o \in Touched(v, prep) => disk.out[o] = v.disk.out[o]
    BY <2>1, CommitFacts
  <2> HIDE DEF v, rq
  <2>3. disk.out[o] = "user"
    BY <2>1 DEF Users
  <2>4. v.input # "none"
    BY <2>2, PrepReady
  <2>5. o \notin Removable(v, prep)
    <3> SUFFICES ASSUME o \in Removable(v, prep) PROVE FALSE
      OBVIOUS
    <3>1. o \in DOMAIN prep.recovered /\ prep.recovered[o] = "user"
      BY <2>2, <2>3 DEF Touched, Removable
    <3> QED BY <2>2, <3>1, BuildOutputsAssumption DEF PrepOk
  <2> QED BY <2>2, <2>3, <2>4, <2>5 DEF Touched
<1> HIDE DEF A
<1>2. Spec => [][A]_vars
  BY <1>1, Invariance, PTL DEF Spec
<1> QED BY <1>2 DEF A, ForeignOutputsKept

(* The next build of an untouched project writes nothing, so a watcher of  *)
(* generated files does not build for ever.                                *)
THEOREM SecondBuildsWriteNothing == Spec => SecondBuildWritesNothing
<1> DEFINE A == \A p \in Builders :
       Commits(p) /\ ~degraded /\ settled = Asked(p, proc[p].view.disk) =>
         proc[p].changes = <<>>
<1>1. IInv /\ [Next]_vars => [A]_vars
  <2> SUFFICES ASSUME IInv, NEW p \in Builders, Commits(p), ~degraded,
                      settled = Asked(p, proc[p].view.disk)
               PROVE  proc[p].changes = <<>>
    OBVIOUS
  <2>1. settled # NotSettled
    BY AskedIsSettled
  <2> QED BY <2>1 DEF IInv, Settled, Commits
<1> HIDE DEF A
<1>2. Spec => [][A]_vars
  BY <1>1, Invariance, PTL DEF Spec
<1> QED BY <1>2 DEF A, SecondBuildWritesNothing

=============================================================================
