---------------------------- MODULE ArchiveProofs ---------------------------
(***************************************************************************)
(* What Archive promises, for trees of every shape, archives of any        *)
(* content and any number of imports: what the index of the importing      *)
(* storage names is there, a whole export can be imported, and an import   *)
(* that ends with an error registers nothing.                              *)
(*                                                                         *)
(* Both walks keep the same kind of promise: a set of blobs that is closed *)
(* (each directory with what it names) has everything that was dealt with, *)
(* but for the directories on the way.                                     *)
(***************************************************************************)
EXTENDS Archive, MerkleProofs, SequenceTheorems

\* A walk through the tree id, with the directories of s on the way, all of them among P:
\* what has been taken from them is in D, or is the next one.
Owed(s, id, D, P) ==
  /\ s \in Seq(ToSet(s))
  /\ \A i \in DOMAIN s :
       /\ s[i] = [dir |-> s[i].dir, rest |-> s[i].rest] /\ s[i].dir \in P /\ IsDirHash(s[i].dir)
       /\ s[i].rest \subseteq DOMAIN Listing(s[i].dir)
       /\ \A n \in DOMAIN Listing(s[i].dir) \ s[i].rest :
            \/ Listing(s[i].dir)[n].hash \in D
            \/ i + 1 \in DOMAIN s /\ Listing(s[i].dir)[n].hash = s[i + 1].dir
  /\ IF s = <<>> THEN id \in D ELSE s[1].dir = id

LEMMA SeqFacts ==
  ASSUME NEW s, s \in Seq(ToSet(s))
  PROVE  /\ Len(s) \in Nat /\ DOMAIN s = 1..Len(s) /\ (s # <<>> => Len(s) # 0)
         /\ \A x : /\ Append(s, x) \in Seq(ToSet(Append(s, x)))
                   /\ DOMAIN Append(s, x) = 1..(Len(s) + 1)
                   /\ \A i \in 1..Len(s) : Append(s, x)[i] = s[i]
                   /\ Append(s, x)[Len(s) + 1] = x
<1>1. Len(s) \in Nat /\ DOMAIN s = 1..Len(s) /\ (s # <<>> => Len(s) # 0)
  OBVIOUS
<1>2. ASSUME NEW x
      PROVE  /\ Append(s, x) \in Seq(ToSet(Append(s, x)))
             /\ DOMAIN Append(s, x) = 1..(Len(s) + 1)
             /\ \A i \in 1..Len(s) : Append(s, x)[i] = s[i]
             /\ Append(s, x)[Len(s) + 1] = x
  <2> DEFINE t == Append(s, x)
  <2>1. s \in Seq(ToSet(s) \union {x}) /\ x \in ToSet(s) \union {x}
    BY <1>1 DEF ToSet
  <2>2. /\ t \in Seq(ToSet(s) \union {x})
        /\ Len(t) = Len(s) + 1
        /\ \A i \in 1..Len(s) : t[i] = s[i]
        /\ t[Len(s) + 1] = x
    BY <2>1, AppendProperties
  <2>3. DOMAIN t = 1..(Len(s) + 1)
    BY <2>2
  <2>4. t \in Seq(ToSet(t))
    BY <2>2, <2>3, <1>1 DEF ToSet
  <2> QED
    BY <2>2, <2>3, <2>4
<1> QED
  BY <1>1, <1>2

LEMMA FunSeq ==
  ASSUME NEW S, NEW n \in Nat, NEW t \in [1..n -> S]
  PROVE  t \in Seq(S)
OBVIOUS

LEMMA SeqChange ==
  ASSUME NEW s, s \in Seq(ToSet(s)), NEW i \in DOMAIN s, NEW x, NEW t, t = [s EXCEPT ![i] = x]
  PROVE  /\ t \in Seq(ToSet(t)) /\ DOMAIN t = DOMAIN s /\ t # <<>>
         /\ \A j \in DOMAIN s : t[j] = IF j = i THEN x ELSE s[j]
<1>1. Len(s) \in Nat /\ DOMAIN s = 1..Len(s)
  OBVIOUS
<1>2. DOMAIN t = 1..Len(s) /\ \A k \in 1..Len(s) : t[k] \in ToSet(t)
  BY <1>1 DEF ToSet
<1>3. t \in [1..Len(s) -> ToSet(t)]
  <2>1. t = [k \in 1..Len(s) |-> t[k]]
    BY <1>1
  <2> QED
    BY <1>2, <2>1
<1>4. t \in Seq(ToSet(t)) /\ t # <<>>
  <2>1. t \in Seq(ToSet(t))
    BY <1>1, <1>3, FunSeq
  <2>2. i \in DOMAIN t
    BY <1>1, <1>2
  <2> QED
    BY <2>1, <2>2
<1>5. \A j \in DOMAIN s : t[j] = IF j = i THEN x ELSE s[j]
  OBVIOUS
<1> QED
  BY <1>1, <1>2, <1>4, <1>5

\* What is on the way, and what is done, may become more.
LEMMA OwedMore ==
  ASSUME NEW s, NEW id, NEW D, NEW P, Owed(s, id, D, P),
         NEW D2, NEW P2, D \subseteq D2, P \subseteq P2
  PROVE  Owed(s, id, D2, P2)
BY DEF Owed

\* The walk begins with its root.
LEMMA OwedFirst ==
  ASSUME NEW id, NEW D, NEW P, id \in P, IsDirHash(id)
  PROVE  Owed(Append(<<>>, Frame(id)), id, D, P)
<1>1. PICK f, s : f = Frame(id) /\ s = Append(<<>>, f)
  OBVIOUS
<1>2. s = <<f>>
  BY <1>1
<1>3. DOMAIN s = {1} /\ s[1] = f /\ s \in Seq({f}) /\ s # <<>>
  BY <1>2
<1>4. ToSet(s) = {f}
  BY <1>3 DEF ToSet
<1>5. f = [dir |-> id, rest |-> DOMAIN Listing(id)]
  BY <1>1 DEF Frame
<1> QED
  BY <1>1, <1>3, <1>4, <1>5 DEF Owed

\* The top of the stack.
LEMMA OwedTop ==
  ASSUME NEW s, NEW id, NEW D, NEW P, Owed(s, id, D, P), s # <<>>
  PROVE  /\ Len(s) \in Nat \ {0} /\ DOMAIN s = 1..Len(s) /\ Len(s) \in DOMAIN s
         /\ Top(s).dir \in P /\ IsDirHash(Top(s).dir) /\ Top(s).rest \subseteq DOMAIN Listing(Top(s).dir)
         /\ \A n \in Top(s).rest : EntryOf(s, n).hash \in Children(Top(s).dir)
<1>1. Len(s) \in Nat \ {0} /\ DOMAIN s = 1..Len(s)
  BY SeqFacts DEF Owed
<1>2. Len(s) \in DOMAIN s
  BY <1>1
<1>3. /\ Top(s).dir \in P /\ IsDirHash(Top(s).dir)
      /\ Top(s).rest \subseteq DOMAIN Listing(Top(s).dir)
  BY <1>2 DEF Owed, Top
<1> QED
  BY <1>1, <1>2, <1>3 DEF EntryOf, Children

\* An entry is taken: what it names is dealt with at once ...
LEMMA OwedFile ==
  ASSUME NEW s, NEW id, NEW D, NEW P, Owed(s, id, D, P), s # <<>>, NEW n \in Top(s).rest,
         EntryOf(s, n).hash \in D
  PROVE  Owed(Taken(s, n), id, D, P) /\ Taken(s, n) # <<>>
<1>1. PICK k, o, f, t : /\ k = Len(s) /\ o = s[k] /\ f = [o EXCEPT !.rest = @ \ {n}]
                        /\ t = [s EXCEPT ![k] = f]
  OBVIOUS
<1>2. t = Taken(s, n)
  BY <1>1 DEF Taken
<1>3. k \in DOMAIN s /\ o = [dir |-> o.dir, rest |-> o.rest]
  BY <1>1, OwedTop DEF Owed
<1>4. f = [dir |-> o.dir, rest |-> o.rest \ {n}] /\ f.dir = o.dir /\ f.rest = o.rest \ {n}
  BY <1>1, <1>3
<1>5. /\ t \in Seq(ToSet(t)) /\ DOMAIN t = DOMAIN s /\ t # <<>>
      /\ \A j \in DOMAIN s : t[j] = IF j = k THEN f ELSE s[j]
  <2>1. s \in Seq(ToSet(s))
    BY DEF Owed
  <2>2. t = [s EXCEPT ![k] = f] /\ k \in DOMAIN s
    BY <1>1, <1>3
  <2> QED
    BY <2>1, <2>2, SeqChange
<1>6. \A j \in DOMAIN s : t[j].dir = s[j].dir
  BY <1>1, <1>4, <1>5
<1>7. Listing(o.dir)[n].hash \in D
  BY <1>1 DEF EntryOf, Top
<1>8. ASSUME NEW i \in DOMAIN t
      PROVE  /\ t[i] = [dir |-> t[i].dir, rest |-> t[i].rest] /\ t[i].dir \in P
             /\ IsDirHash(t[i].dir) /\ t[i].rest \subseteq DOMAIN Listing(t[i].dir)
             /\ \A m \in DOMAIN Listing(t[i].dir) \ t[i].rest :
                  \/ Listing(t[i].dir)[m].hash \in D
                  \/ i + 1 \in DOMAIN t /\ Listing(t[i].dir)[m].hash = t[i + 1].dir
  <2>1. /\ s[i] = [dir |-> s[i].dir, rest |-> s[i].rest] /\ s[i].dir \in P
        /\ IsDirHash(s[i].dir) /\ s[i].rest \subseteq DOMAIN Listing(s[i].dir)
        /\ \A m \in DOMAIN Listing(s[i].dir) \ s[i].rest :
             \/ Listing(s[i].dir)[m].hash \in D
             \/ i + 1 \in DOMAIN s /\ Listing(s[i].dir)[m].hash = s[i + 1].dir
    BY <1>5 DEF Owed
  <2>2. CASE i = k
    <3>1. i + 1 \notin DOMAIN s
      BY <1>1, <2>2, OwedTop
    <3>2. t[i] = f /\ s[i] = o
      BY <1>1, <1>5, <2>2
    <3>3. \A m \in DOMAIN Listing(o.dir) \ (o.rest \ {n}) : Listing(o.dir)[m].hash \in D
      BY <1>7, <2>1, <3>1, <3>2
    <3> QED
      BY <1>4, <2>1, <3>2, <3>3
  <2>3. CASE i # k
    BY <1>5, <1>6, <2>1, <2>3
  <2> QED
    BY <2>2, <2>3
<1>9. t[1].dir = id
  <2>1. 1 \in DOMAIN s /\ s[1].dir = id
    BY OwedTop DEF Owed
  <2> QED
    BY <1>6, <2>1
<1> QED
  BY <1>2, <1>5, <1>8, <1>9 DEF Owed

\* ... or is a directory, which is the next one on the way ...
LEMMA OwedDown ==
  ASSUME NEW s, NEW id, NEW D, NEW P, Owed(s, id, D, P), s # <<>>, NEW n \in Top(s).rest,
         NEW h, h = EntryOf(s, n).hash, h \in P, IsDirHash(h)
  PROVE  Owed(Append(Taken(s, n), Frame(h)), id, D, P)
<1>1. PICK t : t = Taken(s, n)
  OBVIOUS
<1>2. PICK E : E = D \union {h}
  OBVIOUS
<1>3. Owed(t, id, E, P) /\ t # <<>>
  <2>1. Owed(s, id, E, P)
    BY <1>2, OwedMore
  <2> QED
    BY <1>1, <1>2, <2>1, OwedFile
<1>4. PICK f, u, l : f = Frame(h) /\ u = Append(t, f) /\ l = Len(t)
  OBVIOUS
<1>5. /\ u \in Seq(ToSet(u)) /\ DOMAIN u = 1..(l + 1) /\ u[l + 1] = f
      /\ \A i \in 1..l : u[i] = t[i]
  BY <1>3, <1>4, SeqFacts DEF Owed
<1>6. l \in Nat \ {0} /\ DOMAIN t = 1..l /\ l = Len(s) /\ DOMAIN s = 1..l
  BY <1>1, <1>3, <1>4, OwedTop DEF Taken
<1>7. f = [dir |-> h, rest |-> DOMAIN Listing(h)] /\ f.dir = h /\ f.rest = DOMAIN Listing(h)
  BY <1>4 DEF Frame
<1>8. ASSUME NEW i \in DOMAIN u
      PROVE  /\ u[i] = [dir |-> u[i].dir, rest |-> u[i].rest] /\ u[i].dir \in P
             /\ IsDirHash(u[i].dir) /\ u[i].rest \subseteq DOMAIN Listing(u[i].dir)
             /\ \A m \in DOMAIN Listing(u[i].dir) \ u[i].rest :
                  \/ Listing(u[i].dir)[m].hash \in D
                  \/ i + 1 \in DOMAIN u /\ Listing(u[i].dir)[m].hash = u[i + 1].dir
  <2>1. CASE i = l + 1
    BY <1>5, <1>7, <2>1
  <2>2. CASE i \in 1..l
    <3>1. /\ t[i] = [dir |-> t[i].dir, rest |-> t[i].rest] /\ t[i].dir \in P
          /\ IsDirHash(t[i].dir) /\ t[i].rest \subseteq DOMAIN Listing(t[i].dir)
          /\ u[i] = t[i]
      BY <1>3, <1>5, <1>6, <2>2 DEF Owed
    <3>2. CASE i = l
      <4>1. /\ \A m \in DOMAIN Listing(s[l].dir) \ s[l].rest : Listing(s[l].dir)[m].hash \in D
            /\ l \in DOMAIN s /\ s[l] = [dir |-> s[l].dir, rest |-> s[l].rest]
        BY <1>6 DEF Owed
      <4>2. t[l].dir = s[l].dir /\ t[l].rest = s[l].rest \ {n}
        <5>1. PICK o : o = s[l]
          OBVIOUS
        <5>2. t[l] = [o EXCEPT !.rest = @ \ {n}]
          BY <1>1, <1>6, <4>1, <5>1 DEF Taken
        <5> QED
          BY <4>1, <5>1, <5>2
      <4>3. Listing(s[l].dir)[n].hash = h
        BY <1>6 DEF EntryOf, Top
      <4> QED
        BY <1>5, <1>6, <1>7, <3>1, <3>2, <4>1, <4>2, <4>3
    <3>3. CASE i # l
      <4>1. i + 1 \in 1..l /\ i \in DOMAIN s /\ i # Len(s)
        BY <1>6, <2>2, <3>3
      <4>2. t[i] = s[i] /\ t[i + 1].dir = s[i + 1].dir
        <5>1. PICK k, o, g : k = Len(s) /\ o = s[k] /\ g = [o EXCEPT !.rest = @ \ {n}]
          OBVIOUS
        <5>2. t = [s EXCEPT ![k] = g] /\ k \in DOMAIN s /\ s[k] = [dir |-> s[k].dir, rest |-> s[k].rest]
          BY <1>1, <5>1, OwedTop DEF Taken, Owed
        <5>3. g.dir = o.dir
          BY <5>1, <5>2
        <5>4. \A j \in DOMAIN s : t[j] = IF j = k THEN g ELSE s[j]
          BY <5>2
        <5> QED
          BY <1>6, <4>1, <5>1, <5>3, <5>4
      <4>3. \A m \in DOMAIN Listing(s[i].dir) \ s[i].rest :
              \/ Listing(s[i].dir)[m].hash \in D
              \/ i + 1 \in DOMAIN s /\ Listing(s[i].dir)[m].hash = s[i + 1].dir
        BY <4>1 DEF Owed
      <4> QED
        BY <1>5, <1>6, <3>1, <4>1, <4>2, <4>3
    <3> QED
      BY <3>2, <3>3
  <2> QED
    BY <1>5, <1>6, <2>1, <2>2
<1>9. u # <<>> /\ u[1].dir = id
  <2>1. 1 \in 1..l /\ 1 \in DOMAIN u
    BY <1>5, <1>6
  <2>2. t[1].dir = id
    BY <1>3 DEF Owed
  <2>3. u[1].dir = id
    BY <1>5, <2>1, <2>2
  <2>4. u # <<>>
    BY <2>1
  <2> QED
    BY <2>3, <2>4
<1>10. Owed(u, id, D, P)
  BY <1>5, <1>8, <1>9 DEF Owed
<1> QED
  BY <1>1, <1>4, <1>10

\* ... and when a directory has none left, it is dealt with itself.
LEMMA OwedUp ==
  ASSUME NEW s, NEW id, NEW D, NEW P, Owed(s, id, D, P), s # <<>>, Top(s).rest = {}, Closed(D),
         NEW D2, D2 = D \union {Top(s).dir}
  PROVE  Owed(Front(s), id, D2, P) /\ Closed(D2)
<1>1. PICK k, t : k = Len(s) /\ t = Front(s)
  OBVIOUS
<1>2. k \in Nat \ {0} /\ DOMAIN s = 1..k /\ k \in DOMAIN s /\ Top(s) = s[k]
  BY <1>1, OwedTop DEF Top
<1>3. /\ DOMAIN t = 1..(k - 1) /\ k - 1 \in Nat /\ t = [i \in 1..(k - 1) |-> t[i]]
      /\ \A i \in 1..(k - 1) : t[i] = s[i]
  BY <1>1, <1>2 DEF Front, Owed
<1>4. t \in Seq(ToSet(t))
  <2>1. t \in [1..(k - 1) -> ToSet(t)]
    BY <1>3 DEF ToSet
  <2> QED
    BY <1>3, <2>1
<1>5. ASSUME NEW i \in DOMAIN t
      PROVE  /\ t[i] = [dir |-> t[i].dir, rest |-> t[i].rest] /\ t[i].dir \in P
             /\ IsDirHash(t[i].dir) /\ t[i].rest \subseteq DOMAIN Listing(t[i].dir)
             /\ \A m \in DOMAIN Listing(t[i].dir) \ t[i].rest :
                  \/ Listing(t[i].dir)[m].hash \in D2
                  \/ i + 1 \in DOMAIN t /\ Listing(t[i].dir)[m].hash = t[i + 1].dir
  <2>1. /\ s[i] = [dir |-> s[i].dir, rest |-> s[i].rest] /\ s[i].dir \in P
        /\ IsDirHash(s[i].dir) /\ s[i].rest \subseteq DOMAIN Listing(s[i].dir)
        /\ \A m \in DOMAIN Listing(s[i].dir) \ s[i].rest :
             \/ Listing(s[i].dir)[m].hash \in D
             \/ i + 1 \in DOMAIN s /\ Listing(s[i].dir)[m].hash = s[i + 1].dir
    BY <1>2, <1>3 DEF Owed
  <2>2. t[i] = s[i] /\ i \in 1..(k - 1)
    BY <1>3
  <2>3. CASE i = k - 1
    BY <1>2, <2>1, <2>2, <2>3
  <2>4. CASE i # k - 1
    <3>1. i + 1 \in 1..(k - 1)
      BY <1>2, <2>2, <2>4
    <3> QED
      BY <1>3, <2>1, <2>2, <3>1
  <2> QED
    BY <2>3, <2>4
<1>6. IF t = <<>> THEN id \in D2 ELSE t[1].dir = id
  <2>1. s[1].dir = id
    BY DEF Owed
  <2>2. CASE k = 1
    BY <1>2, <1>3, <2>1, <2>2
  <2>3. CASE k # 1
    <3>1. 1 \in 1..(k - 1) /\ t # <<>>
      BY <1>2, <1>3, <2>3
    <3> QED
      BY <1>3, <2>1, <3>1
  <2> QED
    BY <2>2, <2>3
<1>7. Children(Top(s).dir) \subseteq D
  <2>1. k + 1 \notin DOMAIN s /\ s[k].rest = {}
    BY <1>2
  <2>2. \A n \in DOMAIN Listing(s[k].dir) : Listing(s[k].dir)[n].hash \in D
    BY <1>2, <2>1 DEF Owed
  <2> QED
    BY <1>2, <2>2 DEF Children
<1> QED
  BY <1>1, <1>4, <1>5, <1>6, <1>7 DEF Owed, Closed

-----------------------------------------------------------------------------
(* Trees, and directories as json.Marshal writes them *)

LEMMA TreeFacts ==
  ASSUME NEW r \in Trees
  PROVE  /\ r \in Tree(r) /\ IsDirHash(r)
         /\ \A b \in Tree(r) : WellFormed(b) /\ KindsAgree(b) /\ Children(b) \subseteq Tree(r)
BY ArchiveAssumption DEF ArchiveAssumption

\* A set that is closed has the whole tree of each of its blobs.
LEMMA TreeInside ==
  ASSUME NEW C, Closed(C), NEW h \in C
  PROVE  Tree(h) \subseteq C
<1>1. ASSUME NEW p \in AllPaths
      PROVE  Resolve(h, p) \in C \union {NoHash}
  <2>1. PICK X : X = ToSet(p)
    OBVIOUS
  <2>2. p \in Seq(X)
    BY <2>1, ArchiveAssumption DEF ArchiveAssumption
  <2> QED
    BY <2>2, PathsStayInside
<1> QED
  BY <1>1 DEF Tree

LEMMA MarshalledSame ==
  ASSUME NEW h, IsDirHash(h), WellFormed(h)
  PROVE  Marshalled(h) = h
BY DEF Marshalled, WellFormed

LEMMA MarshalledChildren ==
  ASSUME NEW h, IsDirHash(h)
  PROVE  Children(Marshalled(h)) = Children(h)
<1>1. PICK l : l = [n \in DOMAIN Listing(h) |-> [kind |-> Listing(h)[n].kind,
                                                hash |-> Listing(h)[n].hash]]
  OBVIOUS
<1>2. Marshalled(h) = <<"dir", l>>
  BY <1>1 DEF Marshalled, DirHash
<1>3. IsDirHash(Marshalled(h)) /\ Listing(Marshalled(h)) = l
  BY <1>2 DEF IsDirHash, Listing, NoHash
<1>4. DOMAIN l = DOMAIN Listing(h) /\ \A n \in DOMAIN l : l[n].hash = Listing(h)[n].hash
  BY <1>1
<1> QED
  BY <1>3, <1>4 DEF Children

LEMMA ClosedFile ==
  ASSUME NEW D, Closed(D), NEW h, ~IsDirHash(h)
  PROVE  Closed(D \union {h})
BY DEF Closed, Children

-----------------------------------------------------------------------------
(* Export: what has been dealt with, E, is in the archive with all that it    *)
(* names, and at the end of the walk the root is one of them.                 *)

ExportInv(E) ==
  /\ root \in Trees /\ gone \in Missing
  /\ ex = [at |-> ex.at, stack |-> ex.stack]
  /\ ex.at \in {"report", "root", "walk", "sent", "failed"}
  /\ tar = [n \in DOMAIN tar |-> n] /\ DOMAIN tar \subseteq Tree(root)
  /\ Closed(E) /\ E \subseteq DOMAIN tar
  /\ IF ex.at = "walk" THEN Owed(ex.stack, root, E, DOMAIN tar) ELSE ex.stack = <<>>
  /\ ex.at = "sent" => root \in E

\* An export that fails leaves the archive as it is.
LEMMA ExportFailed ==
  ASSUME NEW E, ExportInv(E), ExportFails, UNCHANGED source
  PROVE  ExportInv(E)'
<1>1. ex'.at = "failed" /\ ex'.stack = <<>> /\ ex' = [at |-> ex'.at, stack |-> ex'.stack]
  BY DEF ExportFails
<1>2. root' = root /\ gone' = gone /\ tar' = tar
  BY DEF ExportFails, source
<1> QED
  BY <1>1, <1>2 DEF ExportInv

\* A step that adds a blob to the archive.
LEMMA ExportAdds ==
  ASSUME NEW E, ExportInv(E), UNCHANGED source, NEW h \in Tree(root), NEW s,
         tar' = [n \in DOMAIN tar \union {h} |-> n], ex' = [at |-> "walk", stack |-> s],
         NEW E2, Closed(E2), E2 \subseteq E \union {h},
         Owed(s, root, E2, DOMAIN tar \union {h})
  PROVE  ExportInv(E2)'
<1>1. ex'.at = "walk" /\ ex'.stack = s /\ ex' = [at |-> ex'.at, stack |-> ex'.stack]
  OBVIOUS
<1>2. root' = root /\ gone' = gone
  BY DEF source
<1>3. DOMAIN tar' = DOMAIN tar \union {h} /\ tar' = [n \in DOMAIN tar' |-> n]
  OBVIOUS
<1> QED
  BY <1>1, <1>2, <1>3 DEF ExportInv

LEMMA WalkDirKeeps ==
  ASSUME NEW E, ExportInv(E), NEW h \in Tree(root), IsDirHash(h), NEW s,
         Owed(Append(s, Frame(h)), root, E, DOMAIN tar \union {h}), WalkDir(h, s)
  PROVE  ExportInv(E)'
<1>1. UNCHANGED source
  BY DEF WalkDir
<1>2. CASE ExportFails
  BY <1>1, <1>2, ExportFailed
<1>3. CASE /\ tar' = [n \in DOMAIN tar \union {Marshalled(h)} |-> n]
           /\ ex' = [at |-> "walk", stack |-> Append(s, Frame(h))]
  <2>1. Marshalled(h) = h
    BY TreeFacts, MarshalledSame DEF ExportInv
  <2>2. Closed(E) /\ E \subseteq E \union {h}
    BY DEF ExportInv
  <2>3. tar' = [n \in DOMAIN tar \union {h} |-> n]
    BY <1>3, <2>1
  <2> QED
    BY <1>1, <1>3, <2>2, <2>3, ExportAdds
<1> QED
  BY <1>2, <1>3 DEF WalkDir

LEMMA WalkFileKeeps ==
  ASSUME NEW E, ExportInv(E), ex.at = "walk", NEW h \in Tree(root), ~IsDirHash(h), NEW s,
         Owed(s, root, E \union {h}, DOMAIN tar \union {h}), WalkFile(h, s)
  PROVE  \E E2 : E \subseteq E2 /\ ExportInv(E2)'
<1>1. UNCHANGED source
  BY DEF WalkFile
<1>2. CASE ExportFails
  BY <1>1, <1>2, ExportFailed
<1>3. CASE /\ tar' = [n \in DOMAIN tar \union {h} |-> n]
           /\ ex' = [ex EXCEPT !.stack = s]
  <2>1. ex' = [at |-> "walk", stack |-> s]
    BY <1>3 DEF ExportInv
  <2>2. Closed(E \union {h})
    BY ClosedFile DEF ExportInv
  <2>3. ExportInv(E \union {h})'
    BY <1>1, <1>3, <2>1, <2>2, ExportAdds
  <2> QED
    BY <2>3
<1> QED
  BY <1>2, <1>3 DEF WalkFile

\* The entry that the walk takes next.
LEMMA ExportEntry ==
  ASSUME NEW E, ExportInv(E), ex.at = "walk", ex.stack # <<>>, NEW n \in Top(ex.stack).rest,
         NEW e, e = EntryOf(ex.stack, n)
  PROVE  e.hash \in Tree(root) /\ (e.kind = "dir" <=> IsDirHash(e.hash))
<1>1. Owed(ex.stack, root, E, DOMAIN tar) /\ DOMAIN tar \subseteq Tree(root) /\ root \in Trees
  BY DEF ExportInv
<1>2. PICK d : d = Top(ex.stack).dir
  OBVIOUS
<1>3. /\ d \in Tree(root) /\ IsDirHash(d) /\ n \in DOMAIN Listing(d)
      /\ e.hash \in Children(d) /\ e = Listing(d)[n]
  BY <1>1, <1>2, OwedTop DEF EntryOf
<1>4. KindsAgree(d) /\ Children(d) \subseteq Tree(root)
  BY <1>1, <1>3, TreeFacts
<1> QED
  BY <1>3, <1>4 DEF KindsAgree

LEMMA WalkRootKeeps ==
  ASSUME NEW E, ExportInv(E), WalkRoot
  PROVE  ExportInv(E)'
<1>1. root \in Tree(root) /\ IsDirHash(root) /\ WalkDir(root, <<>>)
  BY TreeFacts DEF ExportInv, WalkRoot
<1>2. PICK P : P = DOMAIN tar \union {root}
  OBVIOUS
<1>3. Owed(Append(<<>>, Frame(root)), root, E, P)
  BY <1>1, <1>2, OwedFirst
<1> QED
  BY <1>1, <1>2, <1>3, WalkDirKeeps

LEMMA WalkEntryKeeps ==
  ASSUME NEW E, ExportInv(E), WalkEntry
  PROVE  \E E2 : E \subseteq E2 /\ ExportInv(E2)'
<1>1. ex.at = "walk" /\ ex.stack # <<>> /\ Owed(ex.stack, root, E, DOMAIN tar)
  BY DEF WalkEntry, ExportInv
<1>2. PICK n \in Top(ex.stack).rest :
        LET e == EntryOf(ex.stack, n)
        IN IF e.kind = "dir" THEN WalkDir(e.hash, Taken(ex.stack, n))
                             ELSE WalkFile(e.hash, Taken(ex.stack, n))
  BY DEF WalkEntry
<1>3. PICK e, h, s : e = EntryOf(ex.stack, n) /\ h = e.hash /\ s = Taken(ex.stack, n)
  OBVIOUS
<1>4. h \in Tree(root) /\ (e.kind = "dir" <=> IsDirHash(h))
  BY <1>1, <1>3, ExportEntry
<1>5. PICK E2, P : E2 = E \union {h} /\ P = DOMAIN tar \union {h}
  OBVIOUS
<1>6. Owed(ex.stack, root, E, P) /\ Owed(ex.stack, root, E2, P) /\ h \in P /\ h \in E2
  BY <1>1, <1>5, OwedMore
<1>7. CASE e.kind = "dir"
  <2>1. WalkDir(h, s) /\ IsDirHash(h)
    BY <1>2, <1>3, <1>4, <1>7
  <2>2. Owed(Append(s, Frame(h)), root, E, P)
    BY <1>1, <1>3, <1>6, <2>1, OwedDown
  <2>3. ExportInv(E)'
    BY <1>4, <1>5, <2>1, <2>2, WalkDirKeeps
  <2> QED
    BY <2>3
<1>8. CASE e.kind # "dir"
  <2>1. WalkFile(h, s) /\ ~IsDirHash(h)
    BY <1>2, <1>3, <1>4, <1>8
  <2>2. Owed(s, root, E2, P)
    BY <1>1, <1>3, <1>6, OwedFile
  <2> QED
    BY <1>1, <1>4, <1>5, <2>1, <2>2, WalkFileKeeps
<1> QED
  BY <1>7, <1>8

LEMMA WalkUpKeeps ==
  ASSUME NEW E, ExportInv(E), WalkUp
  PROVE  \E E2 : E \subseteq E2 /\ ExportInv(E2)'
<1>1. /\ ex.at = "walk" /\ Owed(ex.stack, root, E, DOMAIN tar) /\ Closed(E) /\ E \subseteq DOMAIN tar
      /\ ex = [at |-> ex.at, stack |-> ex.stack]
  BY DEF WalkUp, ExportInv
<1>2. root' = root /\ gone' = gone /\ tar' = tar
  BY DEF WalkUp, source
<1>3. CASE ex.stack # <<>> /\ Top(ex.stack).rest = {} /\ ex' = [ex EXCEPT !.stack = Front(@)]
  <2>1. PICK s, d, E2 : s = ex.stack /\ d = Top(s).dir /\ E2 = E \union {d}
    OBVIOUS
  <2>2. Owed(Front(s), root, E2, DOMAIN tar) /\ Closed(E2)
    BY <1>1, <1>3, <2>1, OwedUp
  <2>3. d \in DOMAIN tar
    BY <1>1, <1>3, <2>1, OwedTop
  <2>4. PICK t : t = Front(s)
    OBVIOUS
  <2>5. ex'.at = "walk" /\ ex'.stack = t /\ ex' = [at |-> ex'.at, stack |-> ex'.stack]
    BY <1>1, <1>3, <2>1, <2>4
  <2>6. E \subseteq E2 /\ E2 \subseteq DOMAIN tar
    BY <1>1, <2>1, <2>3
  <2>7. ExportInv(E2)'
    BY <1>1, <1>2, <2>2, <2>4, <2>5, <2>6 DEF ExportInv
  <2> QED
    BY <2>6, <2>7
<1>4. CASE ex.stack = <<>> /\ ex' = [ex EXCEPT !.at = "sent"]
  <2>1. root \in E
    BY <1>1, <1>4 DEF Owed
  <2>2. ex'.at = "sent" /\ ex'.stack = <<>> /\ ex' = [at |-> ex'.at, stack |-> ex'.stack]
    BY <1>1, <1>4
  <2>3. ExportInv(E)'
    BY <1>2, <2>1, <2>2 DEF ExportInv
  <2> QED
    BY <2>3
<1> QED
  BY <1>3, <1>4 DEF WalkUp

LEMMA ReportKeeps ==
  ASSUME NEW E, ExportInv(E), Report
  PROVE  ExportInv(E)'
<1>1. UNCHANGED source
  BY DEF Report
<1>2. CASE ExportFails
  BY <1>1, <1>2, ExportFailed
<1>3. CASE ex' = [ex EXCEPT !.at = "root"] /\ UNCHANGED tar
  <2>1. root' = root /\ gone' = gone /\ tar' = tar
    BY <1>1, <1>3 DEF source
  <2>2. ex.at = "report" /\ ex.stack = <<>> /\ ex = [at |-> ex.at, stack |-> ex.stack]
    BY DEF Report, ExportInv
  <2>3. ex'.at = "root" /\ ex'.stack = <<>> /\ ex' = [at |-> ex'.at, stack |-> ex'.stack]
    BY <1>3, <2>2
  <2> QED
    BY <2>1, <2>3 DEF ExportInv
<1> QED
  BY <1>2, <1>3 DEF Report

\* An export goes on until it ends, and leaves everything else alone.
LEMMA ExportKeeps ==
  ASSUME NEW E, ExportInv(E), Export
  PROVE  /\ \E E2 : E \subseteq E2 /\ ExportInv(E2)'
         /\ ex.at \notin {"sent", "failed"} /\ root' = root
         /\ UNCHANGED <<arc, im, dst, index, lost, harmed>>
<1>1. \E E2 : E \subseteq E2 /\ ExportInv(E2)'
  <2>1. CASE Report
    BY <2>1, ReportKeeps
  <2>2. CASE WalkRoot
    BY <2>2, WalkRootKeeps
  <2>3. CASE WalkEntry
    BY <2>3, WalkEntryKeeps
  <2>4. CASE WalkUp
    BY <2>4, WalkUpKeeps
  <2> QED
    BY <2>1, <2>2, <2>3, <2>4 DEF Export
<1>2. /\ ex.at \notin {"sent", "failed"} /\ root' = root
      /\ UNCHANGED <<arc, im, dst, index, lost, harmed>>
  BY DEF Export, Report, WalkRoot, WalkEntry, WalkUp, WalkDir, WalkFile, source
<1> QED
  BY <1>1, <1>2

-----------------------------------------------------------------------------
(* Import: C is closed, stored and has the index and what is to be            *)
(* registered, so the index is whole.  D is what this import has dealt with, *)
(* closed, stored and in the archive.                                        *)

\* What this import may go through: stored under its name, and of an export that arrived
\* unharmed, something that the export dealt with.
Places(E) == {h \in (dst \union lost) \cap DOMAIN arc.blob :
                KindsAgree(h) /\ (harmed \/ ex.at = "failed" \/ h \in E)}

ImportInv(E, C, D) ==
  /\ im = [at |-> im.at, id |-> im.id, stack |-> im.stack]
  /\ im.at \in {"none", "root", "walk", "index", "done", "error"}
  /\ \A n \in DOMAIN arc.blob : KindsAgree(arc.blob[n])
  /\ Closed(C) /\ C \subseteq dst \union lost /\ index \subseteq C
  /\ Closed(D) /\ D \subseteq (dst \union lost) \cap DOMAIN arc.blob
  /\ IF im.at = "walk" THEN Owed(im.stack, im.id, D, Places(E)) /\ IsDirHash(im.id)
                       ELSE im.stack = <<>>
  /\ im.at \in {"root", "walk", "index"} => im.id = arc.root
  /\ im.at = "index" => (IsDirHash(im.id) /\ im.id \in D /\ Marshalled(im.id) \in C)
  /\ (im.at = "done" /\ im.id = arc.root) => (im.id \in D /\ im.id \in index)
  /\ (im.at # "none" /\ ~harmed) =>
       (ex.at \in {"sent", "failed"} /\ arc = [root |-> root, blob |-> tar])
  /\ im.at = "error" => (harmed \/ ex.at = "failed")

\* The steps of an import only add to the storage.
Gained == /\ dst \union lost \subseteq dst' \union lost' /\ (harmed => harmed')
          /\ UNCHANGED <<source, ex, tar, arc>>

LEMMA GainedPlaces ==
  ASSUME NEW E, Gained
  PROVE  Places(E) \subseteq Places(E)'
<1>1. PICK a, b, f, g, x, y, u, v :
        /\ a = dst \union lost /\ b = dst' \union lost' /\ f = arc /\ g = arc' /\ x = ex /\ y = ex'
        /\ u = harmed /\ v = harmed'
  OBVIOUS
<1>2. a \subseteq b /\ f = g /\ x = y /\ (u => v)
  BY <1>1 DEF Gained
<1> QED
  BY <1>1, <1>2 DEF Places

\* Of an export that went through and arrived unharmed, every blob is there.
LEMMA CleanBlob ==
  ASSUME NEW E, NEW C, NEW D, ExportInv(E), ImportInv(E, C, D), im.at # "none",
         ~harmed, ex.at # "failed"
  PROVE  /\ root \in E /\ Closed(E) /\ arc.root = root /\ IsDirHash(root) /\ WellFormed(root)
         /\ \A h \in E : h \in DOMAIN arc.blob /\ arc.blob[h] = h
<1>1. ex.at = "sent" /\ arc = [root |-> root, blob |-> tar]
  BY DEF ImportInv
<1>2. arc.root = root /\ arc.blob = tar
  BY <1>1
<1>3. root \in E /\ root \in Trees /\ Closed(E)
  BY <1>1 DEF ExportInv
<1>4. \A h \in E : h \in DOMAIN tar /\ tar[h] = h
  BY DEF ExportInv
<1> QED
  BY <1>2, <1>3, <1>4, TreeFacts

\* An import that fails has registered nothing, and had a reason.
LEMMA ImportFailed ==
  ASSUME NEW E, NEW C, NEW D, ImportInv(E, C, D), im.at \in {"root", "walk"},
         ImportFails, Gained, UNCHANGED index, harmed' \/ ex.at = "failed"
  PROVE  ImportInv(E, C, D)'
<1>1. /\ im'.at = "error" /\ im'.stack = <<>> /\ im'.id = im.id
      /\ im' = [at |-> im'.at, id |-> im'.id, stack |-> im'.stack]
  BY DEF ImportFails, ImportInv
<1>2. /\ root' = root /\ tar' = tar /\ arc' = arc /\ ex' = ex /\ index' = index
      /\ dst \union lost \subseteq dst' \union lost' /\ (harmed => harmed')
  BY DEF Gained, source
<1>3. /\ \A n \in DOMAIN arc'.blob : KindsAgree(arc'.blob[n])
      /\ Closed(C) /\ C \subseteq dst' \union lost' /\ index' \subseteq C
      /\ Closed(D) /\ D \subseteq (dst' \union lost') \cap DOMAIN arc'.blob
  BY <1>2 DEF ImportInv
<1>4. ~harmed' => (ex'.at \in {"sent", "failed"} /\ arc' = [root |-> root', blob |-> tar'])
  BY <1>2 DEF ImportInv
<1> QED
  BY <1>1, <1>2, <1>3, <1>4 DEF ImportInv

\* An import that goes on.
LEMMA ImportGoes ==
  ASSUME NEW E, NEW C, NEW D, ImportInv(E, C, D), im.at \in {"root", "walk"}, IsDirHash(im.id),
         Gained, UNCHANGED index,
         NEW s, im' = [at |-> "walk", id |-> im.id, stack |-> s],
         NEW D2, Closed(D2), D2 \subseteq (dst' \union lost') \cap DOMAIN arc.blob,
         Owed(s, im.id, D2, Places(E)')
  PROVE  ImportInv(E, C, D2)'
<1>1. /\ im'.at = "walk" /\ im'.stack = s /\ im'.id = im.id
      /\ im' = [at |-> im'.at, id |-> im'.id, stack |-> im'.stack]
  OBVIOUS
<1>2. /\ root' = root /\ tar' = tar /\ arc' = arc /\ ex' = ex /\ index' = index
      /\ dst \union lost \subseteq dst' \union lost' /\ (harmed => harmed')
  BY DEF Gained, source
<1>3. /\ \A n \in DOMAIN arc'.blob : KindsAgree(arc'.blob[n])
      /\ C \subseteq dst' \union lost' /\ index' \subseteq C /\ Closed(C)
      /\ D2 \subseteq (dst' \union lost') \cap DOMAIN arc'.blob
      /\ im'.id = arc'.root
  BY <1>1, <1>2 DEF ImportInv
<1>4. ~harmed' => (ex'.at \in {"sent", "failed"} /\ arc' = [root |-> root', blob |-> tar'])
  BY <1>2 DEF ImportInv
<1>5. Owed(s, im'.id, D2, Places(E)') /\ IsDirHash(im'.id)
  BY <1>1
<1> QED
  BY <1>1, <1>3, <1>4, <1>5 DEF ImportInv

\* Reading a blob: the import fails for a reason, or the blob has its name and is stored.
LEMMA ReadBlobEnds ==
  ASSUME NEW E, NEW C, NEW D, ExportInv(E), ImportInv(E, C, D), im.at \in {"root", "walk"},
         UNCHANGED <<source, ex, tar, arc>>,
         NEW h, NEW kind, NEW next, ReadBlob(h, kind, next),
         (~harmed /\ ex.at # "failed") => (h \in E /\ (kind = "dir" => IsDirHash(h)))
  PROVE  /\ Gained
         /\ \/ ImportFails /\ (harmed' \/ ex.at = "failed")
            \/ /\ im' = next /\ h \in dst' \union lost' /\ h \in DOMAIN arc.blob
               /\ KindsAgree(h) /\ (kind = "dir" => IsDirHash(h))
               /\ (~harmed' /\ ex.at # "failed") => h \in E
<1>1. CASE Unreadable(h, kind)
  <2>1. Gained
    BY <1>1 DEF Unreadable, Gained
  <2>2. ASSUME ~harmed', ex.at # "failed"
        PROVE  FALSE
    <3>1. /\ ~harmed
          /\ \/ h \notin DOMAIN arc.blob
             \/ kind = "dir" /\ h \in DOMAIN arc.blob /\ ~IsDirHash(arc.blob[h])
      BY <1>1, <2>2 DEF Unreadable
    <3>2. h \in E /\ (kind = "dir" => IsDirHash(h))
      BY <2>2, <3>1
    <3>3. h \in DOMAIN arc.blob /\ arc.blob[h] = h
      BY <2>2, <3>1, <3>2, CleanBlob
    <3> QED
      BY <3>1, <3>2, <3>3
  <2> QED
    BY <1>1, <2>1, <2>2 DEF Unreadable
<1>2. CASE /\ h \in DOMAIN arc.blob /\ (kind = "dir" => IsDirHash(arc.blob[h]))
           /\ Push(arc.blob[h])
           /\ IF arc.blob[h] = h THEN im' = next ELSE ImportFails
  <2>1. PICK x : x = arc.blob[h]
    OBVIOUS
  <2>2. Gained /\ x \in dst' \union lost' /\ (harmed => harmed')
    BY <1>2, <2>1 DEF Push, Gained
  <2>3. KindsAgree(x)
    BY <1>2, <2>1 DEF ImportInv
  <2>4. CASE x = h
    BY <1>2, <2>1, <2>2, <2>3, <2>4
  <2>5. CASE x # h
    <3>1. harmed' \/ ex.at = "failed"
      BY <2>1, <2>2, <2>5, CleanBlob
    <3> QED
      BY <1>2, <2>1, <2>2, <2>5, <3>1
  <2> QED
    BY <2>4, <2>5
<1> QED
  BY <1>1, <1>2 DEF ReadBlob

LEMMA ImportRootKeeps ==
  ASSUME NEW E, NEW C, NEW D, ExportInv(E), ImportInv(E, C, D), ImportRoot
  PROVE  \E D2 : ImportInv(E, C, D2)'
<1>1. /\ im.at = "root" /\ ReadBlob(im.id, "dir", Into(im.id, <<>>))
      /\ UNCHANGED <<source, ex, tar, arc>> /\ UNCHANGED index
  BY DEF ImportRoot
<1>2. /\ im = [at |-> im.at, id |-> im.id, stack |-> im.stack] /\ im.id = arc.root
      /\ Closed(D) /\ D \subseteq (dst \union lost) \cap DOMAIN arc.blob
  BY <1>1 DEF ImportInv
<1>3. PICK h, s, next : /\ h = im.id /\ s = Append(<<>>, Frame(h)) /\ next = Into(h, <<>>)
  OBVIOUS
<1>4. (~harmed /\ ex.at # "failed") => (h \in E /\ IsDirHash(h))
  BY <1>1, <1>2, <1>3, CleanBlob
<1>5. /\ Gained
      /\ \/ ImportFails /\ (harmed' \/ ex.at = "failed")
         \/ /\ im' = next /\ h \in dst' \union lost' /\ h \in DOMAIN arc.blob
            /\ KindsAgree(h) /\ IsDirHash(h)
            /\ (~harmed' /\ ex.at # "failed") => h \in E
  BY <1>1, <1>3, <1>4, ReadBlobEnds
<1>6. CASE ImportFails /\ (harmed' \/ ex.at = "failed")
  BY <1>1, <1>5, <1>6, ImportFailed
<1>7. CASE /\ im' = next /\ h \in dst' \union lost' /\ h \in DOMAIN arc.blob
           /\ KindsAgree(h) /\ IsDirHash(h)
           /\ (~harmed' /\ ex.at # "failed") => h \in E
  <2>1. im' = [at |-> "walk", id |-> im.id, stack |-> s]
    BY <1>2, <1>3, <1>7 DEF Into
  <2>2. h \in Places(E)'
    BY <1>5, <1>7 DEF Places, Gained
  <2>3. PICK Q : Q = Places(E)'
    OBVIOUS
  <2>4. Owed(s, im.id, D, Places(E)')
    BY <1>3, <1>7, <2>2, <2>3, OwedFirst
  <2>5. D \subseteq (dst' \union lost') \cap DOMAIN arc.blob
    BY <1>2, <1>5 DEF Gained
  <2>6. ImportInv(E, C, D)'
    BY <1>1, <1>2, <1>3, <1>5, <1>7, <2>1, <2>4, <2>5, ImportGoes
  <2> QED
    BY <2>6
<1> QED
  BY <1>5, <1>6, <1>7

\* The entry that the import reads next.
LEMMA ImportedEntry ==
  ASSUME NEW E, NEW C, NEW D, ExportInv(E), ImportInv(E, C, D), im.at = "walk", im.stack # <<>>,
         NEW n \in Top(im.stack).rest, NEW e, e = EntryOf(im.stack, n)
  PROVE  /\ e.kind = "dir" <=> IsDirHash(e.hash)
         /\ (~harmed /\ ex.at # "failed") => e.hash \in E
<1>1. Owed(im.stack, im.id, D, Places(E))
  BY DEF ImportInv
<1>2. PICK d : d = Top(im.stack).dir
  OBVIOUS
<1>3. /\ d \in Places(E) /\ IsDirHash(d) /\ n \in DOMAIN Listing(d)
      /\ e.hash \in Children(d) /\ e = Listing(d)[n]
  BY <1>1, <1>2, OwedTop DEF EntryOf
<1>4. KindsAgree(d) /\ (harmed \/ ex.at = "failed" \/ d \in E)
  BY <1>3 DEF Places
<1>5. Closed(E)
  BY DEF ExportInv
<1> QED
  BY <1>3, <1>4, <1>5 DEF KindsAgree, Closed

LEMMA ImportEntryKeeps ==
  ASSUME NEW E, NEW C, NEW D, ExportInv(E), ImportInv(E, C, D), ImportEntry
  PROVE  \E D2 : ImportInv(E, C, D2)'
<1>1. /\ im.at = "walk" /\ im.stack # <<>>
      /\ UNCHANGED <<source, ex, tar, arc>> /\ UNCHANGED index
  BY DEF ImportEntry
<1>2. PICK n \in Top(im.stack).rest :
        LET e    == EntryOf(im.stack, n)
            rest == Taken(im.stack, n)
        IN ReadBlob(e.hash, e.kind,
                    IF e.kind = "dir" THEN Into(e.hash, rest) ELSE [im EXCEPT !.stack = rest])
  BY DEF ImportEntry
<1>3. PICK e, h, t, next :
        /\ e = EntryOf(im.stack, n) /\ h = e.hash /\ t = Taken(im.stack, n)
        /\ next = IF e.kind = "dir" THEN Into(h, t) ELSE [im EXCEPT !.stack = t]
  OBVIOUS
<1>4. ReadBlob(h, e.kind, next)
  BY <1>2, <1>3
<1>5. /\ im = [at |-> im.at, id |-> im.id, stack |-> im.stack] /\ IsDirHash(im.id)
      /\ Closed(D) /\ D \subseteq (dst \union lost) \cap DOMAIN arc.blob
      /\ Owed(im.stack, im.id, D, Places(E))
  BY <1>1 DEF ImportInv
<1>6. (e.kind = "dir" <=> IsDirHash(h)) /\ ((~harmed /\ ex.at # "failed") => h \in E)
  BY <1>1, <1>3, ImportedEntry
<1>7. /\ Gained
      /\ \/ ImportFails /\ (harmed' \/ ex.at = "failed")
         \/ /\ im' = next /\ h \in dst' \union lost' /\ h \in DOMAIN arc.blob
            /\ KindsAgree(h) /\ (e.kind = "dir" => IsDirHash(h))
            /\ (~harmed' /\ ex.at # "failed") => h \in E
  BY <1>1, <1>4, <1>6, ReadBlobEnds
<1>8. CASE ImportFails /\ (harmed' \/ ex.at = "failed")
  BY <1>1, <1>7, <1>8, ImportFailed
<1>9. CASE /\ im' = next /\ h \in dst' \union lost' /\ h \in DOMAIN arc.blob
           /\ KindsAgree(h)
           /\ (~harmed' /\ ex.at # "failed") => h \in E
  <2>1. PICK Q, D2 : Q = Places(E)' /\ D2 = D \union {h}
    OBVIOUS
  <2>2. h \in Q
    BY <1>7, <1>9, <2>1 DEF Places, Gained
  <2>3. Owed(im.stack, im.id, D, Q) /\ Owed(im.stack, im.id, D2, Q)
    BY <1>5, <1>7, <2>1, GainedPlaces, OwedMore
  <2>4. D2 \subseteq (dst' \union lost') \cap DOMAIN arc.blob
    BY <1>5, <1>7, <1>9, <2>1 DEF Gained
  <2>5. CASE e.kind = "dir"
    <3>1. PICK s : s = Append(t, Frame(h))
      OBVIOUS
    <3>2. im' = [at |-> "walk", id |-> im.id, stack |-> s]
      BY <1>3, <1>5, <1>9, <2>5, <3>1 DEF Into
    <3>3. Owed(s, im.id, D, Places(E)')
      BY <1>1, <1>3, <1>6, <2>1, <2>2, <2>3, <2>5, <3>1, OwedDown
    <3>4. ImportInv(E, C, D)'
      BY <1>1, <1>5, <1>7, <2>1, <2>4, <3>2, <3>3, ImportGoes
    <3> QED
      BY <3>4
  <2>6. CASE e.kind # "dir"
    <3>1. im' = [at |-> "walk", id |-> im.id, stack |-> t]
      BY <1>1, <1>3, <1>5, <1>9, <2>6
    <3>2. Closed(D2)
      BY <1>5, <1>6, <2>1, <2>6, ClosedFile
    <3>3. Owed(t, im.id, D2, Places(E)')
      BY <1>1, <1>3, <2>1, <2>3, OwedFile
    <3>4. ImportInv(E, C, D2)'
      BY <1>1, <1>5, <1>7, <2>4, <3>1, <3>2, <3>3, ImportGoes
    <3> QED
      BY <3>4
  <2> QED
    BY <2>5, <2>6
<1> QED
  BY <1>7, <1>8, <1>9

LEMMA ImportUpKeeps ==
  ASSUME NEW E, NEW C, NEW D, ExportInv(E), ImportInv(E, C, D), ImportUp
  PROVE  \E D2 : ImportInv(E, C, D2)'
<1>1. /\ im.at = "walk" /\ im.stack # <<>> /\ Top(im.stack).rest = {}
      /\ im' = [im EXCEPT !.stack = Front(@)] /\ UNCHANGED index /\ Gained
  BY DEF ImportUp, Gained
<1>2. /\ im = [at |-> im.at, id |-> im.id, stack |-> im.stack] /\ IsDirHash(im.id)
      /\ Closed(D) /\ D \subseteq (dst \union lost) \cap DOMAIN arc.blob
      /\ Owed(im.stack, im.id, D, Places(E))
  BY <1>1 DEF ImportInv
<1>3. PICK Q, d, t, D2 : /\ Q = Places(E)' /\ d = Top(im.stack).dir /\ t = Front(im.stack)
                         /\ D2 = D \union {d}
  OBVIOUS
<1>4. Owed(im.stack, im.id, D, Q)
  BY <1>1, <1>2, <1>3, GainedPlaces, OwedMore
<1>5. Owed(t, im.id, D2, Q) /\ Closed(D2)
  BY <1>1, <1>2, <1>3, <1>4, OwedUp
<1>6. d \in Places(E)
  BY <1>1, <1>2, <1>3, OwedTop
<1>7. D2 \subseteq (dst' \union lost') \cap DOMAIN arc.blob
  BY <1>1, <1>2, <1>3, <1>6 DEF Places, Gained
<1>8. im' = [at |-> "walk", id |-> im.id, stack |-> t]
  BY <1>1, <1>2, <1>3
<1>9. ImportInv(E, C, D2)'
  BY <1>1, <1>2, <1>3, <1>5, <1>7, <1>8, ImportGoes
<1> QED
  BY <1>9

\* The root is stored again: what the import dealt with is part of C from now on, and so
\* is that root.
LEMMA ImportSaveKeeps ==
  ASSUME NEW E, NEW C, NEW D, ExportInv(E), ImportInv(E, C, D), ImportSave
  PROVE  \E C2 : ImportInv(E, C2, D)'
<1>1. /\ im.at = "walk" /\ im.stack = <<>> /\ UNCHANGED <<source, ex, tar, arc, index>>
  BY DEF ImportSave
<1>2. /\ im = [at |-> im.at, id |-> im.id, stack |-> im.stack] /\ IsDirHash(im.id)
      /\ Closed(C) /\ C \subseteq dst \union lost /\ index \subseteq C
      /\ Closed(D) /\ D \subseteq (dst \union lost) \cap DOMAIN arc.blob
      /\ im.id \in D /\ im.id = arc.root
  BY <1>1 DEF ImportInv, Owed
<1>3. CASE Spend("fault") /\ ImportFails /\ harmed' = TRUE /\ UNCHANGED <<dst, lost>>
  <2>1. Gained
    BY <1>1, <1>3 DEF Gained
  <2> QED
    BY <1>1, <1>3, <2>1, ImportFailed
<1>4. CASE Push(Marshalled(im.id)) /\ im' = [im EXCEPT !.at = "index"]
  <2>1. PICK m, C2 : m = Marshalled(im.id) /\ C2 = C \union D \union {m}
    OBVIOUS
  <2>2. Gained /\ m \in dst' \union lost'
    BY <1>1, <1>4, <2>1 DEF Push, Gained
  <2>3. /\ root' = root /\ tar' = tar /\ arc' = arc /\ ex' = ex /\ index' = index
        /\ dst \union lost \subseteq dst' \union lost' /\ (harmed => harmed')
    BY <1>1, <2>2 DEF Gained, source
  <2>4. Closed(C2)
    <3>1. Children(m) \subseteq D
      BY <1>2, <2>1, MarshalledChildren DEF Closed
    <3> QED
      BY <1>2, <2>1, <3>1 DEF Closed
  <2>5. /\ C2 \subseteq dst' \union lost' /\ index' \subseteq C2 /\ m \in C2
        /\ D \subseteq (dst' \union lost') \cap DOMAIN arc'.blob
    BY <1>2, <2>1, <2>2, <2>3
  <2>6. /\ im'.at = "index" /\ im'.id = im.id /\ im'.stack = <<>>
        /\ im' = [at |-> im'.at, id |-> im'.id, stack |-> im'.stack]
    BY <1>1, <1>2, <1>4
  <2>7. ~harmed' => (ex'.at \in {"sent", "failed"} /\ arc' = [root |-> root', blob |-> tar'])
    BY <1>1, <2>3 DEF ImportInv
  <2>8. \A n \in DOMAIN arc'.blob : KindsAgree(arc'.blob[n])
    BY <2>3 DEF ImportInv
  <2>9. Marshalled(im.id)' = m
    BY <2>1, <2>6 DEF Marshalled
  <2>10. ImportInv(E, C2, D)'
    BY <1>2, <2>3, <2>4, <2>5, <2>6, <2>7, <2>8, <2>9 DEF ImportInv
  <2> QED
    BY <2>10
<1> QED
  BY <1>3, <1>4 DEF ImportSave

\* The import is registered, whether it ends with an error or not.
LEMMA ImportIndexKeeps ==
  ASSUME NEW E, NEW C, NEW D, ExportInv(E), ImportInv(E, C, D), ImportIndex
  PROVE  ImportInv(E, C, D)'
<1>1. PICK m : m = Marshalled(im.id)
  OBVIOUS
<1>2. /\ im.at = "index" /\ index' = index \union {m}
      /\ UNCHANGED <<source, ex, tar, arc, dst, lost>>
  BY <1>1 DEF ImportIndex
<1>3. /\ im = [at |-> im.at, id |-> im.id, stack |-> im.stack] /\ im.stack = <<>>
      /\ Closed(C) /\ C \subseteq dst \union lost /\ index \subseteq C /\ m \in C
      /\ Closed(D) /\ D \subseteq (dst \union lost) \cap DOMAIN arc.blob
      /\ im.id \in D /\ im.id = arc.root
      /\ \A n \in DOMAIN arc.blob : KindsAgree(arc.blob[n])
      /\ ~harmed => (ex.at \in {"sent", "failed"} /\ arc = [root |-> root, blob |-> tar])
  BY <1>1, <1>2 DEF ImportInv
<1>4. /\ root' = root /\ tar' = tar /\ arc' = arc /\ ex' = ex /\ dst' = dst /\ lost' = lost
  BY <1>2 DEF source
<1>5. ASSUME NEW l \in {"done", "error"}, im' = [im EXCEPT !.at = l, !.stack = <<>>],
             harmed => harmed', l = "done" => m = im.id,
             l = "error" => harmed' \/ ex.at = "failed"
      PROVE  ImportInv(E, C, D)'
  <2>1. /\ im'.at = l /\ im'.id = im.id /\ im'.stack = <<>>
        /\ im' = [at |-> im'.at, id |-> im'.id, stack |-> im'.stack]
    BY <1>3, <1>5
  <2>2. l = "done" => im'.id \in D
    BY <1>3, <2>1
  <2>3. CASE l = "error"
    BY <1>2, <1>3, <1>4, <1>5, <2>1, <2>3 DEF ImportInv
  <2>4. CASE l = "done"
    <3>1. im'.id \in index'
      BY <1>2, <1>5, <2>1, <2>4
    <3> QED
      BY <1>2, <1>3, <1>4, <1>5, <2>1, <2>2, <2>4, <3>1 DEF ImportInv
  <2> QED
    BY <2>3, <2>4
<1>6. CASE /\ im' = [im EXCEPT !.at = IF Marshalled(im.id) = im.id THEN "done" ELSE "error"]
           /\ UNCHANGED <<left, harmed>>
  <2>1. PICK l : l = IF m = im.id THEN "done" ELSE "error"
    OBVIOUS
  <2>2. im' = [im EXCEPT !.at = l, !.stack = <<>>]
    BY <1>1, <1>3, <1>6, <2>1
  <2>3. m = im.id \/ harmed \/ ex.at = "failed"
    <3>1. CASE ~harmed /\ ex.at # "failed"
      <4>1. WellFormed(im.id) /\ IsDirHash(im.id)
        BY <1>2, <1>3, <3>1, CleanBlob
      <4> QED
        BY <1>1, <4>1, MarshalledSame
    <3> QED
      BY <3>1
  <2> QED
    BY <1>5, <1>6, <2>1, <2>2, <2>3
<1>7. CASE Spend("index") /\ ImportFails /\ harmed' = TRUE
  <2>1. im' = [im EXCEPT !.at = "error", !.stack = <<>>]
    BY <1>7 DEF ImportFails
  <2> QED
    BY <1>5, <1>7, <2>1
<1> QED
  BY <1>6, <1>7 DEF ImportIndex

-----------------------------------------------------------------------------
(* An archive arrives, and the export goes on *)

LEMMA Arrived ==
  ASSUME NEW E, NEW C, NEW D, ImportInv(E, C, D), NEW id, NEW a, Import(id, a),
         UNCHANGED <<source, ex, tar, dst, index, lost>>,
         \A n \in DOMAIN a.blob : KindsAgree(a.blob[n]),
         ~harmed' => (ex.at \in {"sent", "failed"} /\ a = [root |-> root, blob |-> tar])
  PROVE  ImportInv(E, C, {})'
<1>1. /\ arc' = a /\ im'.id = id /\ im'.stack = <<>>
      /\ im'.at = (IF id = a.root THEN "root" ELSE "done")
      /\ im' = [at |-> im'.at, id |-> im'.id, stack |-> im'.stack]
  BY DEF Import
<1>2. root' = root /\ ex' = ex /\ tar' = tar /\ dst' = dst /\ index' = index /\ lost' = lost
  BY DEF source
<1>3. /\ \A n \in DOMAIN arc'.blob : KindsAgree(arc'.blob[n])
      /\ ~harmed' => (ex'.at \in {"sent", "failed"} /\ arc' = [root |-> root', blob |-> tar'])
  BY <1>1, <1>2
<1>4. Closed(C) /\ C \subseteq dst' \union lost' /\ index' \subseteq C /\ Closed({})
  BY <1>2 DEF ImportInv, Closed
<1>5. CASE id = a.root
  BY <1>1, <1>3, <1>4, <1>5 DEF ImportInv
<1>6. CASE id # a.root
  BY <1>1, <1>3, <1>4, <1>6 DEF ImportInv
<1> QED
  BY <1>5, <1>6

LEMMA TarKinds ==
  ASSUME NEW E, ExportInv(E)
  PROVE  /\ \A n \in DOMAIN tar : KindsAgree(tar[n])
         /\ \A b \in Damaged(tar) : \A n \in DOMAIN b : KindsAgree(b[n])
<1>1. \A n \in DOMAIN tar : KindsAgree(tar[n])
  <2>1. \A n \in DOMAIN tar : tar[n] = n /\ n \in Tree(root) /\ root \in Trees
    BY DEF ExportInv
  <2> QED
    BY <2>1, TreeFacts
<1>2. \A x \in Contents : KindsAgree(x)
  BY ArchiveAssumption DEF ArchiveAssumption
<1>3. ASSUME NEW b \in Damaged(tar), NEW n \in DOMAIN b
      PROVE  KindsAgree(b[n])
  <2>1. CASE \E m \in DOMAIN tar : b = Without(tar, m)
    BY <1>1, <2>1 DEF Without
  <2>2. CASE \E m \in DOMAIN tar, x \in Contents : b = [tar EXCEPT ![m] = x]
    BY <1>1, <1>2, <2>2
  <2> QED
    BY <2>1, <2>2 DEF Damaged
<1> QED
  BY <1>1, <1>3

LEMMA ArriveKeeps ==
  ASSUME NEW E, NEW C, NEW D, ExportInv(E), ImportInv(E, C, D), NEW id, Arrive(id)
  PROVE  ImportInv(E, C, {})'
<1>1. /\ UNCHANGED <<source, ex, tar, dst, index, lost>> /\ ex.at \in {"sent", "failed"}
  BY DEF Arrive, Requested
<1>2. CASE Import(id, [root |-> root, blob |-> tar])
  <2>1. PICK a : a = [root |-> root, blob |-> tar]
    OBVIOUS
  <2>2. a.blob = tar /\ Import(id, a)
    BY <1>2, <2>1
  <2>3. \A n \in DOMAIN a.blob : KindsAgree(a.blob[n])
    BY <2>2, TarKinds
  <2> QED
    BY <1>1, <2>1, <2>2, <2>3, Arrived
<1>3. CASE (\E b \in Damaged(tar) : Import(id, [root |-> root, blob |-> b])) /\ harmed' = TRUE
  <2>1. PICK b \in Damaged(tar) : Import(id, [root |-> root, blob |-> b])
    BY <1>3
  <2>2. PICK a : a = [root |-> root, blob |-> b]
    OBVIOUS
  <2>3. a.blob = b /\ Import(id, a)
    BY <2>1, <2>2
  <2>4. \A n \in DOMAIN a.blob : KindsAgree(a.blob[n])
    BY <2>3, TarKinds
  <2> QED
    BY <1>1, <1>3, <2>3, <2>4, Arrived
<1> QED
  BY <1>2, <1>3 DEF Arrive

LEMMA BringKeeps ==
  ASSUME NEW E, NEW C, NEW D, ImportInv(E, C, D), NEW id, Bring(id)
  PROVE  ImportInv(E, C, {})'
<1>1. UNCHANGED <<source, ex, tar, dst, index, lost>> /\ harmed' = TRUE
  BY DEF Bring, Requested
<1>2. PICK a \in Foreign : Import(id, a)
  BY DEF Bring
<1>3. \A n \in DOMAIN a.blob : KindsAgree(a.blob[n])
  BY ArchiveAssumption DEF ArchiveAssumption
<1> QED
  BY <1>1, <1>2, <1>3, Arrived

LEMMA ArriveCutKeeps ==
  ASSUME NEW E, NEW C, NEW D, ImportInv(E, C, D), NEW id, ArriveCut(id)
  PROVE  ImportInv(E, C, D)'
<1>1. /\ im'.at = "error" /\ im'.id = id /\ im'.stack = <<>> /\ harmed' = TRUE
      /\ im' = [at |-> im'.at, id |-> im'.id, stack |-> im'.stack]
  BY DEF ArriveCut
<1>2. arc' = arc /\ dst' = dst /\ index' = index /\ lost' = lost
  BY DEF ArriveCut, Requested
<1>3. /\ \A n \in DOMAIN arc'.blob : KindsAgree(arc'.blob[n])
      /\ Closed(C) /\ C \subseteq dst' \union lost' /\ index' \subseteq C
      /\ Closed(D) /\ D \subseteq (dst' \union lost') \cap DOMAIN arc'.blob
  BY <1>2 DEF ImportInv
<1> QED
  BY <1>1, <1>3 DEF ImportInv

\* A step of the export meets an import only if that is not of its archive.
LEMMA ExportLeaves ==
  ASSUME NEW E, NEW C, NEW D, ImportInv(E, C, D), ex.at \notin {"sent", "failed"},
         UNCHANGED <<arc, im, dst, index, lost, harmed>>, NEW E2, E \subseteq E2
  PROVE  ImportInv(E2, C, D)'
<1>1. /\ arc' = arc /\ im' = im /\ dst' = dst /\ index' = index /\ lost' = lost /\ harmed' = harmed
  OBVIOUS
<1>2. im.at = "none" \/ harmed
  BY DEF ImportInv
<1>3. PICK P, Q : P = Places(E) /\ Q = Places(E2)'
  OBVIOUS
<1>4. CASE im.at = "walk"
  <2>1. harmed
    BY <1>2, <1>4
  <2>2. P \subseteq Q
    BY <1>1, <1>3, <2>1 DEF Places
  <2>3. Owed(im.stack, im.id, D, P) /\ IsDirHash(im.id)
    BY <1>3, <1>4 DEF ImportInv
  <2>4. Owed(im.stack, im.id, D, Q)
    BY <2>2, <2>3, OwedMore
  <2>5. Owed(im'.stack, im'.id, D, Places(E2)') /\ IsDirHash(im'.id)
    BY <1>1, <1>3, <2>3, <2>4
  <2>6. /\ \A n \in DOMAIN arc'.blob : KindsAgree(arc'.blob[n])
        /\ Closed(C) /\ C \subseteq dst' \union lost' /\ index' \subseteq C
        /\ Closed(D) /\ D \subseteq (dst' \union lost') \cap DOMAIN arc'.blob
        /\ im' = [at |-> im'.at, id |-> im'.id, stack |-> im'.stack]
        /\ im'.at = "walk" /\ im'.id = arc'.root /\ harmed'
    BY <1>1, <1>4, <2>1 DEF ImportInv
  <2> QED
    BY <2>5, <2>6 DEF ImportInv
<1>5. CASE im.at # "walk"
  BY <1>1, <1>2, <1>5 DEF ImportInv
<1> QED
  BY <1>4, <1>5

-----------------------------------------------------------------------------
(* The inductive invariant *)

IInv ==
  /\ left \in [Bounded -> Nat]
  /\ \E E, C, D : ExportInv(E) /\ ImportInv(E, C, D)

LEMMA InitIInv ==
  ASSUME Init
  PROVE  IInv
<1>1. left \in [Bounded -> Nat]
  BY ArchiveAssumption DEF Init, ArchiveAssumption
<1>2. DOMAIN Empty = {} /\ Empty = [n \in DOMAIN Empty |-> n]
  BY DEF Empty
<1>3. /\ ex.at = "report" /\ ex.stack = <<>> /\ ex = [at |-> ex.at, stack |-> ex.stack]
      /\ arc.blob = Empty
      /\ im.at = "none" /\ im.stack = <<>>
      /\ im = [at |-> im.at, id |-> im.id, stack |-> im.stack]
  BY DEF Init
<1>4. Closed({})
  BY DEF Closed
<1>5. ExportInv({})
  BY <1>2, <1>3, <1>4 DEF Init, ExportInv
<1>6. ImportInv({}, {}, {})
  BY <1>2, <1>3, <1>4 DEF Init, ImportInv
<1> QED
  BY <1>1, <1>5, <1>6 DEF IInv

LEMMA SpendType ==
  ASSUME left \in [Bounded -> Nat], NEW k \in Bounded, Spend(k)
  PROVE  left' \in [Bounded -> Nat]
BY DEF Spend

LEMMA LeftKeeps ==
  ASSUME left \in [Bounded -> Nat], Next
  PROVE  left' \in [Bounded -> Nat]
<1>1. "import" \in Bounded /\ "fault" \in Bounded /\ "lost" \in Bounded /\ "index" \in Bounded
  BY DEF Bounded
<1>2. left' = left \/ Spend("import") \/ Spend("fault") \/ Spend("lost") \/ Spend("index")
  <2>1. CASE Export
    BY <2>1 DEF Export, Report, WalkRoot, WalkEntry, WalkUp, WalkDir, WalkFile
  <2>2. CASE ImportRoot
    BY <2>2 DEF ImportRoot, ReadBlob, Unreadable, Push
  <2>3. CASE ImportEntry
    BY <2>3 DEF ImportEntry, ReadBlob, Unreadable, Push
  <2>4. CASE ImportUp
    BY <2>4 DEF ImportUp
  <2>5. CASE ImportSave
    BY <2>5 DEF ImportSave, Push
  <2>7. CASE ImportIndex
    BY <2>7 DEF ImportIndex
  <2>6. ASSUME NEW id, Arrive(id) \/ ArriveCut(id) \/ Bring(id)
        PROVE  Spend("import")
    BY <2>6 DEF Arrive, ArriveCut, Bring, Requested
  <2> QED
    BY <2>1, <2>2, <2>3, <2>4, <2>5, <2>6, <2>7 DEF Next, ImportStep
<1> QED
  BY <1>1, <1>2, SpendType

\* Only ImportIndex registers anything; the steps of an import leave the export alone.
LEMMA NextIInv ==
  ASSUME IInv, [Next]_vars
  PROVE  IInv'
<1>1. left \in [Bounded -> Nat]
  BY DEF IInv
<1>2. PICK E, C, D : ExportInv(E) /\ ImportInv(E, C, D)
  BY DEF IInv
<1>3. CASE Export
  <2>1. PICK E2 : E \subseteq E2 /\ ExportInv(E2)'
    BY <1>2, <1>3, ExportKeeps
  <2>2. /\ ex.at \notin {"sent", "failed"}
        /\ UNCHANGED <<arc, im, dst, index, lost, harmed>>
    BY <1>2, <1>3, ExportKeeps
  <2>3. ImportInv(E2, C, D)'
    BY <1>2, <2>1, <2>2, ExportLeaves
  <2>4. left' \in [Bounded -> Nat]
    BY <1>1, <1>3, LeftKeeps DEF Next
  <2> QED
    BY <2>1, <2>3, <2>4 DEF IInv
<1>4. ASSUME UNCHANGED <<source, ex, tar>>
      PROVE  ExportInv(E)'
  BY <1>2, <1>4 DEF ExportInv, source
<1>5. CASE ImportStep
  <2>1. UNCHANGED <<source, ex, tar>>
    BY <1>5 DEF ImportStep, ImportRoot, ImportEntry, ImportUp, ImportSave, ImportIndex
  <2>2. \E C2, D2 : ImportInv(E, C2, D2)'
    <3>1. CASE ImportRoot
      BY <1>2, <3>1, ImportRootKeeps
    <3>2. CASE ImportEntry
      BY <1>2, <3>2, ImportEntryKeeps
    <3>3. CASE ImportUp
      BY <1>2, <3>3, ImportUpKeeps
    <3>4. CASE ImportSave
      BY <1>2, <3>4, ImportSaveKeeps
    <3>5. CASE ImportIndex
      BY <1>2, <3>5, ImportIndexKeeps
    <3> QED
      BY <1>5, <3>1, <3>2, <3>3, <3>4, <3>5 DEF ImportStep
  <2>3. left' \in [Bounded -> Nat]
    BY <1>1, <1>5, LeftKeeps DEF Next
  <2> QED
    BY <1>4, <2>1, <2>2, <2>3 DEF IInv
<1>6. CASE (\E id \in Trees : Arrive(id) \/ ArriveCut(id)) \/ (\E a \in Foreign : Bring(a.root))
  <2>1. PICK id : Arrive(id) \/ ArriveCut(id) \/ Bring(id)
    BY <1>6
  <2>2. UNCHANGED <<source, ex, tar>>
    BY <2>1 DEF Arrive, ArriveCut, Bring, Requested
  <2>3. \E D2 : ImportInv(E, C, D2)'
    <3>1. CASE Arrive(id)
      BY <1>2, <3>1, ArriveKeeps
    <3>2. CASE ArriveCut(id)
      BY <1>2, <3>2, ArriveCutKeeps
    <3>3. CASE Bring(id)
      BY <1>2, <3>3, BringKeeps
    <3> QED
      BY <2>1, <3>1, <3>2, <3>3
  <2>4. left' \in [Bounded -> Nat]
    BY <1>1, <1>6, LeftKeeps DEF Next
  <2> QED
    BY <1>4, <2>2, <2>3, <2>4 DEF IInv
<1>7. CASE UNCHANGED vars
  <2>1. /\ UNCHANGED <<source, ex, tar>> /\ UNCHANGED <<arc, im, dst, index, lost, harmed>>
        /\ left' = left /\ ex' = ex
    BY <1>7 DEF vars
  <2>2. ImportInv(E, C, D)'
    BY <1>2, <2>1 DEF ImportInv, Places, source
  <2> QED
    BY <1>1, <1>4, <2>1, <2>2 DEF IInv
<1> QED
  BY <1>3, <1>5, <1>6, <1>7 DEF Next

LEMMA SpecIInv == Spec => []IInv
<1>1. Init => IInv
  BY InitIInv
<1>2. IInv /\ [Next]_vars => IInv'
  BY NextIInv
<1> QED
  BY <1>1, <1>2, PTL DEF Spec

-----------------------------------------------------------------------------
(* What follows from it *)

LEMMA OwedFrames ==
  ASSUME NEW s, NEW id, NEW D, NEW P, Owed(s, id, D, P)
  PROVE  Frames(s) /\ \A i \in DOMAIN s : s[i].dir \in P
BY DEF Owed, Frames

LEMMA IInvTypeOK ==
  ASSUME IInv
  PROVE  TypeOK
<1>1. PICK E, C, D : ExportInv(E) /\ ImportInv(E, C, D)
  BY DEF IInv
<1>2. Frames(<<>>)
  BY DEF Frames
<1>3. Frames(ex.stack)
  BY <1>1, <1>2, OwedFrames DEF ExportInv
<1>4. Frames(im.stack)
  BY <1>1, <1>2, OwedFrames DEF ImportInv
<1>5. \A i \in DOMAIN im.stack : im.stack[i].dir \in dst \union lost
  <2>1. CASE im.at = "walk"
    <3>1. Owed(im.stack, im.id, D, Places(E))
      BY <1>1, <2>1 DEF ImportInv
    <3>2. \A i \in DOMAIN im.stack : im.stack[i].dir \in Places(E)
      BY <3>1, OwedFrames
    <3> QED
      BY <3>2 DEF Places
  <2>2. CASE im.at # "walk"
    BY <1>1, <2>2 DEF ImportInv
  <2> QED
    BY <2>1, <2>2
<1>6. \A n \in DOMAIN tar : tar[n] = n
  BY <1>1 DEF ExportInv
<1>7. /\ root \in Trees /\ gone \in Missing
      /\ ex.at \in {"report", "root", "walk", "sent", "failed"}
      /\ ex.at = "walk" \/ ex.stack = <<>>
      /\ im.at \in {"none", "root", "walk", "index", "done", "error"}
  BY <1>1 DEF ExportInv, ImportInv
<1> QED
  BY <1>3, <1>4, <1>5, <1>6, <1>7 DEF TypeOK, IInv

LEMMA IInvIndexWhole ==
  ASSUME IInv
  PROVE  IndexWhole
<1>1. PICK E, C, D : ImportInv(E, C, D)
  BY DEF IInv
<1>2. Closed(C) /\ C \subseteq dst \union lost /\ index \subseteq C
  BY <1>1 DEF ImportInv
<1>3. ASSUME NEW h \in index
      PROVE  Tree(h) \subseteq dst \union lost
  <2>1. Tree(h) \subseteq C
    BY <1>2, TreeInside
  <2> QED
    BY <1>2, <2>1
<1> QED
  BY <1>3 DEF IndexWhole

LEMMA IInvRoundTrip ==
  ASSUME IInv
  PROVE  RoundTrip
<1>1. PICK E, C, D : ImportInv(E, C, D)
  BY DEF IInv
<1>2. im.at = "error" => (harmed \/ ex.at = "failed")
  BY <1>1 DEF ImportInv
<1>3. ASSUME im.at = "done", im.id = arc.root
      PROVE  im.id \in index /\ Tree(im.id) \subseteq DOMAIN arc.blob
  <2>1. im.id \in D /\ im.id \in index /\ Closed(D) /\ D \subseteq DOMAIN arc.blob
    BY <1>1, <1>3 DEF ImportInv
  <2>2. Tree(im.id) \subseteq D
    BY <2>1, TreeInside
  <2> QED
    BY <2>1, <2>2
<1> QED
  BY <1>2, <1>3 DEF RoundTrip

\* A step that registers a hash registers the one asked for, and ends with an error only
\* when the index was not written.
LEMMA IInvRegisters ==
  ASSUME IInv, [Next]_vars, index' # index
  PROVE  \/ ~WellFormed(im.id)
         \/ /\ index' = index \union {im.id}
            /\ im'.at = "done" \/ left'["index"] # left["index"]
<1>1. PICK E, C, D : ImportInv(E, C, D)
  BY DEF IInv
<1>2. ImportIndex
  BY DEF Next, vars, Export, Report, WalkRoot, WalkEntry, WalkUp, WalkDir, WalkFile,
         ImportStep, ImportRoot, ImportEntry, ImportUp, ImportSave, Arrive, ArriveCut, Bring,
         Requested
<1>3. im = [at |-> im.at, id |-> im.id, stack |-> im.stack] /\ IsDirHash(im.id)
  BY <1>1, <1>2 DEF ImportInv, ImportIndex
<1>4. SUFFICES ASSUME WellFormed(im.id)
               PROVE  /\ index' = index \union {im.id}
                      /\ im'.at = "done" \/ left'["index"] # left["index"]
  OBVIOUS
<1>5. Marshalled(im.id) = im.id
  BY <1>3, <1>4, MarshalledSame
<1>6. index' = index \union {im.id}
  BY <1>2, <1>5 DEF ImportIndex
<1>7. CASE im' = [im EXCEPT !.at = IF Marshalled(im.id) = im.id THEN "done" ELSE "error"]
  <2>1. im' = [im EXCEPT !.at = "done"]
    BY <1>5, <1>7
  <2> QED
    BY <1>3, <1>6, <2>1
<1>8. CASE Spend("index")
  <2>1. left \in [Bounded -> Nat] /\ "index" \in Bounded
    BY DEF IInv, Bounded
  <2>2. left'["index"] = left["index"] - 1 /\ left["index"] \in Nat
    BY <1>8, <2>1 DEF Spend
  <2> QED
    BY <1>6, <2>2
<1> QED
  BY <1>2, <1>7, <1>8 DEF ImportIndex

\* Types, and that an import never goes into a directory that it has not stored
\* (importDir and importFile, import.go:116-205).
THEOREM ArchiveTypes == Spec => []TypeOK
<1>1. IInv => TypeOK
  BY IInvTypeOK
<1> QED
  BY <1>1, SpecIInv, PTL

\* What the index of the importing storage names is there, however many imports of
\* whatever archives came to an end or failed half way (Import, import.go:92-112, and importDir).
THEOREM IndexStaysWhole == Spec => []IndexWhole
<1>1. IInv => IndexWhole
  BY IInvIndexWhole
<1> QED
  BY <1>1, SpecIInv, PTL

\* A whole export that arrives unharmed is imported, under the hash that it was exported
\* under; a short one is not (Export, export.go:12-95; Import, import.go:14-113).
THEOREM ExportsComeBack == Spec => []RoundTrip
<1>1. IInv => RoundTrip
  BY IInvRoundTrip
<1> QED
  BY <1>1, SpecIInv, PTL

\* An import registers the hash it was asked for and no other, and nothing when it fails,
\* but for an index file that cannot be written, which comes after, and for a root that is
\* written otherwise than httplock does (Import, import.go:97-111; RootSave).
THEOREM ImportsRegisterAsked == Spec => RegistersAsked
<1>1. IInv /\ [Next]_vars =>
        [index' # index =>
           \/ ~WellFormed(im.id)
           \/ /\ index' = index \union {im.id}
              /\ im'.at = "done" \/ left'["index"] # left["index"]]_vars
  BY IInvRegisters
<1> QED
  BY <1>1, SpecIInv, PTL DEF Spec, RegistersAsked
=============================================================================
