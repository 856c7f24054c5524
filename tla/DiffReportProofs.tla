-------------------------- MODULE DiffReportProofs --------------------------
(***************************************************************************)
(* DiffRoots on trees reports exactly their differences: for any trees that *)
(* httplock writes, of any shape and depth, and any blobs that are missing. *)
(***************************************************************************)
EXTENDS DiffReport, MerkleProofs

-----------------------------------------------------------------------------
(* What a path leads to in one of the trees                                  *)

\* The first names of a path decide what they lead to.
LEMMA ReachedAgree ==
  ASSUME NEW h, NEW X, NEW p \in Seq(X), NEW q \in Seq(X), NEW m \in Nat,
         m <= Len(p), m <= Len(q), \A i \in 1..m : p[i] = q[i]
  PROVE  \A i \in 0..m : Reached(h, p, i) = Reached(h, q, i)
<1> DEFINE S == {i \in Nat : i <= m => Reached(h, p, i) = Reached(h, q, i)}
<1>1. 0 \in S
  BY ReachedSteps
<1>2. ASSUME NEW i \in Nat, i \in S PROVE i + 1 \in S
  <2> SUFFICES ASSUME i + 1 <= m PROVE Reached(h, p, i + 1) = Reached(h, q, i + 1)
    OBVIOUS
  <2>1. /\ i \in 0..(Len(p) - 1) /\ i \in 0..(Len(q) - 1) /\ p[i + 1] = q[i + 1]
        /\ Reached(h, p, i) = Reached(h, q, i)
    BY <1>2
  <2> QED
    BY <2>1, ReachedStep
<1>3. Nat \subseteq S
  <2> HIDE DEF S
  <2> QED
    BY <1>1, <1>2, NatSteps
<1> QED
  BY <1>3

\* A path in a tree is one of AllPaths, as far as it leads.
LEMMA PathCovered ==
  ASSUME NEW h \in Trees, NEW p \in Seq(Nat), NEW k \in 0..Len(p), Reached(h, p, k) # NoHash
  PROVE  /\ SubSeq(p, 1, k) \in AllPaths \union {<<>>}
         /\ Resolve(h, SubSeq(p, 1, k)) = Reached(h, p, k)
<1> DEFINE q(i) == SubSeq(p, 1, i)
           S == {i \in Nat : i <= Len(p) /\ Reached(h, p, i) # NoHash
                               => q(i) \in AllPaths \union {<<>>}}
<1>1. Len(p) \in Nat
  OBVIOUS
<1>2. ASSUME NEW i \in 0..Len(p)
      PROVE  /\ q(i) \in Seq(Nat) /\ Len(q(i)) = i /\ \A j \in 1..i : q(i)[j] = p[j]
             /\ Resolve(h, q(i)) = Reached(h, p, i)
  <2>1. q(i) \in Seq(Nat) /\ Len(q(i)) = i /\ \A j \in 1..i : q(i)[j] = p[j]
    BY SubSeqProperties
  <2>2. Resolve(h, q(i)) = Reached(h, q(i), i)
    <3>1. PICK s : s = q(i)
      OBVIOUS
    <3>2. s \in Seq(Nat) /\ Len(s) = i
      BY <2>1, <3>1
    <3>3. Resolve(h, s) = Reached(h, s, i)
      BY <3>2, ReachedSteps
    <3> QED
      BY <3>1, <3>3
  <2>3. Reached(h, q(i), i) = Reached(h, p, i)
    <3>1. i \in Nat /\ i <= Len(p) /\ i \in 0..i
      BY <1>1
    <3> HIDE DEF q
    <3> QED
      BY <2>1, <3>1, ReachedAgree
  <2> QED
    BY <2>1, <2>2, <2>3
<1>3. 0 \in S
  <2>1. Len(q(0)) = 0 /\ q(0) \in Seq(Nat)
    BY <1>1, <1>2
  <2> QED
    BY <2>1, EmptySeq
<1>4. ASSUME NEW i \in Nat, i \in S PROVE i + 1 \in S
  <2> SUFFICES ASSUME i + 1 <= Len(p), Reached(h, p, i + 1) # NoHash
               PROVE  q(i + 1) \in AllPaths
    OBVIOUS
  <2>1. i \in 0..(Len(p) - 1) /\ i \in 0..Len(p) /\ i + 1 \in 0..Len(p)
    BY <1>1
  <2>2. Reached(h, p, i + 1) = Child(Reached(h, p, i), p[i + 1])
    BY <2>1, ReachedStep
  <2>3. PICK b : b = Reached(h, p, i)
    OBVIOUS
  <2>4. IsDirHash(b) /\ p[i + 1] \in DOMAIN Listing(b) /\ b # NoHash
    BY <2>2, <2>3 DEF Child, IsDirHash
  <2>5. q(i) \in AllPaths \union {<<>>} /\ Resolve(h, q(i)) = b
    BY <1>2, <1>4, <2>1, <2>3, <2>4
  <2>6. Append(q(i), p[i + 1]) \in AllPaths
    BY <2>4, <2>5, TreeAssumption
  <2>7. Append(q(i), p[i + 1]) = q(i + 1)
    <3>1. PICK s : s = q(i)
      OBVIOUS
    <3>2. s \in Seq(Nat) /\ Len(s) = i /\ \A j \in 1..i : s[j] = p[j]
      BY <1>2, <2>1, <3>1
    <3>3. PICK t : t = q(i + 1)
      OBVIOUS
    <3>4. t \in Seq(Nat) /\ Len(t) = i + 1 /\ \A j \in 1..(i + 1) : t[j] = p[j]
      BY <1>2, <2>1, <3>3
    <3>5. p[i + 1] \in Nat
      BY <1>1, <2>1
    <3>6. PICK u : u = Append(s, p[i + 1])
      OBVIOUS
    <3>7. /\ u \in Seq(Nat) /\ Len(u) = i + 1 /\ u[i + 1] = p[i + 1]
          /\ \A j \in 1..i : u[j] = s[j]
      BY <3>2, <3>5, <3>6, AppendProperties
    <3>8. \A j \in 1..Len(u) : u[j] = t[j]
      <4>1. ASSUME NEW j \in 1..Len(u) PROVE u[j] = t[j]
        <5>1. j \in 1..i \/ j = i + 1
          BY <3>7
        <5>2. t[i + 1] = p[i + 1]
          BY <3>4
        <5> QED
          BY <3>2, <3>4, <3>7, <5>1, <5>2
      <4> QED
        BY <4>1
    <3>9. u = t
      BY <3>4, <3>7, <3>8, SeqEqual
    <3> QED
      BY <3>1, <3>3, <3>6, <3>9
  <2> QED
    BY <2>6, <2>7
<1>5. Nat \subseteq S
  <2> HIDE DEF S
  <2> QED
    BY <1>3, <1>4, NatSteps
<1> QED
  BY <1>1, <1>2, <1>5

\* The directories of a tree.
LEMMA TreeDirs ==
  ASSUME NEW h \in Trees, NEW p \in Seq(Nat), NEW k \in 0..Len(p), NEW b,
         b = Reached(h, p, k), IsDirHash(b)
  PROVE  /\ Keys(b) \subseteq Nat \ {0}
         /\ \A n \in Keys(b) : /\ Listing(b)[n].hash = Child(b, n) /\ Child(b, n) # NoHash
                               /\ Listing(b)[n].kind = "dir" <=> IsDirHash(Child(b, n))
<1>1. PICK q : q = SubSeq(p, 1, k)
  OBVIOUS
<1>2. b # NoHash
  BY DEF IsDirHash
<1>3. q \in AllPaths \union {<<>>} /\ Resolve(h, q) = b
  BY <1>1, <1>2, PathCovered
<1>4. /\ KindsAgree(b) /\ NoHash \notin Children(b)
      /\ \A n \in DOMAIN Listing(b) : n # 0 /\ Append(q, n) \in AllPaths
  BY <1>3, TreeAssumption
<1>5. ASSUME NEW n \in Keys(b) PROVE n \in Nat
  <2>1. PICK t : t = Append(q, n)
    OBVIOUS
  <2>2. t \in Seq(Nat) /\ q \in Seq(Nat)
    BY <1>3, <1>4, <1>5, <2>1, PathAssumption, EmptySeq DEF Keys
  <2>3. Len(t) = Len(q) + 1 /\ t[Len(q) + 1] = n /\ Len(q) + 1 \in 1..Len(t)
    <3>1. Len(q) \in Nat
      BY <2>2
    <3> QED
      BY <2>1, <2>2, <3>1
  <2> QED
    BY <2>2, <2>3, ElementOfSeq
<1>6. ASSUME NEW n \in Keys(b)
      PROVE  Listing(b)[n].hash = Child(b, n) /\ Child(b, n) # NoHash
  BY <1>4, <1>6 DEF Keys, Child, Children
<1> QED
  BY <1>4, <1>5, <1>6 DEF Keys, KindsAgree

\* A file, and the directories on the way to it.
LEMMA FileSteps ==
  ASSUME NEW h \in Trees, NEW p \in Seq(Nat), FileAt(h, p) # NoHash
  PROVE  /\ p \in AllPaths /\ Len(p) \in Nat \ {0}
         /\ FileAt(h, p) = Reached(h, p, Len(p)) /\ ~IsDirHash(Reached(h, p, Len(p)))
         /\ \A k \in 0..(Len(p) - 1) : /\ IsDirHash(Reached(h, p, k))
                                       /\ p[k + 1] \in Keys(Reached(h, p, k))
<1>1. /\ Resolve(h, p) # NoHash /\ ~IsDirHash(Resolve(h, p)) /\ FileAt(h, p) = Resolve(h, p)
      /\ Resolve(h, p) = Reached(h, p, Len(p))
  BY ReachedSteps DEF FileAt
<1>2. p # <<>> /\ Len(p) \in Nat
  <2>1. IsDirHash(h) /\ Resolve(h, <<>>) = h
    BY TreeAssumption, ResolveEmpty
  <2> QED
    BY <1>1, <2>1
<1>3. Len(p) # 0
  BY <1>2, EmptySeq
<1>4. p \in AllPaths
  <2>1. Len(p) \in 0..Len(p)
    BY <1>2
  <2>2. SubSeq(p, 1, Len(p)) \in AllPaths \union {<<>>}
    BY <1>1, <2>1, PathCovered
  <2>3. SubSeq(p, 1, Len(p)) = p
    <3>1. PICK q : q = SubSeq(p, 1, Len(p))
      OBVIOUS
    <3>2. q \in Seq(Nat) /\ Len(q) = Len(p) /\ \A j \in 1..Len(p) : q[j] = p[j]
      BY <1>2, <3>1, SubSeqProperties
    <3> QED
      BY <3>1, <3>2, SeqEqual
  <2> QED
    BY <1>2, <2>2, <2>3
<1>5. ASSUME NEW k \in 0..(Len(p) - 1)
      PROVE  IsDirHash(Reached(h, p, k)) /\ p[k + 1] \in Keys(Reached(h, p, k))
  <2>1. \A j \in 0..(Len(p) - 1) : IsDirHash(Reached(h, p, j))
    BY <1>1, ReachedDirs
  <2>2. Reached(h, p, k + 1) = Child(Reached(h, p, k), p[k + 1])
    BY ReachedStep
  <2>3. Reached(h, p, k + 1) # NoHash
    <3>1. k + 1 = Len(p) \/ k + 1 \in 0..(Len(p) - 1)
      BY <1>2
    <3> QED
      BY <1>1, <2>1, <3>1 DEF IsDirHash
  <2> QED
    BY <2>1, <2>2, <2>3 DEF Child, Keys
<1> QED
  BY <1>1, <1>2, <1>3, <1>4, <1>5

-----------------------------------------------------------------------------
(* An iterator                                                               *)

Blobs == {Resolve(h, p) : h \in Trees, p \in AllPaths \union {<<>>}}
Iter  == [dirs : Seq(Blobs), rest : Seq(SUBSET Nat), path : Seq(Nat),
          hash : Blobs \union {NoHash}]

\* The directories on its stack are those on the way to where it is, and what remains of
\* one comes after the name it is at.
OnWay(h, x) ==
  /\ Len(x.dirs) = Len(x.rest) /\ Len(x.path) = Len(x.rest)
  /\ \A i \in 1..Len(x.rest) :
       /\ x.dirs[i] = Reached(h, x.path, i - 1) /\ IsDirHash(x.dirs[i])
       /\ x.rest[i] \subseteq Keys(x.dirs[i])
       /\ \A n \in x.rest[i] : x.path[i] < n

\* p is in the directory i of the stack, or below it, under a name that remains there.
Under(x, i, p) ==
  i <= Len(p) /\ (\A j \in 1..(i - 1) : p[j] = x.path[j]) /\ p[i] \in x.rest[i]

\* The paths that an iterator is still to come to.
Ahead(x, p) == \E i \in 1..Len(x.rest) : Under(x, i, p)

FilesOf(h) == {p \in AllPaths : FileAt(h, p) # NoHash}

\* The sequences of an iterator.
LEMMA IterLens ==
  ASSUME NEW h, NEW x \in Iter, OnWay(h, x)
  PROVE  /\ Len(x.rest) \in Nat /\ DOMAIN x.rest = 1..Len(x.rest)
         /\ x.dirs \in Seq(Blobs) /\ x.rest \in Seq(SUBSET Nat) /\ x.path \in Seq(Nat)
         /\ DOMAIN x.dirs = 1..Len(x.rest) /\ DOMAIN x.path = 1..Len(x.rest)
         /\ Len(x.dirs) = Len(x.rest) /\ Len(x.path) = Len(x.rest)
<1>1. x.dirs \in Seq(Blobs) /\ x.rest \in Seq(SUBSET Nat) /\ x.path \in Seq(Nat)
  BY DEF Iter
<1>2. Len(x.dirs) = Len(x.rest) /\ Len(x.path) = Len(x.rest)
  BY DEF OnWay
<1> QED
  BY <1>1, <1>2, LenProperties

\* What an iterator is still to come to comes after where it is.
LEMMA AheadAfter ==
  ASSUME NEW h, NEW x \in Iter, OnWay(h, x), NEW p \in Seq(Nat), Ahead(x, p)
  PROVE  Before(x.path, p)
<1>1. PICK i \in 1..Len(x.rest) : Under(x, i, p)
  BY DEF Ahead
<1>2. /\ i \in Nat /\ 1 <= i /\ i <= Len(x.path) /\ i <= Len(p) /\ i <= Len(x.path) + 1
      /\ x.path[i] < p[i]
      /\ \A j \in 1..(i - 1) : x.path[j] = p[j]
  BY <1>1, IterLens DEF OnWay, Under
<1>3. i \in 1..Len(p)
  BY <1>2
<1> QED
  BY <1>2, <1>3, BeforeAt

\* A new iterator has the whole tree before it.
LEMMA OpenAhead ==
  ASSUME NEW h \in Trees, NEW x,
         x = [dirs |-> <<h>>, rest |-> <<Keys(h)>>, path |-> << 0 >>, hash |-> NoHash]
  PROVE  /\ x \in Iter /\ OnWay(h, x)
         /\ \A p \in FilesOf(h) : Ahead(x, p)
         /\ x.path \notin FilesOf(h)
<1>1. IsDirHash(h) /\ Resolve(h, <<>>) = h
  BY TreeAssumption, ResolveEmpty
<1>2. Reached(h, <<0>>, 0) = h
  <2>1. <<0>> \in Seq(Nat)
    OBVIOUS
  <2> QED
    BY <2>1, ReachedSteps
<1>3. Keys(h) \subseteq Nat \ {0}
  <2>1. <<0>> \in Seq(Nat) /\ 0 \in 0..Len(<<0>>)
    OBVIOUS
  <2> QED
    BY <1>1, <1>2, <2>1, TreeDirs
<1>4. x \in Iter
  <2>1. h \in Blobs
    BY <1>1 DEF Blobs
  <2> QED
    BY <1>3, <2>1 DEF Iter
<1>5. OnWay(h, x)
  BY <1>1, <1>2, <1>3 DEF OnWay
<1>6. ASSUME NEW p \in FilesOf(h) PROVE Ahead(x, p)
  <2>1. p \in Seq(Nat) /\ FileAt(h, p) # NoHash
    BY PathAssumption DEF FilesOf
  <2>2. Len(p) \in Nat \ {0} /\ 0 \in 0..(Len(p) - 1)
    BY <2>1, FileSteps
  <2>3. p[0 + 1] \in Keys(Reached(h, p, 0)) /\ Reached(h, p, 0) = h
    BY <2>1, <2>2, FileSteps, ReachedSteps
  <2>4. Under(x, 1, p)
    BY <2>2, <2>3 DEF Under
  <2> QED
    BY <2>4 DEF Ahead
<1>7. x.path \notin FilesOf(h)
  <2> SUFFICES ASSUME << 0 >> \in FilesOf(h) PROVE FALSE
    OBVIOUS
  <2>1. <<0>> \in Seq(Nat) /\ FileAt(h, <<0>>) # NoHash /\ 0 \in 0..(Len(<<0>>) - 1)
    BY DEF FilesOf
  <2>2. <<0>>[0 + 1] \in Keys(Reached(h, <<0>>, 0))
    BY <2>1, FileSteps
  <2> QED
    BY <1>2, <1>3, <2>2
<1> QED
  BY <1>4, <1>5, <1>6, <1>7

\* The next entry of the last directory: where it leads to.
Entering(h, x, n, path, rest) ==
  LET d == Len(x.rest)
  IN /\ x \in Iter /\ OnWay(h, x) /\ d > 0
     /\ n \in x.rest[d] /\ \A m \in x.rest[d] : n <= m
     /\ path = [x.path EXCEPT ![d] = n]
     /\ rest = [x.rest EXCEPT ![d] = @ \ {n}]

LEMMA EnterSeqs ==
  ASSUME NEW h \in Trees, NEW x, NEW n, NEW path, NEW rest, Entering(h, x, n, path, rest),
         NEW d, d = Len(x.rest)
  PROVE  /\ d \in Nat \ {0} /\ n \in Nat
         /\ path \in Seq(Nat) /\ Len(path) = d /\ path[d] = n
         /\ rest \in Seq(SUBSET Nat) /\ Len(rest) = d /\ rest[d] = x.rest[d] \ {n}
         /\ \A i \in 1..(d - 1) : path[i] = x.path[i] /\ rest[i] = x.rest[i]
         /\ \A m \in rest[d] : n < m
<1>1. x \in Iter /\ OnWay(h, x) /\ d > 0 /\ n \in x.rest[d] /\ \A m \in x.rest[d] : n <= m
  BY DEF Entering
<1>2. /\ d \in Nat /\ x.rest \in Seq(SUBSET Nat) /\ x.path \in Seq(Nat)
      /\ DOMAIN x.rest = 1..d /\ DOMAIN x.path = 1..d /\ Len(x.path) = d
  BY <1>1, IterLens
<1>3. d \in 1..d /\ x.rest[d] \subseteq Nat /\ n \in Nat
  BY <1>1, <1>2, ElementOfSeq
<1>4. path \in Seq(Nat) /\ Len(path) = d /\ path[d] = n
      /\ \A i \in 1..(d - 1) : path[i] = x.path[i]
  <2>1. path = [x.path EXCEPT ![d] = n]
    BY DEF Entering
  <2> QED
    BY <1>2, <1>3, <2>1
<1>5. /\ rest \in Seq(SUBSET Nat) /\ Len(rest) = d /\ rest[d] = x.rest[d] \ {n}
      /\ \A i \in 1..(d - 1) : rest[i] = x.rest[i]
  <2>1. rest = [x.rest EXCEPT ![d] = x.rest[d] \ {n}]
    BY DEF Entering
  <2> QED
    BY <1>2, <1>3, <2>1
<1>6. \A m \in rest[d] : n < m
  BY <1>1, <1>3, <1>5
<1> QED
  BY <1>1, <1>2, <1>3, <1>4, <1>5, <1>6

LEMMA EnterTree ==
  ASSUME NEW h \in Trees, NEW x, NEW n, NEW path, NEW rest, Entering(h, x, n, path, rest),
         NEW d, d = Len(x.rest), NEW e, e = Listing(x.dirs[d])[n]
  PROVE  /\ \A i \in 1..d : x.dirs[i] = Reached(h, path, i - 1)
         /\ \A i \in 1..d : \A m \in rest[i] : m \in x.rest[i] /\ path[i] < m
         /\ e.hash = Reached(h, path, d) /\ Resolve(h, path) = e.hash
         /\ e.hash # NoHash /\ e.hash \in Blobs
         /\ e.kind = "dir" <=> IsDirHash(e.hash)
<1>1. x \in Iter /\ OnWay(h, x) /\ n \in x.rest[d]
  BY DEF Entering
<1>2. /\ d \in Nat \ {0} /\ path \in Seq(Nat) /\ Len(path) = d /\ path[d] = n
      /\ \A i \in 1..(d - 1) : path[i] = x.path[i] /\ rest[i] = x.rest[i]
      /\ rest[d] = x.rest[d] \ {n} /\ \A m \in rest[d] : n < m
  BY EnterSeqs
<1>3. x.path \in Seq(Nat) /\ Len(x.path) = d
  BY <1>1, IterLens
<1>4. ASSUME NEW i \in 1..d PROVE x.dirs[i] = Reached(h, path, i - 1)
  <2>1. PICK m : m = d - 1
    OBVIOUS
  <2>2. /\ m \in Nat /\ m <= Len(x.path) /\ m <= Len(path) /\ i - 1 \in 0..m
        /\ \A j \in 1..m : x.path[j] = path[j]
    BY <1>2, <1>3, <2>1
  <2>3. Reached(h, x.path, i - 1) = Reached(h, path, i - 1)
    <3>1. PICK q : q = x.path
      OBVIOUS
    <3>2. /\ q \in Seq(Nat) /\ path \in Seq(Nat) /\ m \in Nat /\ m <= Len(q) /\ m <= Len(path)
          /\ \A j \in 1..m : q[j] = path[j]
      BY <1>2, <1>3, <2>2, <3>1
    <3>3. \A j \in 0..m : Reached(h, q, j) = Reached(h, path, j)
      BY ONLY <3>2, ReachedAgree
    <3> QED
      BY <2>2, <3>1, <3>3
  <2> QED
    BY <1>1, <2>3 DEF OnWay
<1>5. ASSUME NEW i \in 1..d, NEW m \in rest[i] PROVE m \in x.rest[i] /\ path[i] < m
  <2>1. CASE i = d
    BY <1>2, <1>5, <2>1
  <2>2. CASE i # d
    <3>1. i \in 1..(d - 1)
      BY <1>2, <2>2
    <3> QED
      BY <1>1, <1>2, <1>5, <3>1 DEF OnWay
  <2> QED
    BY <2>1, <2>2
<1>6. /\ d \in 1..d /\ d - 1 \in 0..Len(path) /\ d - 1 \in 0..(Len(path) - 1)
      /\ (d - 1) + 1 = d /\ d \in 0..Len(path)
  BY <1>2
<1>7. PICK b : b = x.dirs[d]
  OBVIOUS
<1>8. b = Reached(h, path, d - 1) /\ IsDirHash(b) /\ n \in Keys(b)
  BY <1>1, <1>4, <1>6, <1>7 DEF OnWay
<1>9. e.hash = Child(b, n) /\ e.hash # NoHash /\ (e.kind = "dir" <=> IsDirHash(e.hash))
  <2>1. e = Listing(b)[n]
    BY <1>7
  <2>2. /\ Listing(b)[n].hash = Child(b, n) /\ Child(b, n) # NoHash
        /\ Listing(b)[n].kind = "dir" <=> IsDirHash(Child(b, n))
    BY <1>2, <1>6, <1>8, TreeDirs
  <2> QED
    BY <2>1, <2>2
<1>10. e.hash = Reached(h, path, d)
  <2>1. PICK m : m = d - 1
    OBVIOUS
  <2>2. m \in 0..(Len(path) - 1) /\ m + 1 = d /\ path \in Seq(Nat)
    BY <1>2, <2>1
  <2>3. Reached(h, path, m + 1) = Child(Reached(h, path, m), path[m + 1])
    BY ONLY <2>2, ReachedStep
  <2> QED
    BY <1>2, <1>8, <1>9, <2>1, <2>2, <2>3
<1>11. Resolve(h, path) = e.hash
  BY <1>2, <1>10, ReachedSteps
<1>12. e.hash \in Blobs
  <2>1. PICK q : q = SubSeq(path, 1, d)
    OBVIOUS
  <2>2. q \in AllPaths \union {<<>>} /\ Resolve(h, q) = e.hash
    BY <1>2, <1>6, <1>9, <1>10, <2>1, PathCovered
  <2> QED
    BY <2>2 DEF Blobs
<1> QED
  BY <1>4, <1>5, <1>9, <1>10, <1>11, <1>12

\* An iterator that has come to path, or below it.
Within(y, d, path, rest) ==
  /\ Len(y.rest) \in Nat /\ Len(y.rest) >= d
  /\ \A i \in 1..d : y.rest[i] = rest[i] /\ y.path[i] = path[i]

\* What was ahead is still ahead, or under the entry.
LEMMA EnterAhead ==
  ASSUME NEW h \in Trees, NEW x, NEW n, NEW path, NEW rest, Entering(h, x, n, path, rest),
         NEW d, d = Len(x.rest), NEW y, NEW p, Within(y, d, path, rest)
  PROVE  Ahead(x, p) <=> \/ \E i \in 1..d : Under(y, i, p)
                         \/ d <= Len(p) /\ \A j \in 1..d : p[j] = path[j]
<1>1. /\ d \in Nat \ {0} /\ path[d] = n /\ rest[d] = x.rest[d] \ {n} /\ n \in x.rest[d]
      /\ \A i \in 1..(d - 1) : path[i] = x.path[i] /\ rest[i] = x.rest[i]
      /\ \A i \in 1..d : y.rest[i] = rest[i] /\ y.path[i] = path[i]
  <2>1. h \in Trees /\ Entering(h, x, n, path, rest) /\ d = Len(x.rest)
    OBVIOUS
  <2>2. /\ d \in Nat \ {0} /\ path[d] = n /\ rest[d] = x.rest[d] \ {n}
        /\ \A i \in 1..(d - 1) : path[i] = x.path[i] /\ rest[i] = x.rest[i]
    BY ONLY <2>1, EnterSeqs
  <2>3. n \in x.rest[d]
    BY DEF Entering
  <2> QED
    BY <2>2, <2>3 DEF Within
<1>2. ASSUME NEW i \in 1..(d - 1)
      PROVE  Under(x, i, p) <=> Under(y, i, p)
  <2>1. i \in 1..d /\ \A j \in 1..(i - 1) : j \in 1..(d - 1) /\ j \in 1..d
    BY <1>1
  <2>2. y.rest[i] = x.rest[i] /\ \A j \in 1..(i - 1) : y.path[j] = x.path[j]
    BY <1>1, <2>1
  <2> QED
    BY <2>2 DEF Under
<1>3. Under(x, d, p) <=> \/ Under(y, d, p)
                         \/ d <= Len(p) /\ \A j \in 1..d : p[j] = path[j]
  <2>1. (\A j \in 1..(d - 1) : p[j] = x.path[j]) <=> (\A j \in 1..(d - 1) : p[j] = y.path[j])
    BY <1>1
  <2>2. (\A j \in 1..d : p[j] = path[j]) <=> (p[d] = n /\ \A j \in 1..(d - 1) : p[j] = y.path[j])
    <3>1. \A j \in 1..d : j = d \/ j \in 1..(d - 1)
      BY <1>1
    <3>2. d \in 1..d /\ \A j \in 1..(d - 1) : j \in 1..d
      BY <1>1
    <3> QED
      BY <1>1, <3>1, <3>2
  <2>3. p[d] \in x.rest[d] <=> p[d] \in y.rest[d] \/ p[d] = n
    BY <1>1
  <2> QED
    BY <2>1, <2>2, <2>3 DEF Under
<1>4. \A i : i \in 1..d <=> i \in 1..(d - 1) \/ i = d
  BY <1>1
<1> QED
  BY <1>2, <1>3, <1>4 DEF Ahead

\* A file that a path leads to is at its end.
LEMMA FileEnds ==
  ASSUME NEW h \in Trees, NEW p \in FilesOf(h), NEW path \in Seq(Nat), NEW d \in Nat,
         d = Len(path), d <= Len(p), \A j \in 1..d : p[j] = path[j]
  PROVE  /\ ~IsDirHash(Reached(h, path, d)) => p = path
         /\ IsDirHash(Reached(h, path, d)) => d + 1 <= Len(p) /\ p[d + 1] \in Keys(Reached(h, path, d))
<1>1. p \in Seq(Nat) /\ FileAt(h, p) # NoHash
  BY PathAssumption DEF FilesOf
<1>2. /\ Len(p) \in Nat /\ ~IsDirHash(Reached(h, p, Len(p)))
      /\ \A k \in 0..(Len(p) - 1) : /\ IsDirHash(Reached(h, p, k))
                                    /\ p[k + 1] \in Keys(Reached(h, p, k))
  BY <1>1, FileSteps
<1>3. Reached(h, p, d) = Reached(h, path, d)
  <2>1. d \in 0..d /\ d <= Len(path)
    OBVIOUS
  <2>2. \A i \in 0..d : Reached(h, p, i) = Reached(h, path, i)
    BY <1>1, <2>1, ReachedAgree
  <2> QED
    BY <2>1, <2>2
<1>4. CASE Len(p) = d
  <2>1. p = path
    BY <1>1, <1>4, SeqEqual
  <2> QED
    BY <1>2, <1>3, <1>4, <2>1
<1>5. CASE Len(p) # d
  <2>1. d \in 0..(Len(p) - 1) /\ d + 1 <= Len(p)
    BY <1>2, <1>5
  <2> QED
    BY <1>2, <1>3, <2>1
<1> QED
  BY <1>4, <1>5

\* next stops at a file, which alone is no longer ahead.
LEMMA EnterFile ==
  ASSUME NEW h \in Trees, NEW x, NEW n, NEW path, NEW rest, Entering(h, x, n, path, rest),
         NEW d, d = Len(x.rest), NEW e, e = Listing(x.dirs[d])[n], e.kind = "file",
         NEW y, y = [dirs |-> x.dirs, rest |-> rest, path |-> path, hash |-> e.hash]
  PROVE  /\ y \in Iter /\ OnWay(h, y)
         /\ y.path \in FilesOf(h) /\ FileAt(h, y.path) = y.hash /\ y.hash # NoHash
         /\ \A p \in FilesOf(h) : Ahead(x, p) <=> Ahead(y, p) \/ p = y.path
<1>1. /\ d \in Nat \ {0} /\ path \in Seq(Nat) /\ Len(path) = d
      /\ rest \in Seq(SUBSET Nat) /\ Len(rest) = d
  BY EnterSeqs
<1>2. /\ \A i \in 1..d : x.dirs[i] = Reached(h, path, i - 1)
      /\ \A i \in 1..d : \A m \in rest[i] : m \in x.rest[i] /\ path[i] < m
      /\ e.hash = Reached(h, path, d) /\ Resolve(h, path) = e.hash
      /\ e.hash # NoHash /\ e.hash \in Blobs /\ ~IsDirHash(e.hash)
  BY EnterTree
<1>3. x \in Iter /\ OnWay(h, x)
  BY DEF Entering
<1>4. x.dirs \in Seq(Blobs) /\ Len(x.dirs) = d
  BY <1>3, IterLens
<1>5. y \in Iter
  BY <1>1, <1>2, <1>4 DEF Iter
<1>6. OnWay(h, y)
  <2>1. ASSUME NEW i \in 1..d
        PROVE  IsDirHash(x.dirs[i]) /\ rest[i] \subseteq Keys(x.dirs[i])
    BY <1>2, <1>3 DEF OnWay
  <2> QED
    BY <1>1, <1>2, <1>4, <2>1 DEF OnWay
<1>7. FileAt(h, path) = e.hash
  BY <1>2 DEF FileAt
<1>8. path \in FilesOf(h)
  BY <1>1, <1>2, <1>7, FileSteps DEF FilesOf
<1>9. ASSUME NEW p \in FilesOf(h) PROVE Ahead(x, p) <=> Ahead(y, p) \/ p = path
  <2>1. Len(y.rest) = d /\ Len(y.rest) \in Nat /\ Len(y.rest) >= d
        /\ \A i \in 1..d : y.rest[i] = rest[i] /\ y.path[i] = path[i]
    BY <1>1
  <2>2. Ahead(x, p) <=> \/ \E i \in 1..d : Under(y, i, p)
                        \/ d <= Len(p) /\ \A j \in 1..d : p[j] = path[j]
    <3>1. h \in Trees /\ Entering(h, x, n, path, rest) /\ d = Len(x.rest)
      OBVIOUS
    <3>2. Within(y, d, path, rest)
      BY <2>1 DEF Within
    <3> QED
      BY ONLY <3>1, <3>2, EnterAhead
  <2>3. d <= Len(p) /\ (\A j \in 1..d : p[j] = path[j]) => p = path
    BY <1>1, <1>2, FileEnds
  <2>4. p = path => d <= Len(p) /\ \A j \in 1..d : p[j] = path[j]
    BY <1>1
  <2>5. Ahead(y, p) <=> \E i \in 1..d : Under(y, i, p)
    BY <2>1 DEF Ahead
  <2> QED
    BY <2>2, <2>3, <2>4, <2>5
<1> QED
  BY <1>2, <1>5, <1>6, <1>7, <1>8, <1>9

\* The iterator in the directory e.
Inside(y, x, path, rest, e) ==
  y = [dirs |-> Append(x.dirs, e.hash), rest |-> Append(rest, Keys(e.hash)),
       path |-> Append(path, 0), hash |-> NoHash]

\* next goes into a directory: the files ahead are the same.
LEMMA EnterDir ==
  ASSUME NEW h \in Trees, NEW x, NEW n, NEW path, NEW rest, Entering(h, x, n, path, rest),
         NEW d, d = Len(x.rest), NEW e, e = Listing(x.dirs[d])[n], IsDirHash(e.hash),
         NEW y, Inside(y, x, path, rest, e)
  PROVE  /\ y \in Iter /\ OnWay(h, y)
         /\ \A p \in FilesOf(h) : Ahead(x, p) <=> Ahead(y, p)
<1> USE DEF Inside
<1>1. /\ d \in Nat \ {0} /\ path \in Seq(Nat) /\ Len(path) = d
      /\ rest \in Seq(SUBSET Nat) /\ Len(rest) = d
  BY EnterSeqs
<1>2. /\ \A i \in 1..d : x.dirs[i] = Reached(h, path, i - 1)
      /\ \A i \in 1..d : \A m \in rest[i] : m \in x.rest[i] /\ path[i] < m
      /\ e.hash = Reached(h, path, d) /\ e.hash \in Blobs
  <2>1. h \in Trees /\ Entering(h, x, n, path, rest) /\ d = Len(x.rest)
        /\ e = Listing(x.dirs[d])[n]
    OBVIOUS
  <2> QED
    BY ONLY <2>1, EnterTree
<1>3. x \in Iter /\ OnWay(h, x)
  BY DEF Entering
<1>4. x.dirs \in Seq(Blobs) /\ Len(x.dirs) = d
  BY <1>3, IterLens
<1>5. Keys(e.hash) \subseteq Nat \ {0}
  <2>1. d \in 0..Len(path)
    BY <1>1
  <2> QED
    BY <1>1, <1>2, <2>1, TreeDirs
<1>6. /\ y.dirs \in Seq(Blobs) /\ Len(y.dirs) = d + 1
      /\ y.dirs[d + 1] = e.hash /\ \A i \in 1..d : y.dirs[i] = x.dirs[i]
  BY <1>1, <1>2, <1>4
<1>7. /\ y.rest \in Seq(SUBSET Nat) /\ Len(y.rest) = d + 1
      /\ y.rest[d + 1] = Keys(e.hash) /\ \A i \in 1..d : y.rest[i] = rest[i]
  <2>1. Keys(e.hash) \in SUBSET Nat
    BY <1>5
  <2>2. PICK s : s = Append(rest, Keys(e.hash))
    OBVIOUS
  <2>3. /\ s \in Seq(SUBSET Nat) /\ Len(s) = d + 1 /\ s[d + 1] = Keys(e.hash)
        /\ \A i \in 1..d : s[i] = rest[i]
    BY <1>1, <2>1, <2>2, AppendProperties
  <2> QED
    BY <2>2, <2>3
<1>8. /\ y.path \in Seq(Nat) /\ Len(y.path) = d + 1
      /\ y.path[d + 1] = 0 /\ \A i \in 1..d : y.path[i] = path[i]
  <2>1. PICK s : s = Append(path, 0)
    OBVIOUS
  <2>2. s \in Seq(Nat) /\ Len(s) = d + 1 /\ s[d + 1] = 0 /\ \A i \in 1..d : s[i] = path[i]
    BY <1>1, <2>1, AppendProperties
  <2> QED
    BY <2>1, <2>2
<1>9. y \in Iter
  <2>1. y = [dirs |-> y.dirs, rest |-> y.rest, path |-> y.path, hash |-> y.hash]
        /\ y.hash = NoHash
    OBVIOUS
  <2> QED
    BY <1>6, <1>7, <1>8, <2>1 DEF Iter
<1> HIDE DEF Inside
<1>10. \A i \in 0..d : Reached(h, y.path, i) = Reached(h, path, i)
  <2>1. PICK q : q = y.path
    OBVIOUS
  <2>2. /\ q \in Seq(Nat) /\ path \in Seq(Nat) /\ d \in Nat /\ d <= Len(q) /\ d <= Len(path)
        /\ \A j \in 1..d : q[j] = path[j]
    BY <1>1, <1>8, <2>1
  <2>3. \A i \in 0..d : Reached(h, q, i) = Reached(h, path, i)
    BY ONLY <2>2, ReachedAgree
  <2> QED
    BY <2>1, <2>3
<1>11. ASSUME NEW i \in 1..(d + 1)
       PROVE  /\ y.dirs[i] = Reached(h, y.path, i - 1) /\ IsDirHash(y.dirs[i])
              /\ y.rest[i] \subseteq Keys(y.dirs[i])
              /\ \A m \in y.rest[i] : y.path[i] < m
  <2>1. CASE i = d + 1
    <3>1. Reached(h, y.path, d) = e.hash /\ i - 1 = d
      BY <1>1, <1>2, <1>10, <2>1
    <3>2. \A m \in Keys(e.hash) : 0 < m
      BY <1>5
    <3> QED
      BY <1>6, <1>7, <1>8, <2>1, <3>1, <3>2
  <2>2. CASE i # d + 1
    <3>1. i \in 1..d /\ i - 1 \in 0..d
      BY <1>1, <2>2
    <3>2. IsDirHash(x.dirs[i]) /\ rest[i] \subseteq Keys(x.dirs[i])
      BY <1>2, <1>3, <3>1 DEF OnWay
    <3>3. y.dirs[i] = Reached(h, y.path, i - 1) /\ \A m \in y.rest[i] : y.path[i] < m
      BY <1>2, <1>6, <1>7, <1>8, <1>10, <3>1
    <3> QED
      BY <1>6, <1>7, <3>1, <3>2, <3>3
  <2> QED
    BY ONLY <2>1, <2>2
<1>12. OnWay(h, y)
  BY <1>6, <1>7, <1>8, <1>11 DEF OnWay
<1>13. ASSUME NEW p \in FilesOf(h) PROVE Ahead(x, p) <=> Ahead(y, p)
  <2>1. /\ Len(y.rest) \in Nat /\ Len(y.rest) >= d
        /\ \A i \in 1..d : y.rest[i] = rest[i] /\ y.path[i] = path[i]
    BY <1>1, <1>7, <1>8
  <2>2. Ahead(x, p) <=> \/ \E i \in 1..d : Under(y, i, p)
                        \/ d <= Len(p) /\ \A j \in 1..d : p[j] = path[j]
    <3>1. h \in Trees /\ Entering(h, x, n, path, rest) /\ d = Len(x.rest)
      OBVIOUS
    <3>2. Within(y, d, path, rest)
      BY <2>1 DEF Within
    <3> QED
      BY ONLY <3>1, <3>2, EnterAhead
  <2>3. Under(y, d + 1, p) <=> d <= Len(p) /\ \A j \in 1..d : p[j] = path[j]
    <3>1. Len(p) \in Nat
      BY PathAssumption DEF FilesOf
    <3>2. Under(y, d + 1, p) <=> /\ d + 1 <= Len(p) /\ p[d + 1] \in Keys(e.hash)
                                 /\ \A j \in 1..d : p[j] = path[j]
      <4>1. (d + 1) - 1 = d /\ y.rest[d + 1] = Keys(e.hash)
            /\ \A j \in 1..d : y.path[j] = path[j]
        BY <1>1, <1>7, <1>8
      <4> QED
        BY <4>1 DEF Under
    <3>3. ASSUME d <= Len(p), \A j \in 1..d : p[j] = path[j]
          PROVE  d + 1 <= Len(p) /\ p[d + 1] \in Keys(e.hash)
      BY <1>1, <1>2, <3>3, FileEnds
    <3>4. d + 1 <= Len(p) => d <= Len(p)
      BY <1>1, <3>1
    <3> QED
      BY <3>2, <3>3, <3>4
  <2>4. \A i : i \in 1..(d + 1) <=> i \in 1..d \/ i = d + 1
    BY <1>1
  <2>5. Ahead(y, p) <=> (\E i \in 1..d : Under(y, i, p)) \/ Under(y, d + 1, p)
    BY <1>7, <2>4 DEF Ahead
  <2> QED
    BY <2>2, <2>3, <2>5
<1> QED
  BY <1>9, <1>12, <1>13

\* next leaves a directory without remaining entries: what is ahead is the same.
LEMMA LeaveDir ==
  ASSUME NEW h \in Trees, NEW x \in Iter, OnWay(h, x), Len(x.rest) > 0, Last(x.rest) = {},
         NEW y, y = [dirs |-> Front(x.dirs), rest |-> Front(x.rest),
                     path |-> Front(x.path), hash |-> NoHash]
  PROVE  /\ y \in Iter /\ OnWay(h, y)
         /\ \A p : Ahead(x, p) <=> Ahead(y, p)
<1>1. PICK d : d = Len(x.rest)
  OBVIOUS
<1>2. /\ d \in Nat \ {0} /\ x.rest[d] = {}
      /\ x.dirs \in Seq(Blobs) /\ x.rest \in Seq(SUBSET Nat) /\ x.path \in Seq(Nat)
      /\ Len(x.dirs) = d /\ Len(x.path) = d /\ Len(x.rest) = d
  BY <1>1, IterLens DEF Last
<1>3. PICK c : c = d - 1
  OBVIOUS
<1>4. c \in Nat /\ d = c + 1
  BY <1>2, <1>3
<1>5. /\ y.dirs \in Seq(Blobs) /\ Len(y.dirs) = c /\ \A i \in 1..c : y.dirs[i] = x.dirs[i]
      /\ y.rest \in Seq(SUBSET Nat) /\ Len(y.rest) = c /\ \A i \in 1..c : y.rest[i] = x.rest[i]
      /\ y.path \in Seq(Nat) /\ Len(y.path) = c /\ \A i \in 1..c : y.path[i] = x.path[i]
  <2>1. ASSUME NEW S, NEW s \in Seq(S), Len(s) = d
        PROVE  Front(s) \in Seq(S) /\ Len(Front(s)) = c /\ \A i \in 1..c : Front(s)[i] = s[i]
    <3>1. Front(s) = SubSeq(s, 1, c)
      BY <1>3, <2>1 DEF Front
    <3>2. PICK t : t = SubSeq(s, 1, c)
      OBVIOUS
    <3>3. 1 \in 1..(Len(s) + 1) /\ c \in 0..Len(s)
      BY <1>4, <2>1
    <3>4. t \in Seq(S) /\ Len(t) = c /\ \A i \in 1..c : t[i] = s[i]
      BY <1>4, <2>1, <3>2, <3>3, SubSeqProperties
    <3> QED
      BY <3>1, <3>2, <3>4
  <2> QED
    BY <1>2, <2>1
<1>6. y \in Iter
  <2>1. y = [dirs |-> y.dirs, rest |-> y.rest, path |-> y.path, hash |-> y.hash]
        /\ y.hash = NoHash
    OBVIOUS
  <2> QED
    BY <1>5, <2>1 DEF Iter
<1>7. \A i \in 0..c : Reached(h, y.path, i) = Reached(h, x.path, i)
  <2>1. PICK q, r : q = y.path /\ r = x.path
    OBVIOUS
  <2>2. /\ q \in Seq(Nat) /\ r \in Seq(Nat) /\ c \in Nat /\ c <= Len(q) /\ c <= Len(r)
        /\ \A j \in 1..c : q[j] = r[j]
    BY <1>2, <1>4, <1>5, <2>1
  <2>3. \A i \in 0..c : Reached(h, q, i) = Reached(h, r, i)
    BY ONLY <2>2, ReachedAgree
  <2> QED
    BY <2>1, <2>3
<1>8. ASSUME NEW i \in 1..c
      PROVE  /\ y.dirs[i] = Reached(h, y.path, i - 1) /\ IsDirHash(y.dirs[i])
             /\ y.rest[i] \subseteq Keys(y.dirs[i])
             /\ \A m \in y.rest[i] : y.path[i] < m
  <2>1. i \in 1..Len(x.rest) /\ i - 1 \in 0..c
    BY <1>2, <1>4
  <2>2. /\ x.dirs[i] = Reached(h, x.path, i - 1) /\ IsDirHash(x.dirs[i])
        /\ x.rest[i] \subseteq Keys(x.dirs[i])
        /\ \A m \in x.rest[i] : x.path[i] < m
    BY <2>1 DEF OnWay
  <2> QED
    BY <1>5, <1>7, <2>1, <2>2
<1>9. OnWay(h, y)
  BY <1>5, <1>8 DEF OnWay
<1>10. ASSUME NEW p PROVE Ahead(x, p) <=> Ahead(y, p)
  <2>1. ASSUME NEW i \in 1..c PROVE Under(x, i, p) <=> Under(y, i, p)
    <3>1. \A j \in 1..(i - 1) : j \in 1..c
      BY <1>4
    <3>2. y.rest[i] = x.rest[i] /\ \A j \in 1..(i - 1) : y.path[j] = x.path[j]
      BY <1>5, <3>1
    <3> QED
      BY <3>2 DEF Under
  <2>2. ~Under(x, d, p)
    BY <1>2 DEF Under
  <2>3. \A i : i \in 1..d <=> i \in 1..c \/ i = d
    BY <1>4
  <2> QED
    BY <1>2, <1>5, <2>1, <2>2, <2>3 DEF Ahead
<1> QED
  BY <1>6, <1>9, <1>10

-----------------------------------------------------------------------------
(* The merge of the two walks                                                *)

\* What the report should say of p.
EntryOf(rs, p) ==
  LET h1 == FileAt(rs[1], p)
      h2 == FileAt(rs[2], p)
  IN Entry(IF h1 = NoHash THEN "added" ELSE IF h2 = NoHash THEN "deleted" ELSE "changed",
           p, h1, h2)

Differ(rs, p) == FileAt(rs[1], p) # FileAt(rs[2], p)
Due(rs)       == {EntryOf(rs, p) : p \in {q \in AllPaths : Differ(rs, q)}}

\* The report r lacks only files that are still to be compared, P[k] those of tree k,
\* and they come after all that have been.
Merged(rs, r, P) ==
  /\ r \in Seq(Due(rs))
  /\ \A i, j \in 1..Len(r) : i < j => Before(r[i].path, r[j].path)
  /\ \A k \in 1..2 : P[k] \subseteq FilesOf(rs[k])
  /\ \A k, l \in 1..2 : \A p \in FilesOf(rs[k]) \ P[k], q \in P[l] : Before(p, q)
  /\ \A i \in 1..Len(r), k \in 1..2 : \A q \in P[k] : Before(r[i].path, q)
  /\ \A k \in 1..2 : \A p \in FilesOf(rs[k]) \ P[k] :
       Differ(rs, p) => \E i \in 1..Len(r) : r[i] = EntryOf(rs, p)

\* At first all files are to be compared.
LEMMA MergedFirst ==
  ASSUME NEW rs, NEW P, \A k \in 1..2 : P[k] = FilesOf(rs[k])
  PROVE  Merged(rs, <<>>, P)
<1>1. <<>> \in Seq(Due(rs)) /\ 1..Len(<<>>) = {}
  OBVIOUS
<1> QED
  BY <1>1 DEF Merged

\* The first file that is to be compared is, and the report gets its entry.
LEMMA MergedNext ==
  ASSUME NEW rs, NEW r, NEW P, Merged(rs, r, P), NEW c, NEW Q, NEW s,
         c \in P[1] \/ c \in P[2],
         \A k \in 1..2 : Q[k] = P[k] \ {c} /\ \A q \in Q[k] : Before(c, q),
         s = IF Differ(rs, c) THEN Append(r, EntryOf(rs, c)) ELSE r
  PROVE  Merged(rs, s, Q)
<1>1. /\ r \in Seq(Due(rs)) /\ Len(r) \in Nat
      /\ \A i, j \in 1..Len(r) : i < j => Before(r[i].path, r[j].path)
      /\ \A k \in 1..2 : P[k] \subseteq FilesOf(rs[k])
  BY DEF Merged
<1>2. c \in AllPaths
  BY <1>1 DEF FilesOf
<1>3. PICK n : n = Len(r)
  OBVIOUS
<1>4. /\ s \in Seq(Due(rs)) /\ Len(s) \in Nat
      /\ \A i \in 1..n : i \in 1..Len(s) /\ s[i] = r[i]
      /\ \A i \in 1..Len(s) : i \in 1..n \/ (i = n + 1 /\ s[i] = EntryOf(rs, c))
      /\ Differ(rs, c) => Len(s) = n + 1 /\ s[n + 1] = EntryOf(rs, c)
  <2>1. CASE Differ(rs, c)
    <3>1. PICK e : e = EntryOf(rs, c)
      OBVIOUS
    <3>2. e \in Due(rs)
      BY <1>2, <2>1, <3>1 DEF Due
    <3>3. s = Append(r, e)
      BY <2>1, <3>1
    <3>4. /\ s \in Seq(Due(rs)) /\ Len(s) = n + 1 /\ s[n + 1] = e
          /\ \A i \in 1..n : s[i] = r[i]
      BY <1>1, <1>3, <3>2, <3>3, AppendProperties
    <3> QED
      BY <1>1, <1>3, <2>1, <3>1, <3>4
  <2>2. CASE ~Differ(rs, c)
    BY <1>1, <1>3, <2>2
  <2> QED
    BY <2>1, <2>2
<1>5. EntryOf(rs, c).path = c
  BY DEF EntryOf, Entry
<1>6. ASSUME NEW i \in 1..Len(s), NEW j \in 1..Len(s), i < j
      PROVE  Before(s[i].path, s[j].path)
  <2>1. i \in 1..n
    BY <1>1, <1>3, <1>4, <1>6
  <2>2. CASE j \in 1..n
    BY <1>1, <1>3, <1>4, <1>6, <2>1, <2>2
  <2>3. CASE j = n + 1 /\ s[j] = EntryOf(rs, c)
    <3>1. Before(r[i].path, c)
      BY <1>3, <2>1 DEF Merged
    <3> QED
      BY <1>4, <1>5, <2>1, <2>3, <3>1
  <2> QED
    BY <1>4, <2>2, <2>3
<1>7. ASSUME NEW k \in 1..2, NEW p \in FilesOf(rs[k]) \ Q[k]
      PROVE  p = c \/ p \in FilesOf(rs[k]) \ P[k]
  BY <1>7
<1>8. ASSUME NEW k \in 1..2, NEW l \in 1..2, NEW p \in FilesOf(rs[k]) \ Q[k], NEW q \in Q[l]
      PROVE  Before(p, q)
  <2>1. CASE p = c
    BY <2>1
  <2>2. CASE p \in FilesOf(rs[k]) \ P[k]
    BY <2>2 DEF Merged
  <2> QED
    BY <1>7, <2>1, <2>2
<1>9. ASSUME NEW i \in 1..Len(s), NEW k \in 1..2, NEW q \in Q[k]
      PROVE  Before(s[i].path, q)
  <2>1. CASE i \in 1..n
    BY <1>3, <1>4, <2>1 DEF Merged
  <2>2. CASE s[i] = EntryOf(rs, c)
    BY <1>5, <2>2
  <2> QED
    BY <1>4, <2>1, <2>2
<1>10. ASSUME NEW k \in 1..2, NEW p \in FilesOf(rs[k]) \ Q[k], Differ(rs, p)
       PROVE  \E i \in 1..Len(s) : s[i] = EntryOf(rs, p)
  <2>1. CASE p = c
    <3>1. n + 1 \in 1..Len(s) /\ s[n + 1] = EntryOf(rs, p)
      BY <1>1, <1>3, <1>4, <1>10, <2>1
    <3> QED
      BY <3>1
  <2>2. CASE p \in FilesOf(rs[k]) \ P[k]
    <3>1. PICK i \in 1..n : r[i] = EntryOf(rs, p)
      BY <1>3, <1>10, <2>2 DEF Merged
    <3> QED
      BY <1>4, <3>1
  <2> QED
    BY <1>7, <2>1, <2>2
<1>11. \A k \in 1..2 : Q[k] \subseteq FilesOf(rs[k])
  BY <1>1
<1> QED
  BY <1>4, <1>6, <1>8, <1>9, <1>10, <1>11 DEF Merged

-----------------------------------------------------------------------------
(* The files that an iterator is still to come to, and those with the one it is at *)

ToCome(h, x) == {p \in FilesOf(h) : Ahead(x, p)}
FromHere(h, x) == {p \in FilesOf(h) : Ahead(x, p) \/ p = x.path}

LEMMA HereFirst ==
  ASSUME NEW h, NEW x \in Iter, OnWay(h, x)
  PROVE  /\ ToCome(h, x) = FromHere(h, x) \ {x.path}
         /\ \A p \in ToCome(h, x) : Before(x.path, p)
<1>1. ASSUME NEW p \in ToCome(h, x) PROVE Before(x.path, p)
  <2>1. p \in Seq(Nat) /\ Ahead(x, p)
    BY PathAssumption DEF ToCome, FilesOf
  <2> QED
    BY <2>1, AheadAfter
<1>2. x.path \notin ToCome(h, x)
  <2>1. x.path \in Seq(Nat)
    BY DEF Iter
  <2> QED
    BY <1>1, <2>1, BeforeIrreflexive
<1>3. ToCome(h, x) = FromHere(h, x) \ {x.path}
  BY <1>2 DEF ToCome, FromHere
<1> QED
  BY <1>1, <1>3

\* An iterator at its end has no file before it.
LEMMA EndedEmpty ==
  ASSUME NEW h \in Trees, NEW x \in Iter, OnWay(h, x), x.path = <<>> \/ Len(x.rest) = 0
  PROVE  ToCome(h, x) = {} /\ FromHere(h, x) = {} /\ x.path = <<>> /\ Len(x.rest) = 0
<1>1. x.path = <<>> /\ Len(x.rest) = 0
  <2>1. x.path \in Seq(Nat) /\ Len(x.path) = Len(x.rest)
    BY IterLens
  <2> QED
    BY <2>1, EmptySeq
<1>2. \A p : ~Ahead(x, p)
  BY <1>1 DEF Ahead
<1>3. <<>> \notin FilesOf(h)
  <2> SUFFICES ASSUME <<>> \in FilesOf(h) PROVE FALSE
    OBVIOUS
  <2>1. <<>> \in Seq(Nat) /\ FileAt(h, <<>>) # NoHash
    BY DEF FilesOf
  <2>2. Len(<<>>) # 0
    BY <2>1, FileSteps
  <2> QED
    BY <2>2
<1> QED
  BY <1>1, <1>2, <1>3 DEF ToCome, FromHere

-----------------------------------------------------------------------------
(* The inductive invariant                                                   *)

Turns    == {<<>>, <<1>>, <<2>>, <<1, 2>>}
In(k, t) == t \in {<<k>>, <<1, 2>>}
Moved(k) == at = "next" /\ In(k, todo)

\* The files of the trees that are still to be compared.
Pend == [k \in 1..2 |-> IF Moved(k) THEN ToCome(roots[k], it[k]) ELSE FromHere(roots[k], it[k])]

AtFile(h, x)  == x.path # <<>> => x.hash # NoHash /\ x.hash = FileAt(h, x.path)
AtStart(h, x) == x.path = <<0>> /\ x.hash = NoHash /\ FilesOf(h) = ToCome(h, x)
Ordered(rs, r) ==
  r \in Seq(Due(rs)) /\ \A i, j \in 1..Len(r) : i < j => Before(r[i].path, r[j].path)

Types ==
  /\ roots \in [1..2 -> Trees] /\ it \in [1..2 -> Iter] /\ todo \in Turns /\ eof \subseteq 1..2
  /\ at \in {"open", "compare", "next", "done", "failed"}
  /\ \A k \in 1..2 : OnWay(roots[k], it[k])
  /\ Ordered(roots, report)

\* Where the iterators are.
Place ==
  /\ at = "open" =>
       /\ report = <<>>
       /\ todo = <<1, 2>> \/ (todo = <<2>> /\ AtStart(roots[1], it[1]))
  /\ at = "compare" =>
       /\ todo = <<>>
       /\ \/ \A k \in 1..2 : AtStart(roots[k], it[k])
          \/ \A k \in 1..2 : AtFile(roots[k], it[k])
  /\ at = "next" =>
       /\ todo # <<>>
       /\ \A k \in 1..2 : /\ ~In(k, todo) => AtFile(roots[k], it[k])
                          /\ k \in eof => ~In(k, todo) /\ Len(it[k].rest) = 0
  /\ at = "done" => \A k \in 1..2 : Len(it[k].rest) = 0
  /\ at = "failed" => gone # {}

IInv ==
  /\ Types /\ Place
  /\ at \in {"compare", "next", "done"} => Merged(roots, report, Pend)

LEMMA MergedOrdered ==
  ASSUME NEW rs, NEW r, NEW P, Merged(rs, r, P)
  PROVE  Ordered(rs, r)
BY DEF Merged, Ordered

LEMMA TurnCases ==
  /\ <<1>> # <<>> /\ <<2>> # <<>> /\ <<1, 2>> # <<>> /\ <<1>> # <<2>>
  /\ <<1>> # <<1, 2>> /\ <<2>> # <<1, 2>>
  /\ Head(<<1>>) = 1 /\ Head(<<2>>) = 2 /\ Head(<<1, 2>>) = 1
  /\ Tail(<<1>>) = <<>> /\ Tail(<<2>>) = <<>> /\ Tail(<<1, 2>>) = <<2>>
<1>1. Len(<<>>) = 0 /\ Len(<<1>>) = 1 /\ Len(<<2>>) = 1 /\ Len(<<1, 2>>) = 2
  OBVIOUS
<1>2. <<1>> # <<>> /\ <<2>> # <<>> /\ <<1, 2>> # <<>> /\ <<1>> # <<1, 2>> /\ <<2>> # <<1, 2>>
  BY <1>1
<1>3. <<1>> # <<2>>
  OBVIOUS
<1>4. Head(<<1>>) = 1 /\ Head(<<2>>) = 2 /\ Head(<<1, 2>>) = 1
  OBVIOUS
<1>5. Tail(<<1>>) = <<>> /\ Tail(<<2>>) = <<>> /\ Tail(<<1, 2>>) = <<2>>
  OBVIOUS
<1> QED
  BY <1>2, <1>3, <1>4, <1>5

\* The turns of a round.
LEMMA TurnSteps ==
  ASSUME NEW t \in Turns, t # <<>>, NEW k, k = Head(t)
  PROVE  /\ k \in 1..2 /\ Tail(t) \in Turns
         /\ In(k, t) /\ ~In(k, Tail(t))
         /\ \A l \in 1..2 : l # k => (In(l, t) <=> In(l, Tail(t)))
         /\ \A l \in 1..2 : ~In(l, <<>>)
<1>1. \A l \in 1..2 : l = 1 \/ l = 2
  OBVIOUS
<1>2. CASE t = <<1>>
  BY <1>1, <1>2, TurnCases DEF In, Turns
<1>3. CASE t = <<2>>
  BY <1>1, <1>3, TurnCases DEF In, Turns
<1>4. CASE t = <<1, 2>>
  BY <1>1, <1>4, TurnCases DEF In, Turns
<1> QED
  BY <1>2, <1>3, <1>4 DEF Turns

\* next returns.
LEMMA ReturnedSteps ==
  ASSUME IInv, at = "next", NEW k \in 1..2, k = Head(todo), NEW ends, ends \subseteq {k},
         Returned(k, ends)
  PROVE  /\ todo' \in Turns /\ eof' = eof \union ends
         /\ Moved(k) /\ ~Moved(k)'
         /\ \A l \in 1..2 : l # k => (Moved(l)' <=> Moved(l)) /\ (In(l, todo') <=> In(l, todo))
         /\ ~In(k, todo') /\ k \notin eof
         /\ at' \in {"compare", "next", "done"}
         /\ at' = "next" => todo' # <<>>
         /\ at' # "next" => todo' = <<>>
         /\ at' = "done" => eof' = {1, 2}
<1>1. todo \in Turns /\ todo # <<>>
  BY DEF IInv, Types, Place
<1>2. /\ todo' = Tail(todo) /\ eof' = eof \union ends
      /\ at' = IF todo' # <<>> THEN "next" ELSE IF eof' = {1, 2} THEN "done" ELSE "compare"
  BY DEF Returned
<1>3. PICK t, u : t = todo /\ u = todo'
  OBVIOUS
<1>4. /\ u \in Turns /\ In(k, t) /\ ~In(k, u)
      /\ \A l \in 1..2 : l # k => (In(l, t) <=> In(l, u))
      /\ \A l \in 1..2 : ~In(l, <<>>)
  BY <1>1, <1>2, <1>3, TurnSteps
<1>5. k \notin eof
  BY <1>3, <1>4 DEF IInv, Place
<1>6. /\ at' \in {"compare", "next", "done"}
      /\ at' = "next" => u # <<>>
      /\ at' # "next" => u = <<>>
      /\ at' = "done" => eof' = {1, 2}
  <2>1. CASE u # <<>>
    BY <1>2, <1>3, <2>1
  <2>2. CASE u = <<>>
    BY <1>2, <1>3, <2>2
  <2> QED
    BY <2>1, <2>2
<1>7. Moved(k) /\ ~Moved(k)'
  BY <1>3, <1>4 DEF Moved
<1>8. \A l \in 1..2 : l # k => (Moved(l)' <=> Moved(l))
  <2> SUFFICES ASSUME NEW l \in 1..2, l # k PROVE Moved(l)' <=> Moved(l)
    OBVIOUS
  <2>1. CASE at' = "next"
    BY <1>3, <1>4, <2>1 DEF Moved
  <2>2. CASE at' # "next"
    <3>1. ~In(l, t)
      BY <1>4, <1>6, <2>2
    <3> QED
      BY <1>3, <2>2, <3>1 DEF Moved
  <2> QED
    BY <2>1, <2>2
<1> QED
  BY <1>2, <1>3, <1>4, <1>5, <1>6, <1>7, <1>8

\* A step of next after which the same files are to be compared.
LEMMA PendKept ==
  ASSUME IInv, at = "next", NEW k \in 1..2, roots' = roots, report' = report,
         \A l \in 1..2 : l # k => it'[l] = it[l] /\ (Moved(l)' <=> Moved(l)),
         Moved(k),
         \/ Moved(k)' /\ ToCome(roots[k], it'[k]) = ToCome(roots[k], it[k])
         \/ ~Moved(k)' /\ FromHere(roots[k], it'[k]) = ToCome(roots[k], it[k])
  PROVE  Merged(roots, report, Pend)'
<1>1. ASSUME NEW l \in 1..2 PROVE Pend'[l] = Pend[l]
  <2>1. CASE l = k
    BY <2>1 DEF Pend
  <2>2. CASE l # k
    BY <2>2 DEF Pend
  <2> QED
    BY <2>1, <2>2
<1>2. PICK P, Q : P = Pend /\ Q = Pend'
  OBVIOUS
<1>3. Q = P
  <2>1. Q = [l \in 1..2 |-> Q[l]] /\ P = [l \in 1..2 |-> P[l]]
    BY <1>2 DEF Pend
  <2> QED
    BY <1>1, <1>2, <2>1
<1>4. Merged(roots, report, P)
  BY <1>2 DEF IInv
<1>5. PICK rs, r : rs = roots' /\ r = report'
  OBVIOUS
<1>6. Merged(rs, r, Q)
  BY <1>3, <1>4, <1>5
<1> QED
  BY <1>2, <1>5, <1>6 DEF Merged

-----------------------------------------------------------------------------
(* The steps                                                                 *)

LEMMA InitOK == Init => IInv
<1> SUFFICES ASSUME Init PROVE IInv
  OBVIOUS
<1>1. /\ roots \in [1..2 -> Trees] /\ it = [k \in 1..2 |-> NoIter] /\ at = "open"
      /\ todo = <<1, 2>> /\ eof = {} /\ report = <<>>
  BY DEF Init
<1>2. NoIter \in Iter
  <2>1. <<>> \in Seq(Blobs) /\ <<>> \in Seq(SUBSET Nat) /\ <<>> \in Seq(Nat)
    OBVIOUS
  <2> QED
    BY <2>1 DEF NoIter, Iter
<1>3. \A k \in 1..2 : OnWay(roots[k], it[k])
  <2>1. \A h : OnWay(h, NoIter)
    BY DEF NoIter, OnWay
  <2> QED
    BY <1>1, <2>1
<1>4. Ordered(roots, report)
  <2>1. <<>> \in Seq(Due(roots)) /\ 1..Len(<<>>) = {}
    OBVIOUS
  <2> QED
    BY <1>1, <2>1 DEF Ordered
<1>5. Types
  BY <1>1, <1>2, <1>3, <1>4 DEF Types, Turns
<1>6. Place
  BY <1>1 DEF Place
<1> QED
  BY <1>1, <1>5, <1>6 DEF IInv

\* A new iterator starts before all files.
LEMMA StartsFirst ==
  ASSUME NEW h \in Trees, NEW x \in Iter, OnWay(h, x), AtStart(h, x)
  PROVE  FromHere(h, x) = FilesOf(h) /\ ToCome(h, x) = FilesOf(h) /\ x.path \notin FilesOf(h)
<1>1. ToCome(h, x) = FilesOf(h)
  BY DEF AtStart
<1>2. x.path \notin FilesOf(h)
  BY <1>1, HereFirst
<1> QED
  BY <1>1, <1>2 DEF FromHere, ToCome

LEMMA OpenStep ==
  ASSUME IInv, NEW k \in 1..2, NewDiffIter(k)
  PROVE  IInv'
<1>1. /\ at = "open" /\ todo # <<>> /\ k = Head(todo) /\ UNCHANGED <<roots, gone, report, calls>>
  BY DEF NewDiffIter
<1>2. /\ roots \in [1..2 -> Trees] /\ it \in [1..2 -> Iter] /\ todo \in Turns /\ eof \subseteq 1..2
      /\ \A l \in 1..2 : OnWay(roots[l], it[l])
      /\ Ordered(roots, report) /\ report = <<>>
      /\ todo = <<1, 2>> \/ (todo = <<2>> /\ AtStart(roots[1], it[1]))
  BY <1>1 DEF IInv, Types, Place
<1>3. PICK h : h = roots[k]
  OBVIOUS
<1>4. h \in Trees /\ IsDirHash(h)
  BY <1>2, <1>3, TreeAssumption
<1>5. CASE ~Loadable(roots[k]) /\ Fail
  <2>1. gone # {}
    BY <1>3, <1>4, <1>5 DEF Loadable
  <2>2. at' = "failed" /\ UNCHANGED <<it, todo, eof>>
    BY <1>5 DEF Fail
  <2>3. Types'
    BY <1>1, <1>2, <2>2 DEF Types
  <2>4. Place'
    BY <1>1, <2>1, <2>2 DEF Place
  <2> QED
    BY <2>2, <2>3, <2>4 DEF IInv
<1>6. CASE /\ it' = [it EXCEPT ![k] = [dirs |-> <<roots[k]>>, rest |-> <<Keys(roots[k])>>,
                                       path |-> <<0>>, hash |-> NoHash]]
           /\ todo' = Tail(todo)
           /\ at' = IF Tail(todo) = <<>> THEN "compare" ELSE at
           /\ UNCHANGED eof
  <2>1. PICK x : x = [dirs |-> <<h>>, rest |-> <<Keys(h)>>, path |-> <<0>>, hash |-> NoHash]
    OBVIOUS
  <2>2. x \in Iter /\ OnWay(h, x) /\ \A p \in FilesOf(h) : Ahead(x, p)
    BY <1>4, <2>1, OpenAhead
  <2>3. AtStart(h, x)
    BY <2>1, <2>2 DEF AtStart, ToCome
  <2>4. it' = [it EXCEPT ![k] = x]
    BY <1>3, <1>6, <2>1
  <2>5. it' \in [1..2 -> Iter] /\ it'[k] = x /\ \A l \in 1..2 : l # k => it'[l] = it[l]
    BY <1>2, <2>2, <2>4
  <2>6. \A l \in 1..2 : OnWay(roots[l], it'[l])
    BY <1>2, <1>3, <2>2, <2>5
  <2>7. CASE todo = <<1, 2>>
    <3>1. k = 1 /\ todo' = <<2>> /\ at' = "open"
      BY <1>1, <1>6, <2>7, TurnCases
    <3>2. Types'
      BY <1>1, <1>2, <1>6, <2>5, <2>6, <3>1 DEF Types, Turns
    <3>3. Place'
      BY <1>1, <1>2, <1>3, <2>3, <2>5, <3>1 DEF Place
    <3> QED
      BY <3>1, <3>2, <3>3 DEF IInv
  <2>8. CASE todo = <<2>> /\ AtStart(roots[1], it[1])
    <3>1. k = 2 /\ todo' = <<>> /\ at' = "compare"
      BY <1>1, <1>6, <2>8, TurnCases
    <3>2. Types'
      BY <1>1, <1>2, <1>6, <2>5, <2>6, <3>1 DEF Types, Turns
    <3>3. \A l \in 1..2 : AtStart(roots[l], it'[l])
      BY <1>3, <2>3, <2>5, <2>8, <3>1
    <3>4. Place'
      BY <1>1, <3>1, <3>3 DEF Place
    <3>5. \A l \in 1..2 : FromHere(roots[l], it'[l]) = FilesOf(roots[l])
      BY <1>2, <2>5, <2>6, <3>3, StartsFirst
    <3>6. PICK P : P = Pend'
      OBVIOUS
    <3>7. \A l \in 1..2 : P[l] = FilesOf(roots[l])
      BY <1>1, <3>1, <3>5, <3>6 DEF Pend, Moved
    <3>8. Merged(roots, <<>>, P)
      BY <3>7, MergedFirst
    <3>9. Merged(roots, report, Pend)'
      <4>1. roots' = roots /\ report' = <<>>
        BY <1>1, <1>2
      <4> QED
        BY <3>6, <3>8, <4>1 DEF Merged
    <3> QED
      BY <3>2, <3>4, <3>9 DEF IInv
  <2> QED
    BY <1>2, <2>7, <2>8
<1> QED
  BY <1>5, <1>6 DEF NewDiffIter

LEMMA EOFStep ==
  ASSUME IInv, NEW k \in 1..2, NextEOF(k)
  PROVE  IInv'
<1>1. /\ at = "next" /\ k = Head(todo) /\ Len(it[k].rest) = 0 /\ Returned(k, {k})
      /\ UNCHANGED <<roots, gone, it, report, calls>>
  BY DEF NextEOF, Moving, Depth
<1>2. /\ roots \in [1..2 -> Trees] /\ it \in [1..2 -> Iter] /\ todo \in Turns /\ eof \subseteq 1..2
      /\ \A l \in 1..2 : OnWay(roots[l], it[l])
      /\ Ordered(roots, report)
  BY DEF IInv, Types
<1>3. /\ todo' \in Turns /\ eof' = eof \union {k}
      /\ Moved(k) /\ ~Moved(k)'
      /\ \A l \in 1..2 : l # k => (Moved(l)' <=> Moved(l)) /\ (In(l, todo') <=> In(l, todo))
      /\ ~In(k, todo')
      /\ at' \in {"compare", "next", "done"}
      /\ at' = "next" => todo' # <<>>
      /\ at' # "next" => todo' = <<>>
      /\ at' = "done" => eof' = {1, 2}
  BY <1>1, ReturnedSteps
<1>4. /\ ToCome(roots[k], it[k]) = {} /\ FromHere(roots[k], it[k]) = {} /\ it[k].path = <<>>
  BY <1>1, <1>2, EndedEmpty
<1>5. Types'
  BY <1>1, <1>2, <1>3 DEF Types
<1>6. /\ \A l \in 1..2 : ~In(l, todo) => AtFile(roots[l], it[l])
      /\ \A l \in 1..2 : l \in eof => ~In(l, todo) /\ Len(it[l].rest) = 0
  BY <1>1 DEF IInv, Place
<1>7. AtFile(roots[k], it[k])
  BY <1>4 DEF AtFile
<1>8. \A l \in 1..2 : /\ ~In(l, todo') => AtFile(roots[l], it[l])
                      /\ l \in eof' => ~In(l, todo') /\ Len(it[l].rest) = 0
  <2> SUFFICES ASSUME NEW l \in 1..2
               PROVE  /\ ~In(l, todo') => AtFile(roots[l], it[l])
                      /\ l \in eof' => ~In(l, todo') /\ Len(it[l].rest) = 0
    OBVIOUS
  <2>1. CASE l = k
    BY <1>1, <1>3, <1>7, <2>1
  <2>2. CASE l # k
    BY <1>3, <1>6, <2>2
  <2> QED
    BY <2>1, <2>2
<1>9. Place'
  <2>1. CASE at' = "next"
    BY <1>1, <1>3, <1>8, <2>1 DEF Place
  <2>2. CASE at' = "compare"
    <3>1. \A l \in 1..2 : ~In(l, todo')
      BY <1>3, <2>2, TurnCases DEF In
    <3> QED
      BY <1>1, <1>3, <1>8, <2>2, <3>1 DEF Place
  <2>3. CASE at' = "done"
    BY <1>1, <1>3, <1>8, <2>3 DEF Place
  <2> QED
    BY <1>3, <2>1, <2>2, <2>3
<1>10. Merged(roots, report, Pend)'
  BY <1>1, <1>3, <1>4, PendKept
<1> QED
  BY <1>5, <1>9, <1>10 DEF IInv

LEMMA UpStep ==
  ASSUME IInv, NEW k \in 1..2, NextUp(k)
  PROVE  IInv'
<1>1. /\ at = "next" /\ k = Head(todo) /\ Len(it[k].rest) > 0 /\ Last(it[k].rest) = {}
      /\ UNCHANGED <<roots, gone, at, todo, eof, report, calls>>
  BY DEF NextUp, Moving, Depth
<1>2. /\ roots \in [1..2 -> Trees] /\ it \in [1..2 -> Iter] /\ todo \in Turns /\ eof \subseteq 1..2
      /\ \A l \in 1..2 : OnWay(roots[l], it[l])
      /\ Ordered(roots, report)
  BY DEF IInv, Types
<1>3. PICK x, y : x = it[k] /\ y = [dirs |-> Front(x.dirs), rest |-> Front(x.rest),
                                    path |-> Front(x.path), hash |-> NoHash]
  OBVIOUS
<1>4. /\ roots[k] \in Trees /\ x \in Iter /\ OnWay(roots[k], x)
      /\ Len(x.rest) > 0 /\ Last(x.rest) = {}
  BY <1>1, <1>2, <1>3
<1>5. /\ y \in Iter /\ OnWay(roots[k], y)
      /\ \A p : Ahead(x, p) <=> Ahead(y, p)
  <2>1. PICK h : h = roots[k]
    OBVIOUS
  <2>2. h \in Trees /\ x \in Iter /\ OnWay(h, x) /\ Len(x.rest) > 0 /\ Last(x.rest) = {}
    BY <1>4, <2>1
  <2>3. y \in Iter /\ OnWay(h, y) /\ \A p : Ahead(x, p) <=> Ahead(y, p)
    BY <1>3, <2>2, LeaveDir
  <2> QED
    BY <2>1, <2>3
<1>6. it' = [it EXCEPT ![k] = y]
  BY <1>3 DEF NextUp
<1>7. it' \in [1..2 -> Iter] /\ it'[k] = y /\ \A l \in 1..2 : l # k => it'[l] = it[l]
  BY <1>2, <1>5, <1>6
<1>8. \A l \in 1..2 : OnWay(roots[l], it'[l])
  BY <1>2, <1>5, <1>7
<1>9. Types'
  BY <1>1, <1>2, <1>7, <1>8 DEF Types
<1>10. todo # <<>> /\ In(k, todo)
  <2>1. todo # <<>>
    BY <1>1 DEF IInv, Place
  <2> QED
    BY <1>1, <1>2, <2>1, TurnSteps
<1>11. Place'
  <2>1. \A l \in 1..2 : /\ ~In(l, todo) => AtFile(roots[l], it[l])
                        /\ l \in eof => ~In(l, todo) /\ Len(it[l].rest) = 0
    BY <1>1 DEF IInv, Place
  <2>2. \A l \in 1..2 : /\ ~In(l, todo) => AtFile(roots[l], it'[l])
                        /\ l \in eof => ~In(l, todo) /\ Len(it'[l].rest) = 0
    BY <1>7, <1>10, <2>1
  <2> QED
    BY <1>1, <1>10, <2>2 DEF Place
<1>12. Merged(roots, report, Pend)'
  <2>1. Moved(k) /\ \A l \in 1..2 : Moved(l)' <=> Moved(l)
    BY <1>1, <1>10 DEF Moved
  <2>2. ToCome(roots[k], y) = ToCome(roots[k], x)
    BY <1>5 DEF ToCome
  <2> QED
    BY <1>1, <1>3, <1>7, <2>1, <2>2, PendKept
<1> QED
  BY <1>9, <1>11, <1>12 DEF IInv

\* What next does with its next entry.
Takes(k, x, path, rest, e) ==
  \/ /\ e.kind = "file" /\ Returned(k, {})
     /\ it' = [it EXCEPT ![k] = [dirs |-> x.dirs, rest |-> rest, path |-> path,
                                 hash |-> e.hash]]
  \/ /\ e.kind = "dir" /\ Loadable(e.hash) /\ UNCHANGED <<at, todo, eof>>
     /\ it' = [it EXCEPT ![k] = [dirs |-> Append(x.dirs, e.hash),
                                 rest |-> Append(rest, Keys(e.hash)),
                                 path |-> Append(path, 0), hash |-> NoHash]]
  \/ e.kind = "dir" /\ ~Loadable(e.hash) /\ Fail

LEMMA EntryCases ==
  ASSUME IInv, NEW k \in 1..2, NextEntry(k),
         NEW h, h = roots[k], NEW x, x = it[k], NEW d, d = Len(x.rest)
  PROVE  \E n, path, rest, e : /\ Entering(h, x, n, path, rest)
                               /\ e = Listing(x.dirs[d])[n] /\ Takes(k, x, path, rest, e)
<1>1. x \in Iter /\ OnWay(h, x) /\ h \in Trees
  BY DEF IInv, Types
<1>2. d > 0 /\ Last(x.rest) # {}
  BY Zenon DEF NextEntry, Depth
<1>3. PICK n : n = Least(Last(x.rest))
  OBVIOUS
<1>4. d \in Nat /\ x.rest \in Seq(SUBSET Nat) /\ Len(x.rest) = d
  BY <1>1, IterLens
<1>5. Last(x.rest) = x.rest[d] /\ x.rest[d] \subseteq Nat
  <2>1. d \in 1..Len(x.rest)
    BY <1>2, <1>4
  <2> QED
    BY <1>4, <2>1, ElementOfSeq DEF Last
<1>6. n \in x.rest[d] /\ \A m \in x.rest[d] : n <= m
  <2>1. PICK S : S = x.rest[d]
    OBVIOUS
  <2>2. \E m \in S : \A l \in S : m <= l
    BY <1>2, <1>5, <2>1, LeastNat
  <2>3. n = CHOOSE m \in S : \A l \in S : m <= l
    BY <1>3, <1>5, <2>1 DEF Least
  <2> QED
    BY <2>1, <2>2, <2>3
<1>7. PICK path, rest : /\ path = [x.path EXCEPT ![d] = n]
                        /\ rest = [x.rest EXCEPT ![d] = @ \ {n}]
  OBVIOUS
<1>8. Entering(h, x, n, path, rest)
  BY <1>1, <1>2, <1>6, <1>7 DEF Entering
<1>9. PICK e : e = Listing(x.dirs[d])[n]
  OBVIOUS
<1>10. Takes(k, x, path, rest, e)
  <2>1. Takes(k, it[k], [it[k].path EXCEPT ![d] = n], [it[k].rest EXCEPT ![d] = @ \ {n}],
              Listing(it[k].dirs[d])[n])
    BY <1>3, Zenon DEF NextEntry, Depth, Takes
  <2> QED
    BY <1>7, <1>9, <2>1
<1> QED
  BY <1>8, <1>9, <1>10

LEMMA EntryStep ==
  ASSUME IInv, NEW k \in 1..2, NextEntry(k)
  PROVE  IInv'
<1>1. at = "next" /\ k = Head(todo) /\ UNCHANGED <<roots, gone, report, calls>>
  BY Zenon DEF NextEntry, Moving
<1>2. /\ roots \in [1..2 -> Trees] /\ it \in [1..2 -> Iter] /\ todo \in Turns /\ eof \subseteq 1..2
      /\ \A l \in 1..2 : OnWay(roots[l], it[l])
      /\ Ordered(roots, report)
  BY DEF IInv, Types
<1>3. /\ todo # <<>>
      /\ \A l \in 1..2 : ~In(l, todo) => AtFile(roots[l], it[l])
      /\ \A l \in 1..2 : l \in eof => ~In(l, todo) /\ Len(it[l].rest) = 0
  BY <1>1 DEF IInv, Place
<1>4. PICK h, x, d : h = roots[k] /\ x = it[k] /\ d = Len(x.rest)
  OBVIOUS
<1>5. h \in Trees /\ x \in Iter
  BY <1>2, <1>4
<1>6. PICK n, path, rest, e : /\ Entering(h, x, n, path, rest)
                              /\ e = Listing(x.dirs[d])[n] /\ Takes(k, x, path, rest, e)
  BY <1>4, EntryCases
<1>7. CASE /\ e.kind = "file" /\ Returned(k, {})
           /\ it' = [it EXCEPT ![k] = [dirs |-> x.dirs, rest |-> rest, path |-> path,
                                       hash |-> e.hash]]
  <2>1. PICK y : y = [dirs |-> x.dirs, rest |-> rest, path |-> path, hash |-> e.hash]
    OBVIOUS
  <2>2. /\ y \in Iter /\ OnWay(h, y)
        /\ y.path \in FilesOf(h) /\ FileAt(h, y.path) = y.hash /\ y.hash # NoHash
        /\ \A p \in FilesOf(h) : Ahead(x, p) <=> Ahead(y, p) \/ p = y.path
    BY <1>4, <1>5, <1>6, <1>7, <2>1, EnterFile
  <2>3. it' = [it EXCEPT ![k] = y]
    BY <1>7, <2>1
  <2>4. it' \in [1..2 -> Iter] /\ it'[k] = y /\ \A l \in 1..2 : l # k => it'[l] = it[l]
    BY <1>2, <2>2, <2>3
  <2>5. \A l \in 1..2 : OnWay(roots[l], it'[l])
    BY <1>2, <1>4, <2>2, <2>4
  <2>6. /\ todo' \in Turns /\ eof' = eof \union {}
        /\ Moved(k) /\ ~Moved(k)'
        /\ \A l \in 1..2 : l # k => (Moved(l)' <=> Moved(l)) /\ (In(l, todo') <=> In(l, todo))
        /\ ~In(k, todo') /\ k \notin eof
        /\ at' \in {"compare", "next", "done"}
        /\ at' = "next" => todo' # <<>>
        /\ at' # "next" => todo' = <<>>
        /\ at' = "done" => eof' = {1, 2}
    BY <1>1, <1>7, ReturnedSteps
  <2>7. eof' = eof /\ at' # "done"
    BY <2>6
  <2>8. Types'
    BY <1>1, <1>2, <2>4, <2>5, <2>6, <2>7 DEF Types
  <2>9. AtFile(h, y)
    BY <2>2 DEF AtFile
  <2>10. \A l \in 1..2 : /\ ~In(l, todo') => AtFile(roots[l], it'[l])
                         /\ l \in eof' => ~In(l, todo') /\ Len(it'[l].rest) = 0
    <3> SUFFICES ASSUME NEW l \in 1..2
                 PROVE  /\ ~In(l, todo') => AtFile(roots[l], it'[l])
                        /\ l \in eof' => ~In(l, todo') /\ Len(it'[l].rest) = 0
      OBVIOUS
    <3>1. CASE l = k
      BY <1>4, <2>4, <2>6, <2>7, <2>9, <3>1
    <3>2. CASE l # k
      BY <1>3, <2>4, <2>6, <2>7, <3>2
    <3> QED
      BY <3>1, <3>2
  <2>11. Place'
    <3>1. CASE at' = "next"
      BY <1>1, <2>6, <2>10, <3>1 DEF Place
    <3>2. CASE at' = "compare"
      <4>1. \A l \in 1..2 : ~In(l, todo')
        BY <2>6, <3>2, TurnCases DEF In
      <4> QED
        BY <1>1, <2>6, <2>10, <3>2, <4>1 DEF Place
    <3> QED
      BY <2>6, <2>7, <3>1, <3>2
  <2>12. Merged(roots, report, Pend)'
    <3>1. FromHere(h, y) = ToCome(h, x)
      BY <2>2 DEF FromHere, ToCome
    <3> QED
      BY <1>1, <1>4, <2>4, <2>6, <3>1, PendKept
  <2> QED
    BY <2>8, <2>11, <2>12 DEF IInv
<1>8. k = Head(todo) /\ In(k, todo)
  BY <1>1, <1>2, <1>3, TurnSteps
<1>9. CASE /\ e.kind = "dir" /\ Loadable(e.hash) /\ UNCHANGED <<at, todo, eof>>
           /\ it' = [it EXCEPT ![k] = [dirs |-> Append(x.dirs, e.hash),
                                       rest |-> Append(rest, Keys(e.hash)),
                                       path |-> Append(path, 0), hash |-> NoHash]]
  <2>1. PICK y : y = [dirs |-> Append(x.dirs, e.hash), rest |-> Append(rest, Keys(e.hash)),
                      path |-> Append(path, 0), hash |-> NoHash]
    BY Zenon
  <2>2. IsDirHash(e.hash)
    BY <1>9 DEF Loadable
  <2>3. y \in Iter /\ OnWay(h, y) /\ \A p \in FilesOf(h) : Ahead(x, p) <=> Ahead(y, p)
    <3>1. /\ h \in Trees /\ Entering(h, x, n, path, rest) /\ d = Len(x.rest)
          /\ e = Listing(x.dirs[d])[n] /\ IsDirHash(e.hash)
      BY <1>4, <1>5, <1>6, <2>2
    <3>2. Inside(y, x, path, rest, e)
      BY <2>1 DEF Inside
    <3> QED
      BY ONLY <3>1, <3>2, EnterDir
  <2>4. it' = [it EXCEPT ![k] = y]
    BY <1>9, <2>1
  <2>5. it' \in [1..2 -> Iter] /\ it'[k] = y /\ \A l \in 1..2 : l # k => it'[l] = it[l]
    BY <1>2, <2>3, <2>4
  <2>6. \A l \in 1..2 : OnWay(roots[l], it'[l])
    BY <1>2, <1>4, <2>3, <2>5
  <2>7. Types'
    BY <1>1, <1>2, <1>9, <2>5, <2>6 DEF Types
  <2>8. Place'
    <3>1. \A l \in 1..2 : /\ ~In(l, todo) => AtFile(roots[l], it'[l])
                          /\ l \in eof => ~In(l, todo) /\ Len(it'[l].rest) = 0
      BY <1>3, <1>8, <2>5
    <3> QED
      BY <1>1, <1>3, <1>9, <3>1 DEF Place
  <2>9. Merged(roots, report, Pend)'
    <3>1. Moved(k) /\ \A l \in 1..2 : Moved(l)' <=> Moved(l)
      BY <1>1, <1>8, <1>9 DEF Moved
    <3>2. ToCome(h, y) = ToCome(h, x)
      BY <2>3 DEF ToCome
    <3> QED
      BY <1>1, <1>4, <2>5, <3>1, <3>2, PendKept
  <2> QED
    BY <2>7, <2>8, <2>9 DEF IInv
<1>10. CASE e.kind = "dir" /\ ~Loadable(e.hash) /\ Fail
  <2>1. IsDirHash(e.hash)
    BY <1>4, <1>5, <1>6, <1>10, EnterTree
  <2>2. gone # {}
    BY <1>10, <2>1 DEF Loadable
  <2>3. at' = "failed" /\ UNCHANGED <<it, todo, eof>>
    BY <1>10 DEF Fail
  <2>4. Types'
    BY <1>1, <1>2, <2>3 DEF Types
  <2>5. Place'
    BY <1>1, <2>2, <2>3 DEF Place
  <2> QED
    BY <2>3, <2>4, <2>5 DEF IInv
<1> QED
  BY <1>6, <1>7, <1>9, <1>10 DEF Takes

\* An iterator at a file is at one of those that are to be compared.
LEMMA AtFileHere ==
  ASSUME NEW h \in Trees, NEW x \in Iter, AtFile(h, x), x.path # <<>>
  PROVE  /\ x.path \in FromHere(h, x) /\ x.path \in FilesOf(h)
         /\ x.hash = FileAt(h, x.path) /\ x.hash # NoHash
<1>1. x.path \in Seq(Nat) /\ x.hash = FileAt(h, x.path) /\ x.hash # NoHash
  BY DEF AtFile, Iter
<1>2. x.path \in FilesOf(h)
  BY <1>1, FileSteps DEF FilesOf
<1> QED
  BY <1>1, <1>2 DEF FromHere

\* What DiffRoots compares.
LEMMA CompareFacts ==
  ASSUME IInv, at = "compare"
  PROVE  /\ Merged(roots, report, Pend) /\ Ordered(roots, report)
         /\ roots \in [1..2 -> Trees] /\ it \in [1..2 -> Iter] /\ eof \subseteq 1..2
         /\ \A k \in 1..2 : /\ roots[k] \in Trees /\ it[k] \in Iter /\ OnWay(roots[k], it[k])
                            /\ it[k].path \in Seq(Nat)
                            /\ Pend[k] = FromHere(roots[k], it[k])
         /\ \/ \A k \in 1..2 : AtStart(roots[k], it[k])
            \/ \A k \in 1..2 : AtFile(roots[k], it[k])
<1>1. /\ roots \in [1..2 -> Trees] /\ it \in [1..2 -> Iter] /\ eof \subseteq 1..2
      /\ \A k \in 1..2 : OnWay(roots[k], it[k])
      /\ Ordered(roots, report)
  BY DEF IInv, Types
<1>2. \/ \A k \in 1..2 : AtStart(roots[k], it[k])
      \/ \A k \in 1..2 : AtFile(roots[k], it[k])
  BY DEF IInv, Place
<1>3. \A k \in 1..2 : Pend[k] = FromHere(roots[k], it[k])
  BY DEF Pend, Moved
<1>4. \A k \in 1..2 : it[k].path \in Seq(Nat)
  BY <1>1 DEF Iter
<1> QED
  BY <1>1, <1>2, <1>3, <1>4 DEF IInv

\* A path that only one of the iterators is at is that of a file of this tree alone, the
\* first of those that are to be compared.
LEMMA OnlyFacts ==
  ASSUME IInv, at = "compare", NEW k \in 1..2, OnlyIn(k),
         NEW o, o = 3 - k, NEW c, c = it[k].path
  PROVE  /\ \A l \in 1..2 : AtFile(roots[l], it[l])
         /\ c \in Pend[k] /\ c \notin Pend[o] /\ \A q \in Pend[o] : Before(c, q)
         /\ FileAt(roots[k], c) = it[k].hash /\ it[k].hash # NoHash
         /\ FileAt(roots[o], c) = NoHash
<1>1. o \in 1..2 /\ o # k
  OBVIOUS
<1>2. c # <<>> /\ (it[o].path = <<>> \/ Before(c, it[o].path))
  BY DEF OnlyIn
<1>3. /\ Merged(roots, report, Pend)
      /\ \A l \in 1..2 : /\ roots[l] \in Trees /\ it[l] \in Iter /\ OnWay(roots[l], it[l])
                         /\ it[l].path \in Seq(Nat)
                         /\ Pend[l] = FromHere(roots[l], it[l])
      /\ \/ \A l \in 1..2 : AtStart(roots[l], it[l])
         \/ \A l \in 1..2 : AtFile(roots[l], it[l])
  BY CompareFacts
<1>4. \A l \in 1..2 : AtFile(roots[l], it[l])
  <2> SUFFICES ASSUME \A l \in 1..2 : AtStart(roots[l], it[l]) PROVE FALSE
    BY <1>3
  <2>1. c = <<0>> /\ it[o].path = <<0>>
    BY <1>1 DEF AtStart
  <2>2. <<0>> # <<>> /\ <<0>> \in Seq(Nat)
    OBVIOUS
  <2>3. ~Before(<<0>>, <<0>>)
    BY <2>2, BeforeIrreflexive
  <2> QED
    BY <1>2, <2>1, <2>2, <2>3
<1>5. c \in Seq(Nat) /\ c \in FilesOf(roots[k]) /\ c \in Pend[k]
      /\ FileAt(roots[k], c) = it[k].hash /\ it[k].hash # NoHash
  BY <1>2, <1>3, <1>4, AtFileHere
<1>6. ASSUME NEW q \in Pend[o] PROVE Before(c, q)
  <2>1. PICK h, x : h = roots[o] /\ x = it[o]
    OBVIOUS
  <2>2. h \in Trees /\ x \in Iter /\ OnWay(h, x) /\ x.path \in Seq(Nat) /\ q \in FromHere(h, x)
    BY <1>1, <1>3, <1>6, <2>1
  <2>3. x.path # <<>>
    BY <2>2, EndedEmpty
  <2>4. Before(c, x.path)
    BY <1>2, <2>1, <2>3
  <2>5. CASE q = x.path
    BY <2>4, <2>5
  <2>6. CASE q \in ToCome(h, x)
    <3>1. Before(x.path, q)
      BY <2>2, <2>6, HereFirst
    <3>2. q \in Seq(Nat)
      BY <2>6, PathAssumption DEF ToCome, FilesOf
    <3> QED
      BY <1>5, <2>2, <2>4, <3>1, <3>2, BeforeTransitive
  <2> QED
    BY <2>2, <2>5, <2>6 DEF FromHere, ToCome
<1>7. c \notin Pend[o]
  BY <1>5, <1>6, BeforeIrreflexive
<1>8. FileAt(roots[o], c) = NoHash
  <2> SUFFICES ASSUME FileAt(roots[o], c) # NoHash PROVE FALSE
    OBVIOUS
  <2>1. c \in FilesOf(roots[o]) \ Pend[o]
    BY <1>1, <1>3, <1>5, <1>7, FileSteps DEF FilesOf
  <2>2. Before(c, c)
    BY <1>1, <1>3, <1>5, <2>1 DEF Merged
  <2> QED
    BY <1>5, <2>2, BeforeIrreflexive
<1> QED
  BY <1>1, <1>4, <1>5, <1>6, <1>7, <1>8

\* After a round the iterators ks are to move; they are past their files.
LEMMA RoundPlace ==
  ASSUME IInv, NEW entries, NEW ks \in Turns \ {<<>>}, Round(entries, ks),
         ks = <<1, 2>> \/ \A l \in 1..2 : AtFile(roots[l], it[l]),
         Merged(roots', report', Pend')
  PROVE  IInv'
<1>1. /\ at = "compare" /\ at' = "next" /\ todo' = ks /\ eof' = {}
      /\ UNCHANGED <<roots, gone, it>>
  BY DEF Round
<1>2. /\ roots \in [1..2 -> Trees] /\ it \in [1..2 -> Iter]
      /\ \A k \in 1..2 : OnWay(roots[k], it[k])
  BY DEF IInv, Types
<1>3. Ordered(roots', report')
  BY MergedOrdered
<1>4. Types'
  BY <1>1, <1>2, <1>3 DEF Types, Turns
<1>5. \A l \in 1..2 : ~In(l, ks) => AtFile(roots[l], it[l])
  <2>1. \A l \in 1..2 : In(l, <<1, 2>>)
    BY DEF In
  <2> QED
    BY <2>1
<1>6. ks # <<>>
  OBVIOUS
<1>7. Place'
  BY <1>1, <1>5, <1>6 DEF Place
<1>8. Merged(roots, report, Pend)'
  BY DEF Merged
<1> QED
  BY <1>4, <1>7, <1>8 DEF IInv

LEMMA OnlyStep ==
  ASSUME IInv, NEW k \in 1..2, OnlyIn(k), NEW e, Round(<<e>>, <<k>>),
         e = IF k = 1 THEN Entry("deleted", it[1].path, it[1].hash, NoHash)
                      ELSE Entry("added", it[2].path, NoHash, it[2].hash)
  PROVE  IInv'
<1>1. /\ at = "compare" /\ report' = report \o <<e>> /\ at' = "next" /\ todo' = <<k>>
      /\ UNCHANGED <<roots, gone, it>>
  BY DEF Round
<1>2. PICK o, c : o = 3 - k /\ c = it[k].path
  OBVIOUS
<1>3. o \in 1..2 /\ o # k /\ \A l \in 1..2 : l = k \/ l = o
  BY <1>2
<1>4. /\ \A l \in 1..2 : AtFile(roots[l], it[l])
      /\ c \in Pend[k] /\ c \notin Pend[o] /\ \A q \in Pend[o] : Before(c, q)
      /\ FileAt(roots[k], c) = it[k].hash /\ it[k].hash # NoHash
      /\ FileAt(roots[o], c) = NoHash
  BY <1>1, <1>2, OnlyFacts
<1>5. /\ Merged(roots, report, Pend) /\ Ordered(roots, report)
      /\ \A l \in 1..2 : /\ roots[l] \in Trees /\ it[l] \in Iter /\ OnWay(roots[l], it[l])
                         /\ Pend[l] = FromHere(roots[l], it[l])
  BY <1>1, CompareFacts
<1>6. Differ(roots, c) /\ EntryOf(roots, c) = e
  <2>1. CASE k = 1
    BY <1>2, <1>4, <2>1 DEF Differ, EntryOf
  <2>2. CASE k = 2
    BY <1>2, <1>4, <2>2 DEF Differ, EntryOf
  <2> QED
    BY <2>1, <2>2
<1>7. report' = Append(report, e)
  <2>1. PICK r : r = report
    OBVIOUS
  <2>2. r \in Seq(Due(roots))
    BY <1>5, <2>1 DEF Ordered
  <2>3. r \o <<e>> = Append(r, e)
    BY <2>2, AppendIsConcat
  <2> QED
    BY <1>1, <2>1, <2>3
<1>8. PICK P, Q : P = Pend /\ Q = Pend'
  OBVIOUS
<1>9. Q[k] = P[k] \ {c} /\ \A q \in Q[k] : Before(c, q)
  <2>1. Q[k] = ToCome(roots[k], it[k])
    BY <1>1, <1>8 DEF Pend, Moved, In
  <2> QED
    BY <1>2, <1>5, <1>8, <2>1, HereFirst
<1>10. Q[o] = P[o] \ {c} /\ \A q \in Q[o] : Before(c, q)
  <2>1. ~In(o, <<k>>)
    <3>1. CASE k = 1
      BY <1>2, <3>1, TurnCases DEF In
    <3>2. CASE k = 2
      BY <1>2, <3>2, TurnCases DEF In
    <3> QED
      BY <3>1, <3>2
  <2>2. Q[o] = P[o]
    BY <1>1, <1>3, <1>5, <1>8, <2>1 DEF Pend, Moved
  <2> QED
    BY <1>4, <1>8, <2>2
<1>11. \A l \in 1..2 : Q[l] = P[l] \ {c} /\ \A q \in Q[l] : Before(c, q)
  BY <1>3, <1>9, <1>10
<1>12. c \in P[1] \/ c \in P[2]
  BY <1>4, <1>8
<1>13. report' = IF Differ(roots, c) THEN Append(report, EntryOf(roots, c)) ELSE report
  BY <1>6, <1>7
<1>14. Merged(roots, report', Q)
  <2>1. PICK r, s : r = report /\ s = report'
    OBVIOUS
  <2>2. Merged(roots, r, P) /\ s = IF Differ(roots, c) THEN Append(r, EntryOf(roots, c)) ELSE r
    BY <1>5, <1>8, <1>13, <2>1
  <2>3. Merged(roots, s, Q)
    BY ONLY <1>11, <1>12, <2>2, MergedNext
  <2> QED
    BY <2>1, <2>3
<1>15. <<k>> \in Turns \ {<<>>}
  <2>1. <<k>> = <<1>> \/ <<k>> = <<2>>
    BY <1>2, <1>3
  <2> QED
    BY <2>1, TurnCases DEF Turns
<1> QED
  BY <1>1, <1>4, <1>8, <1>14, <1>15, RoundPlace

LEMMA SameStep ==
  ASSUME IInv, Same
  PROVE  IInv'
<1>1. PICK entries : /\ Round(entries, <<1, 2>>) /\ ~OnlyIn(1) /\ ~OnlyIn(2)
                     /\ entries = IF it[1].path # <<>> /\ it[1].hash # it[2].hash
                          THEN <<Entry("changed", it[1].path, it[1].hash, it[2].hash)>>
                          ELSE <<>>
  BY Zenon DEF Same
<1>2. /\ at = "compare" /\ report' = report \o entries /\ at' = "next" /\ todo' = <<1, 2>>
      /\ UNCHANGED <<roots, gone, it>>
  BY <1>1 DEF Round
<1>3. /\ Merged(roots, report, Pend) /\ Ordered(roots, report)
      /\ \A k \in 1..2 : /\ roots[k] \in Trees /\ it[k] \in Iter /\ OnWay(roots[k], it[k])
                         /\ it[k].path \in Seq(Nat)
                         /\ Pend[k] = FromHere(roots[k], it[k])
      /\ \/ \A k \in 1..2 : AtStart(roots[k], it[k])
         \/ \A k \in 1..2 : AtFile(roots[k], it[k])
  BY <1>2, CompareFacts
<1>4. PICK P, Q, r : P = Pend /\ Q = Pend' /\ r = report
  OBVIOUS
<1>5. \A k \in 1..2 : P[k] = FromHere(roots[k], it[k]) /\ Q[k] = ToCome(roots[k], it[k])
  <2>1. \A k \in 1..2 : In(k, <<1, 2>>)
    BY DEF In
  <2> QED
    BY <1>2, <1>3, <1>4, <2>1 DEF Pend, Moved
<1>6. r \in Seq(Due(roots))
  BY <1>3, <1>4 DEF Ordered
<1>7. ASSUME Q = P, entries = <<>> PROVE Merged(roots, report', Q)
  <2>1. report' = r
    <3>1. r \o <<>> = r
      BY <1>6, ConcatEmptySeq
    <3> QED
      BY <1>2, <1>4, <1>7, <3>1
  <2> QED
    BY <1>3, <1>4, <1>7, <2>1
<1>8. Q = [k \in 1..2 |-> Q[k]] /\ P = [k \in 1..2 |-> P[k]]
  BY <1>4 DEF Pend
<1>9. Merged(roots, report', Q)
  <2>1. CASE \A k \in 1..2 : AtStart(roots[k], it[k])
    <3>1. \A k \in 1..2 : Q[k] = P[k]
      BY <1>3, <1>5, <2>1, StartsFirst
    <3>2. it[1].hash = it[2].hash
      BY <2>1 DEF AtStart
    <3> QED
      BY <1>1, <1>7, <1>8, <3>1, <3>2
  <2>2. CASE /\ \A k \in 1..2 : AtFile(roots[k], it[k])
             /\ it[1].path = <<>> \/ it[2].path = <<>>
    <3>1. it[1].path = <<>> /\ it[2].path = <<>>
      BY <1>1, <2>2 DEF OnlyIn
    <3>2. \A k \in 1..2 : it[k].path = <<>>
      BY <3>1
    <3>3. \A k \in 1..2 : Q[k] = P[k]
      <4> SUFFICES ASSUME NEW k \in 1..2 PROVE Q[k] = P[k]
        OBVIOUS
      <4>1. ToCome(roots[k], it[k]) = {} /\ FromHere(roots[k], it[k]) = {}
        BY <1>3, <3>2, EndedEmpty
      <4> QED
        BY <1>5, <4>1
    <3> QED
      BY <1>1, <1>7, <1>8, <3>1, <3>3
  <2>3. CASE /\ \A k \in 1..2 : AtFile(roots[k], it[k])
             /\ it[1].path # <<>> /\ it[2].path # <<>>
    <3>1. PICK c : c = it[1].path
      OBVIOUS
    <3>2. it[2].path = c
      <4>1. ~Before(it[1].path, it[2].path) /\ ~Before(it[2].path, it[1].path)
        BY <1>1, <2>3 DEF OnlyIn
      <4>2. it[1].path \in Seq(Nat) /\ it[2].path \in Seq(Nat)
        BY <1>3
      <4> QED
        BY <3>1, <4>1, <4>2, BeforeTotal
    <3>3. /\ \A k \in 1..2 : /\ c \in P[k]
                             /\ it[k].hash = FileAt(roots[k], c) /\ it[k].hash # NoHash
      <4> SUFFICES ASSUME NEW k \in 1..2
                   PROVE  c \in P[k] /\ it[k].hash = FileAt(roots[k], c) /\ it[k].hash # NoHash
        OBVIOUS
      <4>1. it[k].path = c /\ it[k].path # <<>>
        BY <2>3, <3>1, <3>2
      <4> QED
        BY <1>3, <1>5, <2>3, <4>1, AtFileHere
    <3>4. \A k \in 1..2 : Q[k] = P[k] \ {c} /\ \A q \in Q[k] : Before(c, q)
      <4> SUFFICES ASSUME NEW k \in 1..2
                   PROVE  Q[k] = P[k] \ {c} /\ \A q \in Q[k] : Before(c, q)
        OBVIOUS
      <4>1. it[k].path = c
        BY <3>1, <3>2
      <4> QED
        BY <1>3, <1>5, <4>1, HereFirst
    <3>5. Differ(roots, c) <=> it[1].hash # it[2].hash
      BY <3>3 DEF Differ
    <3>6. EntryOf(roots, c) = Entry("changed", c, it[1].hash, it[2].hash)
      BY <3>3 DEF EntryOf
    <3>7. report' = IF Differ(roots, c) THEN Append(r, EntryOf(roots, c)) ELSE r
      <4>1. CASE Differ(roots, c)
        <5>1. entries = <<EntryOf(roots, c)>>
          BY <1>1, <2>3, <3>1, <3>5, <3>6, <4>1
        <5>2. PICK e : e = EntryOf(roots, c)
          OBVIOUS
        <5>3. r \o <<e>> = Append(r, e)
          BY <1>6, AppendIsConcat
        <5> QED
          BY <1>2, <1>4, <4>1, <5>1, <5>2, <5>3
      <4>2. CASE ~Differ(roots, c)
        <5>1. entries = <<>>
          BY <1>1, <3>5, <4>2
        <5>2. r \o <<>> = r
          BY <1>6, ConcatEmptySeq
        <5> QED
          BY <1>2, <1>4, <4>2, <5>1, <5>2
      <4> QED
        BY <4>1, <4>2
    <3>8. Merged(roots, r, P) /\ c \in P[1]
      BY <1>3, <1>4, <3>3
    <3> QED
      <4>1. PICK s : s = report'
        OBVIOUS
      <4>2. Merged(roots, r, P) /\ s = IF Differ(roots, c) THEN Append(r, EntryOf(roots, c)) ELSE r
        BY <3>7, <3>8, <4>1
      <4>3. c \in P[1] \/ c \in P[2]
        BY <3>8
      <4>4. Merged(roots, s, Q)
        BY ONLY <3>4, <4>2, <4>3, MergedNext
      <4> QED
        BY <4>1, <4>4
  <2> QED
    BY <1>3, <2>1, <2>2, <2>3
<1>10. <<1, 2>> \in Turns \ {<<>>}
  BY TurnCases DEF Turns
<1> QED
  BY <1>1, <1>2, <1>4, <1>9, <1>10, RoundPlace

LEMMA NextOK == IInv /\ [Next]_vars => IInv'
<1> SUFFICES ASSUME IInv, [Next]_vars PROVE IInv'
  OBVIOUS
<1>1. CASE Deleted
  <2>1. /\ OnlyIn(1)
        /\ Round(<<Entry("deleted", it[1].path, it[1].hash, NoHash)>>, <<1>>)
    BY <1>1 DEF Deleted
  <2> QED
    BY <2>1, OnlyStep
<1>2. CASE Added
  <2>1. /\ OnlyIn(2)
        /\ Round(<<Entry("added", it[2].path, NoHash, it[2].hash)>>, <<2>>)
    BY <1>2 DEF Added
  <2> QED
    BY <2>1, OnlyStep
<1>3. CASE Same
  BY <1>3, SameStep
<1>4. ASSUME NEW k \in 1..2, NewDiffIter(k) PROVE IInv'
  BY <1>4, OpenStep
<1>5. ASSUME NEW k \in 1..2, NextEOF(k) PROVE IInv'
  BY <1>5, EOFStep
<1>6. ASSUME NEW k \in 1..2, NextUp(k) PROVE IInv'
  BY <1>6, UpStep
<1>7. ASSUME NEW k \in 1..2, NextEntry(k) PROVE IInv'
  BY <1>7, EntryStep
<1>8. CASE UNCHANGED vars
  <2>1. UNCHANGED <<roots, gone, it, at, todo, eof, report>>
    BY <1>8 DEF vars
  <2>2. Pend' = Pend
    BY <2>1 DEF Pend, Moved
  <2>3. Types'
    BY <2>1 DEF IInv, Types
  <2>4. Place'
    BY <2>1 DEF IInv, Place
  <2>5. at \in {"compare", "next", "done"} => Merged(roots, report, Pend)'
    <3> SUFFICES ASSUME at \in {"compare", "next", "done"} PROVE Merged(roots, report, Pend)'
      OBVIOUS
    <3>1. PICK P, Q : P = Pend /\ Q = Pend'
      OBVIOUS
    <3>2. Merged(roots, report, P) /\ Q = P
      BY <2>2, <3>1 DEF IInv
    <3> QED
      BY <2>1, <3>1, <3>2 DEF Merged
  <2> QED
    BY <2>1, <2>3, <2>4, <2>5 DEF IInv
<1> QED
  BY <1>1, <1>2, <1>3, <1>4, <1>5, <1>6, <1>7, <1>8, Zenon DEF Next, Step, Returns

\* What the invariant says of the report.
LEMMA ReportOK == IInv => ReportExact
<1> SUFFICES ASSUME IInv PROVE ReportExact
  OBVIOUS
<1>1. PICK r : r = report
  OBVIOUS
<1>2. /\ r \in Seq(Due(roots)) /\ \A i, j \in 1..Len(r) : i < j => Before(r[i].path, r[j].path)
      /\ DOMAIN r = 1..Len(r)
  BY <1>1 DEF IInv, Types, Ordered
<1>3. Due(roots) = {Difference(p) : p \in {q \in AllPaths : FileAt(roots[1], q) # FileAt(roots[2], q)}}
  BY DEF Due, Differ, EntryOf, Difference
<1>4. ToSet(r) \subseteq Due(roots)
  <2>1. \A i \in 1..Len(r) : r[i] \in Due(roots)
    BY <1>2, ElementOfSeq
  <2> QED
    BY <1>2, <2>1 DEF ToSet
<1>5. ASSUME at = "done" PROVE ToSet(r) = Due(roots)
  <2>1. /\ \A k \in 1..2 : roots[k] \in Trees /\ it[k] \in Iter /\ OnWay(roots[k], it[k])
        /\ \A k \in 1..2 : Len(it[k].rest) = 0
        /\ Merged(roots, r, Pend)
    BY <1>1, <1>5 DEF IInv, Types, Place
  <2>2. \A k \in 1..2 : Pend[k] = {}
    <3> SUFFICES ASSUME NEW k \in 1..2 PROVE Pend[k] = {}
      OBVIOUS
    <3>1. FromHere(roots[k], it[k]) = {}
      BY <2>1, EndedEmpty
    <3> QED
      BY <1>5, <3>1 DEF Pend, Moved
  <2>3. ASSUME NEW p \in AllPaths, Differ(roots, p)
        PROVE  EntryOf(roots, p) \in ToSet(r)
    <3>1. PICK k \in 1..2 : FileAt(roots[k], p) # NoHash
      BY <2>3 DEF Differ
    <3>2. PICK P : P = Pend
      OBVIOUS
    <3>3. p \in FilesOf(roots[k]) \ P[k]
      BY <2>2, <3>1, <3>2 DEF FilesOf
    <3>4. Merged(roots, r, P)
      BY <2>1, <3>2
    <3>5. PICK i \in 1..Len(r) : r[i] = EntryOf(roots, p)
      BY <2>3, <3>3, <3>4 DEF Merged
    <3> QED
      BY <1>2, <3>5 DEF ToSet
  <2>4. Due(roots) \subseteq ToSet(r)
    BY <2>3 DEF Due
  <2> QED
    BY <1>4, <2>4
<1>6. at = "failed" => gone # {}
  BY DEF IInv, Place
<1> QED
  BY <1>1, <1>2, <1>3, <1>4, <1>5, <1>6 DEF ReportExact

\* What DiffRoots returns for two trees names every path where they differ, no other, each
\* once and in order, for trees of any number, depth and shape; it only fails when a blob
\* is missing, and what it has found until then is right.
THEOREM DiffReportsExactly == Spec => []ReportExact
<1>1. Init => IInv
  BY InitOK
<1>2. IInv /\ [Next]_vars => IInv'
  BY NextOK
<1>3. IInv => ReportExact
  BY ReportOK
<1> QED
  BY <1>1, <1>2, <1>3, PTL DEF Spec
-----------------------------------------------------------------------------
(* The merge that the loop of DiffRoots is, on any two sorted lists of files: *)
(* DiffMerge by itself, with constants and variables of its own.              *)

CONSTANTS ListHashes, NoEntry
VARIABLES lists, places, said, over

M == INSTANCE DiffMerge WITH
  Hashes <- ListHashes, None <- NoEntry,
  w <- lists, at <- places, report <- said, done <- over

-----------------------------------------------------------------------------
(* The inductive invariant *)

MergeEntries == [action : {"deleted", "added", "changed"}, path : Seq(Nat),
                 hash1 : ListHashes \union {NoEntry}, hash2 : ListHashes \union {NoEntry}]

MergeTypeOK ==
  /\ lists \in [M!Roots -> Seq(M!Files)]
  /\ places \in [M!Roots -> Nat]
  /\ said \in Seq(MergeEntries)
  /\ over \in BOOLEAN

\* The walks are sorted and begin together; the report is done when both have ended.
Walks ==
  /\ \A k \in M!Roots : M!Sorted(lists[k])
  /\ places[1] = 0 <=> places[2] = 0
  /\ over => \A k \in M!Roots : M!Ended(k)

\* What one walk has passed comes before all that is still to come in the other.
Behind ==
  \A k \in M!Roots : \A i \in DOMAIN lists[k], j \in DOMAIN lists[3 - k] :
    i < places[k] /\ places[3 - k] <= j => M!Before(lists[k][i].path, lists[3 - k][j].path)

\* What is reported comes before all that is still to come in either.
ReportBehind ==
  \A r \in DOMAIN said, k \in M!Roots : \A j \in DOMAIN lists[k] :
    places[k] <= j => M!Before(said[r].path, lists[k][j].path)

\* A file that a walk has passed is in the report, unless the other Root has it too.
Passed ==
  \A k \in M!Roots : \A j \in DOMAIN lists[k] : j < places[k] =>
    \/ M!Has(3 - k, lists[k][j].path, lists[k][j].hash)
    \/ \E i \in DOMAIN said : said[i].path = lists[k][j].path

MergeInv == MergeTypeOK /\ Walks /\ Behind /\ ReportBehind /\ Passed /\ M!Sound /\ M!InOrder

\* It orders paths as the loop on trees does.
LEMMA SameOrder ==
  \A p, q : M!Before(p, q) <=> Before(p, q)
BY DEF M!Before, Before

\* What the walks hold.
LEMMA FileTypes ==
  ASSUME MergeTypeOK, NEW k \in M!Roots, NEW j \in DOMAIN lists[k]
  PROVE  /\ lists[k][j].path \in Seq(Nat) /\ lists[k][j].hash \in ListHashes
         /\ j \in Nat /\ j >= 1 /\ j <= Len(lists[k]) /\ Len(lists[k]) \in Nat
<1>1. lists[k] \in Seq(M!Files)
  BY DEF MergeTypeOK
<1>2. lists[k][j] \in M!Files /\ j \in 1..Len(lists[k]) /\ Len(lists[k]) \in Nat
  BY <1>1
<1> QED
  BY <1>2 DEF M!Files

\* The other Root is a Root.
LEMMA Other ==
  ASSUME NEW k \in M!Roots
  PROVE  3 - k \in M!Roots /\ 3 - (3 - k) = k /\ 3 - k # k /\ M!Roots = {k, 3 - k}
BY DEF M!Roots

\* When Root k is first, its file comes before all that is to come in the other.
LEMMA FirstBefore ==
  ASSUME MergeInv, NEW k \in M!Roots, M!First(k), NEW j \in DOMAIN lists[3 - k], places[3 - k] <= j
  PROVE  M!Before(M!Cur(k).path, lists[3 - k][j].path)
<1>1. 3 - k \in M!Roots
  BY Other
<1>2. places[k] \in DOMAIN lists[k] /\ MergeTypeOK /\ M!Sorted(lists[3 - k])
  BY <1>1 DEF M!First, M!Present, MergeInv, Walks
<1>3. places[3 - k] \in Nat /\ j <= Len(lists[3 - k]) /\ j \in Nat /\ Len(lists[3 - k]) \in Nat
  BY <1>1, <1>2, FileTypes DEF MergeTypeOK
<1>4. ~M!Ended(3 - k)
  BY <1>3 DEF M!Ended
<1>5. M!Present(3 - k) /\ M!Before(M!Cur(k).path, M!Cur(3 - k).path)
  BY <1>4 DEF M!First
<1>6. CASE j = places[3 - k]
  BY <1>5, <1>6 DEF M!Cur
<1>7. CASE places[3 - k] < j
  <2>1. M!Before(M!Cur(3 - k).path, lists[3 - k][j].path)
    BY <1>2, <1>5, <1>7 DEF M!Sorted, M!Present, M!Cur
  <2>2. /\ M!Cur(k).path \in Seq(Nat) /\ M!Cur(3 - k).path \in Seq(Nat)
        /\ lists[3 - k][j].path \in Seq(Nat)
    BY <1>1, <1>2, <1>5, FileTypes DEF M!Present, M!Cur
  <2> QED
    BY <1>5, <2>1, <2>2, BeforeTransitive, SameOrder
<1> QED
  BY <1>3, <1>6, <1>7

\* ... and the other does not have it.
LEMMA FirstLacks ==
  ASSUME MergeInv, NEW k \in M!Roots, M!First(k)
  PROVE  M!Has(k, M!Cur(k).path, M!Cur(k).hash) /\ M!Lacks(3 - k, M!Cur(k).path)
<1>1. places[k] \in DOMAIN lists[k] /\ MergeTypeOK /\ 3 - k \in M!Roots /\ Behind
      /\ M!Cur(k) = lists[k][places[k]] /\ places \in [M!Roots -> Nat]
  BY Other DEF M!First, M!Present, MergeInv, M!Cur, MergeTypeOK
<1>2. M!Has(k, M!Cur(k).path, M!Cur(k).hash)
  BY <1>1 DEF M!Has
<1>3. M!Cur(k).path \in Seq(Nat)
  BY <1>1, FileTypes
<1>4. ASSUME NEW j \in DOMAIN lists[3 - k] PROVE lists[3 - k][j].path # M!Cur(k).path
  <2>1. j \in Nat /\ places[3 - k] \in Nat /\ places[k] \in Nat
    BY <1>1, FileTypes
  <2>2. CASE j < places[3 - k]
    <3>1. M!Before(lists[3 - k][j].path, lists[3 - (3 - k)][places[k]].path)
      BY <1>1, <2>1, <2>2, Other DEF Behind
    <3>2. M!Before(lists[3 - k][j].path, M!Cur(k).path)
      BY <1>1, <3>1, Other
    <3> QED
      BY <1>3, <3>2, BeforeIrreflexive, SameOrder
  <2>3. CASE places[3 - k] <= j
    BY <1>3, <2>3, FirstBefore, BeforeIrreflexive, SameOrder
  <2> QED
    BY <2>1, <2>2, <2>3
<1> QED
  BY <1>2, <1>4 DEF M!Lacks
-----------------------------------------------------------------------------
(* The steps *)

\* One step of the loop.  The walks in K are at the path p and move on, the others are
\* past it, and p goes into the report unless the two Roots agree on it.
Moves(K, p) ==
  /\ K \subseteq M!Roots /\ K # {}
  /\ \A k \in K : M!Present(k) /\ M!Cur(k).path = p
  /\ \A k \in M!Roots \ K : \A j \in DOMAIN lists[k] :
       places[k] <= j => M!Before(p, lists[k][j].path)
  /\ places' = [k \in M!Roots |-> IF k \in K THEN places[k] + 1 ELSE places[k]]
  /\ lists' = lists /\ over' = over

\* Where the step leaves the walks.
LEMMA MovesAt ==
  ASSUME MergeInv, NEW K, NEW p, Moves(K, p), NEW k \in M!Roots
  PROVE  /\ places'[k] \in Nat /\ places[k] \in Nat /\ places[k] <= places'[k] /\ places'[k] >= 1
         /\ \A j \in Nat : j < places'[k] => j < places[k] \/ (k \in K /\ j = places[k])
         /\ \A j \in DOMAIN lists[k] : places'[k] <= j => M!Before(p, lists[k][j].path)
<1>1. /\ MergeTypeOK /\ Walks /\ places \in [M!Roots -> Nat]
      /\ places'[k] = IF k \in K THEN places[k] + 1 ELSE places[k]
  BY DEF MergeInv, MergeTypeOK, Moves
<1>2. PICK h \in K : h \in M!Roots /\ places[h] \in DOMAIN lists[h]
  BY DEF Moves, M!Present
<1>3. places[h] >= 1 /\ places[k] \in Nat
  BY <1>1, <1>2, FileTypes
<1>4. places[k] # 0
  BY <1>1, <1>2, <1>3 DEF Walks, M!Roots
<1>5. ASSUME NEW j \in DOMAIN lists[k], places'[k] <= j PROVE M!Before(p, lists[k][j].path)
  <2>1. j \in Nat
    BY <1>1, FileTypes
  <2>2. CASE k \in K
    <3>1. places[k] < j /\ places[k] \in DOMAIN lists[k] /\ lists[k][places[k]].path = p
      BY <1>1, <1>3, <1>5, <2>1, <2>2 DEF Moves, M!Present, M!Cur
    <3> QED
      BY <1>1, <3>1 DEF Walks, M!Sorted
  <2>3. CASE k \notin K
    BY <1>1, <1>5, <2>3 DEF Moves
  <2> QED
    BY <2>2, <2>3
<1> QED
  BY <1>1, <1>3, <1>4, <1>5

\* What does not depend on the report survives the step.
LEMMA MovesWalks ==
  ASSUME MergeInv, NEW K, NEW p, Moves(K, p)
  PROVE  Walks' /\ Behind' /\ places' \in [M!Roots -> Nat] /\ lists' \in [M!Roots -> Seq(M!Files)]
<1>1. MergeTypeOK /\ Walks /\ Behind /\ lists' = lists /\ over' = over
  BY DEF MergeInv, Moves
<1>2. places' \in [M!Roots -> Nat] /\ lists' \in [M!Roots -> Seq(M!Files)]
  BY <1>1, MovesAt DEF Moves, MergeTypeOK
<1>3. Walks'
  <2>1. \A k \in M!Roots : M!Sorted(lists'[k])
    BY <1>1 DEF Walks
  <2>2. places'[1] # 0 /\ places'[2] # 0
    BY MovesAt DEF M!Roots
  <2>3. ASSUME over', NEW k \in M!Roots PROVE places'[k] > Len(lists'[k])
    <3>1. places[k] > Len(lists[k]) /\ Len(lists[k]) \in Nat
      BY <1>1, <2>3 DEF Walks, M!Ended, MergeTypeOK
    <3> QED
      BY <1>1, <3>1, MovesAt
  <2> QED
    BY <2>1, <2>2, <2>3 DEF Walks, M!Ended
<1>4. ASSUME NEW k \in M!Roots, NEW i \in DOMAIN lists[k], NEW j \in DOMAIN lists[3 - k],
             i < places'[k], places'[3 - k] <= j
      PROVE  M!Before(lists[k][i].path, lists[3 - k][j].path)
  <2>1. i \in Nat /\ j \in Nat /\ 3 - k \in M!Roots
    BY <1>1, FileTypes, Other
  <2>2. CASE i < places[k]
    <3>1. places[3 - k] <= j
      BY <1>4, <2>1, MovesAt
    <3> QED
      BY <1>1, <2>2, <3>1 DEF Behind
  <2>3. CASE k \in K /\ i = places[k]
    <3>1. lists[k][i].path = p
      BY <2>3 DEF Moves, M!Cur
    <3> QED
      BY <1>4, <2>1, <3>1, MovesAt
  <2> QED
    BY <1>4, <2>1, <2>2, <2>3, MovesAt
<1> QED
  BY <1>1, <1>2, <1>3, <1>4 DEF Behind

\* A step that reports nothing: both Roots have the file.
LEMMA MovesSilently ==
  ASSUME MergeInv, NEW K, NEW p, Moves(K, p), said' = said,
         \A k \in K : M!Has(3 - k, p, M!Cur(k).hash)
  PROVE  MergeInv'
<1>1. /\ MergeTypeOK /\ ReportBehind /\ Passed /\ M!Sound /\ M!InOrder
      /\ lists' = lists /\ over' = over /\ said' = said
  BY DEF MergeInv, Moves
<1>2. MergeTypeOK' /\ Walks' /\ Behind'
  BY <1>1, MovesWalks DEF MergeTypeOK
<1>3. ReportBehind'
  <2>1. ASSUME NEW r \in DOMAIN said, NEW k \in M!Roots, NEW j \in DOMAIN lists[k], places'[k] <= j
        PROVE  M!Before(said[r].path, lists[k][j].path)
    <3>1. places[k] <= j
      BY <1>1, <2>1, MovesAt, FileTypes
    <3> QED
      BY <1>1, <3>1 DEF ReportBehind
  <2> QED
    BY <1>1, <2>1 DEF ReportBehind
<1>4. Passed'
  <2>1. ASSUME NEW k \in M!Roots, NEW j \in DOMAIN lists[k], j < places'[k]
        PROVE  \/ M!Has(3 - k, lists[k][j].path, lists[k][j].hash)
               \/ \E i \in DOMAIN said : said[i].path = lists[k][j].path
    <3>1. j \in Nat
      BY <1>1, FileTypes
    <3>2. CASE j < places[k]
      BY <1>1, <3>2 DEF Passed
    <3>3. CASE k \in K /\ j = places[k]
      BY <3>3 DEF Moves, M!Cur
    <3> QED
      BY <2>1, <3>1, <3>2, <3>3, MovesAt
  <2> QED
    BY <1>1, <2>1 DEF Passed, M!Has
<1>5. M!Sound' /\ M!InOrder'
  BY <1>1 DEF M!Sound, M!InOrder, M!True, M!Has, M!Lacks
<1> QED
  BY <1>2, <1>3, <1>4, <1>5 DEF MergeInv

\* A step that reports an entry, a true one.
LEMMA MovesReporting ==
  ASSUME MergeInv, NEW K, NEW p, Moves(K, p), NEW e \in MergeEntries, e.path = p, M!True(e),
         said' = Append(said, e)
  PROVE  MergeInv'
<1>1. /\ MergeTypeOK /\ ReportBehind /\ Passed /\ M!Sound /\ M!InOrder
      /\ lists' = lists /\ over' = over
  BY DEF MergeInv, Moves
<1>2. /\ said' \in Seq(MergeEntries) /\ Len(said) \in Nat /\ Len(said') = Len(said) + 1
      /\ DOMAIN said = 1..Len(said) /\ DOMAIN said' = 1..(Len(said) + 1)
      /\ \A r \in DOMAIN said : said'[r] = said[r]
      /\ said'[Len(said) + 1] = e
  BY <1>1 DEF MergeTypeOK
<1>3. MergeTypeOK' /\ Walks' /\ Behind'
  BY <1>1, <1>2, MovesWalks DEF MergeTypeOK
<1>4. ReportBehind'
  <2>1. ASSUME NEW r \in DOMAIN said', NEW k \in M!Roots, NEW j \in DOMAIN lists[k], places'[k] <= j
        PROVE  M!Before(said'[r].path, lists[k][j].path)
    <3>1. CASE r \in DOMAIN said
      <4>1. places[k] <= j
        BY <1>1, <2>1, MovesAt, FileTypes
      <4> QED
        BY <1>1, <1>2, <3>1, <4>1 DEF ReportBehind
    <3>2. CASE r = Len(said) + 1
      BY <1>2, <2>1, <3>2, MovesAt
    <3> QED
      BY <1>2, <3>1, <3>2
  <2> QED
    BY <1>1, <2>1 DEF ReportBehind
<1>5. Passed'
  <2>1. ASSUME NEW k \in M!Roots, NEW j \in DOMAIN lists[k], j < places'[k]
        PROVE  \/ M!Has(3 - k, lists[k][j].path, lists[k][j].hash)
               \/ \E i \in DOMAIN said' : said'[i].path = lists[k][j].path
    <3>1. j \in Nat
      BY <1>1, FileTypes
    <3>2. CASE j < places[k]
      <4>1. CASE \E i \in DOMAIN said : said[i].path = lists[k][j].path
        BY <1>2, <4>1
      <4> QED
        BY <1>1, <3>2, <4>1 DEF Passed
    <3>3. CASE k \in K /\ j = places[k]
      <4>1. lists[k][j].path = p
        BY <3>3 DEF Moves, M!Cur
      <4> QED
        BY <1>2, <4>1
    <3> QED
      BY <2>1, <3>1, <3>2, <3>3, MovesAt
  <2> QED
    BY <1>1, <2>1 DEF Passed, M!Has
<1>6. M!Sound'
  <2>1. \A x : M!True(x)' <=> M!True(x)
    BY <1>1 DEF M!True, M!Has, M!Lacks
  <2> QED
    BY <1>1, <1>2, <2>1 DEF M!Sound
<1>7. M!InOrder'
  <2>1. ASSUME NEW i \in DOMAIN said', NEW j \in DOMAIN said', i < j
        PROVE  M!Before(said'[i].path, said'[j].path)
    <3>1. i \in DOMAIN said
      BY <1>2, <2>1
    <3>2. CASE j \in DOMAIN said
      BY <1>1, <1>2, <2>1, <3>1, <3>2 DEF M!InOrder
    <3>3. CASE j = Len(said) + 1
      <4>1. PICK k \in K : /\ k \in M!Roots /\ places[k] \in DOMAIN lists[k]
                           /\ lists[k][places[k]].path = p
        BY DEF Moves, M!Present, M!Cur
      <4>2. places[k] <= places[k]
        BY <4>1, MovesAt
      <4> QED
        BY <1>1, <1>2, <3>1, <3>3, <4>1, <4>2 DEF ReportBehind
    <3> QED
      BY <1>2, <3>2, <3>3
  <2> QED
    BY <2>1 DEF M!InOrder
<1> QED
  BY <1>3, <1>4, <1>5, <1>6, <1>7 DEF MergeInv

-----------------------------------------------------------------------------
(* The theorem *)

LEMMA MergeInitOK ==
  ASSUME M!Init
  PROVE  MergeInv
<1>1. /\ lists \in [M!Roots -> Seq(M!Files)] /\ \A k \in M!Roots : M!Sorted(lists[k])
      /\ places = [k \in M!Roots |-> 0] /\ said = <<>> /\ over = FALSE
  BY DEF M!Init
<1>2. MergeTypeOK
  <2>1. places \in [M!Roots -> Nat] /\ over \in BOOLEAN
    BY <1>1
  <2>2. said \in Seq(MergeEntries)
    BY <1>1
  <2> QED
    BY <1>1, <2>1, <2>2 DEF MergeTypeOK
<1>3. \A k \in M!Roots : places[k] = 0 /\ \A j \in DOMAIN lists[k] : j \in Nat /\ j >= 1
  BY <1>1, <1>2, FileTypes
<1>4. Walks
  BY <1>1 DEF Walks, M!Roots
<1>5. Behind /\ ReportBehind /\ Passed /\ M!Sound /\ M!InOrder
  BY <1>1, <1>3 DEF Behind, ReportBehind, Passed, M!Sound, M!InOrder
<1> QED
  BY <1>2, <1>4, <1>5 DEF MergeInv

\* A file that one Root has and the other lacks.
LEMMA OnlyMoves ==
  ASSUME MergeInv, NEW k \in M!Roots, M!First(k),
         places' = [places EXCEPT ![k] = @ + 1], lists' = lists, over' = over
  PROVE  Moves({k}, M!Cur(k).path)
<1>1. places \in [M!Roots -> Nat] /\ M!Present(k)
  BY DEF MergeInv, MergeTypeOK, M!First
<1>2. places' = [h \in M!Roots |-> IF h \in {k} THEN places[h] + 1 ELSE places[h]]
  BY <1>1
<1>3. ASSUME NEW h \in M!Roots \ {k}, NEW j \in DOMAIN lists[h], places[h] <= j
      PROVE  M!Before(M!Cur(k).path, lists[h][j].path)
  <2>1. h = 3 - k
    BY Other
  <2> QED
    BY <1>3, <2>1, FirstBefore
<1> QED
  BY <1>1, <1>2, <1>3 DEF Moves

\* Every step keeps the invariant.
LEMMA MergeNextOK ==
  ASSUME MergeInv, [M!Next]_(M!vars)
  PROVE  MergeInv'
<1>0. MergeTypeOK /\ 1 \in M!Roots /\ 2 \in M!Roots /\ 3 - 1 = 2 /\ 3 - 2 = 1
  BY DEF MergeInv, M!Roots
<1>1. CASE M!Start
  <2>1. /\ lists' = lists /\ said' = said /\ over' = over /\ MergeTypeOK'
        /\ \A k \in M!Roots : places[k] = 0 /\ places'[k] = 1
    BY <1>0, <1>1 DEF M!Start, MergeTypeOK
  <2>2. \A k \in M!Roots : \A j \in DOMAIN lists[k] : j \in Nat /\ j >= 1
    BY <1>0, FileTypes
  <2>3. Walks'
    <3>1. ~over
      <4>1. ASSUME over PROVE FALSE
        <5>1. places[1] > Len(lists[1]) /\ places[1] = 0 /\ Len(lists[1]) \in Nat
          BY <1>0, <2>1, <4>1 DEF MergeInv, Walks, M!Ended, MergeTypeOK
        <5> QED
          BY <5>1
      <4> QED
        BY <4>1
    <3> QED
      BY <1>0, <2>1, <3>1 DEF MergeInv, Walks
  <2>4. Behind' /\ Passed'
    BY <2>1, <2>2 DEF Behind, Passed
  <2>5. ReportBehind' /\ M!Sound' /\ M!InOrder'
    BY <2>1, <2>2 DEF MergeInv, ReportBehind, M!Sound, M!InOrder, M!True, M!Has, M!Lacks
  <2> QED
    BY <2>1, <2>3, <2>4, <2>5 DEF MergeInv
<1>2. CASE M!Deleted
  <2> DEFINE e == M!Entry("deleted", M!Cur(1).path, M!Cur(1).hash, NoEntry)
  <2>1. M!First(1) /\ said' = Append(said, e) /\ lists' = lists /\ over' = over
        /\ places' = [places EXCEPT ![1] = @ + 1]
    BY <1>2 DEF M!Deleted
  <2>2. Moves({1}, M!Cur(1).path)
    BY <1>0, <2>1, OnlyMoves
  <2>3. M!Cur(1).path \in Seq(Nat) /\ M!Cur(1).hash \in ListHashes
    BY <1>0, <2>1, FileTypes DEF M!First, M!Present, M!Cur
  <2>4. e \in MergeEntries /\ e.path = M!Cur(1).path
    BY <2>3 DEF M!Entry, MergeEntries
  <2>5. M!True(e)
    BY <1>0, <2>1, FirstLacks DEF M!True, M!Entry
  <2> HIDE DEF e
  <2> QED
    BY <2>1, <2>2, <2>4, <2>5, MovesReporting
<1>3. CASE M!Added
  <2> DEFINE e == M!Entry("added", M!Cur(2).path, NoEntry, M!Cur(2).hash)
  <2>1. M!First(2) /\ said' = Append(said, e) /\ lists' = lists /\ over' = over
        /\ places' = [places EXCEPT ![2] = @ + 1]
    BY <1>3 DEF M!Added
  <2>2. Moves({2}, M!Cur(2).path)
    BY <1>0, <2>1, OnlyMoves
  <2>3. M!Cur(2).path \in Seq(Nat) /\ M!Cur(2).hash \in ListHashes
    BY <1>0, <2>1, FileTypes DEF M!First, M!Present, M!Cur
  <2>4. e \in MergeEntries /\ e.path = M!Cur(2).path
    BY <2>3 DEF M!Entry, MergeEntries
  <2>5. M!True(e)
    BY <1>0, <2>1, FirstLacks DEF M!True, M!Entry
  <2> HIDE DEF e
  <2> QED
    BY <2>1, <2>2, <2>4, <2>5, MovesReporting
<1>4. CASE M!Both
  <2> DEFINE p == M!Cur(1).path
             e == M!Entry("changed", p, M!Cur(1).hash, M!Cur(2).hash)
  <2>1. /\ M!Present(1) /\ M!Present(2) /\ M!Cur(2).path = p /\ lists' = lists /\ over' = over
        /\ places' = [k \in M!Roots |-> places[k] + 1]
        /\ M!Cur(1) = lists[1][places[1]] /\ M!Cur(2) = lists[2][places[2]]
    BY <1>4 DEF M!Both, M!Cur
  <2>2. Moves({1, 2}, p)
    <3>1. M!Roots = {1, 2}
      BY DEF M!Roots
    <3> QED
      BY <2>1, <3>1 DEF Moves
  <2>3. M!Has(1, p, M!Cur(1).hash) /\ M!Has(2, p, M!Cur(2).hash)
    BY <2>1 DEF M!Has, M!Present
  <2>4. CASE M!Cur(1).hash = M!Cur(2).hash
    <3>1. said' = said
      BY <1>4, <2>4 DEF M!Both
    <3>2. \A k \in {1, 2} : M!Has(3 - k, p, M!Cur(k).hash)
      BY <1>0, <2>3, <2>4
    <3> HIDE DEF p
    <3> QED
      BY <2>2, <3>1, <3>2, MovesSilently
  <2>5. CASE M!Cur(1).hash # M!Cur(2).hash
    <3>1. said' = Append(said, e)
      BY <1>4, <2>5 DEF M!Both
    <3>2. /\ p \in Seq(Nat) /\ M!Cur(1).hash \in ListHashes /\ M!Cur(2).hash \in ListHashes
      BY <1>0, <2>1, FileTypes DEF M!Present
    <3>3. e \in MergeEntries /\ e.path = p
      BY <3>2 DEF M!Entry, MergeEntries
    <3>4. M!True(e)
      BY <2>3, <2>5 DEF M!True, M!Entry
    <3> HIDE DEF p, e
    <3> QED
      BY <2>2, <3>1, <3>3, <3>4, MovesReporting
  <2> QED
    BY <2>4, <2>5
<1>5. CASE M!Finish
  <2>1. /\ M!Ended(1) /\ M!Ended(2) /\ over' = TRUE
        /\ lists' = lists /\ places' = places /\ said' = said
    BY <1>5 DEF M!Finish
  <2>2. MergeTypeOK' /\ Walks'
    BY <2>1 DEF MergeInv, MergeTypeOK, Walks, M!Ended, M!Roots
  <2>3. Behind' /\ ReportBehind' /\ Passed' /\ M!Sound' /\ M!InOrder'
    BY <2>1 DEF MergeInv, Behind, ReportBehind, Passed, M!Sound, M!InOrder, M!True, M!Has, M!Lacks
  <2> QED
    BY <2>2, <2>3 DEF MergeInv
<1>6. CASE UNCHANGED M!vars
  <2>1. lists' = lists /\ places' = places /\ said' = said /\ over' = over
    BY <1>6 DEF M!vars
  <2> QED
    BY <2>1 DEF MergeInv, MergeTypeOK, Walks, M!Ended, Behind, ReportBehind, Passed, M!Sound,
                M!InOrder, M!True, M!Has, M!Lacks
<1> QED
  BY <1>1, <1>2, <1>3, <1>4, <1>5, <1>6 DEF M!Next

\* DiffRoots reports exactly the differences of the two lists of files it merges, for
\* any two lists: what the report says is true, it is in order and so says it once,
\* and when the loop ends nothing is missing.
THEOREM ReportsExactly == M!Spec => []M!Exact
<1>1. M!Init => MergeInv
  BY MergeInitOK
<1>2. MergeInv /\ [M!Next]_(M!vars) => MergeInv'
  BY MergeNextOK
<1>3. MergeInv => M!Exact
  <2>1. SUFFICES ASSUME MergeInv, over PROVE M!Complete
    BY DEF MergeInv, M!Exact
  <2>2. ASSUME NEW k \in M!Roots, NEW j \in DOMAIN lists[k] PROVE j < places[k]
    <3>1. places[k] > Len(lists[k]) /\ places[k] \in Nat
      BY <2>1 DEF MergeInv, Walks, M!Ended, MergeTypeOK
    <3>2. j \in Nat /\ j <= Len(lists[k]) /\ Len(lists[k]) \in Nat
      BY <2>1, FileTypes DEF MergeInv
    <3> QED
      BY <3>1, <3>2
  <2> QED
    BY <2>1, <2>2 DEF MergeInv, Passed, M!Complete
<1> QED
  BY <1>1, <1>2, <1>3, PTL DEF M!Spec
=============================================================================
