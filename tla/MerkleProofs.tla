---------------------------- MODULE MerkleProofs ----------------------------
(***************************************************************************)
(* What a path leads to in a tree of directory blobs (Resolve), one name   *)
(* after the other, and the order of paths (Before), for paths of any      *)
(* length.                                                                 *)
(*                                                                         *)
(* The provers cannot instantiate an induction theorem whose parameter is  *)
(* an operator.  They can use its form for sets: that a nonempty set of    *)
(* numbers has a least element, which follows from the well-foundedness of *)
(* the numbers.                                                            *)
(***************************************************************************)
EXTENDS Merkle, PathOrder, SequenceTheorems, WellFoundedInduction, TLAPS

LEMMA NatOrder ==
  \E R : IsWellFoundedOn(R, Nat) /\ \A k \in Nat, l \in Nat : k < l => <<k, l>> \in R
<1>1. IsWellFoundedOn(OpToRel(<, Nat), Nat)
  BY NatLessThanWellFounded
<1>2. \A k \in Nat, l \in Nat : k < l => <<k, l>> \in OpToRel(<, Nat)
  BY DEF OpToRel
<1> QED
  BY <1>1, <1>2, Zenon

\* A nonempty set of natural numbers has a least element.
LEMMA LeastNat ==
  ASSUME NEW S, S \subseteq Nat, S # {}
  PROVE  \E m \in S : \A k \in S : m <= k
<1>1. PICK R : IsWellFoundedOn(R, Nat) /\ \A k \in Nat, l \in Nat : k < l => <<k, l>> \in R
  BY NatOrder, Zenon
<1>2. IsWellFoundedOn(R, Nat)
  BY <1>1
<1>3. PICK m \in S : \A k \in S : ~(<<k, m>> \in R)
  <2>1. \E m \in S : \A k \in S : ~(<<k, m>> \in R)
    BY <1>2, WFMin, Zenon
  <2> QED
    BY <2>1
<1>4. \A k \in S : k \in Nat /\ m \in Nat /\ ~(k < m)
  BY <1>1, <1>3, Zenon
<1> QED
  BY <1>4

\* A set of numbers with 0 and the successor of each of its members has them all.
LEMMA NatSteps ==
  ASSUME NEW S, 0 \in S, \A n \in Nat : n \in S => n + 1 \in S
  PROVE  Nat \subseteq S
<1>1. SUFFICES ASSUME Nat \ S # {}
               PROVE  FALSE
  OBVIOUS
<1>2. PICK m \in Nat \ S : \A k \in Nat \ S : m <= k
  <2>1. Nat \ S \subseteq Nat
    OBVIOUS
  <2> QED
    BY <1>1, <2>1, LeastNat
<1>3. m # 0 /\ m - 1 \in Nat /\ m - 1 \notin S
  BY <1>2
<1> QED
  BY <1>2, <1>3

-----------------------------------------------------------------------------
(* The fold that Resolve is, as a function on the sets of places in a path *)

Folds(it, h, path, D) ==
  it = [s \in SUBSET D |-> IF s = {} THEN h ELSE Child(it[s \ {Max(s)}], path[Max(s)])]

Fold(h, path) == CHOOSE it : Folds(it, h, path, DOMAIN path)

LEMMA ResolveFold ==
  ASSUME NEW h, NEW path
  PROVE  Resolve(h, path) = Fold(h, path)[DOMAIN path]
BY DEF Resolve, FoldLeft, MapThenFoldSet, Fold, Folds

LEMMA MaxOf ==
  ASSUME NEW k \in Nat, NEW s, s \subseteq 1..k, k \in s
  PROVE  Max(s) = k
<1>1. k \in s /\ \A y \in s : k >= y
  OBVIOUS
<1>2. \A x \in s : (\A y \in s : x >= y) => x = k
  OBVIOUS
<1> QED
  BY <1>1, <1>2 DEF Max

\* There is such a function.
LEMMA FoldExists ==
  ASSUME NEW h, NEW path
  PROVE  \A k \in Nat : \E it : Folds(it, h, path, 1..k)
<1> DEFINE S == {k \in Nat : \E it : Folds(it, h, path, 1..k)}
<1>1. 0 \in S
  <2>1. Folds([s \in {{}} |-> h], h, path, {})
    BY DEF Folds
  <2>2. 1..0 = {}
    OBVIOUS
  <2> QED
    BY <2>1, <2>2
<1>2. ASSUME NEW k \in Nat, k \in S
      PROVE  k + 1 \in S
  <2>1. PICK it : Folds(it, h, path, 1..k)
    BY <1>2
  <2>2. PICK jt : jt = [s \in SUBSET (1..(k + 1)) |->
                          IF k + 1 \notin s THEN it[s] ELSE Child(it[s \ {k + 1}], path[k + 1])]
    OBVIOUS
  <2>3. \A s \in SUBSET (1..(k + 1)) : k + 1 \notin s => s \in SUBSET (1..k)
    OBVIOUS
  <2>4. ASSUME NEW s \in SUBSET (1..(k + 1))
        PROVE  jt[s] = IF s = {} THEN h ELSE Child(jt[s \ {Max(s)}], path[Max(s)])
    <3>1. CASE k + 1 \in s
      <4>1. Max(s) = k + 1
        <5>1. k + 1 \in Nat /\ s \subseteq 1..(k + 1)
          OBVIOUS
        <5> QED
          BY <3>1, <5>1, MaxOf
      <4>2. jt[s \ {k + 1}] = it[s \ {k + 1}]
        BY <2>2
      <4> QED
        BY <2>2, <3>1, <4>1, <4>2
    <3>2. CASE k + 1 \notin s
      <4>1. jt[s] = it[s] /\ jt[s \ {Max(s)}] = it[s \ {Max(s)}]
        BY <2>2, <3>2
      <4>2. it[s] = IF s = {} THEN h ELSE Child(it[s \ {Max(s)}], path[Max(s)])
        BY <2>1, <2>3, <3>2 DEF Folds
      <4> QED
        BY <4>1, <4>2
    <3> QED
      BY <3>1, <3>2
  <2>5. jt = [s \in SUBSET (1..(k + 1)) |-> jt[s]]
    BY <2>2
  <2>6. jt = [s \in SUBSET (1..(k + 1)) |->
                IF s = {} THEN h ELSE Child(jt[s \ {Max(s)}], path[Max(s)])]
    BY <2>4, <2>5
  <2>7. Folds(jt, h, path, 1..(k + 1))
    BY <2>6 DEF Folds
  <2> QED
    BY <2>7
<1>3. Nat \subseteq S
  BY <1>1, <1>2, NatSteps
<1> QED
  BY <1>3

\* What it comes to after the first k names.
LEMMA FoldSteps ==
  ASSUME NEW h, NEW X, NEW path \in Seq(X)
  PROVE  /\ Fold(h, path)[{}] = h
         /\ \A k \in 0..(Len(path) - 1) :
              Fold(h, path)[1..(k + 1)] = Child(Fold(h, path)[1..k], path[k + 1])
<1>1. DOMAIN path = 1..Len(path) /\ Len(path) \in Nat
  OBVIOUS
<1>2. Folds(Fold(h, path), h, path, 1..Len(path))
  BY <1>1, FoldExists DEF Fold
<1>3. PICK it : it = Fold(h, path)
  OBVIOUS
<1>4. \A s \in SUBSET (1..Len(path)) :
        it[s] = IF s = {} THEN h ELSE Child(it[s \ {Max(s)}], path[Max(s)])
  BY <1>2, <1>3 DEF Folds
<1>5. it[{}] = h
  <2>1. {} \in SUBSET (1..Len(path))
    OBVIOUS
  <2> QED
    BY <1>4, <2>1
<1>6. ASSUME NEW k \in 0..(Len(path) - 1)
      PROVE  it[1..(k + 1)] = Child(it[1..k], path[k + 1])
  <2>1. k + 1 \in Nat /\ k + 1 \in 1..(k + 1) /\ k + 1 <= Len(path)
    BY <1>1
  <2>2. 1..(k + 1) \in SUBSET (1..Len(path))
    BY <1>1, <2>1
  <2>3. (1..(k + 1)) \ {k + 1} = 1..k
    BY <2>1
  <2>4. Max(1..(k + 1)) = k + 1
    BY <2>1, MaxOf
  <2>5. 1..(k + 1) # {}
    BY <2>1
  <2> QED
    BY <1>4, <2>2, <2>3, <2>4, <2>5
<1> QED
  BY <1>3, <1>5, <1>6

\* The names after the first k do not matter.
LEMMA FoldPrefix ==
  ASSUME NEW h, NEW X, NEW path \in Seq(X), NEW p2 \in Seq(X), Len(path) <= Len(p2),
         \A i \in 1..Len(path) : p2[i] = path[i]
  PROVE  \A k \in 0..Len(path) : Fold(h, p2)[1..k] = Fold(h, path)[1..k]
<1> DEFINE S == {k \in Nat : k <= Len(path) => Fold(h, p2)[1..k] = Fold(h, path)[1..k]}
<1>1. Len(path) \in Nat /\ Len(p2) \in Nat
  OBVIOUS
<1>2. 0 \in S
  <2>1. 1..0 = {}
    OBVIOUS
  <2> QED
    BY <2>1, FoldSteps
<1>3. ASSUME NEW k \in Nat, k \in S
      PROVE  k + 1 \in S
  <2>1. CASE k + 1 <= Len(path)
    <3>1. k \in 0..(Len(path) - 1) /\ k \in 0..(Len(p2) - 1) /\ p2[k + 1] = path[k + 1]
      BY <1>1, <2>1
    <3>2. Fold(h, p2)[1..k] = Fold(h, path)[1..k]
      BY <1>1, <1>3, <3>1
    <3>3. Fold(h, path)[1..(k + 1)] = Child(Fold(h, path)[1..k], path[k + 1])
      BY <3>1, FoldSteps
    <3>4. Fold(h, p2)[1..(k + 1)] = Child(Fold(h, p2)[1..k], p2[k + 1])
      BY <3>1, FoldSteps
    <3> QED
      BY <3>1, <3>2, <3>3, <3>4
  <2>2. CASE ~(k + 1 <= Len(path))
    BY <2>2
  <2> QED
    BY <2>1, <2>2
<1>4. Nat \subseteq S
  BY <1>2, <1>3, NatSteps
<1> QED
  BY <1>1, <1>4

-----------------------------------------------------------------------------
(* Resolve *)

LEMMA ResolveEmpty ==
  ASSUME NEW h
  PROVE  Resolve(h, <<>>) = h
<1>1. << >> \in Seq(STRING) /\ DOMAIN << >> = {}
  OBVIOUS
<1> QED
  BY <1>1, ResolveFold, FoldSteps

LEMMA ResolveAppend ==
  ASSUME NEW h, NEW X, NEW path \in Seq(X), NEW n \in X
  PROVE  Resolve(h, Append(path, n)) = Child(Resolve(h, path), n)
<1>1. PICK p2 : p2 = Append(path, n)
  OBVIOUS
<1>2. PICK k : k = Len(path)
  OBVIOUS
<1>3. /\ p2 \in Seq(X) /\ k \in Nat /\ Len(p2) = k + 1 /\ p2[k + 1] = n
      /\ DOMAIN p2 = 1..(k + 1) /\ DOMAIN path = 1..k
      /\ \A i \in 1..k : p2[i] = path[i]
  BY <1>1, <1>2
<1>4. Fold(h, p2)[1..(k + 1)] = Child(Fold(h, p2)[1..k], n)
  <2>1. k \in 0..(Len(p2) - 1)
    BY <1>3
  <2> QED
    BY <1>3, <2>1, FoldSteps
<1>5. Fold(h, p2)[1..k] = Fold(h, path)[1..k]
  <2>1. k \in 0..Len(path) /\ Len(path) <= Len(p2)
    BY <1>2, <1>3
  <2> QED
    BY <1>2, <1>3, <2>1, FoldPrefix
<1> QED
  BY <1>1, <1>3, <1>4, <1>5, ResolveFold

-----------------------------------------------------------------------------
(* The hash that is reached after the first k names of a path *)

Reached(h, path, k) == Fold(h, path)[1..k]

LEMMA ReachedSteps ==
  ASSUME NEW h, NEW X, NEW path \in Seq(X)
  PROVE  /\ Reached(h, path, 0) = h
         /\ \A k \in 0..(Len(path) - 1) :
              Reached(h, path, k + 1) = Child(Reached(h, path, k), path[k + 1])
         /\ Resolve(h, path) = Reached(h, path, Len(path))
<1>1. 1..0 = {} /\ DOMAIN path = 1..Len(path)
  OBVIOUS
<1> QED
  BY <1>1, ResolveFold, FoldSteps DEF Reached

\* A path that leads anywhere leads through directories.
LEMMA ReachedDirs ==
  ASSUME NEW h, NEW X, NEW path \in Seq(X), Resolve(h, path) # NoHash,
         NEW k \in 0..(Len(path) - 1)
  PROVE  IsDirHash(Reached(h, path, k))
<1> SUFFICES ASSUME ~IsDirHash(Reached(h, path, k))
             PROVE  FALSE
  OBVIOUS
<1> DEFINE S == {j \in Nat : k < j /\ j <= Len(path) => Reached(h, path, j) = NoHash}
<1>1. Len(path) \in Nat /\ k \in Nat
  OBVIOUS
<1>2. 0 \in S
  BY <1>1
<1>3. ASSUME NEW j \in Nat, j \in S
      PROVE  j + 1 \in S
  <2>1. CASE k <= j /\ j + 1 <= Len(path)
    <3>1. Reached(h, path, j + 1) = Child(Reached(h, path, j), path[j + 1])
      BY <1>1, <2>1, ReachedSteps
    <3>2. ~IsDirHash(Reached(h, path, j))
      BY <1>1, <1>3, <2>1 DEF IsDirHash
    <3> QED
      BY <3>1, <3>2 DEF Child
  <2>2. CASE ~(k <= j /\ j + 1 <= Len(path))
    BY <1>1, <2>2
  <2> QED
    BY <2>1, <2>2
<1>4. Nat \subseteq S
  BY <1>2, <1>3, NatSteps
<1>5. Reached(h, path, Len(path)) = NoHash
  BY <1>1, <1>4
<1> QED
  BY <1>5, ReachedSteps

LEMMA ReachedStep ==
  ASSUME NEW h, NEW X, NEW path \in Seq(X), NEW k \in 0..(Len(path) - 1)
  PROVE  Reached(h, path, k + 1) = Child(Reached(h, path, k), path[k + 1])
BY FoldSteps DEF Reached

\* A set of blobs that has, with each directory, the blobs that it names.
Closed(C) == \A h \in C : Children(h) \subseteq C

\* A path never leads out of such a set: what completeness of a stored tree comes down
\* to, for trees of any shape and paths of any length.
THEOREM PathsStayInside ==
  ASSUME NEW C, Closed(C), NEW h \in C,
         NEW X, NEW path \in Seq(X)
  PROVE  Resolve(h, path) \in C \union {NoHash}
<1>5. Reached(h, path, 0) = h /\ Resolve(h, path) = Reached(h, path, Len(path))
  BY ReachedSteps
<1> DEFINE S == {k \in Nat : k <= Len(path) => Reached(h, path, k) \in C \union {NoHash}}
<1>1. Len(path) \in Nat
  OBVIOUS
<1>2. 0 \in S
  BY <1>5
<1>3. ASSUME NEW k \in Nat, k \in S
      PROVE  k + 1 \in S
  <2>1. CASE k + 1 <= Len(path)
    <3>1. PICK b, n : b = Reached(h, path, k) /\ n = path[k + 1]
      OBVIOUS
    <3>5. k \in 0..(Len(path) - 1) /\ b \in C \union {NoHash}
      BY <1>1, <1>3, <2>1, <3>1
    <3>6. Reached(h, path, k + 1) = Child(Reached(h, path, k), path[k + 1])
      BY <3>5, ReachedStep
    <3>2. b \in C \union {NoHash} /\ Reached(h, path, k + 1) = Child(b, n)
      BY <3>1, <3>5, <3>6
    <3>3. CASE IsDirHash(b) /\ n \in DOMAIN Listing(b)
      <4>1. b \in C
        BY <3>2, <3>3 DEF IsDirHash
      <4>2. Listing(b)[n].hash \in Children(b)
        BY <3>3 DEF Children
      <4>3. Child(b, n) \in C
        BY <3>3, <4>1, <4>2 DEF Child, Closed
      <4> QED
        BY <3>2, <4>3
    <3>4. CASE ~(IsDirHash(b) /\ n \in DOMAIN Listing(b))
      BY <3>2, <3>4 DEF Child
    <3> QED
      BY <3>3, <3>4
  <2>2. CASE ~(k + 1 <= Len(path))
    BY <2>2
  <2> QED
    BY <2>1, <2>2
<1>4. Nat \subseteq S
  BY <1>2, <1>3, NatSteps
<1> QED
  BY <1>1, <1>4, <1>5

-----------------------------------------------------------------------------
(* The order of paths *)

\* No path is before itself: cmpPaths of equal paths is not negative.
LEMMA BeforeIrreflexive ==
  ASSUME NEW p \in Seq(Nat)
  PROVE  ~Before(p, p)
BY DEF Before

\* cmpPaths orders: before the one before is before.
LEMMA BeforeTransitive ==
  ASSUME NEW p \in Seq(Nat), NEW q \in Seq(Nat), NEW r \in Seq(Nat),
         Before(p, q), Before(q, r)
  PROVE  Before(p, r)
<1>1. PICK i \in 1..Len(q) : /\ i <= Len(p) + 1
                             /\ \A l \in 1..(i-1) : p[l] = q[l]
                             /\ i <= Len(p) => p[i] < q[i]
  BY DEF Before
<1>2. PICK j \in 1..Len(r) : /\ j <= Len(q) + 1
                             /\ \A l \in 1..(j-1) : q[l] = r[l]
                             /\ j <= Len(q) => q[j] < r[j]
  BY DEF Before
<1>3. CASE i < j
  <2>1. i \in 1..Len(r) /\ i <= Len(p) + 1 /\ q[i] = r[i]
    BY <1>1, <1>2, <1>3
  <2>2. \A l \in 1..(i-1) : p[l] = r[l]
    BY <1>1, <1>2, <1>3
  <2> QED
    BY <1>1, <2>1, <2>2 DEF Before
<1>4. CASE j <= i
  <2>1. j \in 1..Len(r) /\ j <= Len(p) + 1 /\ j \in 1..Len(q) /\ q[j] < r[j]
    BY <1>1, <1>2, <1>4
  <2>2. \A l \in 1..(j-1) : p[l] = r[l]
    BY <1>1, <1>2, <1>4
  <2>3. ASSUME j <= Len(p) PROVE p[j] < r[j]
    <3>0. j \in 1..Len(p) /\ j \in 1..Len(q) /\ j \in 1..Len(r)
      BY <2>1, <2>3
    <3>1. p[j] \in Nat /\ q[j] \in Nat /\ r[j] \in Nat
      BY <3>0, ElementOfSeq
    <3>2. CASE j = i
      BY <1>1, <2>1, <2>3, <3>1, <3>2
    <3>3. CASE j < i
      BY <1>1, <2>1, <3>1, <3>3
    <3> QED
      BY <1>1, <1>4, <2>1, <3>2, <3>3
  <2> QED
    BY <2>1, <2>2, <2>3 DEF Before
<1> QED
  BY <1>1, <1>2, <1>3, <1>4

\* A place at which p comes before q.
LEMMA BeforeAt ==
  ASSUME NEW p, NEW q, NEW i \in 1..Len(q), i <= Len(p) + 1,
         \A j \in 1..(i-1) : p[j] = q[j],
         i <= Len(p) => p[i] < q[i]
  PROVE  Before(p, q)
BY DEF Before

\* A path is before one that goes on where it ends.
LEMMA PrefixBefore ==
  ASSUME NEW p \in Seq(Nat), NEW q \in Seq(Nat), Len(p) < Len(q),
         \A j \in 1..Len(p) : p[j] = q[j]
  PROVE  Before(p, q)
<1>1. Len(p) \in Nat /\ Len(q) \in Nat
  OBVIOUS
<1>2. Len(p) + 1 \in 1..Len(q) /\ ~(Len(p) + 1 <= Len(p))
  BY <1>1
<1>3. \A j \in 1..((Len(p) + 1) - 1) : p[j] = q[j]
  BY <1>1
<1> QED
  BY <1>1, <1>2, <1>3, BeforeAt

\* cmpPaths is 0 for equal paths only: of two different ones, one is before the other.
THEOREM BeforeTotal ==
  ASSUME NEW p \in Seq(Nat), NEW q \in Seq(Nat), p # q
  PROVE  Before(p, q) \/ Before(q, p)
<1> DEFINE D == {i \in 1..Len(p) : i <= Len(q) /\ p[i] # q[i]}
<1>0. Len(p) \in Nat /\ Len(q) \in Nat
  OBVIOUS
<1>1. CASE D = {}
  <2>1. \A i \in 1..Len(p) : i <= Len(q) => p[i] = q[i]
    BY <1>1
  <2>2. Len(p) # Len(q)
    BY <1>0, <2>1, SeqEqual
  <2>3. CASE Len(p) < Len(q)
    BY <1>0, <2>1, <2>3, PrefixBefore
  <2>4. CASE Len(q) < Len(p)
    BY <1>0, <2>1, <2>4, PrefixBefore
  <2> QED
    BY <1>0, <2>2, <2>3, <2>4
<1>2. CASE D # {}
  <2>1. D \subseteq Nat
    OBVIOUS
  <2>2. PICK m \in D : \A k \in D : m <= k
    BY <1>2, <2>1, LeastNat
  <2>3. /\ m \in 1..Len(p) /\ m \in 1..Len(q) /\ p[m] # q[m]
        /\ p[m] \in Nat /\ q[m] \in Nat /\ m <= Len(p) + 1 /\ m <= Len(q) + 1
    BY <1>0
  <2>4. ASSUME NEW l \in 1..(m-1) PROVE p[l] = q[l]
    <3>1. l \in 1..Len(p) /\ l <= Len(q) /\ l < m
      BY <1>0, <2>3
    <3>2. l \notin D
      BY <2>2, <2>3, <3>1
    <3> QED
      BY <3>1, <3>2
  <2>5. CASE p[m] < q[m]
    BY <2>3, <2>4, <2>5, BeforeAt
  <2>6. CASE q[m] < p[m]
    BY <2>3, <2>4, <2>6, BeforeAt
  <2> QED
    BY <2>3, <2>5, <2>6
<1> QED
  BY <1>1, <1>2
=============================================================================
