--------------------------- MODULE RootTreeProofs ---------------------------
(***************************************************************************)
(* Theorems about RootTree, for every value of its constants.              *)
(*                                                                         *)
(* First TypeOK and StoreClosed.  The inductive invariant is their         *)
(* conjunction: TypeOK alone is not inductive, for a lazy load brings the  *)
(* hashes of a stored listing into memory, and StoreClosed alone is not    *)
(* either, for hashDir stores the hashes it finds in memory.               *)
(*                                                                         *)
(* Then what a Root holds: that a replay never changes and reads what its  *)
(* hash names, that a store ends complete, that reads are honest, that no  *)
(* goroutine panics.                                                       *)
(***************************************************************************)
EXTENDS RootTree, MerkleProofs, SequenceTheorems, TLAPS

-----------------------------------------------------------------------------
(* The heap of directories, with its bounds as parameters: R the hashes, D   *)
(* the last Dir pointer, W the last writer.                                  *)

EntryIn(R, D, W) == [kind : {"dir", "file"}, hash : R, dir : 0..D, id : Nat,
                     file : BOOLEAN, fhash : R, blobW : 0..W]
DirIn(x, R, D, W) == /\ x \in [hash : R, entries : {x.entries}]
                     /\ x.entries \in [DOMAIN x.entries -> EntryIn(R, D, W)]
HeapIn(ds, R, D, W) == /\ ds \in Seq(ToSet(ds))
                       /\ \A d \in DOMAIN ds : DirIn(ds[d], R, D, W)

\* ds2 comes after ds: no Dir and no name in a Dir is lost.
Grown(ds, ds2) == /\ Len(ds) <= Len(ds2)
                  /\ \A d \in DOMAIN ds : DOMAIN ds[d].entries \subseteq DOMAIN ds2[d].entries

\* A sequence with its range as the type behaves as expected.
LEMMA SeqFacts ==
  ASSUME NEW s, s \in Seq(ToSet(s))
  PROVE  /\ Len(s) \in Nat /\ DOMAIN s = 1..Len(s)
         /\ \A x : /\ Append(s, x) \in Seq(ToSet(Append(s, x)))
                   /\ Len(Append(s, x)) = Len(s) + 1
                   /\ DOMAIN Append(s, x) = 1..(Len(s) + 1)
                   /\ \A i \in 1..Len(s) : Append(s, x)[i] = s[i]
                   /\ Append(s, x)[Len(s) + 1] = x
         /\ \A i \in DOMAIN s : \A x :
              /\ [s EXCEPT ![i] = x] \in Seq(ToSet([s EXCEPT ![i] = x]))
              /\ Len([s EXCEPT ![i] = x]) = Len(s)
              /\ DOMAIN [s EXCEPT ![i] = x] = DOMAIN s
<1>1. Len(s) \in Nat /\ DOMAIN s = 1..Len(s)
  OBVIOUS
<1>2. ASSUME NEW x
      PROVE  /\ Append(s, x) \in Seq(ToSet(Append(s, x)))
             /\ Len(Append(s, x)) = Len(s) + 1
             /\ DOMAIN Append(s, x) = 1..(Len(s) + 1)
             /\ \A i \in 1..Len(s) : Append(s, x)[i] = s[i]
             /\ Append(s, x)[Len(s) + 1] = x
  <2> DEFINE t == Append(s, x)
  <2>1. s \in Seq(ToSet(s) \union {x}) /\ x \in ToSet(s) \union {x}
    BY <1>1 DEF ToSet
  <2>2. /\ t \in Seq(ToSet(s) \union {x})
        /\ Len(t) = Len(s) + 1
        /\ \A i \in 1..Len(s) : t[i] = s[i]
        /\ t[Len(s) + 1] = x
    BY <2>1, AppendProperties
  <2>3. DOMAIN t = 1..(Len(s) + 1)
    BY <2>2
  <2>4. t \in Seq(ToSet(t))
    BY <2>2, <2>3, <1>1 DEF ToSet
  <2> QED
    BY <2>2, <2>3, <2>4
<1>3. ASSUME NEW i \in DOMAIN s, NEW x, NEW t, t = [s EXCEPT ![i] = x]
      PROVE  t \in Seq(ToSet(t)) /\ Len(t) = Len(s) /\ DOMAIN t = DOMAIN s
  <2>1. DOMAIN t = 1..Len(s) /\ \A k \in 1..Len(s) : t[k] \in ToSet(t)
    BY <1>1, <1>3 DEF ToSet
  <2>2. t \in [1..Len(s) -> ToSet(t)]
    <3>1. t = [k \in 1..Len(s) |-> t[k]]
      BY <1>1, <1>3
    <3> QED
      BY <2>1, <3>1
  <2>3. t \in Seq(ToSet(t))
    BY <2>2, <1>1
  <2>4. Len(t) = Len(s)
    BY <2>1, <2>3, <1>1
  <2> QED
    BY <2>1, <2>3, <2>4, <1>1
<1> QED
  BY <1>1, <1>2, <1>3

\* Bounds may be relaxed.
LEMMA HeapWeaken ==
  ASSUME NEW ds, NEW R, NEW D \in Nat, NEW W \in Nat,
         NEW R2, NEW D2 \in Nat, NEW W2 \in Nat,
         HeapIn(ds, R, D, W), R \subseteq R2, D <= D2, W <= W2
  PROVE  HeapIn(ds, R2, D2, W2)
<1>1. EntryIn(R, D, W) \subseteq EntryIn(R2, D2, W2)
  BY DEF EntryIn
<1> QED
  BY <1>1 DEF HeapIn, DirIn

\* Assignments to the fields of a Dir, named so that the lemmas can be cited:
\* d.hash = h, d.Entries = m, d.Entries[n] = e (n is there, or may be new).
SetHash(ds, d, h)     == [ds EXCEPT ![d].hash = h]
SetEntries(ds, d, m)  == [ds EXCEPT ![d].entries = m]
SetEntry(ds, d, n, e) == [ds EXCEPT ![d].entries[n] = e]
PutEntry(ds, d, n, e) == [ds EXCEPT ![d].entries = With(@, n, e)]

\* One Dir is replaced.
LEMMA HeapReplace ==
  ASSUME NEW ds, NEW R, NEW D, NEW W, HeapIn(ds, R, D, W),
         NEW d \in DOMAIN ds, NEW x, DirIn(x, R, D, W),
         DOMAIN ds[d].entries \subseteq DOMAIN x.entries,
         NEW ds2, DOMAIN ds2 = DOMAIN ds, ds2 = [k \in DOMAIN ds2 |-> ds2[k]],
         \A k \in DOMAIN ds : ds2[k] = IF k = d THEN x ELSE ds[k]
  PROVE  /\ HeapIn(ds2, R, D, W)
         /\ Grown(ds, ds2) /\ Len(ds2) = Len(ds)
<1>1. ds \in Seq(ToSet(ds)) /\ Len(ds) \in Nat /\ DOMAIN ds = 1..Len(ds)
  BY SeqFacts DEF HeapIn
<1>2. \A k \in 1..Len(ds) : ds2[k] \in ToSet(ds2)
  BY <1>1 DEF ToSet
<1>3. ds2 \in [1..Len(ds) -> ToSet(ds2)]
  BY <1>1, <1>2
<1>4. ds2 \in Seq(ToSet(ds2))
  BY <1>1, <1>3
<1>5. Len(ds2) = Len(ds)
  BY <1>1, <1>3, <1>4
<1>6. HeapIn(ds2, R, D, W)
  BY <1>4 DEF HeapIn
<1>7. Grown(ds, ds2)
  BY <1>1, <1>5 DEF Grown
<1> QED
  BY <1>5, <1>6, <1>7

LEMMA HeapSetHash ==
  ASSUME NEW ds, NEW R, NEW D, NEW W, HeapIn(ds, R, D, W),
         NEW d \in DOMAIN ds, NEW h \in R
  PROVE  /\ HeapIn(SetHash(ds, d, h), R, D, W)
         /\ Grown(ds, SetHash(ds, d, h)) /\ Len(SetHash(ds, d, h)) = Len(ds)
         /\ DOMAIN SetHash(ds, d, h) = DOMAIN ds
         /\ \A k \in DOMAIN ds : SetHash(ds, d, h)[k].entries = ds[k].entries
<1>0. PICK x, ds2 : x = [ds[d] EXCEPT !.hash = h] /\ ds2 = SetHash(ds, d, h)
  OBVIOUS
<1>1. /\ DOMAIN ds2 = DOMAIN ds /\ ds2 = [k \in DOMAIN ds2 |-> ds2[k]]
      /\ \A k \in DOMAIN ds : ds2[k] = IF k = d THEN x ELSE ds[k]
  BY <1>0 DEF SetHash
<1>2. DirIn(x, R, D, W) /\ x.entries = ds[d].entries
  BY <1>0 DEF HeapIn, DirIn
<1>3. HeapIn(ds2, R, D, W) /\ Grown(ds, ds2) /\ Len(ds2) = Len(ds)
  BY <1>1, <1>2, HeapReplace
<1> QED
  BY <1>0, <1>1, <1>2, <1>3

LEMMA HeapSetEntries ==
  ASSUME NEW ds, NEW R, NEW D, NEW W, HeapIn(ds, R, D, W),
         NEW d \in DOMAIN ds, NEW m, m \in [DOMAIN m -> EntryIn(R, D, W)],
         DOMAIN ds[d].entries \subseteq DOMAIN m
  PROVE  /\ HeapIn(SetEntries(ds, d, m), R, D, W)
         /\ Grown(ds, SetEntries(ds, d, m)) /\ Len(SetEntries(ds, d, m)) = Len(ds)
         /\ DOMAIN SetEntries(ds, d, m) = DOMAIN ds
         /\ \A k \in DOMAIN ds : SetEntries(ds, d, m)[k].entries =
                                   IF k = d THEN m ELSE ds[k].entries
<1>0. PICK x, ds2 : x = [ds[d] EXCEPT !.entries = m] /\ ds2 = SetEntries(ds, d, m)
  OBVIOUS
<1>1. /\ DOMAIN ds2 = DOMAIN ds /\ ds2 = [k \in DOMAIN ds2 |-> ds2[k]]
      /\ \A k \in DOMAIN ds : ds2[k] = IF k = d THEN x ELSE ds[k]
  BY <1>0 DEF SetEntries
<1>2. DirIn(x, R, D, W) /\ x.entries = m
  BY <1>0 DEF HeapIn, DirIn
<1>3. HeapIn(ds2, R, D, W) /\ Grown(ds, ds2) /\ Len(ds2) = Len(ds)
  BY <1>1, <1>2, HeapReplace
<1> QED
  BY <1>0, <1>1, <1>2, <1>3

LEMMA HeapSetEntry ==
  ASSUME NEW ds, NEW R, NEW D, NEW W, HeapIn(ds, R, D, W),
         NEW d \in DOMAIN ds, NEW n \in DOMAIN ds[d].entries, NEW e \in EntryIn(R, D, W)
  PROVE  /\ HeapIn(SetEntry(ds, d, n, e), R, D, W)
         /\ Grown(ds, SetEntry(ds, d, n, e)) /\ Len(SetEntry(ds, d, n, e)) = Len(ds)
         /\ DOMAIN SetEntry(ds, d, n, e) = DOMAIN ds
<1>0. PICK m : m = [ds[d].entries EXCEPT ![n] = e]
  OBVIOUS
<1>1. m \in [DOMAIN m -> EntryIn(R, D, W)] /\ DOMAIN m = DOMAIN ds[d].entries
  BY <1>0 DEF HeapIn, DirIn
<1>2. SetEntry(ds, d, n, e) = SetEntries(ds, d, m)
  BY <1>0 DEF SetEntry, SetEntries
<1> QED
  BY <1>1, <1>2, HeapSetEntries

LEMMA HeapPutEntry ==
  ASSUME NEW ds, NEW R, NEW D, NEW W, HeapIn(ds, R, D, W),
         NEW d \in DOMAIN ds, NEW n, NEW e \in EntryIn(R, D, W)
  PROVE  /\ HeapIn(PutEntry(ds, d, n, e), R, D, W)
         /\ Grown(ds, PutEntry(ds, d, n, e)) /\ Len(PutEntry(ds, d, n, e)) = Len(ds)
         /\ DOMAIN PutEntry(ds, d, n, e) = DOMAIN ds
         /\ n \in DOMAIN PutEntry(ds, d, n, e)[d].entries
<1>1. ds[d].entries \in [DOMAIN ds[d].entries -> EntryIn(R, D, W)]
  BY DEF HeapIn, DirIn
<1>2. PICK m : m = With(ds[d].entries, n, e)
  OBVIOUS
<1>3. DOMAIN m = {n} \union DOMAIN ds[d].entries /\ m \in [DOMAIN m -> EntryIn(R, D, W)]
  BY <1>1, <1>2 DEF With
<1>4. PutEntry(ds, d, n, e) = SetEntries(ds, d, m)
  BY <1>2 DEF PutEntry, SetEntries
<1> QED
  BY <1>3, <1>4, HeapSetEntries

\* A new Dir object.
LEMMA HeapAppend ==
  ASSUME NEW ds, NEW R, NEW D, NEW W, HeapIn(ds, R, D, W), NEW x, DirIn(x, R, D, W)
  PROVE  LET ds2 == Append(ds, x)
         IN /\ HeapIn(ds2, R, D, W)
            /\ Grown(ds, ds2) /\ Len(ds2) = Len(ds) + 1 /\ DOMAIN ds2 = 1..(Len(ds) + 1)
            /\ ds2[Len(ds) + 1] = x
            /\ \A k \in DOMAIN ds : ds2[k] = ds[k]
<1> DEFINE ds2 == Append(ds, x)
<1>1. /\ ds2 \in Seq(ToSet(ds2)) /\ Len(ds2) = Len(ds) + 1 /\ DOMAIN ds2 = 1..(Len(ds) + 1)
      /\ Len(ds) \in Nat /\ DOMAIN ds = 1..Len(ds)
      /\ \A k \in 1..Len(ds) : ds2[k] = ds[k]
      /\ ds2[Len(ds) + 1] = x
  BY SeqFacts DEF HeapIn
<1> HIDE DEF ds2
<1>2. HeapIn(ds2, R, D, W)
  BY <1>1 DEF HeapIn
<1>3. Grown(ds, ds2)
  BY <1>1 DEF Grown
<1> QED
  BY <1>1, <1>2, <1>3 DEF ds2

-----------------------------------------------------------------------------
(* The inductive invariant, and what every step has in common *)

IInv == TypeOK /\ StoreClosed

LEMMA DirsAsHeap ==
  /\ DirsOK  <=> HeapIn(dirs, Ref, Len(dirs), Len(wr))
  /\ DirsOK' <=> HeapIn(dirs', Ref', Len(dirs'), Len(wr'))
BY DEF DirsOK, HeapIn, DirOK, DirIn, EntrySet, EntryIn

\* What IInv says of the sizes of the heap.
LEMMA HeapSizes ==
  ASSUME IInv
  PROVE  /\ Len(dirs) \in Nat /\ DOMAIN dirs = 1..Len(dirs)
         /\ Len(wr) \in Nat /\ DOMAIN wr = 1..Len(wr)
         /\ HeapIn(dirs, Ref, Len(dirs), Len(wr))
         /\ NoHash \in Ref /\ blobs \subseteq Ref
<1>1. HeapIn(dirs, Ref, Len(dirs), Len(wr))
  BY DirsAsHeap DEF IInv, TypeOK
<1>2. Len(dirs) \in Nat /\ DOMAIN dirs = 1..Len(dirs)
  BY <1>1, SeqFacts DEF HeapIn
<1>3. Len(wr) \in Nat /\ DOMAIN wr = 1..Len(wr)
  BY DEF IInv, TypeOK, WrOK
<1> QED
  BY <1>1, <1>2, <1>3 DEF Ref

\* The entries of a Dir are typed.
LEMMA EntryFacts ==
  ASSUME IInv, NEW d \in DOMAIN dirs, NEW n \in Names(d)
  PROVE  Entries(d)[n] \in EntrySet
BY DEF IInv, TypeOK, DirsOK, DirOK, Entries, Names

\* A goroutine that does not move stays well placed while the heap grows.
LEMMA OthersOK ==
  ASSUME IInv, NEW q \in Procs, g'[q] = g[q],
         Grown(dirs, dirs'), Len(dirs') \in Nat, DOMAIN dirs' = 1..Len(dirs'),
         rt.dir # 0 => rt'.dir # 0
  PROVE  LocalOK(q)'
<1>1. LocalOK(q)
  BY DEF IInv, TypeOK
<1>2. /\ Len(dirs) \in Nat /\ DOMAIN dirs = 1..Len(dirs)
      /\ Len(dirs) <= Len(dirs')
  BY HeapSizes DEF Grown
<1>3. \A d \in 1..Len(dirs) : d \in 1..Len(dirs') /\ Names(d) \subseteq Names(d)'
  BY <1>2 DEF Grown, Names, Entries
<1>4. DirPart(q)' = DirPart(q)
  BY DEF DirPart
<1>5. ASSUME NEW k \in DOMAIN g[q].stk PROVE FrameOK(g[q].stk[k])'
  <2> DEFINE f == g[q].stk[k]
  <2>1. FrameOK(f)
    BY <1>1 DEF LocalOK
  <2>2. /\ f \in [d : DOMAIN dirs', par : 0..Len(dirs'), name : {f.name}, id : Nat,
                  todo : SUBSET Names(f.d)', seen : {f.seen}]
        /\ f.par = 0 => rt'.dir # 0
        /\ f.par # 0 => f.name \in Names(f.par)'
    BY <2>1, <1>2, <1>3 DEF FrameOK
  <2> QED
    BY <2>2 DEF FrameOK
<1>6. g[q].at \in Walking => g[q].d \in 1..Len(dirs)
  BY <1>1, <1>2 DEF LocalOK
<1>7. g[q].at = "setDir" => DirPart(q)[g[q].i] \in Names(g[q].d)'
  BY <1>1, <1>3, <1>6 DEF LocalOK, Walking
<1>8. g[q] \in [at : Labels, req : Requests \union {NoReq}, must : {g[q].must},
                i : Nat, d : 0..Len(dirs'), new : 0..Len(dirs'), id : Nat,
                stk : Seq(ToSet(g[q].stk))]
  BY <1>1, <1>2 DEF LocalOK
<1> QED
  BY <1>1, <1>4, <1>5, <1>7, <1>8 DEF LocalOK

\* What a step must do to keep IInv: known hashes stay known, a new blob names
\* known hashes only, and the goroutine that moves is well placed again.
LEMMA AnyStep ==
  ASSUME IInv, g' \in [Procs -> {g'[q] : q \in Procs}],
         \A q \in Procs : g'[q] = g[q] \/ LocalOK(q)',
         left' \in [Ops \union {"fault"} -> Nat], WrOK', RtOK',
         rt.dir # 0 => rt'.dir # 0,
         HeapIn(dirs', Ref', Len(dirs'), Len(wr')), Grown(dirs, dirs'),
         Ref \subseteq Ref', blobs \subseteq blobs',
         \A h \in blobs' \ blobs : WellFormed(h) /\ Children(h) \subseteq Ref'
  PROVE  IInv'
<1>1. Len(dirs') \in Nat /\ DOMAIN dirs' = 1..Len(dirs')
  BY SeqFacts DEF HeapIn
<1>2. ASSUME NEW q \in Procs PROVE LocalOK(q)'
  <2>1. CASE g'[q] = g[q]
    BY <1>1, <2>1, OthersOK
  <2> QED
    BY <2>1
<1>3. DirsOK'
  BY DirsAsHeap
<1>4. StoreClosed'
  <2>1. \A h \in blobs : Children(h) \subseteq Ref
    BY DEF IInv, StoreClosed
  <2> QED
    BY <2>1 DEF StoreClosed
<1>5. BaseBlobs \subseteq blobs' /\ \A h \in blobs' : WellFormed(h)
  BY DEF IInv, TypeOK
<1> QED
  BY <1>2, <1>3, <1>4, <1>5 DEF IInv, TypeOK

\* A step of p that stores no blob and touches no writer.
LEMMA QuietStep ==
  ASSUME IInv, NEW p \in Procs, g' = [g EXCEPT ![p] = g'[p]],
         UNCHANGED <<wr, blobs, lost>>,
         left' \in [Ops \union {"fault"} -> Nat],
         HeapIn(dirs', Ref, Len(dirs'), Len(wr)), Grown(dirs, dirs'),
         RtOK', rt.dir # 0 => rt'.dir # 0,
         LocalOK(p)'
  PROVE  IInv'
<1>1. Ref' = Ref
  BY DEF Ref, Unpublished
<1>2. WrOK'
  BY DEF IInv, TypeOK, WrOK
<1>3. g' \in [Procs -> {g'[q] : q \in Procs}]
  BY DEF IInv, TypeOK
<1>4. \A q \in Procs : g'[q] = g[q] \/ LocalOK(q)'
  BY DEF IInv, TypeOK
<1> QED
  BY <1>1, <1>2, <1>3, <1>4, AnyStep

-----------------------------------------------------------------------------
(* Where a step leaves its own goroutine *)

\* A frame stays good while the heap grows.
LEMMA FrameKept ==
  ASSUME IInv, NEW f, FrameOK(f),
         Grown(dirs, dirs'), Len(dirs') \in Nat, DOMAIN dirs' = 1..Len(dirs'),
         rt.dir # 0 => rt'.dir # 0
  PROVE  FrameOK(f)'
<1>1. /\ Len(dirs) \in Nat /\ DOMAIN dirs = 1..Len(dirs)
      /\ Len(dirs) <= Len(dirs')
  BY HeapSizes DEF Grown
<1>2. \A d \in 1..Len(dirs) : d \in 1..Len(dirs') /\ Names(d) \subseteq Names(d)'
  BY <1>1 DEF Grown, Names, Entries
<1>3. /\ f \in [d : DOMAIN dirs', par : 0..Len(dirs'), name : {f.name}, id : Nat,
                todo : SUBSET Names(f.d)', seen : {f.seen}]
      /\ f.par = 0 => rt'.dir # 0
      /\ f.par # 0 => f.name \in Names(f.par)'
  BY <1>1, <1>2 DEF FrameOK
<1> QED
  BY <1>3 DEF FrameOK

\* The record of locals, whatever the place.
LEMMA LocalRecord ==
  ASSUME IInv, NEW p \in Procs
  PROVE  /\ g[p] \in [at : Labels, req : {g[p].req}, must : {g[p].must}, i : Nat,
                       d : 0..Len(dirs), new : 0..Len(dirs), id : Nat, stk : {g[p].stk}]
         /\ g[p].i \in Nat /\ g[p].i + 1 \in Nat
         /\ p \in DOMAIN g
         /\ left \in [Ops \union {"fault"} -> Nat]
         /\ g[p].at \in Finding => g[p].req.op # "save"
BY DEF IInv, TypeOK, LocalOK

\* An operation that returns leaves nothing behind.
LEMMA ReturnOK ==
  ASSUME IInv, NEW p \in Procs, Return(p), Len(dirs') \in Nat
  PROVE  LocalOK(p)' /\ g' = [g EXCEPT ![p] = g'[p]]
<1>1. g' = [g EXCEPT ![p] = Idle] /\ g'[p] = Idle
  BY DEF IInv, TypeOK, Return
<1>2. <<>> \in Seq(ToSet(<<>>)) /\ DOMAIN <<>> = {}
  OBVIOUS
<1>3. /\ Idle.at = "idle" /\ Idle.stk = <<>>
      /\ "idle" \notin Ops \union Finding \union Walking \union Hashing
      /\ {"setDir", "setRootDir"} \subseteq Finding
  BY DEF Idle, Finding, Walking, Hashing, Ops
<1>4. Idle \in [at : Labels, req : Requests \union {NoReq}, must : {Idle.must},
                i : Nat, d : 0..Len(dirs'), new : 0..Len(dirs'), id : Nat,
                stk : Seq(ToSet(Idle.stk))]
  BY <1>2, <1>3 DEF Idle, Labels
<1>5. LocalOK(p)'
  BY <1>1, <1>2, <1>3, <1>4 DEF LocalOK
<1> QED
  BY <1>1, <1>5

\* A goroutine that moves on with its stack as it was.
LEMMA MoveOK ==
  ASSUME IInv, NEW p \in Procs, g[p].at # "idle",
         Grown(dirs, dirs'), Len(dirs') \in Nat, DOMAIN dirs' = 1..Len(dirs'),
         rt.dir # 0 => rt'.dir # 0,
         g'[p] \in [at : Labels \ (Hashing \union {"idle"}), req : {g[p].req},
                    must : {g[p].must}, i : Nat, d : 0..Len(dirs'),
                    new : 0..Len(dirs'), id : Nat, stk : {g[p].stk}],
         g'[p].at \in Finding => g[p].req.op # "save",
         g'[p].at \in Ops => g[p].req.op = g'[p].at,
         g'[p].at \in Walking => g'[p].d # 0 /\ rt'.dir # 0,
         g'[p].at \in {"setDir", "setRootDir"} => g'[p].new # 0,
         g'[p].at = "setDir" => (DirPart(p)[g[p].i] \in Names(g[p].d))'
  PROVE  LocalOK(p)'
<1>1. LocalOK(p)
  BY DEF IInv, TypeOK
<1>3. \A k \in DOMAIN g[p].stk : FrameOK(g[p].stk[k])'
  <2> SUFFICES ASSUME NEW k \in DOMAIN g[p].stk, NEW f, f = g[p].stk[k]
               PROVE  FrameOK(f)'
    BY <1>1
  <2> QED
    BY <1>1, FrameKept DEF LocalOK
<1>4. g'[p] \in [at : Labels, req : Requests \union {NoReq}, must : {g'[p].must},
                 i : Nat, d : 0..Len(dirs'), new : 0..Len(dirs'), id : Nat,
                 stk : Seq(ToSet(g'[p].stk))]
  BY <1>1 DEF LocalOK
<1>5. /\ g'[p].stk = g[p].stk /\ g'[p].req = g[p].req
      /\ g'[p].at \notin Hashing
      /\ g'[p].req \in Requests
  BY <1>1 DEF LocalOK
<1>6. \A k \in DOMAIN g'[p].stk : FrameOK(g[p].stk[k])'
  BY <1>3, <1>5
<1> QED
  BY <1>4, <1>5, <1>6 DEF LocalOK

-----------------------------------------------------------------------------
(* getDir *)

\* A loaded Dir is typed: what a stored listing names is known.
LEMMA LoadDirOK ==
  ASSUME IInv, NEW h, Loadable(h)
  PROVE  DirIn(LoadDir(h), Ref, Len(dirs), Len(wr))
<1> DEFINE L == Listing(h)
<1>1. /\ \A n \in DOMAIN L : L[n].kind \in {"dir", "file"}
      /\ \A n \in DOMAIN L : L[n].hash \in Ref
  BY DEF IInv, TypeOK, StoreClosed, WellFormed, Loadable, Children
<1>2. Len(dirs) \in Nat /\ Len(wr) \in Nat /\ NoHash \in Ref
  BY HeapSizes
<1>3. \A n \in DOMAIN L : LoadedEntry(L[n]) \in EntryIn(Ref, Len(dirs), Len(wr))
  BY <1>1, <1>2 DEF LoadedEntry, EntryIn
<1>4. LoadDir(h).entries = [n \in DOMAIN L |-> LoadedEntry(L[n])]
  BY DEF LoadDir
<1>5. LoadDir(h) \in [hash : Ref, entries : {LoadDir(h).entries}]
  BY <1>2 DEF LoadDir
<1> QED
  BY <1>3, <1>4, <1>5 DEF DirIn

\* Clearing the hash of the directory passed.
LEMMA DirPassedOK ==
  ASSUME IInv, NEW p \in Procs, NEW d \in DOMAIN dirs
  PROVE  LET ds == DirPassed(p, d)
         IN /\ HeapIn(ds, Ref, Len(dirs), Len(wr))
            /\ Grown(dirs, ds) /\ Len(ds) = Len(dirs) /\ DOMAIN ds = DOMAIN dirs
            /\ \A k \in DOMAIN dirs : ds[k].entries = dirs[k].entries
<1>1. HeapIn(dirs, Ref, Len(dirs), Len(wr)) /\ NoHash \in Ref /\ Len(dirs) \in Nat
  BY HeapSizes
<1>2. CASE IsWrite(p)
  <2>1. DirPassed(p, d) = SetHash(dirs, d, NoHash)
    BY <1>2 DEF DirPassed, SetHash
  <2> QED
    BY <1>1, <2>1, HeapSetHash
<1>3. CASE ~IsWrite(p)
  BY <1>1, <1>3 DEF DirPassed, Grown
<1> QED
  BY <1>2, <1>3

\* A heap that got one more Dir, under the bounds it has now.
LEMMA HeapWithNew ==
  ASSUME IInv, NEW ds, HeapIn(ds, Ref, Len(dirs), Len(wr)), Grown(dirs, ds),
         Len(ds) = Len(dirs), NEW x, DirIn(x, Ref, Len(dirs), Len(wr)),
         dirs' = Append(ds, x)
  PROVE  /\ HeapIn(dirs', Ref, Len(dirs'), Len(wr)) /\ Grown(dirs, dirs')
         /\ Len(dirs') = Len(dirs) + 1 /\ DOMAIN dirs' = 1..Len(dirs')
         /\ \A k \in DOMAIN ds : dirs'[k] = ds[k]
         /\ dirs'[Len(dirs) + 1] = x
<1>1. /\ HeapIn(dirs', Ref, Len(dirs), Len(wr)) /\ Grown(ds, dirs')
      /\ Len(dirs') = Len(dirs) + 1 /\ DOMAIN dirs' = 1..(Len(dirs) + 1)
      /\ dirs'[Len(dirs) + 1] = x
      /\ \A k \in DOMAIN ds : dirs'[k] = ds[k]
  BY HeapAppend
<1>2. Len(dirs) \in Nat /\ Len(wr) \in Nat /\ DOMAIN dirs = 1..Len(dirs)
  BY HeapSizes
<1>3. DOMAIN ds = 1..Len(dirs)
  BY SeqFacts DEF HeapIn
<1>4. HeapIn(dirs', Ref, Len(dirs'), Len(wr))
  BY <1>1, <1>2, HeapWeaken
<1>5. Grown(dirs, dirs')
  BY <1>1, <1>2, <1>3 DEF Grown
<1> QED
  BY <1>1, <1>4, <1>5

LEMMA GetDirKeeps ==
  ASSUME IInv, NEW p \in Procs, GetDir(p)
  PROVE  IInv'
<1>1. /\ Len(dirs) \in Nat /\ DOMAIN dirs = 1..Len(dirs) /\ NoHash \in Ref
      /\ HeapIn(dirs, Ref, Len(dirs), Len(wr)) /\ Grown(dirs, dirs)
  BY HeapSizes DEF Grown
<1>2. /\ RtOK /\ LocalOK(p) /\ left \in [Ops \union {"fault"} -> Nat]
      /\ p \in DOMAIN g /\ g[p].at = "getDir"
  BY DEF IInv, TypeOK, GetDir
<1>a. g[p].req.op # "save"
  BY <1>2 DEF LocalOK, Finding
<1>3. UNCHANGED <<wr, blobs, lost, left>> /\ Ref' = Ref
  BY DEF GetDir, Ref, Unpublished
<1>4. CASE Return(p) /\ UNCHANGED <<rt, dirs>>
  <2>1. LocalOK(p)' /\ g' = [g EXCEPT ![p] = g'[p]]
    BY <1>1, <1>4, ReturnOK
  <2>2. RtOK'
    BY <1>2, <1>3, <1>4 DEF RtOK
  <2> QED
    BY <1>1, <1>2, <1>3, <1>4, <2>1, <2>2, QuietStep
<1>5. CASE /\ rt.dir # 0 /\ rt' = RootPassed(p) /\ UNCHANGED dirs
           /\ g' = [g EXCEPT ![p].at = "walk", ![p].d = rt.dir]
  <2>1. RtOK' /\ rt'.dir = rt.dir
    BY <1>1, <1>2, <1>3, <1>5 DEF RtOK, RootPassed
  <2>2. g'[p] = [g[p] EXCEPT !.at = "walk", !.d = rt.dir]
    BY <1>2, <1>5
  <2>3. g'[p] \in [at : {"walk"}, req : {g[p].req}, must : {g[p].must}, i : Nat,
                   d : {rt.dir}, new : 0..Len(dirs), id : Nat, stk : {g[p].stk}]
    BY <1>2, <2>2 DEF LocalOK
  <2>4. rt.dir \in 0..Len(dirs) /\ "walk" \in Labels \ (Hashing \union {"idle"} \union Ops)
    BY <1>2 DEF RtOK, Labels, Walking, Hashing, Ops
  <2>5. LocalOK(p)'
    BY <1>1, <1>2, <1>a, <1>5, <2>1, <2>3, <2>4, MoveOK
  <2>6. g' = [g EXCEPT ![p] = g'[p]]
    BY <1>2, <1>5
  <2> QED
    BY <1>1, <1>2, <1>3, <1>5, <2>1, <2>5, <2>6, QuietStep
<1>6. CASE /\ rt.dir = 0 /\ Loadable(rt.hash) /\ UNCHANGED rt
           /\ dirs' = Append(dirs, LoadDir(rt.hash))
           /\ g' = [g EXCEPT ![p].at = "setRootDir", ![p].new = Len(dirs) + 1]
  <2>1. /\ HeapIn(dirs', Ref, Len(dirs'), Len(wr)) /\ Grown(dirs, dirs')
        /\ Len(dirs') = Len(dirs) + 1 /\ DOMAIN dirs' = 1..Len(dirs')
    BY <1>1, <1>6, LoadDirOK, HeapWithNew
  <2>2. RtOK'
    BY <1>1, <1>2, <1>3, <1>6, <2>1 DEF RtOK
  <2>3. g'[p] = [g[p] EXCEPT !.at = "setRootDir", !.new = Len(dirs) + 1]
    BY <1>2, <1>6
  <2>4. g'[p] \in [at : {"setRootDir"}, req : {g[p].req}, must : {g[p].must}, i : Nat,
                   d : 0..Len(dirs), new : {Len(dirs) + 1}, id : Nat, stk : {g[p].stk}]
    BY <1>1, <1>2, <2>3 DEF LocalOK
  <2>5. /\ "setRootDir" \in Labels \ (Hashing \union {"idle"} \union Ops \union Walking)
        /\ 0..Len(dirs) \subseteq 0..Len(dirs')
    BY <1>1, <2>1 DEF Labels, Finding, Walking, Hashing, Ops
  <2>6. LocalOK(p)'
    BY <1>1, <1>2, <1>a, <1>6, <2>1, <2>4, <2>5, MoveOK
  <2>7. g' = [g EXCEPT ![p] = g'[p]]
    BY <1>2, <1>6
  <2> QED
    BY <1>1, <1>2, <1>3, <1>6, <2>1, <2>2, <2>6, <2>7, QuietStep
<1> QED
  BY <1>4, <1>5, <1>6 DEF GetDir

\* QuietStep for an operation that returns ...
LEMMA ReturnStep ==
  ASSUME IInv, NEW p \in Procs, Return(p), UNCHANGED <<rt, wr, blobs, lost>>,
         left' \in [Ops \union {"fault"} -> Nat],
         HeapIn(dirs', Ref, Len(dirs'), Len(wr)), Grown(dirs, dirs')
  PROVE  IInv'
<1>1. Len(dirs') \in Nat /\ Len(dirs) <= Len(dirs') /\ Len(dirs) \in Nat
  BY HeapSizes, SeqFacts DEF HeapIn, Grown
<1>2. LocalOK(p)' /\ g' = [g EXCEPT ![p] = g'[p]]
  BY <1>1, ReturnOK
<1>3. RtOK'
  <2>1. Ref' = Ref /\ 0..Len(dirs) \subseteq 0..Len(dirs')
    BY <1>1 DEF Ref, Unpublished
  <2> QED
    BY <2>1 DEF IInv, TypeOK, RtOK
<1> QED
  BY <1>2, <1>3, QuietStep

\* ... and for one that moves on to a place outside hashDir and diffIter.
LEMMA MoveStep ==
  ASSUME IInv, NEW p \in Procs, g[p].at # "idle", UNCHANGED <<rt, wr, blobs, lost, left>>,
         HeapIn(dirs', Ref, Len(dirs'), Len(wr)), Grown(dirs, dirs'),
         g' = [g EXCEPT ![p] = g'[p]],
         g'[p] \in [at : Labels \ (Hashing \union {"idle"}), req : {g[p].req},
                    must : {g[p].must}, i : Nat, d : 0..Len(dirs'),
                    new : 0..Len(dirs'), id : Nat, stk : {g[p].stk}],
         g'[p].at \in Finding => g[p].req.op # "save",
         g'[p].at \in Ops => g[p].req.op = g'[p].at,
         g'[p].at \in Walking => g'[p].d # 0 /\ g[p].at \in Walking,
         g'[p].at \in {"setDir", "setRootDir"} => g'[p].new # 0,
         g'[p].at = "setDir" => (DirPart(p)[g[p].i] \in Names(g[p].d))'
  PROVE  IInv'
<1>1. /\ Len(dirs') \in Nat /\ DOMAIN dirs' = 1..Len(dirs')
      /\ Len(dirs) <= Len(dirs') /\ Len(dirs) \in Nat
  BY HeapSizes, SeqFacts DEF HeapIn, Grown
<1>a. g[p].at \in Walking => rt.dir # 0
  BY DEF IInv, TypeOK, LocalOK
<1>2. LocalOK(p)'
  BY <1>1, <1>a, MoveOK
<1>3. RtOK'
  <2>1. Ref' = Ref /\ 0..Len(dirs) \subseteq 0..Len(dirs')
    BY <1>1 DEF Ref, Unpublished
  <2> QED
    BY <2>1 DEF IInv, TypeOK, RtOK
<1>4. left' \in [Ops \union {"fault"} -> Nat]
  BY DEF IInv, TypeOK
<1> QED
  BY <1>2, <1>3, <1>4, QuietStep

LEMMA SetRootDirKeeps ==
  ASSUME IInv, NEW p \in Procs, SetRootDir(p)
  PROVE  IInv'
<1>1. /\ Len(dirs) \in Nat /\ DOMAIN dirs = 1..Len(dirs) /\ NoHash \in Ref
      /\ HeapIn(dirs, Ref, Len(dirs), Len(wr)) /\ Grown(dirs, dirs)
  BY HeapSizes DEF Grown
<1>2. /\ RtOK /\ LocalOK(p) /\ left \in [Ops \union {"fault"} -> Nat]
      /\ p \in DOMAIN g /\ g[p].at = "setRootDir"
  BY DEF IInv, TypeOK, SetRootDir
<1>a. g[p].req.op # "save"
  BY <1>2 DEF LocalOK, Finding
<1>3. UNCHANGED <<dirs, wr, blobs, lost, left>> /\ Ref' = Ref
  BY DEF SetRootDir, Ref, Unpublished
<1>4. g[p].new \in 1..Len(dirs)
  BY <1>1, <1>2 DEF LocalOK
<1>5. RtOK' /\ rt'.dir # 0
  BY <1>1, <1>2, <1>3, <1>4 DEF RtOK, RootPassed, SetRootDir
<1>6. g'[p] = [g[p] EXCEPT !.at = "walk", !.d = g[p].new]
  BY <1>2 DEF SetRootDir
<1>7. g'[p] \in [at : {"walk"}, req : {g[p].req}, must : {g[p].must}, i : Nat,
                 d : {g[p].new}, new : 0..Len(dirs), id : Nat, stk : {g[p].stk}]
  BY <1>2, <1>6 DEF LocalOK
<1>8. "walk" \in Labels \ (Hashing \union {"idle"} \union Ops)
  BY DEF Labels, Finding, Walking, Hashing, Ops
<1>9. LocalOK(p)'
  BY <1>1, <1>2, <1>a, <1>3, <1>4, <1>5, <1>7, <1>8, MoveOK
<1>10. g' = [g EXCEPT ![p] = g'[p]]
  BY <1>2 DEF SetRootDir
<1> QED
  BY <1>1, <1>2, <1>3, <1>5, <1>9, <1>10, QuietStep

LEMMA WalkKeeps ==
  ASSUME IInv, NEW p \in Procs, Walk(p)
  PROVE  IInv'
<1> DEFINE place == Labels \ (Hashing \union {"idle"})
<1>0. PICK d, n, e, ds : /\ d = g[p].d /\ n = DirPart(p)[g[p].i]
                         /\ e = Entries(d)[n] /\ ds = DirPassed(p, d)
  OBVIOUS
<1>1. /\ Len(dirs) \in Nat /\ DOMAIN dirs = 1..Len(dirs) /\ NoHash \in Ref
      /\ Len(wr) \in Nat
  BY HeapSizes
<1>2. /\ g[p] \in [at : Labels, req : {g[p].req}, must : {g[p].must}, i : Nat,
                   d : 0..Len(dirs), new : 0..Len(dirs), id : Nat, stk : {g[p].stk}]
      /\ g[p].i + 1 \in Nat /\ p \in DOMAIN g /\ left \in [Ops \union {"fault"} -> Nat]
  BY LocalRecord
<1>3. UNCHANGED <<rt, wr, blobs, lost, left>> /\ g[p].at = "walk"
  BY DEF Walk
<1>a. g[p].req.op # "save" /\ g[p].at \in Walking
  BY <1>3, LocalRecord DEF Finding, Walking
<1>4. d \in DOMAIN dirs
  BY <1>0, <1>1, <1>2, <1>3 DEF IInv, TypeOK, LocalOK, Walking
<1>5. /\ HeapIn(ds, Ref, Len(dirs), Len(wr)) /\ Grown(dirs, ds) /\ Len(ds) = Len(dirs)
      /\ DOMAIN ds = DOMAIN dirs
      /\ \A k \in DOMAIN dirs : ds[k].entries = dirs[k].entries
  BY <1>0, <1>4, DirPassedOK
<1>6. /\ {"walk", "setDir", "mkdir"} \subseteq place
      /\ {"walk", "setDir", "mkdir"} \intersect Ops = {}
  BY DEF Labels, Finding, Walking, Hashing, Ops
<1> HIDE DEF place
<1>7. CASE dirs' = ds /\ Return(p)
  BY <1>2, <1>3, <1>5, <1>7, ReturnStep
<1>8. CASE dirs' = ds /\ Goto(p, "mkdir")
  <2>1. g'[p] = [g[p] EXCEPT !.at = "mkdir"] /\ g' = [g EXCEPT ![p] = g'[p]]
    BY <1>2, <1>8 DEF Goto
  <2>2. /\ g'[p] \in [at : place, req : {g[p].req}, must : {g[p].must}, i : Nat,
                      d : 0..Len(dirs'), new : 0..Len(dirs'), id : Nat, stk : {g[p].stk}]
        /\ g'[p].at = "mkdir" /\ g'[p].d # 0
    BY <1>0, <1>1, <1>2, <1>4, <1>5, <1>6, <1>8, <2>1
  <2>3. HeapIn(dirs', Ref, Len(dirs'), Len(wr)) /\ Grown(dirs, dirs')
    BY <1>5, <1>8
  <2> QED
    BY <1>3, <1>a, <1>6, <2>1, <2>2, <2>3, MoveStep DEF place
<1>9. CASE /\ n \in Names(d) /\ e.dir # 0
           /\ dirs' = [ds EXCEPT ![d].entries[n] = EntryPassed(p, e)]
           /\ Advance(p, e.dir)
  <2>1. e \in EntrySet
    BY <1>0, <1>4, <1>9, EntryFacts
  <2>2. PICK x \in EntryIn(Ref, Len(dirs), Len(wr)) : x = EntryPassed(p, e)
    BY <1>1, <2>1 DEF EntryPassed, EntrySet, EntryIn
  <2>3. n \in DOMAIN ds[d].entries /\ d \in DOMAIN ds
    BY <1>4, <1>5, <1>9 DEF Names, Entries
  <2>4. /\ HeapIn(dirs', Ref, Len(dirs), Len(wr)) /\ Len(dirs') = Len(dirs)
        /\ Grown(ds, dirs')
    <3>1. dirs' = SetEntry(ds, d, n, x)
      BY <1>9, <2>2 DEF SetEntry
    <3> QED
      BY <1>5, <2>3, <3>1, HeapSetEntry
  <2>5. Grown(dirs, dirs')
    BY <1>1, <1>5, <2>4 DEF Grown
  <2>6. /\ g'[p] = [g[p] EXCEPT !.at = "walk", !.d = e.dir, !.i = @ + 1]
        /\ g' = [g EXCEPT ![p] = g'[p]]
    BY <1>2, <1>9 DEF Advance
  <2>7. e.dir \in 0..Len(dirs)
    BY <2>1 DEF EntrySet
  <2>8. /\ g'[p] \in [at : place, req : {g[p].req}, must : {g[p].must}, i : Nat,
                      d : 0..Len(dirs'), new : 0..Len(dirs'), id : Nat, stk : {g[p].stk}]
        /\ g'[p].at = "walk" /\ g'[p].d # 0
    BY <1>2, <1>6, <1>9, <2>4, <2>6, <2>7
  <2> QED
    BY <1>3, <1>a, <1>6, <2>4, <2>5, <2>6, <2>8, MoveStep DEF place
<1>10. CASE /\ n \in Names(d) /\ Loadable(e.hash)
            /\ dirs' = Append(ds, LoadDir(e.hash))
            /\ g' = [g EXCEPT ![p].at = "setDir", ![p].new = Len(dirs) + 1, ![p].id = e.id]
  <2>1. e \in EntrySet
    BY <1>0, <1>4, <1>10, EntryFacts
  <2>2. /\ HeapIn(dirs', Ref, Len(dirs'), Len(wr)) /\ Grown(dirs, dirs')
        /\ Len(dirs') = Len(dirs) + 1 /\ \A k \in DOMAIN ds : dirs'[k] = ds[k]
    BY <1>5, <1>10, LoadDirOK, HeapWithNew
  <2>3. /\ g'[p] = [g[p] EXCEPT !.at = "setDir", !.new = Len(dirs) + 1, !.id = e.id]
        /\ g' = [g EXCEPT ![p] = g'[p]]
    BY <1>2, <1>10
  <2>4. /\ e.id \in Nat /\ Len(dirs) + 1 \in 0..Len(dirs')
        /\ 0..Len(dirs) \subseteq 0..Len(dirs')
    BY <1>1, <2>1, <2>2 DEF EntrySet
  <2>5. /\ g'[p] \in [at : place, req : {g[p].req}, must : {g[p].must}, i : Nat,
                      d : 0..Len(dirs'), new : 0..Len(dirs'), id : Nat, stk : {g[p].stk}]
        /\ g'[p].at = "setDir" /\ g'[p].new # 0
        /\ g'[p].d = d /\ g'[p].i = g[p].i /\ g'[p].req = g[p].req
    <3>1. g'[p] \in [at : {"setDir"}, req : {g[p].req}, must : {g[p].must}, i : Nat,
                     d : 0..Len(dirs), new : {Len(dirs) + 1}, id : {e.id}, stk : {g[p].stk}]
      BY <1>2, <2>3
    <3>2. g'[p].d = d /\ g'[p].i = g[p].i /\ g'[p].req = g[p].req
      BY <1>0, <1>2, <2>3
    <3> QED
      BY <1>1, <1>6, <2>4, <3>1, <3>2
  <2>6. d # 0 /\ dirs'[d].entries = dirs[d].entries
    BY <1>1, <1>4, <1>5, <2>2
  <2>7. DirPart(p)' = DirPart(p)
    BY <2>5 DEF DirPart
  <2>8. (DirPart(p)[g[p].i] \in Names(g[p].d))'
    BY <1>0, <1>10, <2>5, <2>6, <2>7 DEF Names, Entries
  <2> QED
    BY <1>3, <1>a, <1>6, <2>2, <2>3, <2>5, <2>6, <2>8, MoveStep DEF place
<1> QED
  BY <1>0, <1>7, <1>8, <1>9, <1>10 DEF Walk

LEMMA SetDirKeeps ==
  ASSUME IInv, NEW p \in Procs, SetDir(p)
  PROVE  IInv'
<1> DEFINE place == Labels \ (Hashing \union {"idle"})
<1>0. PICK d, n, e, new : /\ d = g[p].d /\ n = DirPart(p)[g[p].i]
                          /\ e = Entries(d)[n] /\ new = g[p].new
  OBVIOUS
<1>1. /\ Len(dirs) \in Nat /\ DOMAIN dirs = 1..Len(dirs) /\ NoHash \in Ref
      /\ HeapIn(dirs, Ref, Len(dirs), Len(wr)) /\ Grown(dirs, dirs)
  BY HeapSizes DEF Grown
<1>2. /\ g[p] \in [at : Labels, req : {g[p].req}, must : {g[p].must}, i : Nat,
                   d : 0..Len(dirs), new : 0..Len(dirs), id : Nat, stk : {g[p].stk}]
      /\ g[p].i + 1 \in Nat /\ p \in DOMAIN g
  BY LocalRecord
<1>3. /\ UNCHANGED <<rt, wr, blobs, lost, left>> /\ g[p].at = "setDir" /\ Advance(p, new)
      /\ dirs' = Update(d, n, g[p].id, [EntryPassed(p, e) EXCEPT !.dir = new])
  BY <1>0 DEF SetDir
<1>4. /\ d \in DOMAIN dirs /\ n \in Names(d) /\ new \in 1..Len(dirs)
      /\ g[p].req.op # "save" /\ g[p].at \in Walking
  BY <1>0, <1>1, <1>2, <1>3 DEF IInv, TypeOK, LocalOK, Walking, Finding
<1>5. /\ HeapIn(dirs', Ref, Len(dirs'), Len(wr)) /\ Grown(dirs, dirs')
      /\ Len(dirs') = Len(dirs)
  <2>1. e \in EntrySet
    BY <1>0, <1>4, EntryFacts
  <2>a. PICK y \in EntryIn(Ref, Len(dirs), Len(wr)) : y = EntryPassed(p, e)
    BY <1>1, <2>1 DEF EntryPassed, EntrySet, EntryIn
  <2>b. new \in 0..Len(dirs)
    BY <1>1, <1>4
  <2>c. PICK x : x = [y EXCEPT !.dir = new]
    OBVIOUS
  <2>2. x \in EntryIn(Ref, Len(dirs), Len(wr))
    BY <2>b, <2>c DEF EntryIn
  <2>3. dirs' = SetEntry(dirs, d, n, x) \/ dirs' = dirs
    BY <1>3, <2>a, <2>c DEF Update, SetEntry
  <2> QED
    BY <1>1, <1>4, <2>2, <2>3, HeapSetEntry DEF Names, Entries
<1>6. /\ g'[p] = [g[p] EXCEPT !.at = "walk", !.d = new, !.i = @ + 1]
      /\ g' = [g EXCEPT ![p] = g'[p]]
  BY <1>2, <1>3 DEF Advance
<1>7. "walk" \in place \ Ops
  BY DEF Labels, Finding, Walking, Hashing, Ops
<1> HIDE DEF place
<1>8. /\ g'[p] \in [at : place, req : {g[p].req}, must : {g[p].must}, i : Nat,
                    d : 0..Len(dirs'), new : 0..Len(dirs'), id : Nat, stk : {g[p].stk}]
      /\ g'[p].at = "walk" /\ g'[p].d # 0
  <2>1. g'[p] \in [at : {"walk"}, req : {g[p].req}, must : {g[p].must}, i : Nat,
                   d : {new}, new : 0..Len(dirs), id : Nat, stk : {g[p].stk}]
    BY <1>2, <1>6
  <2> QED
    BY <1>1, <1>4, <1>5, <1>7, <2>1
<1> QED
  BY <1>3, <1>4, <1>5, <1>6, <1>7, <1>8, MoveStep DEF place

LEMMA MkdirKeeps ==
  ASSUME IInv, NEW p \in Procs, Mkdir(p)
  PROVE  IInv'
<1> DEFINE place == Labels \ (Hashing \union {"idle"})
<1>0. PICK d, n, new : d = g[p].d /\ n = DirPart(p)[g[p].i] /\ new = Len(dirs) + 1
  OBVIOUS
<1>1. /\ Len(dirs) \in Nat /\ DOMAIN dirs = 1..Len(dirs) /\ NoHash \in Ref
      /\ HeapIn(dirs, Ref, Len(dirs), Len(wr)) /\ Len(wr) \in Nat
  BY HeapSizes
<1>2. /\ g[p] \in [at : Labels, req : {g[p].req}, must : {g[p].must}, i : Nat,
                   d : 0..Len(dirs), new : 0..Len(dirs), id : Nat, stk : {g[p].stk}]
      /\ g[p].i + 1 \in Nat /\ p \in DOMAIN g
  BY LocalRecord
<1>3. /\ UNCHANGED <<rt, wr, blobs, lost, left>> /\ g[p].at = "mkdir" /\ Advance(p, new)
      /\ dirs' = Append(PutEntry(dirs, d, n, NewDirEntry(new)), EmptyDir)
  BY <1>0 DEF Mkdir, Store, PutEntry
<1>4. d \in DOMAIN dirs /\ g[p].req.op # "save" /\ g[p].at \in Walking
  BY <1>0, <1>1, <1>2, <1>3 DEF IInv, TypeOK, LocalOK, Walking, Finding
<1>5. /\ HeapIn(dirs', Ref, Len(dirs'), Len(wr)) /\ Grown(dirs, dirs')
      /\ Len(dirs') = new
  <2>1. HeapIn(dirs, Ref, new, Len(wr)) /\ new \in Nat
    BY <1>0, <1>1, HeapWeaken
  <2>2. NewDirEntry(new) \in EntryIn(Ref, new, Len(wr))
    BY <1>1, <2>1 DEF NewDirEntry, EntryIn
  <2>3. PICK ds : ds = PutEntry(dirs, d, n, NewDirEntry(new))
    OBVIOUS
  <2>4. HeapIn(ds, Ref, new, Len(wr)) /\ Grown(dirs, ds) /\ Len(ds) = Len(dirs)
    BY <1>4, <2>1, <2>2, <2>3, HeapPutEntry
  <2>5. DirIn(EmptyDir, Ref, new, Len(wr))
    BY <1>1 DEF EmptyDir, DirIn
  <2>6. /\ HeapIn(dirs', Ref, new, Len(wr)) /\ Grown(ds, dirs')
        /\ Len(dirs') = Len(ds) + 1
    BY <1>3, <2>3, <2>4, <2>5, HeapAppend
  <2>7. Grown(dirs, dirs')
    <3>1. DOMAIN ds = DOMAIN dirs
      BY <1>1, <2>4, SeqFacts DEF HeapIn
    <3> QED
      BY <1>1, <2>4, <2>6, <3>1 DEF Grown
  <2> QED
    BY <1>0, <2>4, <2>6, <2>7
<1>6. /\ g'[p] = [g[p] EXCEPT !.at = "walk", !.d = new, !.i = @ + 1]
      /\ g' = [g EXCEPT ![p] = g'[p]]
  BY <1>2, <1>3 DEF Advance
<1>7. "walk" \in place \ Ops
  BY DEF Labels, Finding, Walking, Hashing, Ops
<1> HIDE DEF place
<1>8. /\ g'[p] \in [at : place, req : {g[p].req}, must : {g[p].must}, i : Nat,
                    d : 0..Len(dirs'), new : 0..Len(dirs'), id : Nat, stk : {g[p].stk}]
      /\ g'[p].at = "walk" /\ g'[p].d # 0
  <2>1. g'[p] \in [at : {"walk"}, req : {g[p].req}, must : {g[p].must}, i : Nat,
                   d : {new}, new : 0..Len(dirs), id : Nat, stk : {g[p].stk}]
    BY <1>2, <1>6
  <2>2. new \in 1..new /\ 0..Len(dirs) \subseteq 0..new
    BY <1>0, <1>1
  <2> QED
    BY <1>5, <1>7, <2>1, <2>2
<1> QED
  BY <1>3, <1>4, <1>5, <1>6, <1>7, <1>8, MoveStep DEF place

\* An operation is one of Ops.
LEMMA RequestOp ==
  ASSUME NEW r \in Requests PROVE r.op \in Ops
BY DEF Requests, Ops

LEMMA ArriveKeeps ==
  ASSUME IInv, NEW p \in Procs, Arrive(p)
  PROVE  IInv'
<1> DEFINE place == Labels \ (Hashing \union {"idle"})
<1>0. PICK d, op : d = g[p].d /\ op = g[p].req.op
  OBVIOUS
<1>1. Len(dirs) \in Nat /\ DOMAIN dirs = 1..Len(dirs)
  BY HeapSizes
<1>2. /\ g[p] \in [at : Labels, req : {g[p].req}, must : {g[p].must}, i : Nat,
                   d : 0..Len(dirs), new : 0..Len(dirs), id : Nat, stk : {g[p].stk}]
      /\ p \in DOMAIN g
  BY LocalRecord
<1>3. /\ UNCHANGED <<rt, wr, blobs, lost, left>> /\ g[p].at = "walk" /\ Goto(p, op)
      /\ dirs' = DirPassed(p, d)
  BY <1>0 DEF Arrive
<1>4. d \in DOMAIN dirs /\ op # "save" /\ g[p].req \in Requests /\ g[p].at \in Walking
  BY <1>0, <1>1, <1>2, <1>3 DEF IInv, TypeOK, LocalOK, Walking, Finding
<1>5. /\ HeapIn(dirs', Ref, Len(dirs'), Len(wr)) /\ Grown(dirs, dirs')
      /\ Len(dirs') = Len(dirs)
  BY <1>3, <1>4, DirPassedOK
<1>6. g'[p] = [g[p] EXCEPT !.at = op] /\ g' = [g EXCEPT ![p] = g'[p]]
  BY <1>2, <1>3 DEF Goto
<1>7. op \in place /\ op \notin {"setDir", "setRootDir"}
  BY <1>0, <1>4, RequestOp DEF Labels, Finding, Walking, Hashing, Ops
<1> HIDE DEF place
<1>8. /\ g'[p] \in [at : place, req : {g[p].req}, must : {g[p].must}, i : Nat,
                    d : 0..Len(dirs'), new : 0..Len(dirs'), id : Nat, stk : {g[p].stk}]
      /\ g'[p].at = op /\ g'[p].d # 0
  BY <1>0, <1>1, <1>2, <1>4, <1>5, <1>6, <1>7
<1> QED
  BY <1>0, <1>3, <1>4, <1>5, <1>6, <1>7, <1>8, MoveStep DEF place

-----------------------------------------------------------------------------
(* The stack of frames of hashDir and diffIter *)

StkOK(s) == s \in Seq(ToSet(s)) /\ \A k \in DOMAIN s : FrameOK(s[k])

\* The top frame has visited n.
Seen(s, n) == [s EXCEPT ![Len(s)].seen = @ \union {n}]

LEMMA StkTop ==
  ASSUME NEW s, StkOK(s), s # <<>>
  PROVE  /\ Len(s) \in Nat \ {0} /\ DOMAIN s = 1..Len(s) /\ FrameOK(s[Len(s)])
<1>1. Len(s) \in Nat /\ DOMAIN s = 1..Len(s)
  BY SeqFacts DEF StkOK
<1>2. Len(s) # 0
  BY <1>1 DEF StkOK
<1> QED
  BY <1>1, <1>2 DEF StkOK

LEMMA StkPop ==
  ASSUME NEW s, StkOK(s), s # <<>>
  PROVE  StkOK(Front(s))
<1>1. /\ Len(s) \in Nat \ {0} /\ DOMAIN s = 1..Len(s) /\ s \in Seq(ToSet(s))
      /\ \A k \in DOMAIN s : FrameOK(s[k])
  BY StkTop DEF StkOK
<1>2. PICK t : t = Front(s)
  OBVIOUS
<1>3. /\ t \in Seq(ToSet(s)) /\ Len(t) = Len(s) - 1
      /\ \A k \in 1..(Len(s) - 1) : t[k] = s[k]
  BY <1>1, <1>2 DEF Front
<1>4. DOMAIN t = 1..(Len(s) - 1)
  BY <1>1, <1>3
<1>a. t = [k \in DOMAIN t |-> t[k]] /\ Len(s) - 1 \in Nat
  BY <1>1, <1>3
<1>b. t \in [1..(Len(s) - 1) -> ToSet(t)]
  BY <1>4, <1>a DEF ToSet
<1>5. t \in Seq(ToSet(t))
  BY <1>a, <1>b
<1>6. \A k \in DOMAIN t : FrameOK(t[k])
  BY <1>1, <1>3, <1>4
<1> QED
  BY <1>2, <1>5, <1>6 DEF StkOK

LEMMA StkPush ==
  ASSUME NEW s, StkOK(s), NEW f, FrameOK(f)
  PROVE  StkOK(Append(s, f)) /\ Append(s, f) # <<>>
<1>1. /\ Len(s) \in Nat /\ DOMAIN s = 1..Len(s) /\ s \in Seq(ToSet(s))
      /\ \A k \in DOMAIN s : FrameOK(s[k])
  BY SeqFacts DEF StkOK
<1>2. PICK t : t = Append(s, f)
  OBVIOUS
<1>3. /\ t \in Seq(ToSet(t)) /\ Len(t) = Len(s) + 1
      /\ DOMAIN t = 1..(Len(s) + 1)
      /\ \A k \in 1..Len(s) : t[k] = s[k]
      /\ t[Len(s) + 1] = f
  BY <1>1, <1>2, SeqFacts
<1>4. \A k \in DOMAIN t : k \in 1..Len(s) \/ k = Len(s) + 1
  BY <1>1, <1>3
<1>5. \A k \in DOMAIN t : FrameOK(t[k])
  BY <1>1, <1>3, <1>4
<1> QED
  BY <1>1, <1>2, <1>3, <1>5 DEF StkOK

LEMMA StkSeen ==
  ASSUME NEW s, StkOK(s), s # <<>>, NEW n
  PROVE  StkOK(Seen(s, n)) /\ Seen(s, n) # <<>>
<1>1. /\ Len(s) \in Nat \ {0} /\ DOMAIN s = 1..Len(s) /\ s \in Seq(ToSet(s))
      /\ \A k \in DOMAIN s : FrameOK(s[k])
  BY StkTop DEF StkOK
<1>2. PICK t, f : t = Seen(s, n) /\ f = [s[Len(s)] EXCEPT !.seen = @ \union {n}]
  OBVIOUS
<1>3. /\ DOMAIN t = DOMAIN s /\ t = [k \in DOMAIN t |-> t[k]]
      /\ \A k \in DOMAIN s : t[k] = IF k = Len(s) THEN f ELSE s[k]
  BY <1>1, <1>2 DEF Seen
<1>4. FrameOK(f)
  <2>1. FrameOK(s[Len(s)])
    BY <1>1
  <2> QED
    BY <1>2, <2>1 DEF FrameOK
<1>5. t \in [1..Len(s) -> ToSet(t)]
  BY <1>1, <1>3 DEF ToSet
<1>6. t \in Seq(ToSet(t))
  BY <1>1, <1>5
<1>7. \A k \in DOMAIN t : FrameOK(t[k])
  BY <1>1, <1>3, <1>4
<1>8. t # <<>>
  BY <1>1, <1>3
<1> QED
  BY <1>2, <1>6, <1>7, <1>8 DEF StkOK

LEMMA StkKept ==
  ASSUME IInv, NEW s, StkOK(s),
         Grown(dirs, dirs'), Len(dirs') \in Nat, DOMAIN dirs' = 1..Len(dirs'),
         rt.dir # 0 => rt'.dir # 0
  PROVE  StkOK(s)'
<1>1. \A k \in DOMAIN s : FrameOK(s[k])'
  <2> SUFFICES ASSUME NEW k \in DOMAIN s, NEW f, f = s[k]
               PROVE  FrameOK(f)'
    OBVIOUS
  <2> QED
    BY FrameKept DEF StkOK
<1> QED
  BY <1>1 DEF StkOK

\* The stack of a goroutine.
LEMMA StkOfLocal ==
  ASSUME IInv, NEW p \in Procs
  PROVE  StkOK(g[p].stk) /\ (g[p].at \in Hashing => g[p].stk # <<>>)
BY DEF IInv, TypeOK, LocalOK, StkOK

\* A goroutine that goes on with another stack.
LEMMA StackOK ==
  ASSUME IInv, NEW p \in Procs, g[p].at # "idle",
         Len(dirs') \in Nat, Len(dirs) <= Len(dirs'),
         NEW l \in Hashing \union {"rootReady"}, NEW s, StkOK(s)', l \in Hashing => s # <<>>,
         g' = [g EXCEPT ![p].at = l, ![p].stk = s]
  PROVE  LocalOK(p)' /\ g' = [g EXCEPT ![p] = g'[p]]
<1>1. Len(dirs) \in Nat
  BY HeapSizes
<1>2. /\ g[p] \in [at : Labels, req : {g[p].req}, must : {g[p].must}, i : Nat,
                   d : 0..Len(dirs), new : 0..Len(dirs), id : Nat, stk : {g[p].stk}]
      /\ p \in DOMAIN g
      /\ g[p].req \in Requests
  BY LocalRecord DEF IInv, TypeOK, LocalOK
<1>3. g'[p] = [g[p] EXCEPT !.at = l, !.stk = s] /\ g' = [g EXCEPT ![p] = g'[p]]
  BY <1>2
<1>4. /\ l \notin Ops \union Finding \union Walking \union {"setDir", "setRootDir", "idle"}
      /\ l \in Labels
  BY DEF Labels, Finding, Walking, Hashing, Ops
<1>5. g'[p] \in [at : {l}, req : Requests, must : {g[p].must}, i : Nat,
                 d : 0..Len(dirs), new : 0..Len(dirs), id : Nat, stk : {s}]
  BY <1>2, <1>3
<1>6. g'[p] \in [at : Labels, req : Requests \union {NoReq}, must : {g'[p].must},
                 i : Nat, d : 0..Len(dirs'), new : 0..Len(dirs'), id : Nat,
                 stk : Seq(ToSet(g'[p].stk))]
  BY <1>1, <1>4, <1>5 DEF StkOK
<1>7. g'[p].at = l /\ g'[p].stk = s /\ g'[p].req \in Requests
  BY <1>5
<1>8. \A k \in DOMAIN g'[p].stk : FrameOK(g[p].stk[k])'
  BY <1>7 DEF StkOK
<1>9. LocalOK(p)'
  BY <1>4, <1>6, <1>7, <1>8 DEF LocalOK
<1> QED
  BY <1>3, <1>9

\* QuietStep for such a goroutine.
LEMMA StackStep ==
  ASSUME IInv, NEW p \in Procs, g[p].at # "idle", UNCHANGED <<rt, wr, blobs, lost, left>>,
         HeapIn(dirs', Ref, Len(dirs'), Len(wr)), Grown(dirs, dirs'),
         NEW l \in Hashing, NEW s, StkOK(s)', s # <<>>,
         g' = [g EXCEPT ![p].at = l, ![p].stk = s]
  PROVE  IInv'
<1>1. /\ Len(dirs') \in Nat /\ DOMAIN dirs' = 1..Len(dirs')
      /\ Len(dirs) <= Len(dirs') /\ Len(dirs) \in Nat
      /\ left \in [Ops \union {"fault"} -> Nat]
  BY HeapSizes, LocalRecord, SeqFacts DEF HeapIn, Grown
<1>2. LocalOK(p)' /\ g' = [g EXCEPT ![p] = g'[p]]
  BY <1>1, StackOK
<1>3. RtOK'
  <2>1. Ref' = Ref /\ 0..Len(dirs) \subseteq 0..Len(dirs')
    BY <1>1 DEF Ref, Unpublished
  <2> QED
    BY <2>1 DEF IInv, TypeOK, RtOK
<1> QED
  BY <1>1, <1>2, <1>3, QuietStep

-----------------------------------------------------------------------------
(* Starting an operation *)

LEMMA RootFrameOK ==
  ASSUME IInv, rt.dir # 0, NEW d \in DOMAIN dirs
  PROVE  StkOK(<<RootFrame(d)>>)
<1>1. Len(dirs) \in Nat
  BY HeapSizes
<1>2. FrameOK(RootFrame(d))
  BY <1>1 DEF FrameOK, RootFrame, Frame
<1>4. PICK f, s : f = RootFrame(d) /\ s = <<f>>
  OBVIOUS
<1>5. s \in Seq(ToSet(s)) /\ DOMAIN s = {1} /\ s[1] = f
  BY <1>4 DEF ToSet
<1> QED
  BY <1>2, <1>4, <1>5 DEF StkOK

LEMMA BeginKeeps ==
  ASSUME IInv, NEW p \in Procs, NEW r \in Requests, Begin(p, r)
  PROVE  IInv'
<1>1. /\ Len(dirs) \in Nat /\ DOMAIN dirs = 1..Len(dirs) /\ NoHash \in Ref
      /\ HeapIn(dirs, Ref, Len(dirs), Len(wr)) /\ Grown(dirs, dirs)
  BY HeapSizes DEF Grown
<1>2. /\ RtOK /\ left \in [Ops \union {"fault"} -> Nat] /\ r.op \in Ops
      /\ p \in DOMAIN g
  BY RequestOp DEF IInv, TypeOK
<1>3. /\ UNCHANGED <<rt, dirs, wr, blobs, lost>> /\ left[r.op] > 0
      /\ left' = [left EXCEPT ![r.op] = @ - 1]
  BY DEF Begin, heap
<1>4. left' \in [Ops \union {"fault"} -> Nat]
  BY <1>2, <1>3
<1>a. PICK l, s, m :
        /\ m = IF r.op \in {"save", "read"} THEN [f \in Paths |-> sealed[f].now] ELSE Idle.must
        /\ s = IF r.op \in {"save", "diff"} /\ ~rt.readonly /\ rt.dir # 0
                 THEN <<RootFrame(rt.dir)>> ELSE Idle.stk
        /\ l = IF r.op \notin {"save", "diff"} THEN "getDir"
               ELSE IF ~rt.readonly /\ rt.dir # 0 THEN "hash" ELSE "rootReady"
  OBVIOUS
<1>b. g' = [g EXCEPT ![p] = [Idle EXCEPT !.req = r, !.must = m, !.stk = s, !.at = l]]
  BY <1>a DEF Begin
<1>c. \/ l = "getDir" /\ r.op # "save" /\ s = <<>>
      \/ l = "hash" /\ s = <<RootFrame(rt.dir)>> /\ rt.dir # 0
      \/ l = "rootReady" /\ s = <<>>
  BY <1>a DEF Idle
<1>d. StkOK(<<>>)
  BY DEF StkOK, ToSet
<1>5. /\ StkOK(s)
      /\ \/ l = "getDir" /\ r.op # "save"
         \/ l = "hash" /\ s # <<>>
         \/ l = "rootReady"
  <2>1. rt.dir # 0 => rt.dir \in DOMAIN dirs
    BY <1>1, <1>2 DEF RtOK
  <2>2. ASSUME rt.dir # 0 PROVE StkOK(<<RootFrame(rt.dir)>>)
    BY <2>1, <2>2, RootFrameOK
  <2>3. StkOK(s)
    BY <1>c, <1>d, <2>2
  <2>4. \/ l = "getDir" /\ r.op # "save"
        \/ l = "hash" /\ s # <<>>
        \/ l = "rootReady"
    <3>1. \A x : <<x>> # <<>>
      OBVIOUS
    <3>2. s = <<RootFrame(rt.dir)>> => s # <<>>
      BY <3>1
    <3> QED
      BY <1>c, <3>2
  <2> QED
    BY <2>3, <2>4
<1>6. /\ l \in Labels
      /\ l \in {"getDir", "hash", "rootReady"}
      /\ l \notin Ops \union Walking \union {"setDir", "setRootDir"}
      /\ "rootReady" \notin Finding \union Hashing /\ "getDir" \notin Hashing
      /\ "hash" \notin Finding
  BY <1>5 DEF Labels, Finding, Walking, Hashing, Ops
<1>7. g'[p] = [Idle EXCEPT !.req = r, !.must = m, !.stk = s, !.at = l]
      /\ g' = [g EXCEPT ![p] = g'[p]]
  BY <1>2, <1>b
<1>8. /\ g'[p].at = l /\ g'[p].stk = s /\ g'[p].req = r
      /\ g'[p] \in [at : {l}, req : {r}, must : {m}, i : {1}, d : {0}, new : {0}, id : {0},
                    stk : {s}]
  BY <1>7 DEF Idle
<1>9. g'[p] \in [at : Labels, req : Requests \union {NoReq}, must : {g'[p].must},
                 i : Nat, d : 0..Len(dirs'), new : 0..Len(dirs'), id : Nat,
                 stk : Seq(ToSet(g'[p].stk))]
  BY <1>1, <1>3, <1>5, <1>6, <1>8 DEF StkOK
<1>10. StkOK(s)'
  BY <1>1, <1>3, <1>5, StkKept
<1>11. LocalOK(p)'
  <2>1. \A k \in DOMAIN g'[p].stk : FrameOK(g[p].stk[k])'
    BY <1>8, <1>10 DEF StkOK
  <2> QED
    BY <1>5, <1>6, <1>8, <1>9, <2>1 DEF LocalOK
<1>12. RtOK'
  BY <1>2, <1>3 DEF RtOK, Ref, Unpublished
<1> QED
  BY <1>1, <1>3, <1>4, <1>7, <1>11, <1>12, QuietStep

-----------------------------------------------------------------------------
(* The operations at the directory they were to find *)

\* A goroutine at one of Ops holds a Dir.
LEMMA AtDir ==
  ASSUME IInv, NEW p \in Procs, g[p].at \in Ops \ {"save"}
  PROVE  g[p].d \in DOMAIN dirs /\ g[p].req \in Requests /\ g[p].req.op = g[p].at
BY HeapSizes DEF IInv, TypeOK, LocalOK, Walking, Ops

\* A hash taken from a File is known: its writer is no longer open.
LEMMA HashFileOK ==
  ASSUME IInv, NEW e \in EntrySet, ~HashFileFails(e)
  PROVE  HashFile(e) \in EntryIn(Ref, Len(dirs), Len(wr))
<1>1. Len(wr) \in Nat /\ DOMAIN wr = 1..Len(wr)
  BY HeapSizes
<1>2. FileHashOf(e) \in Ref
  BY <1>1 DEF FileHashOf, HashFileFails, EntrySet, Ref, Unpublished
<1>3. PICK h \in Ref : h = FileHashOf(e)
  BY <1>2
<1>4. HashFile(e) = [e EXCEPT !.hash = h, !.fhash = h, !.blobW = 0]
  BY <1>3 DEF HashFile
<1>5. 0 \in 0..Len(wr)
  BY <1>1
<1>6. [e EXCEPT !.hash = h, !.fhash = h, !.blobW = 0] \in EntryIn(Ref, Len(dirs), Len(wr))
  BY <1>3, <1>5 DEF EntrySet, EntryIn
<1> QED
  BY <1>4, <1>6

LEMMA ReadKeeps ==
  ASSUME IInv, NEW p \in Procs, Read(p)
  PROVE  IInv'
<1>0. PICK d, n, e : d = g[p].d /\ n = FileName(p) /\ e = Entries(d)[n]
  OBVIOUS
<1>1. /\ HeapIn(dirs, Ref, Len(dirs), Len(wr)) /\ Grown(dirs, dirs)
  BY HeapSizes DEF Grown
<1>2. /\ UNCHANGED <<rt, wr, blobs, lost, left>> /\ Return(p)
      /\ left \in [Ops \union {"fault"} -> Nat] /\ d \in DOMAIN dirs
  BY <1>0, AtDir, LocalRecord DEF Read, Ops
<1>3. \/ dirs' = dirs
      \/ /\ n \in Names(d) /\ ~HashFileFails(e)
         /\ dirs' = SetEntry(dirs, d, n, HashFile(e))
  BY <1>0 DEF Read, SetEntry
<1>4. HeapIn(dirs', Ref, Len(dirs'), Len(wr)) /\ Grown(dirs, dirs')
  <2>1. CASE n \in Names(d) /\ ~HashFileFails(e)
    <3>1. e \in EntrySet
      BY <1>0, <1>2, <2>1, EntryFacts
    <3>2. HashFile(e) \in EntryIn(Ref, Len(dirs), Len(wr))
      BY <2>1, <3>1, HashFileOK
    <3>3. n \in DOMAIN dirs[d].entries
      BY <2>1 DEF Names, Entries
    <3> QED
      BY <1>1, <1>2, <1>3, <3>2, <3>3, HeapSetEntry
  <2> QED
    BY <1>1, <1>3, <2>1
<1> QED
  BY <1>2, <1>4, ReturnStep

LEMMA ListKeeps ==
  ASSUME IInv, NEW p \in Procs, List(p)
  PROVE  IInv'
<1>1. UNCHANGED <<rt, dirs, wr, blobs, lost, left>> /\ Return(p)
  BY DEF List, heap
<1>2. HeapIn(dirs', Ref, Len(dirs'), Len(wr)) /\ Grown(dirs, dirs')
  BY <1>1, HeapSizes DEF Grown
<1> QED
  BY <1>1, <1>2, LocalRecord, ReturnStep

LEMMA LinkKeeps ==
  ASSUME IInv, NEW p \in Procs, Link(p)
  PROVE  IInv'
<1>0. PICK d, n, h : d = g[p].d /\ n = FileName(p) /\ h = g[p].req.arg
  OBVIOUS
<1>1. /\ HeapIn(dirs, Ref, Len(dirs), Len(wr)) /\ Grown(dirs, dirs)
      /\ Len(dirs) \in Nat /\ Len(wr) \in Nat /\ NoHash \in Ref /\ blobs \subseteq Ref
  BY HeapSizes DEF Grown
<1>2. /\ UNCHANGED <<rt, wr, blobs, lost, left>> /\ Return(p) /\ g[p].at = "link"
      /\ left \in [Ops \union {"fault"} -> Nat]
  BY LocalRecord DEF Link
<1>3. d \in DOMAIN dirs /\ g[p].req \in Requests /\ g[p].req.op = "link"
  BY <1>0, <1>2, AtDir DEF Ops
<1>4. h \in Ref
  <2>1. h \in BaseBlobs
    BY <1>0, <1>3, PathAssumption DEF Requests
  <2> QED
    BY <1>1, <2>1 DEF IInv, TypeOK
<1>5. dirs' = dirs \/ dirs' = PutEntry(dirs, d, n, NewFileEntry(h))
  BY <1>0 DEF Link, Store, PutEntry
<1>6. NewFileEntry(h) \in EntryIn(Ref, Len(dirs), Len(wr))
  BY <1>1, <1>4 DEF NewFileEntry, EntryIn
<1>7. HeapIn(dirs', Ref, Len(dirs'), Len(wr)) /\ Grown(dirs, dirs')
  BY <1>1, <1>3, <1>5, <1>6, HeapPutEntry
<1> QED
  BY <1>2, <1>7, ReturnStep

\* A sequence of writers is typed when each of them is.
LEMMA WritersSeq ==
  ASSUME NEW ws, ws \in Seq(ToSet(ws)), \A v \in DOMAIN ws : ws[v] \in Writers
  PROVE  ws \in Seq(Writers)
<1>1. Len(ws) \in Nat /\ DOMAIN ws = 1..Len(ws) /\ ws = [v \in DOMAIN ws |-> ws[v]]
  OBVIOUS
<1>2. ws \in [1..Len(ws) -> Writers]
  BY <1>1
<1> QED
  BY <1>1, <1>2

LEMMA WritersFacts ==
  ASSUME IInv
  PROVE  /\ Len(wr) \in Nat /\ DOMAIN wr = 1..Len(wr) /\ wr \in Seq(ToSet(wr))
         /\ \A v \in DOMAIN wr : /\ wr[v] \in Writers
                                 /\ wr[v].st = "stored" => wr[v].hash \in blobs
<1>1. wr \in Seq(Writers) /\ \A v \in DOMAIN wr : wr[v].st = "stored" => wr[v].hash \in blobs
  BY DEF IInv, TypeOK, WrOK
<1>2. Len(wr) \in Nat /\ DOMAIN wr = 1..Len(wr)
  BY <1>1
<1>3. \A v \in DOMAIN wr : wr[v] \in Writers
  BY <1>1
<1>4. wr \in Seq(ToSet(wr))
  BY <1>1, <1>2 DEF ToSet
<1> QED
  BY <1>1, <1>2, <1>3, <1>4

LEMMA WriteKeeps ==
  ASSUME IInv, NEW p \in Procs, Write(p)
  PROVE  IInv'
<1>0. PICK d, n, path, h : /\ d = g[p].d /\ n = FileName(p)
                           /\ path = g[p].req.path /\ h = g[p].req.arg
  OBVIOUS
<1>1. /\ HeapIn(dirs, Ref, Len(dirs), Len(wr)) /\ Grown(dirs, dirs)
      /\ Len(dirs) \in Nat /\ DOMAIN dirs = 1..Len(dirs)
      /\ Len(wr) \in Nat /\ DOMAIN wr = 1..Len(wr) /\ NoHash \in Ref
  BY HeapSizes DEF Grown
<1>2. /\ UNCHANGED <<rt, blobs, lost>> /\ Return(p) /\ g[p].at = "write"
      /\ left \in [Ops \union {"fault"} -> Nat]
  BY LocalRecord DEF Write
<1>3. d \in DOMAIN dirs /\ g[p].req \in Requests /\ g[p].req.op = "write"
  BY <1>0, <1>2, AtDir DEF Ops
<1>4. left' \in [Ops \union {"fault"} -> Nat]
  BY <1>2 DEF Write, Fault
<1>5. CASE UNCHANGED <<dirs, wr>>
  BY <1>1, <1>2, <1>4, <1>5, ReturnStep
<1> DEFINE e0 == IF n \notin Names(d) THEN NewFileEntry(NoHash)
                 ELSE IF Entries(d)[n].file THEN Entries(d)[n]
                 ELSE [Entries(d)[n] EXCEPT !.file = TRUE, !.fhash = Entries(d)[n].hash]
<1>6. PICK e \in EntryIn(Ref, Len(dirs), Len(wr)) : e = e0
  <2>1. CASE n \notin Names(d)
    <3>1. NewFileEntry(NoHash) \in EntryIn(Ref, Len(dirs), Len(wr))
      BY <1>1 DEF NewFileEntry, EntryIn
    <3> QED
      BY <2>1, <3>1
  <2>2. CASE n \in Names(d)
    <3>1. PICK x : x = Entries(d)[n]
      OBVIOUS
    <3>2. x \in EntryIn(Ref, Len(dirs), Len(wr))
      BY <1>3, <2>2, <3>1, EntryFacts DEF EntrySet, EntryIn
    <3>3. [x EXCEPT !.file = TRUE, !.fhash = x.hash] \in EntryIn(Ref, Len(dirs), Len(wr))
      BY <3>2 DEF EntryIn
    <3> QED
      BY <2>2, <3>1, <3>2, <3>3
  <2> QED
    BY <2>1, <2>2
<1> HIDE DEF e0
<1>7. CASE UNCHANGED wr /\ dirs' = PutEntry(dirs, d, n, e)
  <2>1. HeapIn(dirs', Ref, Len(dirs'), Len(wr)) /\ Grown(dirs, dirs')
    BY <1>1, <1>3, <1>7, HeapPutEntry
  <2> QED
    BY <1>2, <1>4, <1>7, <2>1, ReturnStep
<1>8. CASE /\ wr' = Append(wr, [path |-> path, hash |-> h, st |-> "open"])
           /\ dirs' = PutEntry(dirs, d, n, [e EXCEPT !.blobW = Len(wr) + 1])
  <2>1. PICK w : w = [path |-> path, hash |-> h, st |-> "open"]
    OBVIOUS
  <2>2. WrOK
    BY DEF IInv, TypeOK
  <2>3. /\ wr' \in Seq(ToSet(wr')) /\ Len(wr') = Len(wr) + 1 /\ DOMAIN wr' = 1..(Len(wr) + 1)
        /\ \A v \in 1..Len(wr) : wr'[v] = wr[v]
        /\ wr'[Len(wr) + 1] = w
    <3> QED
      BY <1>1, <1>8, <2>1, WritersFacts, SeqFacts
  <2>4. \A v \in DOMAIN wr' : v \in DOMAIN wr \/ v = Len(wr) + 1
    BY <1>1, <2>3
  <2>5. Ref' = Ref
    <3>1. {v \in DOMAIN wr' : wr'[v].st # "open"} = {v \in DOMAIN wr : wr[v].st # "open"}
      BY <1>1, <2>1, <2>3, <2>4
    <3>2. Unpublished' = Unpublished
      BY <1>1, <2>3, <3>1 DEF Unpublished
    <3> QED
      BY <1>2, <3>2 DEF Ref
  <2>6. WrOK'
    <3>1. path \in Paths /\ h \in {FileHash(put[2]) : put \in Puts}
      BY <1>0, <1>3, PathAssumption DEF Requests
    <3>2. \A v \in DOMAIN wr : wr[v] \in Writers
      BY WritersFacts
    <3>3. w \in Writers
      BY <2>1, <3>1 DEF Writers
    <3>4. wr' \in Seq(Writers)
      <4>1. \A v \in DOMAIN wr' : wr'[v] \in Writers
        BY <1>1, <2>3, <2>4, <3>2, <3>3
      <4> QED
        BY <2>3, <4>1, WritersSeq
    <3>5. \A v \in DOMAIN wr' : wr'[v].st = "stored" => wr'[v].hash \in blobs'
      BY <1>1, <1>2, <2>1, <2>2, <2>3, <2>4 DEF WrOK
    <3> QED
      BY <3>4, <3>5 DEF WrOK
  <2>7. /\ HeapIn(dirs', Ref', Len(dirs'), Len(wr')) /\ Grown(dirs, dirs')
        /\ Len(dirs') = Len(dirs)
    <3>1. HeapIn(dirs, Ref, Len(dirs), Len(wr) + 1) /\ Len(wr) + 1 \in Nat
      BY <1>1, HeapWeaken
    <3>2. PICK k, x : k = Len(wr) + 1 /\ x = [e EXCEPT !.blobW = k]
      OBVIOUS
    <3>3. k \in 0..k /\ 0..Len(wr) \subseteq 0..k
      BY <1>1, <3>2
    <3>4. x \in EntryIn(Ref, Len(dirs), k)
      BY <3>2, <3>3 DEF EntryIn
    <3> QED
      BY <1>3, <1>8, <2>3, <2>5, <3>1, <3>2, <3>4, HeapPutEntry
  <2>8. LocalOK(p)' /\ g' = [g EXCEPT ![p] = g'[p]]
    BY <1>1, <1>2, <2>7, ReturnOK
  <2>9. /\ g' \in [Procs -> {g'[q] : q \in Procs}]
        /\ \A q \in Procs : g'[q] = g[q] \/ LocalOK(q)'
    BY <2>8 DEF IInv, TypeOK
  <2>10. RtOK'
    BY <1>2, <2>5, <2>7 DEF IInv, TypeOK, RtOK
  <2> QED
    BY <1>2, <1>4, <2>5, <2>6, <2>7, <2>9, <2>10, AnyStep
<1>9. \/ UNCHANGED <<dirs, wr>>
      \/ UNCHANGED wr /\ dirs' = PutEntry(dirs, d, n, e)
      \/ /\ wr' = Append(wr, [path |-> path, hash |-> h, st |-> "open"])
         /\ dirs' = PutEntry(dirs, d, n, [e EXCEPT !.blobW = Len(wr) + 1])
  BY <1>0, <1>6 DEF Write, Store, PutEntry, e0
<1> QED
  BY <1>5, <1>7, <1>8, <1>9

-----------------------------------------------------------------------------
(* hashDir and hashFile *)

\* The caller of hashEntry goes on, or EntryHash returns.
LEMMA ResumeStep ==
  ASSUME IInv, NEW p \in Procs, g[p].at # "idle", UNCHANGED <<rt, wr, blobs, lost, left>>,
         HeapIn(dirs', Ref, Len(dirs'), Len(wr)), Grown(dirs, dirs'),
         NEW s, StkOK(s), Resume(p, s)
  PROVE  IInv'
<1>1. CASE s = <<>>
  BY <1>1, LocalRecord, ReturnStep DEF Resume
<1>2. CASE s # <<>>
  <2>1. g' = [g EXCEPT ![p].at = "hash", ![p].stk = s]
    BY <1>2 DEF Resume
  <2>2. Len(dirs') \in Nat /\ DOMAIN dirs' = 1..Len(dirs')
    BY SeqFacts DEF HeapIn
  <2>3. StkOK(s)'
    BY <2>2, StkKept
  <2>4. "hash" \in Hashing
    BY DEF Hashing
  <2> QED
    BY <1>2, <2>1, <2>3, <2>4, StackStep
<1> QED
  BY <1>1, <1>2

LEMMA HashEntryKeeps ==
  ASSUME IInv, NEW p \in Procs, g[p].at # "idle", UNCHANGED <<rt, wr, blobs, lost, left>>,
         NEW d \in DOMAIN dirs, NEW n \in Names(d), NEW s, StkOK(s), HashEntry(p, d, n, s)
  PROVE  IInv'
<1>1. /\ HeapIn(dirs, Ref, Len(dirs), Len(wr)) /\ Grown(dirs, dirs)
      /\ Len(dirs) \in Nat /\ DOMAIN dirs = 1..Len(dirs)
  BY HeapSizes DEF Grown
<1>a. left \in [Ops \union {"fault"} -> Nat]
  BY LocalRecord
<1>2. PICK e \in EntrySet : e = Entries(d)[n]
  BY EntryFacts
<1>3. CASE Resume(p, s) /\ UNCHANGED dirs
  BY <1>1, <1>3, ResumeStep
<1>4. CASE Return(p) /\ UNCHANGED dirs
  BY <1>1, <1>a, <1>4, ReturnStep
<1>5. CASE /\ e.dir # 0 /\ UNCHANGED dirs
           /\ g' = [g EXCEPT ![p].at = "hash",
                             ![p].stk = Append(s, Frame(e.dir, Names(e.dir), d, n, e.id))]
  <2>1. PICK f : f = Frame(e.dir, Names(e.dir), d, n, e.id)
    OBVIOUS
  <2>2. e.dir \in DOMAIN dirs /\ e.id \in Nat
    BY <1>1, <1>2, <1>5 DEF EntrySet
  <2>3. FrameOK(f)
    BY <1>1, <2>1, <2>2 DEF FrameOK, Frame
  <2>4. PICK t : t = Append(s, f) /\ StkOK(t) /\ t # <<>>
    BY <2>3, StkPush
  <2>5. StkOK(t)'
    BY <1>1, <1>5, <2>4, StkKept
  <2>6. "hash" \in Hashing
    BY DEF Hashing
  <2>7. g' = [g EXCEPT ![p].at = "hash", ![p].stk = t]
    BY <1>5, <2>1, <2>4
  <2> QED
    BY <1>1, <1>5, <2>4, <2>5, <2>6, <2>7, StackStep
<1>6. CASE /\ ~HashFileFails(e) /\ Resume(p, s)
           /\ dirs' = SetEntry(dirs, d, n, HashFile(e))
  <2>1. HashFile(e) \in EntryIn(Ref, Len(dirs), Len(wr))
    BY <1>2, <1>6, HashFileOK
  <2>2. n \in DOMAIN dirs[d].entries
    BY DEF Names, Entries
  <2>3. HeapIn(dirs', Ref, Len(dirs'), Len(wr)) /\ Grown(dirs, dirs')
    BY <1>1, <1>6, <2>1, <2>2, HeapSetEntry
  <2> QED
    BY <1>6, <2>3, ResumeStep
<1>7. HashEntry(p, d, n, s) =>
        \/ Resume(p, s) /\ UNCHANGED dirs
        \/ Return(p) /\ UNCHANGED dirs
        \/ /\ e.dir # 0 /\ UNCHANGED dirs
           /\ g' = [g EXCEPT ![p].at = "hash",
                             ![p].stk = Append(s, Frame(e.dir, Names(e.dir), d, n, e.id))]
        \/ /\ ~HashFileFails(e) /\ Resume(p, s)
           /\ dirs' = SetEntry(dirs, d, n, HashFile(e))
  BY <1>2 DEF HashEntry, Panic, SetEntry
<1> QED
  BY <1>3, <1>4, <1>5, <1>6, <1>7

LEMMA EntryHashKeeps ==
  ASSUME IInv, NEW p \in Procs, EntryHash(p)
  PROVE  IInv'
<1>0. PICK d, n, s : d = g[p].d /\ n = FileName(p) /\ s = <<>>
  OBVIOUS
<1>1. /\ g[p].at = "entryHash" /\ UNCHANGED <<rt, wr, blobs, lost, left>>
      /\ left \in [Ops \union {"fault"} -> Nat]
  BY LocalRecord DEF EntryHash
<1>2. d \in DOMAIN dirs
  BY <1>0, <1>1, AtDir DEF Ops
<1>3. CASE n \in Names(d) /\ HashEntry(p, d, n, s)
  <2>1. StkOK(s)
    BY <1>0 DEF StkOK, ToSet
  <2> QED
    BY <1>1, <1>2, <1>3, <2>1, HashEntryKeeps
<1>4. CASE Return(p) /\ UNCHANGED dirs
  BY <1>1, <1>4, HeapSizes, ReturnStep DEF Grown
<1> QED
  BY <1>0, <1>3, <1>4 DEF EntryHash

LEMMA HashNextKeeps ==
  ASSUME IInv, NEW p \in Procs, HashNext(p)
  PROVE  IInv'
<1>1. g[p].at = "hash" /\ UNCHANGED <<rt, wr, blobs, lost, left>>
  BY DEF HashNext
<1>2. PICK n \in Names(Top(p).d) : HashEntry(p, Top(p).d, n, SeenBy(p, n))
  BY DEF HashNext
<1>3. PICK d, s, t : d = Top(p).d /\ t = g[p].stk /\ s = Seen(t, n)
  OBVIOUS
<1>4. StkOK(t) /\ t # <<>>
  BY <1>1, <1>3, StkOfLocal DEF Hashing
<1>5. StkOK(s) /\ s = SeenBy(p, n)
  BY <1>3, <1>4, StkSeen DEF Seen, SeenBy
<1>6. d \in DOMAIN dirs
  <2>1. FrameOK(t[Len(t)])
    BY <1>4, StkTop
  <2> QED
    BY <1>3, <2>1 DEF Top, FrameOK
<1>7. n \in Names(d) /\ HashEntry(p, d, n, s)
  BY <1>2, <1>3, <1>5
<1> QED
  BY <1>1, <1>5, <1>6, <1>7, HashEntryKeeps

\* What json.Marshal makes of a typed Dir is a listing of known hashes.
LEMMA MarshalOK ==
  ASSUME IInv, NEW d \in DOMAIN dirs
  PROVE  WellFormed(DirHash(Marshal(d))) /\ Children(DirHash(Marshal(d))) \subseteq Ref
<1>1. \A n \in Names(d) : Entries(d)[n].kind \in {"dir", "file"} /\ Entries(d)[n].hash \in Ref
  BY EntryFacts DEF EntrySet
<1>2. PICK m : m = Marshal(d)
  OBVIOUS
<1>3. /\ DOMAIN m = Names(d)
      /\ m = [n \in Names(d) |-> [kind |-> Entries(d)[n].kind, hash |-> Entries(d)[n].hash]]
      /\ \A n \in Names(d) : m[n] = [kind |-> Entries(d)[n].kind, hash |-> Entries(d)[n].hash]
  BY <1>2 DEF Marshal
<1>4. PICK h : h = DirHash(m)
  OBVIOUS
<1>5. h # NoHash /\ h[1] = "dir" /\ h[2] = m
  BY <1>4 DEF DirHash, NoHash
<1>6. WellFormed(h)
  <2>1. Listing(h) = m /\ h = DirHash(Listing(h))
    BY <1>4, <1>5 DEF Listing
  <2>2. m = [n \in DOMAIN m |-> [kind |-> m[n].kind, hash |-> m[n].hash]]
    BY <1>3
  <2>3. \A n \in DOMAIN m : m[n].kind \in {"dir", "file"}
    BY <1>1, <1>3
  <2> QED
    BY <2>1, <2>2, <2>3 DEF WellFormed
<1>7. Children(h) \subseteq Ref
  BY <1>1, <1>3, <1>5 DEF Children, IsDirHash, Listing
<1> QED
  BY <1>2, <1>4, <1>6, <1>7

LEMMA HashDirDoneKeeps ==
  ASSUME IInv, NEW p \in Procs, HashDirDone(p)
  PROVE  IInv'
<1>0. PICK s, d, h : s = g[p].stk /\ d = Top(p).d /\ h = DirHash(Marshal(d))
  OBVIOUS
<1>1. /\ g[p].at = "hash" /\ UNCHANGED <<rt, wr>>
      /\ left \in [Ops \union {"fault"} -> Nat]
  BY LocalRecord DEF HashDirDone
<1>2. /\ HeapIn(dirs, Ref, Len(dirs), Len(wr)) /\ Grown(dirs, dirs)
      /\ Len(dirs) \in Nat /\ DOMAIN dirs = 1..Len(dirs) /\ Len(wr) \in Nat
  BY HeapSizes DEF Grown
<1>3. left' \in [Ops \union {"fault"} -> Nat]
  BY <1>1 DEF HashDirDone, Fault
<1>4. StkOK(s) /\ s # <<>>
  BY <1>0, <1>1, StkOfLocal DEF Hashing
<1>5. d \in DOMAIN dirs
  <2>1. FrameOK(s[Len(s)])
    BY <1>4, StkTop
  <2> QED
    BY <1>0, <2>1 DEF Top, FrameOK
<1>6. WellFormed(h) /\ Children(h) \subseteq Ref
  BY <1>0, <1>5, MarshalOK
<1>7. CASE Return(p) /\ UNCHANGED <<dirs, blobs, lost>>
  BY <1>1, <1>2, <1>3, <1>7, ReturnStep
<1>8. CASE /\ dirs' = SetHash(dirs, d, h) /\ Goto(p, "hashed")
           /\ \/ blobs' = blobs \union {h} /\ UNCHANGED lost
              \/ UNCHANGED blobs /\ lost' = lost \union {h}
  <2>1. Ref' = Ref \union {h} /\ blobs \subseteq blobs' /\ blobs' \subseteq blobs \union {h}
    BY <1>1, <1>8 DEF Ref, Unpublished
  <2>2. HeapIn(dirs, Ref', Len(dirs), Len(wr))
    BY <1>2, <2>1, HeapWeaken
  <2>3. /\ HeapIn(dirs', Ref', Len(dirs), Len(wr)) /\ Grown(dirs, dirs')
        /\ Len(dirs') = Len(dirs) /\ DOMAIN dirs' = DOMAIN dirs
    BY <1>5, <1>8, <2>1, <2>2, HeapSetHash
  <2>4. WrOK' /\ RtOK'
    BY <1>1, <2>1, <2>3 DEF IInv, TypeOK, WrOK, RtOK
  <2>5. StkOK(s)'
    BY <1>1, <1>2, <1>4, <2>3, StkKept
  <2>6. g' = [g EXCEPT ![p].at = "hashed", ![p].stk = s]
    <3>1. p \in DOMAIN g /\ g[p] = [g[p] EXCEPT !.stk = s]
      BY <1>0, LocalRecord
    <3> QED
      BY <1>8, <3>1 DEF Goto
  <2>7. LocalOK(p)' /\ g' = [g EXCEPT ![p] = g'[p]]
    <3>1. PICK l \in Hashing \union {"rootReady"} : l = "hashed"
      BY DEF Hashing
    <3>2. g' = [g EXCEPT ![p].at = l, ![p].stk = s] /\ g[p].at # "idle"
      BY <1>1, <2>6, <3>1
    <3>3. Len(dirs') \in Nat /\ Len(dirs) <= Len(dirs')
      BY <1>2, <2>3
    <3> QED
      BY <1>4, <2>5, <3>2, <3>3, StackOK
  <2>8. /\ g' \in [Procs -> {g'[q] : q \in Procs}]
        /\ \A q \in Procs : g'[q] = g[q] \/ LocalOK(q)'
    BY <2>7 DEF IInv, TypeOK
  <2>9. \A b \in blobs' \ blobs : WellFormed(b) /\ Children(b) \subseteq Ref'
    BY <1>6, <2>1
  <2> QED
    BY <1>1, <1>3, <2>1, <2>3, <2>4, <2>8, <2>9, AnyStep
<1> QED
  BY <1>0, <1>7, <1>8 DEF HashDirDone, SetHash

LEMMA HashedKeeps ==
  ASSUME IInv, NEW p \in Procs, Hashed(p)
  PROVE  IInv'
<1>0. PICK s, f, e : s = g[p].stk /\ f = Top(p) /\ e = Entries(f.par)[f.name]
  OBVIOUS
<1>1. /\ g[p].at = "hashed" /\ UNCHANGED <<wr, blobs, lost, left>>
      /\ left \in [Ops \union {"fault"} -> Nat]
  BY LocalRecord DEF Hashed
<1>2. /\ HeapIn(dirs, Ref, Len(dirs), Len(wr)) /\ Grown(dirs, dirs)
      /\ Len(dirs) \in Nat /\ DOMAIN dirs = 1..Len(dirs) /\ Ref' = Ref
  BY <1>1, HeapSizes DEF Grown, Ref, Unpublished
<1>4. StkOK(s) /\ s # <<>>
  BY <1>0, <1>1, StkOfLocal DEF Hashing
<1>5. FrameOK(f)
  BY <1>0, <1>4, StkTop DEF Top
<1>6. CASE Return(p) /\ UNCHANGED <<rt, dirs>>
  BY <1>1, <1>2, <1>6, ReturnStep
<1>7. CASE /\ f.par = 0 /\ UNCHANGED dirs
           /\ rt' = [rt EXCEPT !.hash = dirs[rt.dir].hash]
           /\ g' = [g EXCEPT ![p].at = "rootReady", ![p].stk = <<>>]
  <2>1. rt.dir \in DOMAIN dirs /\ rt \in [hash : Ref, dir : 0..Len(dirs), readonly : BOOLEAN]
    BY <1>2, <1>5, <1>7 DEF FrameOK, IInv, TypeOK, RtOK
  <2>2. dirs[rt.dir].hash \in Ref
    BY <1>2, <2>1 DEF HeapIn, DirIn
  <2>3. rt' \in [hash : Ref, dir : 0..Len(dirs), readonly : BOOLEAN] /\ rt'.dir = rt.dir
    BY <1>7, <2>1, <2>2
  <2>4. RtOK'
    BY <1>2, <1>7, <2>3 DEF RtOK
  <2>5. PICK t : t = <<>>
    OBVIOUS
  <2>6. StkOK(t)'
    BY <2>5 DEF StkOK, ToSet
  <2>7. LocalOK(p)' /\ g' = [g EXCEPT ![p] = g'[p]]
    <3>1. PICK l \in Hashing \union {"rootReady"} : l = "rootReady" /\ l \notin Hashing
      BY DEF Hashing
    <3>2. g' = [g EXCEPT ![p].at = l, ![p].stk = t] /\ g[p].at # "idle"
      BY <1>1, <1>7, <2>5, <3>1
    <3>3. Len(dirs') \in Nat /\ Len(dirs) <= Len(dirs')
      BY <1>2, <1>7
    <3> QED
      BY <2>6, <3>1, <3>2, <3>3, StackOK
  <2> QED
    BY <1>1, <1>2, <1>7, <2>3, <2>4, <2>7, QuietStep
<1>8. CASE /\ f.par # 0 /\ ~(e.id = f.id /\ e.dir = 0) /\ UNCHANGED rt
           /\ dirs' = Update(f.par, f.name, f.id, [e EXCEPT !.hash = dirs[e.dir].hash])
           /\ Resume(p, Front(s))
  <2>1. f.par \in DOMAIN dirs /\ f.name \in Names(f.par)
    BY <1>2, <1>5, <1>8 DEF FrameOK
  <2>2. e \in EntrySet
    BY <1>0, <2>1, EntryFacts
  <2>3. HeapIn(dirs', Ref, Len(dirs'), Len(wr)) /\ Grown(dirs, dirs')
    <3>1. CASE e.id = f.id
      <4>1. e.dir \in DOMAIN dirs
        BY <1>2, <1>8, <2>2, <3>1 DEF EntrySet
      <4>2. PICK h \in Ref : h = dirs[e.dir].hash
        BY <1>2, <4>1 DEF HeapIn, DirIn
      <4>3. PICK x : x = [e EXCEPT !.hash = h]
        OBVIOUS
      <4>4. x \in EntryIn(Ref, Len(dirs), Len(wr))
        BY <2>2, <4>3 DEF EntrySet, EntryIn
      <4>5. dirs' = SetEntry(dirs, f.par, f.name, x)
        BY <1>0, <1>8, <3>1, <4>2, <4>3 DEF Update, SetEntry
      <4>6. f.name \in DOMAIN dirs[f.par].entries
        BY <2>1 DEF Names, Entries
      <4> QED
        BY <1>2, <2>1, <4>4, <4>5, <4>6, HeapSetEntry
    <3>2. CASE e.id # f.id
      BY <1>0, <1>2, <1>8, <3>2 DEF Update
    <3> QED
      BY <3>1, <3>2
  <2>4. PICK t : t = Front(s) /\ StkOK(t)
    BY <1>4, StkPop
  <2> QED
    BY <1>1, <1>8, <2>3, <2>4, ResumeStep
<1>9. \/ Return(p) /\ UNCHANGED <<rt, dirs>>
      \/ /\ f.par = 0 /\ UNCHANGED dirs
         /\ rt' = [rt EXCEPT !.hash = dirs[rt.dir].hash]
         /\ g' = [g EXCEPT ![p].at = "rootReady", ![p].stk = <<>>]
      \/ /\ f.par # 0 /\ ~(e.id = f.id /\ e.dir = 0) /\ UNCHANGED rt
         /\ dirs' = Update(f.par, f.name, f.id, [e EXCEPT !.hash = dirs[e.dir].hash])
         /\ Resume(p, Front(s))
  BY <1>0 DEF Hashed, Panic
<1> QED
  BY <1>6, <1>7, <1>8, <1>9

LEMMA SaveDoneKeeps ==
  ASSUME IInv, NEW p \in Procs, SaveDone(p)
  PROVE  IInv'
<1>1. UNCHANGED <<rt, dirs, wr, blobs, lost, left>> /\ Return(p)
  BY DEF SaveDone, heap
<1>2. HeapIn(dirs', Ref, Len(dirs'), Len(wr)) /\ Grown(dirs, dirs')
  BY <1>1, HeapSizes DEF Grown
<1> QED
  BY <1>1, <1>2, LocalRecord, ReturnStep

-----------------------------------------------------------------------------
(* DiffRoots *)

LEMMA DiffStartKeeps ==
  ASSUME IInv, NEW p \in Procs, DiffStart(p)
  PROVE  IInv'
<1> DEFINE place == Labels \ (Hashing \union {"idle"})
<1>1. /\ UNCHANGED <<rt, dirs, wr, blobs, lost, left>> /\ g[p].at = "rootReady"
      /\ g[p].req.op = "diff" /\ (Return(p) \/ Goto(p, "getDir"))
      /\ left \in [Ops \union {"fault"} -> Nat]
  BY LocalRecord DEF DiffStart, heap
<1>2. /\ g[p] \in [at : Labels, req : {g[p].req}, must : {g[p].must}, i : Nat,
                   d : 0..Len(dirs), new : 0..Len(dirs), id : Nat, stk : {g[p].stk}]
      /\ p \in DOMAIN g
  BY LocalRecord
<1>3. HeapIn(dirs', Ref, Len(dirs'), Len(wr)) /\ Grown(dirs, dirs') /\ Len(dirs') = Len(dirs)
  BY <1>1, HeapSizes DEF Grown
<1>4. CASE Return(p)
  BY <1>1, <1>3, <1>4, ReturnStep
<1>5. CASE Goto(p, "getDir")
  <2>1. g'[p] = [g[p] EXCEPT !.at = "getDir"] /\ g' = [g EXCEPT ![p] = g'[p]]
    BY <1>2, <1>5 DEF Goto
  <2>2. /\ "getDir" \in place
        /\ "getDir" \notin Ops \union Walking \union {"setDir", "setRootDir"}
    BY DEF Labels, Finding, Walking, Hashing, Ops
  <2> HIDE DEF place
  <2>3. /\ g'[p] \in [at : place, req : {g[p].req}, must : {g[p].must}, i : Nat,
                      d : 0..Len(dirs'), new : 0..Len(dirs'), id : Nat, stk : {g[p].stk}]
        /\ g'[p].at = "getDir"
    BY <1>2, <1>3, <2>1, <2>2
  <2> QED
    BY <1>1, <1>3, <2>1, <2>2, <2>3, MoveStep DEF place
<1> QED
  BY <1>1, <1>4, <1>5

LEMMA NewDiffIterKeeps ==
  ASSUME IInv, NEW p \in Procs, NewDiffIter(p)
  PROVE  IInv'
<1>0. PICK f, s : f = RootFrame(g[p].d) /\ s = <<f>>
  OBVIOUS
<1>1. /\ UNCHANGED <<rt, dirs, wr, blobs, lost, left>> /\ g[p].at = "diff"
      /\ g' = [g EXCEPT ![p].at = "next", ![p].stk = s]
  BY <1>0 DEF NewDiffIter, heap
<1>2. /\ HeapIn(dirs', Ref, Len(dirs'), Len(wr)) /\ Grown(dirs, dirs')
      /\ Len(dirs) \in Nat /\ DOMAIN dirs = 1..Len(dirs)
  BY <1>1, HeapSizes DEF Grown
<1>3. g[p].d \in DOMAIN dirs
  BY <1>1, AtDir DEF Ops
<1>4. rt.dir # 0
  BY <1>1 DEF IInv, TypeOK, LocalOK, Walking, Ops
<1>5. s # <<>>
  BY <1>0
<1>6. StkOK(s)
  BY <1>0, <1>3, <1>4, RootFrameOK
<1>7. StkOK(s)'
  BY <1>1, <1>2, <1>6, StkKept
<1>8. PICK l \in Hashing : l = "next"
  BY DEF Hashing
<1> QED
  BY <1>1, <1>2, <1>5, <1>7, <1>8, StackStep

LEMMA DiffNextKeeps ==
  ASSUME IInv, NEW p \in Procs, DiffNext(p)
  PROVE  IInv'
<1>1. g[p].at = "next" /\ UNCHANGED <<rt, wr, blobs, lost, left>>
  BY DEF DiffNext
<1>2. PICK n \in Top(p).todo \ Top(p).seen :
        LET d   == Top(p).d
            e   == Entries(d)[n]
            new == Len(dirs) + 1
            SetTo(k) == [dirs EXCEPT ![d].entries[n].dir = k]
        IN \/ /\ e.kind = "file"
              /\ SetStk(p, SeenBy(p, n))
              /\ UNCHANGED dirs
           \/ /\ e.kind = "dir" /\ Loadable(e.hash)
              /\ dirs' = Append(SetTo(new), LoadDir(e.hash))
              /\ SetStk(p, Append(SeenBy(p, n), Frame(new, DOMAIN Listing(e.hash), d, n, e.id)))
           \/ /\ e.kind = "dir" /\ ~Loadable(e.hash)
              /\ dirs' = SetTo(0)
              /\ Return(p)
  BY DEF DiffNext
<1>3. PICK d, e, t, s, new : /\ d = Top(p).d /\ e = Entries(d)[n] /\ t = g[p].stk
                             /\ s = Seen(t, n) /\ new = Len(dirs) + 1
  OBVIOUS
<1>4. /\ HeapIn(dirs, Ref, Len(dirs), Len(wr)) /\ Grown(dirs, dirs)
      /\ Len(dirs) \in Nat /\ DOMAIN dirs = 1..Len(dirs) /\ Len(wr) \in Nat
  BY HeapSizes DEF Grown
<1>5. StkOK(t) /\ t # <<>>
  BY <1>1, <1>3, StkOfLocal DEF Hashing
<1>6. StkOK(s) /\ s # <<>> /\ s = SeenBy(p, n)
  BY <1>3, <1>5, StkSeen DEF Seen, SeenBy
<1>7. d \in DOMAIN dirs /\ n \in Names(d)
  <2>1. FrameOK(t[Len(t)])
    BY <1>5, StkTop
  <2> QED
    BY <1>2, <1>3, <2>1 DEF Top, FrameOK
<1>8. e \in EntrySet /\ n \in DOMAIN dirs[d].entries /\ e = dirs[d].entries[n]
  BY <1>3, <1>7, EntryFacts DEF Names, Entries
<1>9. PICK l \in Hashing : l = "next"
  BY DEF Hashing
<1>10. p \in DOMAIN g /\ g[p] = [g[p] EXCEPT !.at = l] /\ left \in [Ops \union {"fault"} -> Nat]
  BY <1>1, <1>9, LocalRecord
<1>11. CASE SetStk(p, s) /\ UNCHANGED dirs
  <2>1. StkOK(s)'
    BY <1>1, <1>4, <1>6, <1>11, StkKept
  <2>2. g' = [g EXCEPT ![p].at = l, ![p].stk = s]
    BY <1>10, <1>11 DEF SetStk
  <2> QED
    BY <1>1, <1>4, <1>6, <1>11, <2>1, <2>2, StackStep
<1>12. CASE /\ Loadable(e.hash)
            /\ dirs' = Append(SetEntry(dirs, d, n, [e EXCEPT !.dir = new]), LoadDir(e.hash))
            /\ SetStk(p, Append(s, Frame(new, DOMAIN Listing(e.hash), d, n, e.id)))
  <2>1. PICK x, h, f, y : /\ x = LoadDir(h) /\ h = e.hash /\ y = [e EXCEPT !.dir = new]
                          /\ f = Frame(new, DOMAIN Listing(h), d, n, e.id)
    OBVIOUS
  <2>2. new \in Nat /\ new \in 0..new /\ 0..Len(dirs) \subseteq 0..new /\ Len(dirs) <= new
    BY <1>3, <1>4
  <2>3. HeapIn(dirs, Ref, new, Len(wr))
    BY <1>4, <2>2, HeapWeaken
  <2>4. y \in EntryIn(Ref, new, Len(wr))
    BY <1>8, <2>1, <2>2 DEF EntrySet, EntryIn
  <2>5. PICK ds : /\ ds = SetEntry(dirs, d, n, y)
                  /\ HeapIn(ds, Ref, new, Len(wr)) /\ Grown(dirs, ds)
                  /\ Len(ds) = Len(dirs) /\ DOMAIN ds = DOMAIN dirs
    BY <1>7, <1>8, <2>3, <2>4, HeapSetEntry
  <2>6. DirIn(x, Ref, new, Len(wr))
    <3>1. DirIn(x, Ref, Len(dirs), Len(wr))
      BY <1>12, <2>1, LoadDirOK
    <3>2. EntryIn(Ref, Len(dirs), Len(wr)) \subseteq EntryIn(Ref, new, Len(wr))
      BY <2>2 DEF EntryIn
    <3> QED
      BY <3>1, <3>2 DEF DirIn
  <2>7. /\ HeapIn(dirs', Ref, new, Len(wr)) /\ Grown(ds, dirs')
        /\ Len(dirs') = new /\ DOMAIN dirs' = 1..new
        /\ dirs'[new] = x
    <3>1. dirs' = Append(ds, x)
      BY <1>12, <2>1, <2>5
    <3> QED
      BY <1>3, <2>5, <2>6, <3>1, HeapAppend
  <2>8. Grown(dirs, dirs')
    BY <1>4, <2>2, <2>5, <2>7 DEF Grown
  <2>9. FrameOK(f)'
    <3>1. x.entries = [k \in DOMAIN Listing(h) |-> LoadedEntry(Listing(h)[k])]
      BY <2>1 DEF LoadDir
    <3>2. Names(new)' = DOMAIN Listing(h)
      BY <2>7, <3>1 DEF Names, Entries
    <3>3. n \in Names(d)' /\ d \in 1..new /\ d # 0
      BY <1>4, <1>7, <1>8, <2>2, <2>8 DEF Grown, Names, Entries
    <3>4. e.id \in Nat /\ new \in 1..new
      BY <1>3, <1>4, <1>8 DEF EntrySet
    <3> QED
      BY <2>1, <2>7, <3>2, <3>3, <3>4 DEF FrameOK, Frame
  <2>10. StkOK(s)'
    BY <1>1, <1>6, <2>2, <2>7, <2>8, StkKept
  <2>a. PICK u : u = Append(s, f)
    OBVIOUS
  <2>11. StkOK(u)' /\ u # <<>>
    <3>2. /\ Len(s) \in Nat /\ DOMAIN s = 1..Len(s) /\ s \in Seq(ToSet(s))
          /\ \A k \in DOMAIN s : FrameOK(s[k])'
      BY <2>10, SeqFacts DEF StkOK
    <3>3. /\ u \in Seq(ToSet(u)) /\ Len(u) = Len(s) + 1
          /\ DOMAIN u = 1..(Len(s) + 1)
          /\ \A k \in 1..Len(s) : u[k] = s[k]
          /\ u[Len(s) + 1] = f
      BY <2>a, <3>2, SeqFacts
    <3>4. \A k \in DOMAIN u : k \in 1..Len(s) \/ k = Len(s) + 1
      BY <3>2, <3>3
    <3>5. \A k \in DOMAIN u : FrameOK(u[k])'
      BY <2>9, <3>2, <3>3, <3>4
    <3>6. u # <<>>
      BY <3>2, <3>3
    <3> QED
      BY <3>3, <3>5, <3>6 DEF StkOK
  <2>12. g' = [g EXCEPT ![p].at = l, ![p].stk = u]
    BY <1>10, <1>12, <2>1, <2>a DEF SetStk
  <2> QED
    BY <1>1, <2>7, <2>8, <2>11, <2>12, StackStep
<1>13. CASE dirs' = SetEntry(dirs, d, n, [e EXCEPT !.dir = 0]) /\ Return(p)
  <2>1. PICK y : y = [e EXCEPT !.dir = 0]
    OBVIOUS
  <2>2. y \in EntryIn(Ref, Len(dirs), Len(wr))
    <3>1. 0 \in 0..Len(dirs)
      BY <1>4
    <3> QED
      BY <1>8, <2>1, <3>1 DEF EntrySet, EntryIn
  <2>3. HeapIn(dirs', Ref, Len(dirs'), Len(wr)) /\ Grown(dirs, dirs')
    BY <1>4, <1>7, <1>8, <1>13, <2>1, <2>2, HeapSetEntry
  <2> QED
    BY <1>1, <1>10, <1>13, <2>3, ReturnStep
<1>14. \A k : [dirs EXCEPT ![d].entries[n].dir = k] = SetEntry(dirs, d, n, [e EXCEPT !.dir = k])
  BY <1>8 DEF SetEntry
<1> QED
  BY <1>2, <1>3, <1>6, <1>11, <1>12, <1>13, <1>14

LEMMA DiffUpKeeps ==
  ASSUME IInv, NEW p \in Procs, DiffUp(p)
  PROVE  IInv'
<1>1. g[p].at = "next" /\ UNCHANGED <<rt, dirs, wr, blobs, lost, left>>
  BY DEF DiffUp, heap
<1>2. /\ HeapIn(dirs', Ref, Len(dirs'), Len(wr)) /\ Grown(dirs, dirs')
      /\ Len(dirs') \in Nat /\ DOMAIN dirs' = 1..Len(dirs')
  BY <1>1, HeapSizes DEF Grown
<1>3. PICK t, s : t = g[p].stk /\ s = Front(t)
  OBVIOUS
<1>4. StkOK(t) /\ t # <<>> /\ StkOK(s)
  BY <1>1, <1>3, StkOfLocal, StkPop DEF Hashing
<1>5. CASE Return(p)
  BY <1>1, <1>2, <1>5, LocalRecord, ReturnStep
<1>6. CASE Len(t) # 1 /\ SetStk(p, s)
  <2>1. s # <<>>
    <3>1. Len(t) \in Nat \ {0} /\ t \in Seq(ToSet(t))
      BY <1>4, StkTop DEF StkOK
    <3>2. Len(s) = Len(t) - 1
      BY <1>3, <3>1 DEF Front
    <3> QED
      BY <1>6, <3>1, <3>2
  <2>2. StkOK(s)'
    BY <1>1, <1>2, <1>4, StkKept
  <2>3. PICK l \in Hashing : l = "next"
    BY DEF Hashing
  <2>4. p \in DOMAIN g /\ g[p] = [g[p] EXCEPT !.at = l]
    BY <1>1, <2>3, LocalRecord
  <2>5. g' = [g EXCEPT ![p].at = l, ![p].stk = s]
    BY <1>6, <2>4 DEF SetStk
  <2> QED
    BY <1>1, <1>2, <2>1, <2>2, <2>5, StackStep
<1> QED
  BY <1>3, <1>5, <1>6 DEF DiffUp

-----------------------------------------------------------------------------
(* The writers *)

\* A writer changes its state to st.
LEMMA WriterMoves ==
  ASSUME IInv, NEW w \in DOMAIN wr, NEW st \in {"closed", "stored", "failed"},
         wr' = [wr EXCEPT ![w].st = st], blobs \subseteq blobs',
         st = "stored" => wr[w].hash \in blobs'
  PROVE  /\ WrOK' /\ Len(wr') = Len(wr) /\ DOMAIN wr' = DOMAIN wr
         /\ \A v \in DOMAIN wr : wr'[v].hash = wr[v].hash
         /\ \A v \in DOMAIN wr : v # w => wr'[v].st = wr[v].st
         /\ wr'[w].st = st
<1>1. /\ Len(wr) \in Nat /\ DOMAIN wr = 1..Len(wr) /\ wr \in Seq(ToSet(wr))
      /\ \A v \in DOMAIN wr : wr[v] \in Writers
      /\ \A v \in DOMAIN wr : wr[v].st = "stored" => wr[v].hash \in blobs
  BY WritersFacts
<1>2. PICK x, ws : x = [wr[w] EXCEPT !.st = st] /\ ws = [wr EXCEPT ![w] = x]
  OBVIOUS
<1>3. wr' = ws
  BY <1>2
<1>4. /\ ws \in Seq(ToSet(ws)) /\ Len(ws) = Len(wr) /\ DOMAIN ws = DOMAIN wr
      /\ \A v \in DOMAIN wr : ws[v] = IF v = w THEN x ELSE wr[v]
  <2>1. /\ DOMAIN ws = DOMAIN wr /\ ws = [v \in DOMAIN ws |-> ws[v]]
        /\ \A v \in DOMAIN wr : ws[v] = IF v = w THEN x ELSE wr[v]
    BY <1>2
  <2>2. ws \in [1..Len(wr) -> ToSet(ws)]
    BY <1>1, <2>1 DEF ToSet
  <2>3. ws \in Seq(ToSet(ws))
    BY <1>1, <2>2
  <2> QED
    BY <1>1, <2>1, <2>3
<1>5. x \in Writers /\ x.hash = wr[w].hash /\ x.st = st
  BY <1>1, <1>2 DEF Writers
<1>6. ws \in Seq(Writers)
  BY <1>1, <1>4, <1>5, WritersSeq
<1>7. \A v \in DOMAIN ws : ws[v].st = "stored" => ws[v].hash \in blobs'
  BY <1>1, <1>4, <1>5
<1>8. WrOK'
  BY <1>3, <1>6, <1>7 DEF WrOK
<1> QED
  BY <1>3, <1>4, <1>5, <1>8

\* Closing a writer makes its hash known; putting the blob in place or failing to
\* keeps it known.
LEMMA WriterStep ==
  ASSUME IInv, NEW w \in DOMAIN wr, NEW st \in {"closed", "stored", "failed"},
         wr' = [wr EXCEPT ![w].st = st], UNCHANGED <<rt, dirs, g>>,
         left' \in [Ops \union {"fault"} -> Nat],
         blobs \subseteq blobs', blobs' \subseteq blobs \union {wr[w].hash},
         lost \subseteq lost',
         st = "stored" => wr[w].hash \in blobs'
  PROVE  IInv'
<1>1. /\ WrOK' /\ Len(wr') = Len(wr) /\ DOMAIN wr' = DOMAIN wr
      /\ \A v \in DOMAIN wr : wr'[v].hash = wr[v].hash
      /\ \A v \in DOMAIN wr : v # w => wr'[v].st = wr[v].st
      /\ wr'[w].st = st
  BY WriterMoves
<1>2. /\ HeapIn(dirs, Ref, Len(dirs), Len(wr)) /\ Grown(dirs, dirs)
      /\ Len(dirs) \in Nat /\ Len(wr) \in Nat
  BY HeapSizes DEF Grown
<1>3. Unpublished \subseteq Unpublished'
  BY <1>1 DEF Unpublished
<1>4. Ref \subseteq Ref'
  BY <1>3 DEF Ref
<1>5. HeapIn(dirs', Ref', Len(dirs'), Len(wr')) /\ Grown(dirs, dirs')
  BY <1>1, <1>2, <1>4, HeapWeaken
<1>6. RtOK'
  BY <1>4 DEF IInv, TypeOK, RtOK
<1>7. /\ g' \in [Procs -> {g'[q] : q \in Procs}]
      /\ \A q \in Procs : g'[q] = g[q] \/ LocalOK(q)'
  BY DEF IInv, TypeOK
<1>8. \A h \in blobs' \ blobs : WellFormed(h) /\ Children(h) \subseteq Ref'
  <2>1. PICK h, c : h = wr[w].hash /\ h = FileHash(c)
    BY WritersFacts DEF Writers
  <2>2. ~IsDirHash(h)
    BY <2>1 DEF IsDirHash, FileHash
  <2> QED
    BY <2>1, <2>2 DEF WellFormed, Children
<1> QED
  BY <1>1, <1>4, <1>5, <1>6, <1>7, <1>8, AnyStep

LEMMA CloseWriterKeeps ==
  ASSUME IInv, NEW w \in DOMAIN wr, CloseWriter(w)
  PROVE  IInv'
<1>1. PICK st \in {"closed", "stored", "failed"} : st = "closed"
  OBVIOUS
<1>2. left \in [Ops \union {"fault"} -> Nat]
  BY DEF IInv, TypeOK
<1> QED
  BY <1>1, <1>2, WriterStep DEF CloseWriter

LEMMA PublishBlobKeeps ==
  ASSUME IInv, NEW w \in DOMAIN wr, PublishBlob(w)
  PROVE  IInv'
<1>1. left \in [Ops \union {"fault"} -> Nat]
  BY DEF IInv, TypeOK
<1>2. left' \in [Ops \union {"fault"} -> Nat] /\ UNCHANGED <<rt, dirs, g>>
  BY <1>1 DEF PublishBlob, Fault
<1>3. \/ /\ wr' = [wr EXCEPT ![w].st = "stored"] /\ blobs' = blobs \union {wr[w].hash}
         /\ UNCHANGED lost
      \/ /\ wr' = [wr EXCEPT ![w].st = "failed"] /\ UNCHANGED blobs
         /\ lost' = lost \union {wr[w].hash}
  BY DEF PublishBlob
<1>4. PICK st \in {"closed", "stored", "failed"} :
         /\ wr' = [wr EXCEPT ![w].st = st]
         /\ blobs \subseteq blobs' /\ blobs' \subseteq blobs \union {wr[w].hash}
         /\ lost \subseteq lost'
         /\ st = "stored" => wr[w].hash \in blobs'
  BY <1>3
<1> QED
  BY <1>2, <1>4, WriterStep

-----------------------------------------------------------------------------
(* The theorems *)

LEMMA InitOK ==
  ASSUME Init
  PROVE  IInv
<1>1. PICK s \in Starts :
         /\ rt = [hash |-> s.base, dir |-> IF s.base = NoHash THEN 1 ELSE 0,
                  readonly |-> s.readonly]
         /\ dirs = IF s.base = NoHash THEN <<EmptyDir>> ELSE <<>>
         /\ left = Quota[s]
  BY DEF Init
<1>2. /\ wr = <<>> /\ blobs = BaseBlobs /\ lost = {}
      /\ g = [p \in Procs |-> Idle]
  BY DEF Init
<1>3. BaseBlobs \subseteq Ref /\ NoHash \in Ref /\ s.base \in Ref
  BY <1>2, StartAssumption DEF Ref
<1>4. Len(wr) = 0 /\ WrOK
  BY <1>2 DEF WrOK
<1>5. HeapIn(dirs, Ref, Len(dirs), Len(wr)) /\ Len(dirs) \in Nat
      /\ (s.base = NoHash => Len(dirs) = 1)
  <2>1. CASE s.base = NoHash
    <3>1. dirs \in Seq(ToSet(dirs)) /\ Len(dirs) = 1 /\ DOMAIN dirs = {1} /\ dirs[1] = EmptyDir
      BY <1>1, <2>1 DEF ToSet
    <3>2. DirIn(EmptyDir, Ref, Len(dirs), Len(wr))
      BY <1>3 DEF EmptyDir, DirIn
    <3> QED
      BY <3>1, <3>2 DEF HeapIn
  <2>2. CASE s.base # NoHash
    BY <1>1, <2>2 DEF HeapIn, ToSet
  <2> QED
    BY <2>1, <2>2
<1>6. DirsOK
  BY <1>5, DirsAsHeap
<1>7. RtOK
  BY <1>1, <1>3, <1>5, StartAssumption DEF RtOK
<1>8. /\ BaseBlobs \subseteq blobs /\ \A h \in blobs : WellFormed(h)
      /\ StoreClosed /\ left \in [Ops \union {"fault"} -> Nat]
  BY <1>1, <1>2, <1>3, BaseAssumption, QuotaAssumption DEF StoreClosed
<1>9. ASSUME NEW p \in Procs PROVE LocalOK(p)
  <2>1. g[p] = Idle
    BY <1>2
  <2>2. <<>> \in Seq(ToSet(<<>>)) /\ DOMAIN <<>> = {}
    OBVIOUS
  <2>3. /\ Idle.at = "idle" /\ Idle.stk = <<>>
        /\ "idle" \notin Ops \union Finding \union Walking \union Hashing
        /\ {"setDir", "setRootDir"} \subseteq Finding
    BY DEF Idle, Finding, Walking, Hashing, Ops
  <2>4. Idle \in [at : Labels, req : Requests \union {NoReq}, must : {Idle.must},
                  i : Nat, d : 0..Len(dirs), new : 0..Len(dirs), id : Nat,
                  stk : Seq(ToSet(Idle.stk))]
    BY <1>5, <2>2, <2>3 DEF Idle, Labels
  <2> QED
    BY <2>1, <2>2, <2>3, <2>4 DEF LocalOK
<1>10. g \in [Procs -> {g[p] : p \in Procs}]
  BY <1>2
<1> QED
  BY <1>4, <1>6, <1>7, <1>8, <1>9, <1>10 DEF IInv, TypeOK

LEMMA StepOK ==
  ASSUME IInv, [Next]_vars
  PROVE  IInv'
<1>1. ASSUME NEW p \in Procs, NEW r \in Requests, Begin(p, r) PROVE IInv'
  BY <1>1, BeginKeeps
<1>2. ASSUME NEW p \in Procs, Step(p) PROVE IInv'
  <2>1. CASE \/ GetDir(p) \/ SetRootDir(p) \/ Walk(p) \/ SetDir(p) \/ Mkdir(p) \/ Arrive(p)
    BY <2>1, GetDirKeeps, SetRootDirKeeps, WalkKeeps, SetDirKeeps, MkdirKeeps, ArriveKeeps
  <2>2. CASE Write(p) \/ Link(p) \/ Read(p) \/ List(p) \/ EntryHash(p)
    BY <2>2, WriteKeeps, LinkKeeps, ReadKeeps, ListKeeps, EntryHashKeeps
  <2>3. CASE HashNext(p) \/ HashDirDone(p) \/ Hashed(p) \/ SaveDone(p)
    BY <2>3, HashNextKeeps, HashDirDoneKeeps, HashedKeeps, SaveDoneKeeps
  <2>4. CASE DiffStart(p) \/ NewDiffIter(p) \/ DiffNext(p) \/ DiffUp(p)
    BY <2>4, DiffStartKeeps, NewDiffIterKeeps, DiffNextKeeps, DiffUpKeeps
  <2> QED
    BY <1>2, <2>1, <2>2, <2>3, <2>4 DEF Step
<1>3. ASSUME NEW w \in DOMAIN wr, CloseWriter(w) \/ PublishBlob(w) PROVE IInv'
  BY <1>3, CloseWriterKeeps, PublishBlobKeeps
<1>4. CASE UNCHANGED vars
  BY <1>4 DEF vars, heap, IInv, TypeOK, StoreClosed, RtOK, DirsOK, DirOK, EntrySet, WrOK,
              LocalOK, FrameOK, DirPart, Names, Entries, Ref, Unpublished
<1> QED
  BY <1>1, <1>2, <1>3, <1>4 DEF Next, Finished

\* Type correctness, for any number of goroutines, any paths, contents and stored
\* trees: every pointer and stack frame of the code in root.go leads to an object
\* that is there, and no hash in memory is that of a blob still being written.
THEOREM TypeCorrect == Spec => []TypeOK
<1>1. Init => IInv
  BY InitOK
<1>2. IInv /\ [Next]_vars => IInv'
  BY StepOK
<1>3. IInv => TypeOK
  BY DEF IInv
<1> QED
  BY <1>1, <1>2, <1>3, PTL DEF Spec

\* No directory blob that Save, DiffRoots or EntryHash stores refers to content
\* that is still being written, under every interleaving and failure in the model.
THEOREM StoreNeverDangles == Spec => []StoreClosed
<1>1. Init => IInv
  BY InitOK
<1>2. IInv /\ [Next]_vars => IInv'
  BY StepOK
<1>3. IInv => StoreClosed
  BY DEF IInv
<1> QED
  BY <1>1, <1>2, <1>3, PTL DEF Spec


-----------------------------------------------------------------------------
(* A replay: a Root opened by its hash *)

\* An entry is as its blob had it.
ReplayEntry(e) ==
  /\ e.hash \in BaseBlobs /\ ~e.file /\ e.blobW = 0
  /\ e.kind = "dir" <=> IsDirHash(e.hash)

\* Directory d, unless it is nil, has the hash h.
Named(d, h) == \A k \in DOMAIN dirs : d = k => h = DirHash(Marshal(k))

\* The directory of an entry, once loaded, is the one that its hash names.
Leads(e) == Named(e.dir, e.hash)

\* The names that getDir goes through.
Way(r) == IF r.op \in {"list", "diff"} THEN r.path ELSE Front(r.path)

\* No goroutine writes or hashes, and getDir is where the path led it.
ReplayLocal(x) ==
  /\ x.at = "idle" => x.req = NoReq
  /\ x.at # "idle" =>
    /\ x.req.op \in {"write", "link"} => x.at = "getDir"
    /\ x.at \notin {"mkdir", "hash", "hashed"}
    /\ x.at = "rootReady" => x.req.op \in {"save", "diff"}
    /\ x.at = "next" => x.req.op = "diff"
    /\ x.at \in {"rootReady", "getDir", "setRootDir"} => x.i = 1
    /\ x.at = "setRootDir" => Named(x.new, rt.hash)
    /\ x.at \in Walking =>
         /\ x.i \in 1..(Len(Way(x.req)) + 1)
         /\ Named(x.d, Reached(rt.hash, x.req.path, x.i - 1))
    /\ x.at = "setDir" =>
         /\ x.i <= Len(Way(x.req))
         /\ \A d \in DOMAIN dirs :
              x.d = d => Named(x.new, Entries(d)[x.req.path[x.i]].hash)
    /\ x.at \in Ops => x.i = Len(Way(x.req)) + 1
    /\ x.req.op = "read" => \A f \in Paths : x.must[f] = Resolve(rt.hash, f)

Replay ==
  rt.readonly =>
    /\ rt.hash \in BaseBlobs /\ wr = <<>>
    /\ Named(rt.dir, rt.hash)
    /\ \A d \in DOMAIN dirs : \A n \in Names(d) :
         ReplayEntry(Entries(d)[n]) /\ Leads(Entries(d)[n])
    /\ \A f \in Paths : sealed[f].now = Resolve(rt.hash, f)
    /\ \A p \in Procs : ReplayLocal(g[p])

LEMMA WayFacts ==
  ASSUME NEW r \in Requests
  PROVE  /\ r.op \in Ops /\ r.path \in Seq(STRING)
         /\ r.op \notin {"save", "diff"} => r.path # <<>>
         /\ r.op \in {"write", "link", "read"} => r.path \in Paths
         /\ Way(r) \in Seq(STRING) /\ Len(Way(r)) \in Nat /\ Len(Way(r)) <= Len(r.path)
         /\ \A i \in 1..Len(Way(r)) : Way(r)[i] = r.path[i]
         /\ r.op \in {"list", "diff"} => Len(Way(r)) = Len(r.path)
         /\ r.op \in {"read", "write", "link", "entryHash"} =>
              Len(r.path) = Len(Way(r)) + 1 /\ Last(r.path) = r.path[Len(Way(r)) + 1]
<1>1. /\ r.op \in Ops /\ r.path \in Seq(STRING)
      /\ r.op \notin {"save", "diff"} => r.path # <<>>
      /\ r.op \in {"write", "link", "read"} => r.path \in Paths
  <2>1. \/ \E w \in Puts : r.op = "write" /\ r.path = w[1]
        \/ \E l \in Links : r.op = "link" /\ r.path = l[1]
        \/ r.op = "read" /\ r.path \in Paths
        \/ r.op \in {"list", "entryHash"} /\ r.path \in DirPaths
        \/ r.op \in {"save", "diff"} /\ r.path = <<>>
    BY DEF Requests
  <2>2. /\ \A f \in Paths \union DirPaths : f \in Seq(STRING) /\ f # <<>>
        /\ \A w \in Puts : w[1] \in Paths
        /\ \A l \in Links : l[1] \in Paths
    BY PathAssumption
  <2>3. <<>> \in Seq(STRING)
    OBVIOUS
  <2>4. r.path \in Paths \union DirPaths \/ (r.path = <<>> /\ r.op \in {"save", "diff"})
    BY <2>1, <2>2
  <2>5. r.op \in Ops /\ (r.op \in {"write", "link", "read"} => r.path \in Paths)
    BY <2>1, <2>2 DEF Ops
  <2> QED
    BY <2>2, <2>3, <2>4, <2>5
<1>2. Len(r.path) \in Nat
  BY <1>1
<1>3. CASE r.op \in {"list", "diff"}
  BY <1>1, <1>3 DEF Way
<1>4. CASE r.op \notin {"list", "diff"} /\ r.path = <<>>
  <2>1. Way(r) = SubSeq(r.path, 1, 0 - 1)
    BY <1>4 DEF Way, Front
  <2>2. Way(r) = <<>>
    BY <1>4, <2>1
  <2> QED
    BY <1>1, <1>4, <2>2
<1>5. CASE r.op \notin {"list", "diff"} /\ r.path # <<>>
  <2>1. Way(r) = SubSeq(r.path, 1, Len(r.path) - 1)
    BY <1>5 DEF Way, Front
  <2>2. Len(r.path) > 0
    BY <1>1, <1>5
  <2>3. /\ Way(r) \in Seq(STRING) /\ Len(Way(r)) = Len(r.path) - 1
        /\ \A i \in 1..(Len(r.path) - 1) : Way(r)[i] = r.path[i]
    BY <1>1, <1>2, <2>1, <2>2
  <2> QED
    BY <1>1, <1>2, <1>5, <2>2, <2>3 DEF Last
<1> QED
  BY <1>3, <1>4, <1>5

LEMMA WayReached ==
  ASSUME NEW r \in Requests, NEW h
  PROVE  /\ Reached(h, r.path, 0) = h
         /\ \A i \in 1..Len(r.path) :
              Reached(h, r.path, i) = Child(Reached(h, r.path, i - 1), r.path[i])
         /\ Resolve(h, r.path) = Reached(h, r.path, Len(r.path))
<1>1. r.path \in Seq(STRING) /\ Len(r.path) \in Nat
  BY WayFacts
<1>2. /\ Reached(h, r.path, 0) = h
      /\ \A k \in 0..(Len(r.path) - 1) :
           Reached(h, r.path, k + 1) = Child(Reached(h, r.path, k), r.path[k + 1])
      /\ Resolve(h, r.path) = Reached(h, r.path, Len(r.path))
  BY <1>1, ReachedSteps
<1>3. ASSUME NEW i \in 1..Len(r.path)
      PROVE  Reached(h, r.path, i) = Child(Reached(h, r.path, i - 1), r.path[i])
  <2>1. i - 1 \in 0..(Len(r.path) - 1) /\ (i - 1) + 1 = i
    BY <1>1
  <2> QED
    BY <1>2, <2>1
<1> QED
  BY <1>2, <1>3

\* What TypeOK says of a goroutine.
LEMMA LocalFacts ==
  ASSUME IInv, NEW p \in Procs
  PROVE  /\ g[p].at \in Labels /\ g[p].i \in Nat
         /\ g[p].d \in 0..Len(dirs) /\ g[p].new \in 0..Len(dirs)
         /\ g[p].at # "idle" => g[p].req \in Requests
         /\ g[p].at \in Finding => g[p].req.op # "save"
         /\ g[p].at \in Ops => g[p].req.op = g[p].at
         /\ g[p].at \in Walking => g[p].d \in DOMAIN dirs
         /\ g[p].at \in {"setDir", "setRootDir"} => g[p].new \in DOMAIN dirs
         /\ g[p].at = "setDir" => Way(g[p].req)[g[p].i] \in Names(g[p].d)
         /\ DirPart(p) = Way(g[p].req)
BY HeapSizes DEF IInv, TypeOK, LocalOK, DirPart, Way

\* What a step of a replay leaves as it is.
Steady ==
  /\ rt'.readonly /\ rt'.hash = rt.hash /\ UNCHANGED <<wr, sealed>>
  /\ DOMAIN dirs \subseteq DOMAIN dirs' /\ 0 \notin DOMAIN dirs'
  /\ \A d \in DOMAIN dirs :
       /\ Names(d)' = Names(d)
       /\ \A n \in Names(d) : /\ Entries(d)'[n].kind = Entries(d)[n].kind
                              /\ Entries(d)'[n].hash = Entries(d)[n].hash
                              /\ Entries(d)'[n].file = Entries(d)[n].file
                              /\ Entries(d)'[n].blobW = Entries(d)[n].blobW

LEMMA SteadyMarshal ==
  ASSUME Steady
  PROVE  \A d \in DOMAIN dirs : Marshal(d)' = Marshal(d)
BY DEF Steady, Marshal

LEMMA SteadyLocal ==
  ASSUME IInv, Steady, NEW p \in Procs, ReplayLocal(g[p]), g'[p] = g[p]
  PROVE  ReplayLocal(g[p])'
<1>1. CASE g[p].at = "idle"
  BY <1>1 DEF ReplayLocal
<1>2. CASE g[p].at # "idle"
  <2>1. ASSUME NEW d, d \in 0..Len(dirs), NEW h, Named(d, h)
        PROVE  Named(d, h)'
    BY <2>1, SteadyMarshal, HeapSizes DEF Named, Steady
  <2>2. g[p].d \in 0..Len(dirs) /\ g[p].new \in 0..Len(dirs)
    BY LocalFacts
  <2>3. PICK x : x = g[p]
    OBVIOUS
  <2>4. x.at = "setDir" =>
          \A d \in DOMAIN dirs' :
            x.d = d => Named(x.new, Entries(d)[x.req.path[x.i]].hash)'
    <3> SUFFICES ASSUME x.at = "setDir", NEW d, d \in DOMAIN dirs', x.d = d
                 PROVE  Named(x.new, Entries(d)[x.req.path[x.i]].hash)'
      OBVIOUS
    <3>1. d \in DOMAIN dirs /\ Way(x.req)[x.i] \in Names(d)
      BY <2>3, LocalFacts DEF Walking
    <3>2. Way(x.req)[x.i] = x.req.path[x.i]
      <4>1. x.i \in 1..Len(Way(x.req))
        BY <1>2, <2>3, WayFacts, LocalFacts DEF ReplayLocal, Walking
      <4> QED
        BY <1>2, <2>3, <4>1, WayFacts, LocalFacts
    <3>3. PICK h : h = Entries(d)[x.req.path[x.i]].hash
      OBVIOUS
    <3>4. Entries(d)'[x.req.path[x.i]].hash = h
      BY <3>1, <3>2, <3>3 DEF Steady
    <3>5. Named(x.new, h)
      BY <2>3, <3>1, <3>3 DEF ReplayLocal
    <3>6. Named(x.new, h)'
      BY <2>1, <2>2, <2>3, <3>5
    <3> QED
      BY <3>4, <3>6 DEF Named
  <2>5. rt'.hash = rt.hash
    BY DEF Steady
  <2>6. x.at \in Walking => Named(x.d, Reached(rt.hash, x.req.path, x.i - 1))'
    <3> SUFFICES ASSUME x.at \in Walking
                 PROVE  Named(x.d, Reached(rt.hash, x.req.path, x.i - 1))'
      OBVIOUS
    <3>1. PICK h : h = Reached(rt.hash, x.req.path, x.i - 1)
      OBVIOUS
    <3>2. Named(x.d, h)'
      BY <1>2, <2>1, <2>2, <2>3, <3>1 DEF ReplayLocal
    <3> QED
      BY <2>5, <3>1, <3>2 DEF Named
  <2> QED
    BY <1>2, <2>1, <2>2, <2>3, <2>4, <2>5, <2>6 DEF ReplayLocal
<1> QED
  BY <1>1, <1>2

\* Its entries keep their directory, lose it or have one that fits.
Fitting ==
  \A d \in DOMAIN dirs' : \A n \in Names(d)' :
    \/ d \in DOMAIN dirs /\ Entries(d)'[n].dir \in {Entries(d)[n].dir, 0}
    \/ ReplayEntry(Entries(d)[n])' /\ Leads(Entries(d)[n])'

\* A step of one goroutine in a replay.
LEMMA ReplayKept ==
  ASSUME IInv, Replay, rt.readonly, Steady, Fitting,
         rt'.dir # rt.dir => Named(rt.dir, rt.hash)',
         NEW p \in Procs, ReplayLocal(g[p])', \A q \in Procs \ {p} : g'[q] = g[q]
  PROVE  Replay'
<1>1. rt'.readonly /\ rt'.hash \in BaseBlobs /\ wr' = <<>>
  BY DEF Replay, Steady
<1>2. Named(rt.dir, rt.hash)'
  <2>1. rt.dir \in 0..Len(dirs)
    BY DEF IInv, TypeOK, RtOK
  <2>2. CASE rt'.dir = rt.dir
    BY <2>1, <2>2, SteadyMarshal, HeapSizes DEF Replay, Steady, Named
  <2>3. CASE rt'.dir # rt.dir
    BY <2>3
  <2> QED
    BY <2>2, <2>3
<1>6. 0 \notin DOMAIN dirs'
  BY DEF Steady
<1>3. ASSUME NEW d \in DOMAIN dirs', NEW n \in Names(d)'
      PROVE  ReplayEntry(Entries(d)[n])' /\ Leads(Entries(d)[n])'
  <2>1. CASE d \in DOMAIN dirs /\ Entries(d)'[n].dir \in {Entries(d)[n].dir, 0}
    <3>1. /\ n \in Names(d) /\ ReplayEntry(Entries(d)[n]) /\ Leads(Entries(d)[n])
          /\ Entries(d)'[n].kind = Entries(d)[n].kind
          /\ Entries(d)'[n].hash = Entries(d)[n].hash
          /\ Entries(d)'[n].file = Entries(d)[n].file
          /\ Entries(d)'[n].blobW = Entries(d)[n].blobW
      BY <2>1 DEF Steady, Replay
    <3>2. ReplayEntry(Entries(d)[n])'
      BY <3>1 DEF ReplayEntry
    <3>3. ASSUME NEW k \in DOMAIN dirs', Entries(d)'[n].dir = k
          PROVE  Entries(d)'[n].hash = DirHash(Marshal(k)')
      <4>1. k # 0
        BY <1>6, <3>3
      <4>2. k = Entries(d)[n].dir /\ k \in DOMAIN dirs
        BY <2>1, <3>1, <3>3, <4>1, EntryFacts, HeapSizes DEF EntrySet
      <4> QED
        BY <3>1, <4>2, SteadyMarshal DEF Leads, Named
    <3>7. Leads(Entries(d)[n])'
      BY <3>3 DEF Leads, Named
    <3> QED
      BY <3>2, <3>7
  <2> QED
    BY <2>1 DEF Fitting
<1>4. \A f \in Paths : sealed'[f].now = Resolve(rt'.hash, f)
  BY DEF Steady, Replay
<1>5. ASSUME NEW q \in Procs
      PROVE  ReplayLocal(g[q])'
  <2>1. CASE q = p
    BY <2>1
  <2>2. CASE q # p
    BY <2>2, SteadyLocal DEF Replay
  <2> QED
    BY <2>1, <2>2
<1> QED
  BY <1>1, <1>2, <1>3, <1>4, <1>5 DEF Replay

\* ... that changes no object,
LEMMA SameSteady ==
  ASSUME IInv, rt.readonly, rt'.readonly, rt'.hash = rt.hash, UNCHANGED <<dirs, wr, sealed>>
  PROVE  Steady /\ Fitting
BY HeapSizes DEF Steady, Fitting, Names, Entries

\* ... that sets the directory of an entry,
LEMMA PointSteady ==
  ASSUME IInv, Replay, rt.readonly, UNCHANGED <<rt, wr, sealed>>,
         NEW d \in DOMAIN dirs, NEW n \in Names(d), NEW k,
         k # 0 => k \in DOMAIN dirs /\ Named(k, Entries(d)[n].hash),
         dirs' = [dirs EXCEPT ![d].entries[n].dir = k]
  PROVE  Steady /\ Fitting
<1>1. dirs[d] \in [hash : Ref, entries : {Entries(d)}] /\ Entries(d) \in [Names(d) -> EntrySet]
  BY DEF IInv, TypeOK, DirsOK, DirOK, Entries, Names
<1>2. PICK e : e = [Entries(d)[n] EXCEPT !.dir = k]
  OBVIOUS
<1>3. /\ e.kind = Entries(d)[n].kind /\ e.hash = Entries(d)[n].hash /\ e.dir = k
      /\ e.file = Entries(d)[n].file /\ e.blobW = Entries(d)[n].blobW
  BY <1>1, <1>2 DEF EntrySet
<1>4. /\ DOMAIN dirs' = DOMAIN dirs
      /\ \A c \in DOMAIN dirs : c # d => Entries(c)' = Entries(c)
      /\ Names(d)' = Names(d) /\ Entries(d)'[n] = e
      /\ \A m \in Names(d) : m # n => Entries(d)'[m] = Entries(d)[m]
  BY <1>1, <1>2 DEF Entries, Names
<1>5. Steady
  BY <1>3, <1>4, HeapSizes DEF Steady, Names
<1>6. ReplayEntry(e)
  BY <1>3 DEF Replay, ReplayEntry
<1>7. ReplayEntry(Entries(d)[n])' /\ Leads(Entries(d)[n])'
  <2>1. ReplayEntry(Entries(d)[n])'
    BY <1>4, <1>6 DEF ReplayEntry
  <2>2. k # 0 => Marshal(k)' = Marshal(k)
    BY <1>5, SteadyMarshal
  <2>3. k # 0 => e.hash = DirHash(Marshal(k)')
    BY <1>3, <2>2 DEF Named
  <2>4. 0 \notin DOMAIN dirs'
    BY <1>4, HeapSizes
  <2>5. Leads(Entries(d)[n])'
    BY <1>3, <1>4, <2>3, <2>4 DEF Leads, Named
  <2> QED
    BY <2>1, <2>5
<1>8. Fitting
  BY <1>4, <1>7 DEF Fitting, Names
<1> QED
  BY <1>5, <1>8

\* A directory made of a blob has its hash.
LEMMA LoadReplay ==
  ASSUME NEW h \in BaseBlobs, IsDirHash(h)
  PROVE  /\ LoadDir(h).entries = [n \in DOMAIN Listing(h) |-> LoadedEntry(Listing(h)[n])]
         /\ \A n \in DOMAIN Listing(h) :
              /\ ReplayEntry(LoadedEntry(Listing(h)[n])) /\ LoadedEntry(Listing(h)[n]).dir = 0
              /\ LoadedEntry(Listing(h)[n]).kind = Listing(h)[n].kind
              /\ LoadedEntry(Listing(h)[n]).hash = Listing(h)[n].hash
         /\ h = DirHash([n \in DOMAIN Listing(h) |->
                           [kind |-> Listing(h)[n].kind, hash |-> Listing(h)[n].hash]])
<1>1. /\ WellFormed(h) /\ Children(h) \subseteq BaseBlobs
      /\ \A n \in DOMAIN Listing(h) : Listing(h)[n].kind = "dir" <=> IsDirHash(Listing(h)[n].hash)
  BY BaseAssumption DEF KindsAgree
<1>2. \A n \in DOMAIN Listing(h) : Listing(h)[n].hash \in BaseBlobs
  BY <1>1 DEF Children
<1> QED
  BY <1>1, <1>2 DEF LoadDir, LoadedEntry, ReplayEntry, WellFormed

\* ds is the heap but for entries with the hash h, which may have the directory k.
Relaid(ds, h, k) ==
  /\ DOMAIN ds = DOMAIN dirs /\ ds \in Seq(ToSet(ds))
  /\ \A c \in DOMAIN dirs : DOMAIN ds[c].entries = Names(c)
  /\ \A c \in DOMAIN dirs : \A n \in Names(c) :
       /\ ds[c].entries[n].kind = Entries(c)[n].kind
       /\ ds[c].entries[n].hash = Entries(c)[n].hash
       /\ ds[c].entries[n].file = Entries(c)[n].file
       /\ ds[c].entries[n].blobW = Entries(c)[n].blobW
       /\ \/ ds[c].entries[n].dir = Entries(c)[n].dir
          \/ ds[c].entries[n].dir = k /\ Entries(c)[n].hash = h

\* ... that loads a directory.
LEMMA LoadSteady ==
  ASSUME IInv, Replay, rt.readonly, UNCHANGED <<rt, wr, sealed>>,
         NEW h \in BaseBlobs, IsDirHash(h), NEW ds, Relaid(ds, h, Len(dirs) + 1),
         dirs' = Append(ds, LoadDir(h))
  PROVE  /\ Steady /\ Fitting
         /\ Len(dirs) + 1 \in DOMAIN dirs' /\ Len(dirs) + 1 # 0
         /\ \A k : k = Len(dirs) + 1 => Named(k, h)'
<1>1. Len(dirs) \in Nat /\ DOMAIN dirs = 1..Len(dirs)
  BY HeapSizes
<1>2. Len(ds) \in Nat /\ DOMAIN ds = 1..Len(ds) /\ Len(ds) = Len(dirs)
  BY <1>1, SeqFacts DEF Relaid
<1>3. /\ DOMAIN dirs' = 1..(Len(dirs) + 1)
      /\ \A c \in DOMAIN dirs : dirs'[c] = ds[c]
      /\ dirs'[Len(dirs) + 1] = LoadDir(h)
  BY <1>1, <1>2, SeqFacts DEF Relaid
<1>4. \A c \in DOMAIN dirs : Entries(c)' = ds[c].entries /\ Names(c)' = Names(c)
  BY <1>3 DEF Entries, Names, Relaid
<1>5. Steady
  BY <1>1, <1>3, <1>4 DEF Steady, Relaid
<1>6. PICK new : new = Len(dirs) + 1
  OBVIOUS
<1>7. /\ Entries(new)' = [n \in DOMAIN Listing(h) |-> LoadedEntry(Listing(h)[n])]
      /\ Names(new)' = DOMAIN Listing(h)
  BY <1>3, <1>6, LoadReplay DEF Entries, Names
<1>8. Marshal(new)' = [n \in DOMAIN Listing(h) |->
                         [kind |-> Listing(h)[n].kind, hash |-> Listing(h)[n].hash]]
  <2>1. \A n \in DOMAIN Listing(h) : /\ Entries(new)'[n].kind = Listing(h)[n].kind
                                    /\ Entries(new)'[n].hash = Listing(h)[n].hash
    <3>1. PICK f : f = Entries(new)'
      OBVIOUS
    <3>2. \A n \in DOMAIN Listing(h) : f[n] = LoadedEntry(Listing(h)[n])
      BY <1>7, <3>1
    <3>3. \A n \in DOMAIN Listing(h) : /\ LoadedEntry(Listing(h)[n]).kind = Listing(h)[n].kind
                                      /\ LoadedEntry(Listing(h)[n]).hash = Listing(h)[n].hash
      BY LoadReplay
    <3> QED
      BY <3>1, <3>2, <3>3
  <2> QED
    BY <1>7, <2>1 DEF Marshal
<1>9. h = DirHash(Marshal(new)')
  BY <1>8, LoadReplay
<1>10. ASSUME NEW c \in DOMAIN dirs', NEW n \in Names(c)'
       PROVE  \/ c \in DOMAIN dirs /\ Entries(c)'[n].dir \in {Entries(c)[n].dir, 0}
              \/ ReplayEntry(Entries(c)[n])' /\ Leads(Entries(c)[n])'
  <2>1. CASE c \in DOMAIN dirs
    <3>1. n \in Names(c) /\ Entries(c)'[n] = ds[c].entries[n]
      BY <1>4, <2>1
    <3>2. PICK e : e = ds[c].entries[n]
      OBVIOUS
    <3>3. /\ e.kind = Entries(c)[n].kind /\ e.hash = Entries(c)[n].hash
          /\ e.file = Entries(c)[n].file /\ e.blobW = Entries(c)[n].blobW
          /\ e.dir = Entries(c)[n].dir \/ (e.dir = new /\ Entries(c)[n].hash = h)
      BY <1>6, <2>1, <3>1, <3>2 DEF Relaid
    <3>4. CASE e.dir = Entries(c)[n].dir
      BY <2>1, <3>1, <3>2, <3>4
    <3>5. CASE e.dir = new /\ Entries(c)[n].hash = h
      <4>1. ReplayEntry(Entries(c)[n])
        BY <2>1, <3>1 DEF Replay
      <4>2. ReplayEntry(Entries(c)[n])'
        BY <3>1, <3>2, <3>3, <4>1 DEF ReplayEntry
      <4>3. Entries(c)'[n].hash = DirHash(Marshal(new)') /\ Entries(c)'[n].dir = new
        BY <1>9, <3>1, <3>2, <3>3, <3>5
      <4>4. Leads(Entries(c)[n])'
        BY <4>3 DEF Leads, Named
      <4> QED
        BY <4>2, <4>4
    <3> QED
      BY <3>3, <3>4, <3>5
  <2>2. CASE c \notin DOMAIN dirs
    <3>1. c = new
      BY <1>1, <1>3, <1>6, <2>2
    <3>2. Entries(c)'[n] = LoadedEntry(Listing(h)[n]) /\ n \in DOMAIN Listing(h)
      BY <1>7, <3>1
    <3>3. PICK e : e = LoadedEntry(Listing(h)[n])
      OBVIOUS
    <3>4. ReplayEntry(e) /\ e.dir = 0
      BY <3>2, <3>3, LoadReplay
    <3>5. Entries(c)'[n] = e
      BY <3>2, <3>3
    <3>6. ReplayEntry(Entries(c)[n])'
      BY <3>4, <3>5 DEF ReplayEntry
    <3>7. Leads(Entries(c)[n])'
      BY <1>5, <3>4, <3>5 DEF Leads, Named, Steady
    <3> QED
      BY <3>6, <3>7
  <2> QED
    BY <2>1, <2>2
<1>11. Fitting
  BY <1>10 DEF Fitting
<1>12. Named(new, h)'
  BY <1>9 DEF Named
<1> QED
  BY <1>1, <1>3, <1>5, <1>6, <1>12, <1>11

-----------------------------------------------------------------------------
(* The steps of a replay *)

\* A goroutine moves on or returns, and the objects stay.
LEMMA ReplayMove ==
  ASSUME IInv, Replay, rt.readonly, UNCHANGED <<rt, dirs, wr, sealed>>,
         NEW p \in Procs, NEW x, g' = [g EXCEPT ![p] = x], ReplayLocal(x)'
  PROVE  Steady /\ Replay'
<1>1. Steady /\ Fitting
  BY SameSteady
<1>2. g'[p] = x /\ \A q \in Procs \ {p} : g'[q] = g[q]
  BY DEF IInv, TypeOK
<1>3. ReplayLocal(g[p])'
  BY <1>2 DEF ReplayLocal
<1> QED
  BY <1>1, <1>2, <1>3, ReplayKept

LEMMA ReplayReturn ==
  ASSUME IInv, Replay, rt.readonly, UNCHANGED <<rt, dirs, wr, sealed>>,
         NEW p \in Procs, Return(p)
  PROVE  Steady /\ Replay'
<1>1. PICK x : x = Idle
  OBVIOUS
<1>2. g' = [g EXCEPT ![p] = x]
  BY <1>1 DEF Return
<1>3. x.at = "idle" /\ x.req = NoReq
  BY <1>1 DEF Idle
<1>4. ReplayLocal(x)'
  BY <1>3 DEF ReplayLocal
<1> QED
  BY <1>2, <1>4, ReplayMove

\* A replay writes nothing, so it passes by without a change.
LEMMA ReplayReads ==
  ASSUME IInv, Replay, rt.readonly, NEW p \in Procs, g[p].at \notin {"idle", "getDir"}
  PROVE  /\ ~IsWrite(p) /\ RootPassed(p) = rt
         /\ \A d : DirPassed(p, d) = dirs
         /\ \A e : EntryPassed(p, e) = e
BY DEF Replay, ReplayLocal, IsWrite, RootPassed, DirPassed, EntryPassed

LEMMA ReplayBegin ==
  ASSUME IInv, Replay, rt.readonly, NEW p \in Procs, NEW r \in Requests, Begin(p, r)
  PROVE  Steady /\ Replay'
<1> DEFINE hashes == r.op \in {"save", "diff"}
<1>1. PICK x : x = [Idle EXCEPT
                      !.req  = r,
                      !.must = IF r.op \in {"save", "read"} THEN [f \in Paths |-> sealed[f].now]
                                                            ELSE @,
                      !.stk  = @,
                      !.at   = IF ~hashes THEN "getDir" ELSE "rootReady"]
  OBVIOUS
<1>2. g' = [g EXCEPT ![p] = x] /\ UNCHANGED <<rt, dirs, wr, sealed>>
  BY <1>1 DEF Begin, heap, obs
<1>3. /\ x.req = r /\ x.i = 1 /\ x.at = IF ~hashes THEN "getDir" ELSE "rootReady"
      /\ x.req.op = "read" => x.must = [f \in Paths |-> sealed[f].now]
  BY <1>1 DEF Idle
<1>4. \A f \in Paths : sealed[f].now = Resolve(rt.hash, f)
  BY DEF Replay
<1>5. ReplayLocal(x)'
  BY <1>2, <1>3, <1>4 DEF ReplayLocal, Walking, Ops
<1> QED
  BY <1>2, <1>5, ReplayMove

LEMMA ReplayGetDir ==
  ASSUME IInv, Replay, rt.readonly, NEW p \in Procs, GetDir(p)
  PROVE  Steady /\ Replay'
<1>1. UNCHANGED <<wr, sealed>> /\ g[p].at = "getDir"
  BY DEF GetDir, obs
<1>2. ReplayLocal(g[p]) /\ Named(rt.dir, rt.hash) /\ rt.hash \in BaseBlobs
  BY DEF Replay
<1>3. g[p].i = 1 /\ g[p].req \in Requests
  BY <1>1, <1>2, LocalFacts DEF ReplayLocal
<1>4. CASE Return(p) /\ UNCHANGED <<rt, dirs>>
  BY <1>1, <1>4, ReplayReturn
<1>5. CASE /\ ~IsWrite(p) /\ rt.dir # 0 /\ rt' = RootPassed(p)
           /\ g' = [g EXCEPT ![p].at = "walk", ![p].d = rt.dir]
           /\ UNCHANGED dirs
  <2>1. PICK x : x = [g[p] EXCEPT !.at = "walk", !.d = rt.dir]
    OBVIOUS
  <2>2. g' = [g EXCEPT ![p] = x] /\ rt' = rt
    BY <1>5, <2>1 DEF RootPassed
  <2>3. x.at = "walk" /\ x.d = rt.dir /\ x.i = 1 /\ x.req = g[p].req /\ x.must = g[p].must
    BY <1>3, <2>1, LocalRecord
  <2>4. Named(x.d, Reached(rt.hash, x.req.path, x.i - 1))
    <3>1. Reached(rt.hash, x.req.path, 0) = rt.hash
      <4>1. x.req \in Requests
        BY <1>3, <2>3
      <4> QED
        BY <4>1, WayReached, Zenon
    <3> QED
      BY <1>2, <2>3, <3>1
  <2>5. 1 \in 1..(Len(Way(x.req)) + 1)
    BY <1>3, <2>3, WayFacts
  <2>6. Named(x.d, Reached(rt.hash, x.req.path, x.i - 1))'
    BY <1>5, <2>2, <2>4 DEF Named, Marshal, Names, Entries
  <2>7. x.req.op \notin {"write", "link"}
    BY <1>5, <2>3 DEF IsWrite
  <2>8. ReplayLocal(x)'
    BY <1>1, <1>2, <2>2, <2>3, <2>5, <2>6, <2>7 DEF ReplayLocal, Ops
  <2> QED
    BY <1>1, <1>5, <2>2, <2>8, ReplayMove
<1>6. CASE /\ ~IsWrite(p) /\ Loadable(rt.hash)
           /\ dirs' = Append(dirs, LoadDir(rt.hash))
           /\ g' = [g EXCEPT ![p].at = "setRootDir", ![p].new = Len(dirs) + 1]
           /\ UNCHANGED rt
  <2>1. PICK x : x = [g[p] EXCEPT !.at = "setRootDir", !.new = Len(dirs) + 1]
    OBVIOUS
  <2>2. g' = [g EXCEPT ![p] = x]
    BY <1>6, <2>1
  <2>3. /\ x.at = "setRootDir" /\ x.new = Len(dirs) + 1 /\ x.i = 1 /\ x.req = g[p].req
        /\ x.must = g[p].must
    BY <1>3, <2>1, LocalRecord
  <2>4. Relaid(dirs, rt.hash, Len(dirs) + 1)
    BY DEF Relaid, IInv, TypeOK, DirsOK, Names, Entries
  <2>5. /\ Steady /\ Fitting
        /\ \A k : k = Len(dirs) + 1 => Named(k, rt.hash)'
    BY <1>1, <1>2, <1>6, <2>4, LoadSteady DEF Loadable
  <2>6. Named(x.new, rt.hash)'
    BY <2>3, <2>5
  <2>7. x.req.op \notin {"write", "link"}
    BY <1>6, <2>3 DEF IsWrite
  <2>8. ReplayLocal(x)'
    BY <1>1, <1>2, <1>6, <2>3, <2>6, <2>7 DEF ReplayLocal, Walking, Ops
  <2>9. g'[p] = x /\ \A q \in Procs \ {p} : g'[q] = g[q]
    BY <2>2 DEF IInv, TypeOK
  <2>10. ReplayLocal(g[p])'
    BY <2>8, <2>9 DEF ReplayLocal
  <2> QED
    BY <1>6, <2>5, <2>9, <2>10, ReplayKept
<1> QED
  BY <1>4, <1>5, <1>6 DEF GetDir

\* The goroutine is at directory d, and the name it asks for next is in it.
LEMMA Descend ==
  ASSUME IInv, Replay, rt.readonly, NEW p \in Procs, g[p].at \in {"walk", "setDir"},
         g[p].i <= Len(DirPart(p)), NEW d, d = g[p].d, NEW n, n = DirPart(p)[g[p].i],
         n \in Names(d)
  PROVE  /\ d \in DOMAIN dirs /\ ReplayEntry(Entries(d)[n]) /\ Leads(Entries(d)[n])
         /\ n = g[p].req.path[g[p].i] /\ g[p].i \in 1..Len(Way(g[p].req))
         /\ Reached(rt.hash, g[p].req.path, g[p].i) = Entries(d)[n].hash
<1>1. PICK r, i : r = g[p].req /\ i = g[p].i
  OBVIOUS
<1>2. /\ r \in Requests /\ DirPart(p) = Way(r) /\ d \in DOMAIN dirs /\ d # 0
      /\ g[p].at \in Walking
  BY <1>1, LocalFacts, HeapSizes DEF Walking
<1>3. i \in 1..Len(Way(r)) /\ Named(d, Reached(rt.hash, r.path, i - 1))
  <2>1. i \in 1..(Len(Way(r)) + 1) /\ Named(d, Reached(rt.hash, r.path, i - 1))
    BY <1>1, <1>2 DEF Replay, ReplayLocal
  <2> QED
    BY <1>1, <1>2, <2>1, WayFacts
<1>4. n = r.path[i] /\ i \in 1..Len(r.path)
  BY <1>1, <1>2, <1>3, WayFacts
<1>5. Reached(rt.hash, r.path, i - 1) = DirHash(Marshal(d))
  BY <1>2, <1>3 DEF Named
<1>6. Reached(rt.hash, r.path, i) = Child(DirHash(Marshal(d)), n)
  <2>1. Reached(rt.hash, r.path, i) = Child(Reached(rt.hash, r.path, i - 1), r.path[i])
    BY <1>2, <1>4, WayReached, Zenon
  <2> QED
    BY <1>4, <1>5, <2>1
<1>7. Child(DirHash(Marshal(d)), n) = Entries(d)[n].hash
  BY DEF Child, DirHash, IsDirHash, Listing, NoHash, Marshal
<1>8. ReplayEntry(Entries(d)[n]) /\ Leads(Entries(d)[n])
  BY <1>2 DEF Replay
<1> QED
  BY <1>1, <1>2, <1>3, <1>4, <1>6, <1>7, <1>8

\* An entry that is stored again changes nothing.
LEMMA StoreSame ==
  ASSUME IInv, NEW d \in DOMAIN dirs, NEW n \in Names(d)
  PROVE  [dirs EXCEPT ![d].entries[n] = Entries(d)[n]] = dirs
<1>1. dirs[d] \in [hash : Ref, entries : {Entries(d)}] /\ Entries(d) \in [Names(d) -> EntrySet]
  BY DEF IInv, TypeOK, DirsOK, DirOK, Entries, Names
<1>2. [Entries(d) EXCEPT ![n] = Entries(d)[n]] = Entries(d)
  BY <1>1
<1>3. [dirs[d] EXCEPT !.entries = Entries(d)] = dirs[d]
  BY <1>1
<1>4. dirs = [c \in DOMAIN dirs |-> dirs[c]]
  <2>1. dirs \in Seq(ToSet(dirs))
    BY DEF IInv, TypeOK, DirsOK
  <2> QED
    BY <2>1, HeapSizes
<1>5. [dirs EXCEPT ![d] = dirs[d]] = dirs
  BY <1>4
<1> QED
  BY <1>2, <1>3, <1>5 DEF Entries

LEMMA ReplaySetRootDir ==
  ASSUME IInv, Replay, rt.readonly, NEW p \in Procs, SetRootDir(p)
  PROVE  Steady /\ Replay'
<1>1. UNCHANGED <<dirs, wr, sealed>> /\ g[p].at = "setRootDir"
  BY DEF SetRootDir, obs
<1>2. ReplayLocal(g[p])
  BY DEF Replay
<1>3. /\ g[p].i = 1 /\ g[p].req \in Requests /\ Named(g[p].new, rt.hash)
      /\ g[p].req.op \notin {"write", "link"}
  BY <1>1, <1>2, LocalFacts DEF ReplayLocal
<1>4. rt' = [rt EXCEPT !.dir = g[p].new]
  BY <1>1, ReplayReads DEF SetRootDir
<1>5. rt'.hash = rt.hash /\ rt'.readonly /\ rt'.dir = g[p].new
  BY <1>4 DEF IInv, TypeOK, RtOK
<1>6. Steady /\ Fitting
  BY <1>1, <1>5, SameSteady
<1>7. Named(rt.dir, rt.hash)'
  BY <1>1, <1>3, <1>5 DEF Named, Marshal, Names, Entries
<1>8. PICK x : x = [g[p] EXCEPT !.at = "walk", !.d = g[p].new]
  OBVIOUS
<1>9. x.at = "walk" /\ x.d = g[p].new /\ x.i = 1 /\ x.req = g[p].req /\ x.must = g[p].must
  BY <1>3, <1>8, LocalRecord
<1>10. g' = [g EXCEPT ![p] = x]
  BY <1>8 DEF SetRootDir
<1>11. g'[p] = x /\ \A q \in Procs \ {p} : g'[q] = g[q]
  BY <1>10 DEF IInv, TypeOK
<1>12. Reached(rt.hash, x.req.path, x.i - 1) = rt.hash
  <2>1. x.req \in Requests /\ x.i - 1 = 0
    BY <1>3, <1>9
  <2> QED
    BY <2>1, WayReached, Zenon
<1>13. Named(x.d, Reached(rt.hash, x.req.path, x.i - 1))'
  BY <1>1, <1>3, <1>5, <1>9, <1>12 DEF Named, Marshal, Names, Entries
<1>14. 1 \in 1..(Len(Way(x.req)) + 1)
  BY <1>3, <1>9, WayFacts
<1>15. ReplayLocal(x)'
  BY <1>1, <1>2, <1>3, <1>5, <1>9, <1>13, <1>14 DEF ReplayLocal, Ops
<1>16. ReplayLocal(g[p])'
  BY <1>11, <1>15 DEF ReplayLocal
<1> QED
  BY <1>6, <1>7, <1>11, <1>16, ReplayKept

\* On the next directory of the way.
LEMMA ReplayAdvance ==
  ASSUME IInv, Replay, rt.readonly, NEW p \in Procs, g[p].at \in {"walk", "setDir"},
         g[p].i <= Len(DirPart(p)), DirPart(p)[g[p].i] \in Names(g[p].d),
         NEW k \in DOMAIN dirs, Named(k, Entries(g[p].d)[DirPart(p)[g[p].i]].hash),
         Advance(p, k), UNCHANGED rt, Steady, Fitting
  PROVE  Steady /\ Replay'
<1>1. PICK x : x = [g[p] EXCEPT !.at = "walk", !.d = k, !.i = g[p].i + 1]
  OBVIOUS
<1>2. /\ x.at = "walk" /\ x.d = k /\ x.i = g[p].i + 1 /\ x.req = g[p].req
      /\ x.must = g[p].must
  BY <1>1, LocalRecord
<1>3. g' = [g EXCEPT ![p] = x]
  BY <1>1 DEF Advance
<1>4. g'[p] = x /\ \A q \in Procs \ {p} : g'[q] = g[q]
  BY <1>3 DEF IInv, TypeOK
<1>5. ReplayLocal(g[p]) /\ x.req \in Requests
  BY <1>2, LocalFacts DEF Replay
<1>6. PICK i : i = g[p].i
  OBVIOUS
<1>7. /\ i \in 1..Len(Way(x.req))
      /\ Named(k, Reached(rt.hash, x.req.path, i))
  BY <1>2, <1>6, Descend
<1>8. x.i \in 1..(Len(Way(x.req)) + 1) /\ x.i - 1 = i
  BY <1>2, <1>5, <1>6, <1>7, WayFacts
<1>9. PICK h : h = Reached(rt.hash, x.req.path, x.i - 1)
  OBVIOUS
<1>10. Named(x.d, h)'
  BY <1>2, <1>7, <1>8, <1>9, SteadyMarshal DEF Named
<1>11. Named(x.d, Reached(rt.hash, x.req.path, x.i - 1))'
  BY <1>9, <1>10 DEF Named
<1>12. ReplayLocal(x)'
  BY <1>2, <1>5, <1>8, <1>11 DEF ReplayLocal, Ops
<1>13. ReplayLocal(g[p])'
  BY <1>4, <1>12 DEF ReplayLocal
<1> QED
  BY <1>4, <1>13, ReplayKept

LEMMA ReplayWalk ==
  ASSUME IInv, Replay, rt.readonly, NEW p \in Procs, Walk(p)
  PROVE  Steady /\ Replay'
<1>1. UNCHANGED <<rt, wr, sealed>> /\ g[p].at = "walk" /\ g[p].i <= Len(DirPart(p))
  BY DEF Walk, obs
<1>2. PICK d, n, e : d = g[p].d /\ n = DirPart(p)[g[p].i] /\ e = Entries(d)[n]
  OBVIOUS
<1>3. /\ ~IsWrite(p) /\ DirPassed(p, d) = dirs /\ EntryPassed(p, e) = e
  BY <1>1, ReplayReads
<1>4. CASE Return(p) /\ dirs' = dirs
  BY <1>1, <1>4, ReplayReturn
<1>5. CASE /\ n \in Names(d) /\ e.dir # 0
           /\ dirs' = [dirs EXCEPT ![d].entries[n] = e] /\ Advance(p, e.dir)
  <2>1. d \in DOMAIN dirs /\ Leads(e)
    BY <1>1, <1>2, <1>5, Descend
  <2>2. dirs' = dirs
    BY <1>2, <1>5, <2>1, StoreSame
  <2>3. Steady /\ Fitting
    BY <1>1, <2>2, SameSteady
  <2>4. e.dir \in DOMAIN dirs /\ Named(e.dir, e.hash)
    <3>1. Entries(d)[n] \in EntrySet
      BY <1>5, <2>1, EntryFacts
    <3>2. e.dir \in 0..Len(dirs)
      BY <1>2, <3>1 DEF EntrySet
    <3> QED
      BY <1>5, <2>1, <3>2, HeapSizes DEF Leads
  <2> QED
    BY <1>1, <1>2, <1>5, <2>3, <2>4, ReplayAdvance
<1>6. CASE /\ n \in Names(d) /\ Loadable(e.hash) /\ dirs' = Append(dirs, LoadDir(e.hash))
           /\ g' = [g EXCEPT ![p].at = "setDir", ![p].new = Len(dirs) + 1, ![p].id = e.id]
  <2>1. /\ d \in DOMAIN dirs /\ ReplayEntry(e) /\ n = g[p].req.path[g[p].i]
        /\ g[p].i \in 1..Len(Way(g[p].req)) /\ g[p].req \in Requests
    BY <1>1, <1>2, <1>6, Descend, LocalFacts
  <2>2. Relaid(dirs, e.hash, Len(dirs) + 1)
    BY DEF Relaid, IInv, TypeOK, DirsOK, Names, Entries
  <2>3. /\ Steady /\ Fitting
        /\ \A k : k = Len(dirs) + 1 => Named(k, e.hash)'
    BY <1>1, <1>6, <2>1, <2>2, LoadSteady DEF Loadable, ReplayEntry
  <2>4. PICK x : x = [g[p] EXCEPT !.at = "setDir", !.new = Len(dirs) + 1, !.id = e.id]
    OBVIOUS
  <2>5. /\ x.at = "setDir" /\ x.new = Len(dirs) + 1 /\ x.i = g[p].i /\ x.req = g[p].req
        /\ x.must = g[p].must /\ x.d = d
    BY <1>2, <2>4, LocalRecord
  <2>6. g' = [g EXCEPT ![p] = x]
    BY <1>6, <2>4
  <2>7. g'[p] = x /\ \A q \in Procs \ {p} : g'[q] = g[q]
    BY <2>6 DEF IInv, TypeOK
  <2>8. ReplayLocal(g[p])
    BY DEF Replay
  <2>9. \A c \in DOMAIN dirs' : x.d = c => Named(x.new, Entries(c)[x.req.path[x.i]].hash)'
    <3>1. Entries(d)'[n].hash = e.hash
      BY <1>2, <1>6, <2>1, <2>3 DEF Steady
    <3>2. Named(x.new, e.hash)'
      BY <2>3, <2>5
    <3> QED
      BY <2>1, <2>5, <3>1, <3>2 DEF Named
  <2>10. Named(x.d, Reached(rt.hash, x.req.path, x.i - 1))'
    <3>1. PICK h : h = Reached(rt.hash, x.req.path, x.i - 1)
      OBVIOUS
    <3>2. Named(d, h)
      BY <1>1, <1>2, <2>5, <2>8, <3>1 DEF ReplayLocal, Walking
    <3>3. Named(d, h)'
      BY <2>1, <2>3, <3>2, SteadyMarshal DEF Named
    <3> QED
      BY <1>1, <2>5, <3>1, <3>3 DEF Named
  <2>11. x.i \in 1..(Len(Way(x.req)) + 1) /\ x.i <= Len(Way(x.req))
    BY <2>1, <2>5, WayFacts
  <2>12. ReplayLocal(x)'
    BY <1>1, <2>5, <2>8, <2>9, <2>10, <2>11 DEF ReplayLocal, Ops
  <2>13. ReplayLocal(g[p])'
    BY <2>7, <2>12 DEF ReplayLocal
  <2> QED
    BY <1>1, <2>3, <2>7, <2>13, ReplayKept
<1> QED
  BY <1>2, <1>3, <1>4, <1>5, <1>6 DEF Walk

LEMMA ReplaySetDir ==
  ASSUME IInv, Replay, rt.readonly, NEW p \in Procs, SetDir(p)
  PROVE  Steady /\ Replay'
<1>1. UNCHANGED <<rt, wr, sealed>> /\ g[p].at = "setDir"
  BY DEF SetDir, obs
<1>2. PICK d, n, e : d = g[p].d /\ n = DirPart(p)[g[p].i] /\ e = Entries(d)[n]
  OBVIOUS
<1>3. /\ g[p].i <= Len(DirPart(p)) /\ n \in Names(d)
      /\ g[p].new \in DOMAIN dirs /\ d \in DOMAIN dirs
  BY <1>1, <1>2, LocalFacts DEF Replay, ReplayLocal, Walking
<1>4. n = g[p].req.path[g[p].i]
  BY <1>1, <1>2, <1>3, Descend
<1>5. Named(g[p].new, e.hash)
  <2>1. ReplayLocal(g[p])
    BY DEF Replay
  <2> QED
    BY <1>1, <1>2, <1>3, <1>4, <2>1 DEF ReplayLocal
<1>6. Advance(p, g[p].new)
  BY DEF SetDir
<1>7. \/ dirs' = dirs
      \/ dirs' = [dirs EXCEPT ![d].entries[n].dir = g[p].new]
  <2>1. EntryPassed(p, e) = e
    BY <1>1, ReplayReads
  <2>2. dirs' = Update(d, n, g[p].id, [EntryPassed(p, e) EXCEPT !.dir = g[p].new])
    BY <1>2 DEF SetDir
  <2> QED
    BY <1>2, <2>1, <2>2 DEF Update, Entries
<1>8. Steady /\ Fitting
  <2>1. CASE dirs' = dirs
    BY <1>1, <2>1, SameSteady
  <2>2. CASE dirs' = [dirs EXCEPT ![d].entries[n].dir = g[p].new]
    BY <1>1, <1>2, <1>3, <1>5, <2>2, PointSteady
  <2> QED
    BY <1>7, <2>1, <2>2
<1> QED
  BY <1>1, <1>2, <1>3, <1>5, <1>6, <1>8, ReplayAdvance

LEMMA ReplayArrive ==
  ASSUME IInv, Replay, rt.readonly, NEW p \in Procs, Arrive(p)
  PROVE  Steady /\ Replay'
<1>1. UNCHANGED <<rt, wr, sealed>> /\ g[p].at = "walk" /\ g[p].i > Len(DirPart(p))
  BY DEF Arrive, obs
<1>2. dirs' = dirs
  BY <1>1, ReplayReads DEF Arrive
<1>3. PICK x : x = [g[p] EXCEPT !.at = g[p].req.op]
  OBVIOUS
<1>4. x.at = g[p].req.op /\ x.d = g[p].d /\ x.i = g[p].i /\ x.req = g[p].req /\ x.must = g[p].must
  BY <1>3, LocalRecord
<1>5. g' = [g EXCEPT ![p] = x]
  BY <1>3 DEF Arrive, Goto
<1>6. ReplayLocal(g[p])
  BY DEF Replay
<1>7. /\ x.req \in Requests /\ x.at \in Ops /\ x.at \notin {"save", "write", "link"}
      /\ x.i > Len(Way(x.req)) /\ x.i \in 1..(Len(Way(x.req)) + 1) /\ Len(Way(x.req)) \in Nat
  <2>1. g[p].req \in Requests /\ g[p].req.op # "save" /\ DirPart(p) = Way(g[p].req)
    BY <1>1, LocalFacts DEF Finding
  <2> QED
    BY <1>1, <1>4, <1>6, <2>1, WayFacts DEF ReplayLocal, Walking
<1>8. x.i = Len(Way(x.req)) + 1
  BY <1>7
<1>9. Named(x.d, Reached(rt.hash, x.req.path, x.i - 1))
  BY <1>1, <1>4, <1>6 DEF ReplayLocal, Walking
<1>10. Named(x.d, Reached(rt.hash, x.req.path, x.i - 1))'
  BY <1>1, <1>2, <1>9 DEF Named, Marshal, Names, Entries
<1>11. ReplayLocal(x)'
  BY <1>1, <1>4, <1>6, <1>7, <1>8, <1>10 DEF ReplayLocal, Ops
<1> QED
  BY <1>1, <1>2, <1>5, <1>11, ReplayMove

\* The entry that is asked for, once the goroutine is at its directory.
LEMMA AtFile ==
  ASSUME IInv, Replay, rt.readonly, NEW p \in Procs, g[p].at \in {"read", "entryHash"},
         NEW d, d = g[p].d, NEW n, n = FileName(p)
  PROVE  /\ d \in DOMAIN dirs
         /\ n \in Names(d) => ReplayEntry(Entries(d)[n])
         /\ Resolve(rt.hash, g[p].req.path) = Child(DirHash(Marshal(d)), n)
<1>1. PICK r, i : r = g[p].req /\ i = g[p].i
  OBVIOUS
<1>2. /\ r \in Requests /\ d \in DOMAIN dirs /\ g[p].at \in Walking
      /\ r.op = g[p].at /\ g[p].at \in Ops
  BY <1>1, LocalFacts DEF Walking, Ops
<1>3. i = Len(Way(r)) + 1 /\ Named(d, Reached(rt.hash, r.path, i - 1))
  BY <1>1, <1>2 DEF Replay, ReplayLocal
<1>4. Len(r.path) = i /\ n = r.path[i] /\ i \in 1..Len(r.path)
  <2>1. Len(r.path) = Len(Way(r)) + 1 /\ Last(r.path) = r.path[Len(Way(r)) + 1]
    BY <1>2, WayFacts
  <2>2. Len(Way(r)) \in Nat
    BY <1>2, WayFacts
  <2> QED
    BY <1>1, <1>3, <2>1, <2>2 DEF FileName
<1>5. Reached(rt.hash, r.path, i - 1) = DirHash(Marshal(d))
  BY <1>2, <1>3 DEF Named
<1>6. Resolve(rt.hash, r.path) = Reached(rt.hash, r.path, Len(r.path))
  BY <1>2, WayReached, Zenon
<1>7. Reached(rt.hash, r.path, i) = Child(Reached(rt.hash, r.path, i - 1), r.path[i])
  BY <1>2, <1>4, WayReached, Zenon
<1>8. n \in Names(d) => ReplayEntry(Entries(d)[n])
  BY <1>2 DEF Replay
<1> QED
  BY <1>1, <1>2, <1>4, <1>5, <1>6, <1>7, <1>8

LEMMA ReplayRead ==
  ASSUME IInv, Replay, rt.readonly, NEW p \in Procs, Read(p)
  PROVE  Steady /\ Replay'
<1>1. UNCHANGED <<rt, wr, sealed>> /\ g[p].at = "read" /\ Return(p)
  BY DEF Read
<1>2. PICK d, n : d = g[p].d /\ n = FileName(p)
  OBVIOUS
<1>3. n \in Names(d) => ~Entries(d)[n].file
  BY <1>1, <1>2, AtFile DEF ReplayEntry
<1>4. dirs' = dirs
  BY <1>2, <1>3 DEF Read
<1> QED
  BY <1>1, <1>4, ReplayReturn

LEMMA ReplayEntryHash ==
  ASSUME IInv, Replay, rt.readonly, NEW p \in Procs, EntryHash(p)
  PROVE  Steady /\ Replay'
<1>1. UNCHANGED <<rt, wr, sealed>> /\ g[p].at = "entryHash"
  BY DEF EntryHash
<1>2. PICK d, n : d = g[p].d /\ n = FileName(p)
  OBVIOUS
<1>3. n \in Names(d) => Entries(d)[n].hash # NoHash
  BY <1>1, <1>2, AtFile, BaseAssumption DEF ReplayEntry
<1>4. CASE n \in Names(d)
  <2>1. HashEntry(p, d, n, <<>>)
    BY <1>2, <1>4 DEF EntryHash
  <2>2. Resume(p, <<>>) /\ UNCHANGED <<dirs, panicked>>
    BY <1>3, <1>4, <2>1 DEF HashEntry
  <2>3. Return(p)
    BY <2>2 DEF Resume
  <2> QED
    BY <1>1, <2>2, <2>3, ReplayReturn
<1>5. CASE n \notin Names(d)
  BY <1>1, <1>2, <1>5, ReplayReturn DEF EntryHash
<1> QED
  BY <1>4, <1>5

LEMMA ReplayDiffStart ==
  ASSUME IInv, Replay, rt.readonly, NEW p \in Procs, DiffStart(p)
  PROVE  Steady /\ Replay'
<1>1. UNCHANGED <<rt, dirs, wr, sealed>> /\ g[p].at = "rootReady" /\ g[p].req.op = "diff"
  BY DEF DiffStart, heap, obs
<1>2. CASE Return(p)
  BY <1>1, <1>2, ReplayReturn
<1>3. CASE Goto(p, "getDir")
  <2>1. PICK x : x = [g[p] EXCEPT !.at = "getDir"]
    OBVIOUS
  <2>2. x.at = "getDir" /\ x.i = g[p].i /\ x.req = g[p].req /\ x.must = g[p].must
    BY <2>1, LocalRecord
  <2>3. ReplayLocal(g[p])
    BY DEF Replay
  <2>4. ReplayLocal(x)'
    BY <1>1, <2>2, <2>3 DEF ReplayLocal, Walking, Ops
  <2>5. g' = [g EXCEPT ![p] = x]
    BY <1>3, <2>1 DEF Goto
  <2> QED
    BY <1>1, <2>4, <2>5, ReplayMove
<1> QED
  BY <1>2, <1>3 DEF DiffStart

\* A goroutine that iterates, whatever its stack.
LEMMA IterLocal ==
  ASSUME IInv, Replay, rt.readonly, NEW p \in Procs, g[p].at \in {"diff", "next"}, NEW stk,
         NEW x, x = [g[p] EXCEPT !.at = "next", !.stk = stk]
  PROVE  ReplayLocal(x)'
<1>1. x.at = "next" /\ x.i = g[p].i /\ x.req = g[p].req /\ x.must = g[p].must
  BY LocalRecord
<1>2. g[p].req.op = "diff"
  BY LocalFacts DEF Replay, ReplayLocal, Ops
<1> QED
  BY <1>1, <1>2 DEF ReplayLocal, Walking, Ops

LEMMA ReplayNewDiffIter ==
  ASSUME IInv, Replay, rt.readonly, NEW p \in Procs, NewDiffIter(p)
  PROVE  Steady /\ Replay'
<1>1. UNCHANGED <<rt, dirs, wr, sealed>> /\ g[p].at = "diff"
  BY DEF NewDiffIter, heap, obs
<1>2. PICK x : x = [g[p] EXCEPT !.at = "next", !.stk = <<RootFrame(g[p].d)>>]
  OBVIOUS
<1>3. g' = [g EXCEPT ![p] = x]
  BY <1>2 DEF NewDiffIter
<1>4. ReplayLocal(x)'
  BY <1>1, <1>2, IterLocal
<1> QED
  BY <1>1, <1>3, <1>4, ReplayMove

LEMMA ReplayDiffUp ==
  ASSUME IInv, Replay, rt.readonly, NEW p \in Procs, DiffUp(p)
  PROVE  Steady /\ Replay'
<1>1. UNCHANGED <<rt, dirs, wr, sealed>> /\ g[p].at = "next"
  BY DEF DiffUp, heap, obs
<1>2. CASE Return(p)
  BY <1>1, <1>2, ReplayReturn
<1>3. CASE SetStk(p, Front(g[p].stk))
  <2>1. PICK x : x = [g[p] EXCEPT !.at = "next", !.stk = Front(g[p].stk)]
    OBVIOUS
  <2>2. g' = [g EXCEPT ![p] = x]
    BY <1>1, <1>3, <2>1, LocalRecord DEF SetStk
  <2>3. ReplayLocal(x)'
    BY <1>1, <2>1, IterLocal
  <2> QED
    BY <1>1, <2>2, <2>3, ReplayMove
<1> QED
  BY <1>2, <1>3 DEF DiffUp

\* An assignment to the directory of an entry.
LEMMA PointRelaid ==
  ASSUME IInv, NEW d \in DOMAIN dirs, NEW n \in Names(d), NEW k,
         NEW ds, ds = [dirs EXCEPT ![d].entries[n].dir = k]
  PROVE  Relaid(ds, Entries(d)[n].hash, k)
<1>1. dirs[d] \in [hash : Ref, entries : {Entries(d)}] /\ Entries(d) \in [Names(d) -> EntrySet]
  BY DEF IInv, TypeOK, DirsOK, DirOK, Entries, Names
<1>2. PICK e : e = [Entries(d)[n] EXCEPT !.dir = k]
  OBVIOUS
<1>3. /\ e.kind = Entries(d)[n].kind /\ e.hash = Entries(d)[n].hash /\ e.dir = k
      /\ e.file = Entries(d)[n].file /\ e.blobW = Entries(d)[n].blobW
  BY <1>1, <1>2 DEF EntrySet
<1>4. PICK x : x = [dirs[d] EXCEPT !.entries[n] = e]
  OBVIOUS
<1>5. /\ DOMAIN x.entries = Names(d) /\ x.entries[n] = e
      /\ \A m \in Names(d) : m # n => x.entries[m] = Entries(d)[m]
  BY <1>1, <1>4 DEF Entries, Names
<1>6. ds = [dirs EXCEPT ![d] = x]
  BY <1>2, <1>4 DEF Entries
<1>7. dirs \in Seq(ToSet(dirs))
  BY DEF IInv, TypeOK, DirsOK
<1>8. DOMAIN ds = DOMAIN dirs /\ ds \in Seq(ToSet(ds))
  <2>1. /\ [dirs EXCEPT ![d] = x] \in Seq(ToSet([dirs EXCEPT ![d] = x]))
        /\ DOMAIN [dirs EXCEPT ![d] = x] = DOMAIN dirs
    BY <1>7, SeqFacts, Zenon
  <2> QED
    BY <1>6, <2>1
<1>9. ds[d] = x /\ \A c \in DOMAIN dirs : c # d => ds[c] = dirs[c]
  BY <1>6
<1>10. ASSUME NEW c \in DOMAIN dirs
       PROVE  /\ DOMAIN ds[c].entries = Names(c)
              /\ \A m \in Names(c) :
                   /\ ds[c].entries[m].kind = Entries(c)[m].kind
                   /\ ds[c].entries[m].hash = Entries(c)[m].hash
                   /\ ds[c].entries[m].file = Entries(c)[m].file
                   /\ ds[c].entries[m].blobW = Entries(c)[m].blobW
                   /\ \/ ds[c].entries[m].dir = Entries(c)[m].dir
                      \/ ds[c].entries[m].dir = k /\ Entries(c)[m].hash = Entries(d)[n].hash
  <2>1. CASE c # d
    BY <1>9, <2>1 DEF Entries, Names
  <2>2. CASE c = d
    BY <1>3, <1>5, <1>9, <2>2
  <2> QED
    BY <2>1, <2>2
<1> QED
  BY <1>8, <1>10 DEF Relaid

LEMMA ReplayDiffNext ==
  ASSUME IInv, Replay, rt.readonly, NEW p \in Procs, DiffNext(p)
  PROVE  Steady /\ Replay'
<1>1. UNCHANGED <<rt, wr, sealed>> /\ g[p].at = "next"
  BY DEF DiffNext, obs
<1>2. PICK n \in Top(p).todo \ Top(p).seen :
        LET d   == Top(p).d
            e   == Entries(d)[n]
            new == Len(dirs) + 1
            SetTo(k) == [dirs EXCEPT ![d].entries[n].dir = k]
        IN \/ /\ e.kind = "file"
              /\ SetStk(p, SeenBy(p, n))
              /\ UNCHANGED dirs
           \/ /\ e.kind = "dir" /\ Loadable(e.hash)
              /\ dirs' = Append(SetTo(new), LoadDir(e.hash))
              /\ SetStk(p, Append(SeenBy(p, n),
                                  Frame(new, DOMAIN Listing(e.hash), d, n, e.id)))
           \/ /\ e.kind = "dir" /\ ~Loadable(e.hash)
              /\ dirs' = SetTo(0)
              /\ Return(p)
  BY DEF DiffNext
<1>3. PICK d, e : d = Top(p).d /\ e = Entries(d)[n]
  OBVIOUS
<1>4. d \in DOMAIN dirs /\ n \in Names(d)
  <2>1. StkOK(g[p].stk) /\ g[p].stk # <<>>
    BY <1>1, StkOfLocal DEF Hashing
  <2>2. FrameOK(Top(p))
    BY <2>1, StkTop DEF Top
  <2> QED
    BY <1>2, <1>3, <2>2 DEF FrameOK
<1>5. ReplayEntry(e)
  BY <1>3, <1>4 DEF Replay
<1>6. ASSUME NEW stk, SetStk(p, stk), Steady, Fitting
      PROVE  Replay'
  <2>1. PICK x : x = [g[p] EXCEPT !.at = "next", !.stk = stk]
    OBVIOUS
  <2>2. g' = [g EXCEPT ![p] = x]
    BY <1>1, <1>6, <2>1, LocalRecord DEF SetStk
  <2>3. ReplayLocal(x)'
    BY <1>1, <2>1, IterLocal
  <2>4. g'[p] = x /\ \A q \in Procs \ {p} : g'[q] = g[q]
    BY <2>2 DEF IInv, TypeOK
  <2>5. ReplayLocal(g[p])'
    BY <2>3, <2>4 DEF ReplayLocal
  <2> QED
    BY <1>1, <1>6, <2>4, <2>5, ReplayKept
<1>7. CASE SetStk(p, SeenBy(p, n)) /\ UNCHANGED dirs
  BY <1>1, <1>6, <1>7, SameSteady
<1>8. CASE /\ Loadable(e.hash)
           /\ dirs' = Append([dirs EXCEPT ![d].entries[n].dir = Len(dirs) + 1], LoadDir(e.hash))
           /\ \E stk : SetStk(p, stk)
  <2>1. PICK ds : ds = [dirs EXCEPT ![d].entries[n].dir = Len(dirs) + 1]
    OBVIOUS
  <2>2. Relaid(ds, e.hash, Len(dirs) + 1)
    BY <1>3, <1>4, <2>1, PointRelaid
  <2>3. Steady /\ Fitting
    BY <1>1, <1>5, <1>8, <2>1, <2>2, LoadSteady DEF Loadable, ReplayEntry
  <2> QED
    BY <1>6, <1>8, <2>3
<1>9. CASE dirs' = [dirs EXCEPT ![d].entries[n].dir = 0] /\ Return(p)
  <2>1. Steady /\ Fitting
    BY <1>1, <1>4, <1>9, PointSteady
  <2>2. g'[p] = Idle /\ \A q \in Procs \ {p} : g'[q] = g[q]
    BY <1>9 DEF Return, IInv, TypeOK
  <2>3. g'[p].at = "idle" /\ g'[p].req = NoReq
    BY <2>2 DEF Idle
  <2>4. ReplayLocal(g[p])'
    BY <2>3 DEF ReplayLocal
  <2> QED
    BY <1>1, <2>1, <2>2, <2>4, ReplayKept
<1> QED
  BY <1>2, <1>3, <1>7, <1>8, <1>9

\* Steps that a replay never takes.
LEMMA ReplayNever ==
  ASSUME IInv, Replay, rt.readonly, NEW p \in Procs
  PROVE  ~(Mkdir(p) \/ Write(p) \/ Link(p) \/ HashNext(p) \/ HashDirDone(p) \/ Hashed(p))
<1>1. ReplayLocal(g[p])
  BY DEF Replay
<1>2. g[p].at \notin {"mkdir", "hash", "hashed"}
  BY <1>1 DEF ReplayLocal
<1>3. g[p].at \notin {"write", "link"}
  BY <1>1, LocalFacts DEF ReplayLocal, Ops
<1> QED
  BY <1>2, <1>3 DEF Mkdir, Write, Link, HashNext, HashDirDone, Hashed

\* No step gives up or takes on the readonly flag.
LEMMA ReadonlyKept ==
  ASSUME IInv, [Next]_vars
  PROVE  rt'.readonly = rt.readonly
<1>1. rt \in [hash : Ref, dir : 0..Len(dirs), readonly : BOOLEAN]
  BY DEF IInv, TypeOK, RtOK
<1>2. ASSUME NEW p \in Procs, Step(p) \/ \E r \in Requests : Begin(p, r)
      PROVE  rt'.readonly = rt.readonly
  BY <1>1, <1>2 DEF Begin, Step, GetDir, SetRootDir, Walk, SetDir, Mkdir, Arrive, Write, Link,
       Read, List, EntryHash, HashNext, HashDirDone, Hashed, SaveDone, DiffStart, NewDiffIter,
       DiffNext, DiffUp, heap, RootPassed
<1>3. ASSUME NEW w \in DOMAIN wr, CloseWriter(w) \/ PublishBlob(w)
      PROVE  rt'.readonly = rt.readonly
  BY <1>3 DEF CloseWriter, PublishBlob
<1> QED
  BY <1>2, <1>3 DEF Next, Finished, vars, heap

\* A step of one goroutine leaves the locals of the others alone.
LEMMA OtherGoroutine ==
  ASSUME IInv, NEW q \in Procs, Step(q) \/ \E r \in Requests : Begin(q, r),
         NEW p \in Procs, p # q
  PROVE  g'[p] = g[p]
<1>1. g = [x \in Procs |-> g[x]]
  BY DEF IInv, TypeOK
<1>2. \E x : g' = [g EXCEPT ![q] = x]
  BY DEF Begin, Step, GetDir, SetRootDir, Walk, SetDir, Mkdir, Arrive, Write, Link, Read, List,
     EntryHash, HashEntry, Resume, HashNext, HashDirDone, Hashed, SaveDone, DiffStart, NewDiffIter,
     DiffNext, DiffUp, Return, Panic, Goto, Advance, SetStk
<1> QED
  BY <1>1, <1>2

LEMMA ReplayStep ==
  ASSUME IInv, Replay, rt.readonly, [Next]_vars
  PROVE  Steady /\ Replay'
<1>1. ASSUME NEW p \in Procs, NEW r \in Requests, Begin(p, r)
      PROVE  Steady /\ Replay'
  BY <1>1, ReplayBegin
<1>2. ASSUME NEW p \in Procs, Step(p)
      PROVE  Steady /\ Replay'
  <2>1. CASE List(p) \/ SaveDone(p)
    BY <2>1, ReplayReturn DEF List, SaveDone, heap, obs
  <2> QED
    BY <1>2, <2>1, ReplayNever, ReplayGetDir, ReplaySetRootDir, ReplayWalk, ReplaySetDir,
       ReplayArrive, ReplayRead, ReplayEntryHash, ReplayDiffStart, ReplayNewDiffIter,
       ReplayDiffNext, ReplayDiffUp DEF Step
<1>3. wr = <<>>
  BY DEF Replay
<1>4. CASE UNCHANGED vars
  <2>1. UNCHANGED <<rt, dirs, wr, sealed, g>>
    BY <1>4 DEF vars, heap, obs
  <2>2. Steady
    BY <2>1, SameSteady
  <2>3. Replay'
    BY <2>1 DEF Replay, ReplayLocal, ReplayEntry, Leads, Named, Marshal, Names, Entries
  <2> QED
    BY <2>2, <2>3
<1> QED
  BY <1>1, <1>2, <1>3, <1>4 DEF Next, Finished

LEMMA ReplayInit ==
  ASSUME Init
  PROVE  Replay
<1> SUFFICES ASSUME rt.readonly
             PROVE  Replay
  BY DEF Replay
<1>1. PICK s \in Starts :
        /\ rt = [hash |-> s.base, dir |-> IF s.base = NoHash THEN 1 ELSE 0,
                 readonly |-> s.readonly]
        /\ dirs = IF s.base = NoHash THEN <<EmptyDir>> ELSE <<>>
        /\ sealed = [f \in Paths |-> [now  |-> Resolve(s.base, f),
                                      ever |-> {Resolve(s.base, f)} \ {NoHash}]]
  BY DEF Init
<1>2. s.base \in BaseBlobs /\ s.base # NoHash
  BY <1>1, StartAssumption
<1>3. rt.hash \in BaseBlobs /\ rt.dir = 0 /\ DOMAIN dirs = {}
  BY <1>1, <1>2
<1>4. \A f \in Paths : sealed[f].now = Resolve(rt.hash, f)
  BY <1>1
<1>5. \A p \in Procs : ReplayLocal(g[p])
  BY DEF Init, ReplayLocal, Idle
<1>6. wr = <<>>
  BY DEF Init
<1> QED
  BY <1>3, <1>4, <1>5, <1>6 DEF Replay, Named

LEMMA ReplayNext ==
  ASSUME IInv, Replay, [Next]_vars
  PROVE  Replay'
<1>1. CASE rt.readonly
  BY <1>1, ReplayStep
<1>2. CASE ~rt.readonly
  BY <1>2, ReadonlyKept DEF Replay
<1> QED
  BY <1>1, <1>2

\* Every directory that a replay has loaded is the one that its parent's entry (for
\* the first one, the Root) names by its hash, whatever operations run on it together.
THEOREM ReplayFrozen == Spec => []Frozen
<1>1. Init => IInv /\ Replay
  BY InitOK, ReplayInit
<1>2. IInv /\ Replay /\ [Next]_vars => (IInv /\ Replay)'
  BY StepOK, ReplayNext
<1>3. IInv /\ Replay => Frozen
  <2> SUFFICES ASSUME IInv, Replay, rt.readonly
               PROVE  Frozen
    BY DEF Frozen
  <2>1. rt.dir # 0 => rt.hash = DirHash(Marshal(rt.dir))
    <3>1. rt.dir \in 0..Len(dirs)
      BY DEF IInv, TypeOK, RtOK
    <3> QED
      BY <3>1, HeapSizes DEF Replay, Named
  <2>2. ASSUME NEW d \in DOMAIN dirs, NEW n \in Names(d), Entries(d)[n].dir # 0
        PROVE  Entries(d)[n].hash = DirHash(Marshal(Entries(d)[n].dir))
    <3>1. Entries(d)[n].dir \in 0..Len(dirs)
      BY EntryFacts DEF EntrySet
    <3> QED
      BY <2>2, <3>1, HeapSizes DEF Replay, Leads, Named
  <2> QED
    BY <2>1, <2>2 DEF Frozen
<1> QED
  BY <1>1, <1>2, <1>3, PTL DEF Spec

\* No step changes the hash of a Root opened by its hash, or the listing of a directory
\* loaded for it: getDir, Read, EntryHash, Save and DiffRoots only fill in pointers.
THEOREM ReplayNeverChanges == Spec => ReplayImmutable
<1>1. Init => IInv /\ Replay
  BY InitOK, ReplayInit
<1>2. IInv /\ Replay /\ [Next]_vars => (IInv /\ Replay)'
  BY StepOK, ReplayNext
<1>3. IInv /\ Replay /\ [Next]_vars =>
        [rt.readonly =>
           /\ rt'.readonly /\ rt'.hash = rt.hash
           /\ \A d \in DOMAIN dirs : Marshal(d)' = Marshal(d)]_vars
  BY ReplayStep, SteadyMarshal DEF Steady
<1> QED
  BY <1>1, <1>2, <1>3, PTL DEF Spec, ReplayImmutable

-----------------------------------------------------------------------------
(* What a replay reads *)

\* A goroutine that reads a path whose file the saved tree holds.
Wanted(p) ==
  /\ rt.readonly /\ g[p].req.op = "read"
  /\ g[p].must[g[p].req.path] # NoHash /\ ~IsDirHash(g[p].must[g[p].req.path])

\* Every name before the last leads to a directory of the store.
LEMMA WantedWay ==
  ASSUME IInv, Replay, NEW p \in Procs, Wanted(p)
  PROVE  /\ g[p].at # "idle" /\ g[p].req \in Requests /\ ~IsWrite(p)
         /\ g[p].must[g[p].req.path] = Resolve(rt.hash, g[p].req.path)
         /\ \A k \in 0..Len(Way(g[p].req)) : IsDirHash(Reached(rt.hash, g[p].req.path, k))
<1>1. ReplayLocal(g[p]) /\ rt.readonly /\ g[p].req.op = "read"
  BY DEF Replay, Wanted
<1>2. g[p].at # "idle" /\ g[p].req \in Requests
  BY <1>1, LocalFacts DEF ReplayLocal, NoReq
<1>3. g[p].must[g[p].req.path] = Resolve(rt.hash, g[p].req.path)
  BY <1>1, <1>2, WayFacts DEF ReplayLocal
<1>4. PICK path, h : path = g[p].req.path /\ h = rt.hash
  OBVIOUS
<1>5. path \in Seq(STRING) /\ Resolve(h, path) # NoHash
  BY <1>2, <1>3, <1>4, WayFacts DEF Wanted
<1>6. \A k \in 0..(Len(path) - 1) : IsDirHash(Reached(h, path, k))
  BY <1>5, ReachedDirs
<1>7. Len(path) = Len(Way(g[p].req)) + 1 /\ Len(Way(g[p].req)) \in Nat
  BY <1>1, <1>2, <1>4, WayFacts
<1> QED
  BY <1>1, <1>2, <1>3, <1>4, <1>6, <1>7 DEF IsWrite

\* Its steps lead on, until Read returns what it wants.
LEMMA WantedStep ==
  ASSUME IInv, Replay, NEW p \in Procs, Wanted(p), Step(p), g'[p].at = "idle"
  PROVE  g[p].at = "read" /\ got'.hash = g[p].must[g[p].req.path]
<1>1. /\ rt.readonly /\ ReplayLocal(g[p]) /\ g[p].at # "idle" /\ g[p].req \in Requests
      /\ g[p].req.op = "read" /\ rt.hash \in BaseBlobs
  BY WantedWay DEF Wanted, Replay
<1>2. BaseBlobs \subseteq blobs
  BY DEF IInv, TypeOK
<1>3. ~GetDir(p)
  <2> SUFFICES ASSUME GetDir(p)
               PROVE  FALSE
    OBVIOUS
  <2>1. Reached(rt.hash, g[p].req.path, 0) = rt.hash
    BY <1>1, WayReached, Zenon
  <2>2. 0 \in 0..Len(Way(g[p].req))
    BY <1>1, WayFacts
  <2>3. Loadable(rt.hash)
    BY <1>1, <1>2, <2>1, <2>2, WantedWay DEF Loadable
  <2>4. g'[p].at \in {"walk", "setRootDir"}
    BY <2>3, WantedWay, LocalRecord DEF GetDir
  <2> QED
    BY <2>4
<1>4. ~Walk(p)
  <2> SUFFICES ASSUME Walk(p)
               PROVE  FALSE
    OBVIOUS
  <2>1. PICK d, n : d = g[p].d /\ n = DirPart(p)[g[p].i]
    OBVIOUS
  <2>2. PICK i, r : i = g[p].i /\ r = g[p].req
    OBVIOUS
  <2>3. /\ g[p].at \in Walking /\ d \in DOMAIN dirs /\ DirPart(p) = Way(r)
        /\ i \in 1..Len(Way(r))
    <3>1. g[p].at \in Walking /\ d \in DOMAIN dirs /\ DirPart(p) = Way(r) /\ i <= Len(Way(r))
      BY <2>1, <2>2, LocalFacts DEF Walk, Walking
    <3>2. i \in 1..(Len(Way(r)) + 1) /\ Len(Way(r)) \in Nat
      BY <1>1, <2>2, <3>1, WayFacts DEF ReplayLocal
    <3> QED
      BY <3>1, <3>2
  <2>4. n = r.path[i] /\ i \in 1..Len(r.path) /\ i - 1 \in 0..Len(Way(r)) /\ i \in 0..Len(Way(r))
    BY <1>1, <2>1, <2>2, <2>3, WayFacts
  <2>5. Reached(rt.hash, r.path, i - 1) = DirHash(Marshal(d))
    BY <1>1, <2>1, <2>2, <2>3 DEF ReplayLocal, Named
  <2>6. Reached(rt.hash, r.path, i) = Child(Reached(rt.hash, r.path, i - 1), r.path[i])
    BY <1>1, <2>2, <2>4, WayReached, Zenon
  <2>7. IsDirHash(Child(DirHash(Marshal(d)), n))
    BY <2>2, <2>4, <2>5, <2>6, WantedWay
  <2>8. n \in Names(d) /\ IsDirHash(Entries(d)[n].hash)
    BY <2>7 DEF Child, DirHash, IsDirHash, Listing, NoHash, Marshal
  <2>9. Entries(d)[n].kind = "dir" /\ Loadable(Entries(d)[n].hash)
    BY <1>1, <1>2, <2>3, <2>8 DEF Replay, ReplayEntry, Loadable
  <2>10. g'[p].at \in {"walk", "setDir"}
    BY <2>1, <2>8, <2>9, LocalRecord DEF Walk, Advance
  <2> QED
    BY <2>10
<1>5. ~(SetRootDir(p) \/ SetDir(p) \/ Arrive(p))
  BY <1>1, LocalRecord DEF SetRootDir, SetDir, Arrive, Advance, Goto
<1>6. ~(List(p) \/ EntryHash(p) \/ SaveDone(p) \/ DiffStart(p) \/ NewDiffIter(p) \/ DiffNext(p)
        \/ DiffUp(p))
  BY <1>1, LocalFacts DEF List, EntryHash, SaveDone, DiffStart, NewDiffIter, DiffNext, DiffUp, ReplayLocal, Ops
<1>7. Read(p)
  BY <1>1, <1>3, <1>4, <1>5, <1>6, ReplayNever DEF Step
<1>8. g[p].at = "read"
  BY <1>7 DEF Read
<1>9. PICK d, n, e : d = g[p].d /\ n = FileName(p) /\ e = Entries(d)[n]
  OBVIOUS
<1>10. /\ d \in DOMAIN dirs
       /\ n \in Names(d) => ReplayEntry(e)
       /\ g[p].must[g[p].req.path] = Child(DirHash(Marshal(d)), n)
  BY <1>1, <1>8, <1>9, AtFile, WantedWay
<1>11. n \in Names(d) /\ e.hash = g[p].must[g[p].req.path]
  BY <1>9, <1>10 DEF Wanted, Child, DirHash, IsDirHash, Listing, NoHash, Marshal
<1>12. e.kind = "file" /\ ~e.file /\ e.hash \in blobs
  <2>1. e.kind \in {"dir", "file"}
    <3>1. Entries(d)[n] \in EntrySet
      BY <1>10, <1>11, EntryFacts
    <3> QED
      BY <1>9, <3>1 DEF EntrySet
  <2> QED
    BY <1>2, <1>10, <1>11, <2>1 DEF ReplayEntry, Wanted
<1>13. got'.hash = e.hash
  BY <1>7, <1>9, <1>11, <1>12 DEF Read
<1> QED
  BY <1>8, <1>11, <1>13

\* A Read in a replay of a path where the saved tree holds a file ends in one way, with
\* the content of that file: no other operation that runs beside it makes it fail.
THEOREM ReplayReadsBack == Spec => ReadBack
<1> DEFINE Back(p) ==
      LET want == g[p].must[g[p].req.path]
      IN /\ rt.readonly /\ g[p].req.op = "read" /\ g'[p].at = "idle"
         /\ want # NoHash /\ ~IsDirHash(want)
         => g[p].at = "read" /\ got'.hash = want
<1>1. Init => IInv /\ Replay
  BY InitOK, ReplayInit
<1>2. IInv /\ Replay /\ [Next]_vars => (IInv /\ Replay)'
  BY StepOK, ReplayNext
<1>3. ASSUME IInv, Replay, Next, NEW p \in Procs
      PROVE  Back(p)
  <2> SUFFICES ASSUME Wanted(p), g'[p].at = "idle"
               PROVE  g[p].at = "read" /\ got'.hash = g[p].must[g[p].req.path]
    BY DEF Wanted
  <2>1. g[p].at # "idle" /\ g'[p] # g[p]
    BY <1>3, WantedWay
  <2>2. ASSUME NEW q \in Procs, Step(q) \/ \E r \in Requests : Begin(q, r)
        PROVE  q = p
    <3>1. q # p => g'[p] = g[p]
      BY <1>3, <2>2, OtherGoroutine
    <3> QED
      BY <2>1, <3>1
  <2>3. Step(p)
    <3>1. wr = <<>> /\ ~Finished
      BY <1>3, <2>1 DEF Replay, Finished, vars, Wanted
    <3>2. \A r \in Requests : ~Begin(p, r)
      BY <2>1 DEF Begin
    <3> QED
      BY <1>3, <2>2, <3>1, <3>2 DEF Next
  <2> QED
    BY <1>3, <2>3, WantedStep
<1>4. IInv /\ Replay /\ [Next]_vars => [\A p \in Procs : Back(p)]_vars
  BY <1>3
<1>5. ReadBack <=> [][\A p \in Procs : Back(p)]_vars
  BY DEF ReadBack
<1> HIDE DEF Back
<1> QED
  BY <1>1, <1>2, <1>4, <1>5, PTL DEF Spec

-----------------------------------------------------------------------------
(* What the store holds once everything has returned *)

\* A writer that could not put its blob in place is accounted for.
FailedLost == \A w \in DOMAIN wr : wr[w].st = "failed" => wr[w].hash \in lost

LEMMA FailedLostNext ==
  ASSUME IInv, FailedLost, [Next]_vars
  PROVE  FailedLost'
<1>1. /\ Len(wr) \in Nat /\ DOMAIN wr = 1..Len(wr) /\ wr \in Seq(Writers)
      /\ \A v \in DOMAIN wr : wr[v] \in Writers
  BY WritersFacts DEF IInv, TypeOK, WrOK
<1>2. ASSUME UNCHANGED wr, lost \subseteq lost'
      PROVE  FailedLost'
  BY <1>2 DEF FailedLost
<1>3. ASSUME NEW p \in Procs, Write(p)
      PROVE  FailedLost'
  <2>1. CASE UNCHANGED wr
    BY <1>2, <1>3, <2>1 DEF Write
  <2>2. CASE wr' = Append(wr, [path |-> g[p].req.path, hash |-> g[p].req.arg, st |-> "open"])
    <3>1. PICK x : x = [path |-> g[p].req.path, hash |-> g[p].req.arg, st |-> "open"]
      OBVIOUS
    <3>2. x.st = "open" /\ wr' = Append(wr, x)
      BY <2>2, <3>1
    <3>3. wr \in Seq(ToSet(wr))
      BY WritersFacts
    <3>4. /\ DOMAIN wr' = 1..(Len(wr) + 1) /\ wr'[Len(wr) + 1] = x
          /\ \A v \in DOMAIN wr : wr'[v] = wr[v]
      BY <1>1, <3>2, <3>3, SeqFacts
    <3>5. lost' = lost
      BY <1>3 DEF Write
    <3> QED
      BY <1>1, <3>2, <3>4, <3>5 DEF FailedLost
  <2> QED
    BY <1>3, <2>1, <2>2 DEF Write
<1>4. ASSUME NEW p \in Procs, Step(p) \/ \E r \in Requests : Begin(p, r)
      PROVE  FailedLost'
  <2>1. CASE Write(p)
    BY <1>3, <2>1
  <2>2. CASE ~Write(p)
    <3>1. UNCHANGED wr /\ lost \subseteq lost'
      BY <1>4, <2>2 DEF Begin, Step, GetDir, SetRootDir, Walk, SetDir, Mkdir, Arrive, Link, Read,
         List, EntryHash, HashNext, HashDirDone, Hashed, SaveDone, DiffStart, NewDiffIter, DiffNext,
         DiffUp, heap
    <3> QED
      BY <1>2, <3>1
  <2> QED
    BY <2>1, <2>2
<1>5. ASSUME NEW w \in DOMAIN wr, NEW st, wr' = [wr EXCEPT ![w].st = st],
             st = "failed" => wr[w].hash \in lost', lost \subseteq lost'
      PROVE  FailedLost'
  <2>1. /\ DOMAIN wr' = DOMAIN wr
        /\ \A v \in DOMAIN wr : v # w => wr'[v] = wr[v]
        /\ wr'[w].st = st /\ wr'[w].hash = wr[w].hash
    BY <1>1, <1>5 DEF Writers
  <2> QED
    BY <1>5, <2>1 DEF FailedLost
<1>6. ASSUME NEW w \in DOMAIN wr, CloseWriter(w) \/ PublishBlob(w)
      PROVE  FailedLost'
  BY <1>5, <1>6 DEF CloseWriter, PublishBlob
<1> QED
  BY <1>2, <1>4, <1>6 DEF Next, Finished, vars, heap

\* When no closeFn and no bw.Close has failed and every operation and writer is done,
\* each hash that a directory blob of the store names is that of a stored blob or empty:
\* no Save, whatever ran beside it, has left a directory that cannot be read.
THEOREM StoreEndsComplete == Spec => []StoreComplete
<1>1. Init => IInv /\ FailedLost
  <2>1. Init => IInv
    BY InitOK
  <2>2. Init => FailedLost
    BY DEF Init, FailedLost
  <2> QED
    BY <2>1, <2>2
<1>2. IInv /\ FailedLost /\ [Next]_vars => (IInv /\ FailedLost)'
  BY StepOK, FailedLostNext
<1>3. IInv /\ FailedLost => StoreComplete
  <2> SUFFICES ASSUME IInv, FailedLost, lost = {}, Quiet, NEW h \in blobs
               PROVE  Children(h) \subseteq blobs \union {NoHash}
    BY DEF StoreComplete
  <2>1. Unpublished \subseteq blobs
    BY WritersFacts DEF Unpublished, Quiet, FailedLost
  <2> QED
    BY <2>1 DEF IInv, StoreClosed, Ref
<1> QED
  BY <1>1, <1>2, <1>3, PTL DEF Spec

-----------------------------------------------------------------------------
(* Where the objects of a Root belong.  loc gives each Dir its place in the  *)
(* tree, fit holds the directory blobs known at a place, as <<hash, place>>. *)

ContentFits(path, h) == path \in Paths => h = NoHash \/ h \in sealed[path].ever

\* What a listing or an entry c has at a place: a directory that is known there, or
\* a content that was completely written there.
ListedFits(fit, path, c) ==
  /\ c.kind = "dir" /\ IsDirHash(c.hash) => <<c.hash, path>> \in fit
  /\ c.kind = "file" => ContentFits(path, c.hash)

BlobFits(fit, h, path) ==
  \A n \in DOMAIN Listing(h) : ListedFits(fit, Append(path, n), Listing(h)[n])

\* The same of an entry and of what it points to.
EntryFits(loc, fit, path, e) ==
  /\ ListedFits(fit, path, e)
  /\ e.dir \in DOMAIN dirs => e.kind = "dir" /\ loc[e.dir] = path
  /\ e.kind = "file" => ContentFits(path, e.fhash)
  /\ e.kind = "file" /\ e.blobW \in DOMAIN wr => wr[e.blobW].path = path

DirFits(loc, fit, d) ==
  /\ IsDirHash(dirs[d].hash) => <<dirs[d].hash, loc[d]>> \in fit
  /\ \A n \in Names(d) : EntryFits(loc, fit, Append(loc[d], n), Entries(d)[n])

RootFits(loc, fit) ==
  /\ rt.dir \in DOMAIN dirs => loc[rt.dir] = <<>>
  /\ IsDirHash(rt.hash) => <<rt.hash, <<>>>> \in fit

\* getDir is at the place that the names passed so far spell.
LocalFits(loc, x) ==
  x.at # "idle" =>
    /\ x.at \in {"getDir", "setRootDir"} => x.i = 1
    /\ x.at \in {"rootReady", "hash", "hashed"} /\ x.req.op = "diff" => x.i = 1
    /\ x.at \in Walking => /\ x.i \in 1..(Len(Way(x.req)) + 1)
                           /\ loc[x.d] = SubSeq(x.req.path, 1, x.i - 1)
    /\ x.at \in {"setDir", "mkdir"} => x.i <= Len(Way(x.req))
    /\ x.at \in Ops => x.i = Len(Way(x.req)) + 1
    /\ x.at = "setRootDir" => loc[x.new] = <<>>
    /\ x.at = "setDir" => /\ loc[x.new] = SubSeq(x.req.path, 1, x.i)
                          /\ Entries(x.d)[x.req.path[x.i]].kind = "dir"

\* The hash of a closed writer counts as written to its path.
WrittenOnce ==
  /\ sealed = [f \in Paths |-> [now |-> sealed[f].now, ever |-> sealed[f].ever]]
  /\ \A w \in DOMAIN wr : wr[w].st # "open" => wr[w].hash \in sealed[wr[w].path].ever
  /\ got.hash # NoHash => got.path \in Paths /\ got.hash \in sealed[got.path].ever

Placed(loc, fit) ==
  /\ DOMAIN loc = DOMAIN dirs
  /\ \A x \in fit : BlobFits(fit, x[1], x[2])
  /\ WrittenOnce
  /\ RootFits(loc, fit)
  /\ \A d \in DOMAIN dirs : DirFits(loc, fit, d)
  /\ \A p \in Procs : LocalFits(loc, g[p])

Honest == \E loc, fit : Placed(loc, fit)

\* A step adds to what is known and moves nothing.
Grows(loc, fit, loc2, fit2) ==
  /\ DOMAIN loc2 = DOMAIN dirs' /\ DOMAIN dirs \subseteq DOMAIN dirs' /\ fit \subseteq fit2
  /\ \A d \in DOMAIN dirs : loc2[d] = loc[d]
  /\ \A f \in Paths : sealed[f].ever \subseteq sealed'[f].ever
  /\ DOMAIN wr \subseteq DOMAIN wr' /\ \A w \in DOMAIN wr : wr'[w].path = wr[w].path

\* Names stay, and a directory stays a directory.
KindsStay ==
  \A d \in DOMAIN dirs : \A n \in Names(d) :
    n \in Names(d)' /\ (Entries(d)[n].kind = "dir" => Entries(d)'[n].kind = "dir")

LEMMA ListedKept ==
  ASSUME NEW loc, NEW fit, NEW loc2, NEW fit2, Grows(loc, fit, loc2, fit2),
         NEW path, NEW c, ListedFits(fit, path, c)
  PROVE  ListedFits(fit2, path, c)'
BY DEF Grows, ListedFits, ContentFits

\* No object has the pointer nil.
LEMMA ZeroNil ==
  ASSUME IInv'
  PROVE  0 \notin DOMAIN dirs' /\ 0 \notin DOMAIN wr'
<1>1. dirs' \in Seq(ToSet(dirs')) /\ wr' \in Seq(Writers)
  BY DEF IInv, TypeOK, DirsOK, WrOK, ToSet
<1> QED
  BY <1>1

LEMMA EntryKeptFits ==
  ASSUME IInv, IInv', NEW loc, NEW fit, NEW loc2, NEW fit2, Grows(loc, fit, loc2, fit2),
         NEW path, NEW e \in EntrySet, EntryFits(loc, fit, path, e)
  PROVE  EntryFits(loc2, fit2, path, e)'
<1>1. ListedFits(fit2, path, e)'
  BY ListedKept DEF EntryFits
<1>2. e.dir \in DOMAIN dirs' => e.kind = "dir" /\ loc2[e.dir] = path
  <2>1. e.dir \in 0..Len(dirs) /\ 0 \notin DOMAIN dirs'
    BY ZeroNil DEF EntrySet
  <2> QED
    BY <2>1, HeapSizes DEF EntryFits, Grows
<1>3. e.kind = "file" => ContentFits(path, e.fhash)'
  BY DEF EntryFits, Grows, ContentFits
<1>4. e.kind = "file" /\ e.blobW \in DOMAIN wr' => wr'[e.blobW].path = path
  <2>1. e.blobW \in 0..Len(wr) /\ 0 \notin DOMAIN wr'
    BY ZeroNil DEF EntrySet
  <2> QED
    BY <2>1, WritersFacts DEF EntryFits, Grows
<1> QED
  BY <1>1, <1>2, <1>3, <1>4 DEF EntryFits

\* What a step leaves of a Dir: its hash and its entries are as they were, or fit.
Settled(loc2, fit2, d) ==
  /\ \/ d \in DOMAIN dirs /\ dirs'[d].hash = dirs[d].hash
     \/ IsDirHash(dirs'[d].hash) => <<dirs'[d].hash, loc2[d]>> \in fit2
  /\ \A n \in Names(d)' :
       \/ d \in DOMAIN dirs /\ n \in Names(d) /\ Entries(d)'[n] = Entries(d)[n]
       \/ \A e : e = Entries(d)'[n] => EntryFits(loc2, fit2, Append(loc2[d], n), e)'

LEMMA SettledFits ==
  ASSUME IInv, IInv', NEW loc, NEW fit, NEW loc2, NEW fit2, Grows(loc, fit, loc2, fit2),
         \A d \in DOMAIN dirs : DirFits(loc, fit, d),
         NEW d, Settled(loc2, fit2, d)
  PROVE  DirFits(loc2, fit2, d)'
<1>1. IsDirHash(dirs'[d].hash) => <<dirs'[d].hash, loc2[d]>> \in fit2
  BY DEF Settled, Grows, DirFits
<1>2. ASSUME NEW n \in Names(d)'
      PROVE  EntryFits(loc2, fit2, Append(loc2[d], n), Entries(d)[n])'
  <2>1. PICK e : e = Entries(d)'[n]
    OBVIOUS
  <2>2. CASE d \in DOMAIN dirs /\ n \in Names(d) /\ e = Entries(d)[n]
    <3>1. loc2[d] = loc[d] /\ e \in EntrySet /\ EntryFits(loc, fit, Append(loc[d], n), e)
      BY <2>2, EntryFacts DEF Grows, DirFits
    <3>2. EntryFits(loc2, fit2, Append(loc2[d], n), e)'
      BY <3>1, EntryKeptFits
    <3> QED
      BY <2>1, <3>2 DEF EntryFits, ListedFits, ContentFits
  <2>3. CASE EntryFits(loc2, fit2, Append(loc2[d], n), e)'
    BY <2>1, <2>3 DEF EntryFits, ListedFits, ContentFits
  <2> QED
    BY <2>1, <2>2, <2>3 DEF Settled
<1> QED
  BY <1>1, <1>2 DEF DirFits

\* A goroutine that does not move keeps its place.
LEMMA LocalKeptFits ==
  ASSUME IInv, NEW loc, NEW fit, NEW loc2, NEW fit2, Grows(loc, fit, loc2, fit2), KindsStay,
         NEW q \in Procs, NEW x, x = g[q], LocalFits(loc, x)
  PROVE  LocalFits(loc2, x)'
<1>1. CASE x.at = "idle"
  BY <1>1 DEF LocalFits
<1>2. CASE x.at # "idle"
  <2>1. x.at \in Walking => x.d \in DOMAIN dirs /\ loc2[x.d] = loc[x.d]
    BY LocalFacts DEF Grows
  <2>2. x.at \in {"setDir", "setRootDir"} => loc2[x.new] = loc[x.new]
    BY LocalFacts DEF Grows
  <2>3. x.at = "setDir" => Entries(x.d)'[x.req.path[x.i]].kind = "dir"
    <3> SUFFICES ASSUME x.at = "setDir"
                 PROVE  Entries(x.d)'[x.req.path[x.i]].kind = "dir"
      OBVIOUS
    <3>1. /\ x.i \in 1..(Len(Way(x.req)) + 1) /\ x.i <= Len(Way(x.req))
          /\ Entries(x.d)[x.req.path[x.i]].kind = "dir"
      BY <1>2 DEF LocalFits, Walking
    <3>2. x.req \in Requests /\ Way(x.req)[x.i] \in Names(x.d) /\ x.d \in DOMAIN dirs
      BY <1>2, LocalFacts DEF Walking
    <3>3. Way(x.req)[x.i] = x.req.path[x.i]
      BY <3>1, <3>2, WayFacts
    <3> QED
      BY <3>1, <3>2, <3>3 DEF KindsStay
  <2> QED
    BY <1>2, <2>1, <2>2, <2>3 DEF LocalFits
<1> QED
  BY <1>1, <1>2

LEMMA HonestStep ==
  ASSUME IInv, IInv', NEW loc, NEW fit, Placed(loc, fit),
         NEW loc2, NEW fit2, Grows(loc, fit, loc2, fit2), KindsStay,
         \A y \in fit2 : y \in fit \/ BlobFits(fit2, y[1], y[2])',
         WrittenOnce', RootFits(loc2, fit2)',
         \A d \in DOMAIN dirs' : Settled(loc2, fit2, d),
         \A q \in Procs : g'[q] = g[q] \/ \A x : x = g'[q] => LocalFits(loc2, x)'
  PROVE  Honest'
<1>1. ASSUME NEW y \in fit2
      PROVE  BlobFits(fit2, y[1], y[2])'
  <2>1. CASE y \in fit
    <3>1. \A n \in DOMAIN Listing(y[1]) : ListedFits(fit, Append(y[2], n), Listing(y[1])[n])
      BY <2>1 DEF Placed, BlobFits
    <3>2. \A n \in DOMAIN Listing(y[1]) : ListedFits(fit2, Append(y[2], n), Listing(y[1])[n])'
      BY <3>1, ListedKept
    <3> QED
      BY <3>2 DEF BlobFits
  <2> QED
    BY <2>1
<1>2. ASSUME NEW q \in Procs
      PROVE  LocalFits(loc2, g[q])'
  <2>1. PICK x : x = g'[q]
    OBVIOUS
  <2>2. LocalFits(loc2, x)'
    BY <2>1, LocalKeptFits DEF Placed
  <2> QED
    BY <2>1, <2>2 DEF LocalFits
<1>3. ASSUME NEW d \in DOMAIN dirs'
      PROVE  DirFits(loc2, fit2, d)'
  BY SettledFits DEF Placed
<1>4. Placed(loc2, fit2)'
  BY <1>1, <1>2, <1>3 DEF Placed, Grows
<1> QED
  BY <1>4 DEF Honest

\* The heap stays.
LEMMA HonestSame ==
  ASSUME IInv, IInv', NEW loc, NEW fit, Placed(loc, fit), UNCHANGED dirs,
         \A f \in Paths : sealed[f].ever \subseteq sealed'[f].ever,
         DOMAIN wr \subseteq DOMAIN wr', \A w \in DOMAIN wr : wr'[w].path = wr[w].path,
         WrittenOnce', RootFits(loc, fit)',
         \A q \in Procs : g'[q] = g[q] \/ \A x : x = g'[q] => LocalFits(loc, x)'
  PROVE  Honest'
<1>1. Grows(loc, fit, loc, fit)
  BY DEF Grows, Placed
<1>2. KindsStay /\ \A d \in DOMAIN dirs' : Settled(loc, fit, d)
  BY DEF KindsStay, Settled, Names, Entries
<1> QED
  BY <1>1, <1>2, HonestStep

LEMMA RootKeptFits ==
  ASSUME IInv, NEW loc, NEW fit, NEW loc2, NEW fit2, RootFits(loc, fit),
         \A d \in DOMAIN dirs : loc2[d] = loc[d], fit \subseteq fit2,
         rt'.dir = rt.dir, rt'.hash \in {rt.hash, NoHash}, 0 \notin DOMAIN dirs'
  PROVE  RootFits(loc2, fit2)'
<1>2. ~IsDirHash(NoHash)
  BY DEF IsDirHash
<1>3. rt.dir \in 0..Len(dirs)
  BY DEF IInv, TypeOK, RtOK
<1> QED
  BY <1>2, <1>3, HeapSizes DEF RootFits

\* A step of one goroutine that closes no writer and reads nothing.
LEMMA HonestHeap ==
  ASSUME IInv, IInv', NEW loc, NEW fit, Placed(loc, fit), UNCHANGED <<wr, sealed, got>>,
         rt'.dir = rt.dir, rt'.hash \in {rt.hash, NoHash},
         NEW loc2, NEW fit2, DOMAIN loc2 = DOMAIN dirs', DOMAIN dirs \subseteq DOMAIN dirs',
         fit \subseteq fit2, \A d \in DOMAIN dirs : loc2[d] = loc[d], KindsStay,
         \A y \in fit2 : y \in fit \/ BlobFits(fit2, y[1], y[2])',
         \A d \in DOMAIN dirs' : Settled(loc2, fit2, d),
         NEW p \in Procs, NEW x, g' = [g EXCEPT ![p] = x], LocalFits(loc2, x)'
  PROVE  Honest'
<1>1. Grows(loc, fit, loc2, fit2)
  BY DEF Grows
<1>2. WrittenOnce'
  BY DEF Placed, WrittenOnce
<1>3. RootFits(loc2, fit2)'
  BY ZeroNil, RootKeptFits DEF Placed
<1>4. \A q \in Procs : g'[q] = IF q = p THEN x ELSE g[q]
  BY DEF IInv, TypeOK
<1> QED
  BY <1>1, <1>2, <1>3, <1>4, HonestStep

LEMMA HonestMove ==
  ASSUME IInv, IInv', NEW loc, NEW fit, Placed(loc, fit), UNCHANGED <<dirs, wr, sealed, got>>,
         rt'.dir = rt.dir, rt'.hash \in {rt.hash, NoHash},
         NEW p \in Procs, NEW x, g' = [g EXCEPT ![p] = x], LocalFits(loc, x)'
  PROVE  Honest'
<1>1. KindsStay /\ \A d \in DOMAIN dirs' : Settled(loc, fit, d)
  BY DEF KindsStay, Settled, Names, Entries
<1>2. DOMAIN loc = DOMAIN dirs'
  BY DEF Placed
<1> QED
  BY <1>1, <1>2, HonestHeap

LEMMA IdleFits ==
  ASSUME NEW loc
  PROVE  LocalFits(loc, Idle)'
BY DEF LocalFits, Idle

LEMMA HonestReturn ==
  ASSUME IInv, IInv', Honest, UNCHANGED <<dirs, wr, sealed, got>>,
         rt'.dir = rt.dir, rt'.hash \in {rt.hash, NoHash}, NEW p \in Procs, Return(p)
  PROVE  Honest'
<1>1. PICK loc, fit : Placed(loc, fit)
  BY DEF Honest
<1>2. PICK x : x = Idle
  OBVIOUS
<1>3. g' = [g EXCEPT ![p] = x] /\ LocalFits(loc, x)'
  BY <1>2, IdleFits DEF Return
<1> QED
  BY <1>1, <1>3, HonestMove

-----------------------------------------------------------------------------
(* The assignments to a Dir, again: what they change *)

DirRecord(x) == /\ x \in [hash : {x.hash}, entries : {x.entries}]
                /\ x.entries = [n \in DOMAIN x.entries |-> x.entries[n]]

OnlyAt(ds, ds2, d) == /\ DOMAIN ds2 = DOMAIN ds /\ ds2 \in Seq(ToSet(ds2))
                      /\ \A c \in DOMAIN ds : c # d => ds2[c] = ds[c]

LEMMA DirIsRecord ==
  ASSUME IInv, NEW d \in DOMAIN dirs
  PROVE  DirRecord(dirs[d]) /\ dirs \in Seq(ToSet(dirs))
BY DEF IInv, TypeOK, DirsOK, DirOK, DirRecord

LEMMA SetDirFacts ==
  ASSUME NEW ds, ds \in Seq(ToSet(ds)), NEW d \in DOMAIN ds, NEW x, NEW ds2,
         ds2 = [ds EXCEPT ![d] = x]
  PROVE  OnlyAt(ds, ds2, d) /\ ds2[d] = x
<1>1. /\ [ds EXCEPT ![d] = x] \in Seq(ToSet([ds EXCEPT ![d] = x]))
      /\ DOMAIN [ds EXCEPT ![d] = x] = DOMAIN ds
  BY SeqFacts, Zenon
<1> QED
  BY <1>1 DEF OnlyAt

LEMMA SetHashFacts ==
  ASSUME NEW ds, ds \in Seq(ToSet(ds)), NEW d \in DOMAIN ds, DirRecord(ds[d]), NEW h, NEW ds2,
         ds2 = SetHash(ds, d, h)
  PROVE  /\ OnlyAt(ds, ds2, d) /\ DirRecord(ds2[d])
         /\ ds2[d].hash = h /\ ds2[d].entries = ds[d].entries
<1>1. PICK x : x = [ds[d] EXCEPT !.hash = h]
  OBVIOUS
<1>2. DirRecord(x) /\ x.hash = h /\ x.entries = ds[d].entries
  BY <1>1 DEF DirRecord
<1>3. ds2 = [ds EXCEPT ![d] = x]
  BY <1>1 DEF SetHash
<1> QED
  BY <1>2, <1>3, SetDirFacts

LEMMA SetEntryFacts ==
  ASSUME NEW ds, ds \in Seq(ToSet(ds)), NEW d \in DOMAIN ds, DirRecord(ds[d]),
         NEW n \in DOMAIN ds[d].entries, NEW e, NEW ds2,
         ds2 = SetEntry(ds, d, n, e)
  PROVE  /\ OnlyAt(ds, ds2, d) /\ DirRecord(ds2[d])
         /\ ds2[d].hash = ds[d].hash /\ DOMAIN ds2[d].entries = DOMAIN ds[d].entries
         /\ ds2[d].entries[n] = e
         /\ \A m \in DOMAIN ds[d].entries : m # n => ds2[d].entries[m] = ds[d].entries[m]
<1>1. PICK x : x = [ds[d] EXCEPT !.entries[n] = e]
  OBVIOUS
<1>2. PICK es : es = [ds[d].entries EXCEPT ![n] = e]
  OBVIOUS
<1>3. /\ DOMAIN es = DOMAIN ds[d].entries /\ es = [m \in DOMAIN es |-> es[m]]
      /\ es[n] = e /\ \A m \in DOMAIN ds[d].entries : m # n => es[m] = ds[d].entries[m]
  BY <1>2
<1>4. x = [ds[d] EXCEPT !.entries = es]
  BY <1>1, <1>2
<1>5. DirRecord(x) /\ x.hash = ds[d].hash /\ x.entries = es
  BY <1>3, <1>4 DEF DirRecord
<1>6. ds2 = [ds EXCEPT ![d] = x]
  BY <1>1 DEF SetEntry
<1>7. OnlyAt(ds, ds2, d) /\ ds2[d] = x
  BY <1>6, SetDirFacts
<1> QED
  BY <1>3, <1>5, <1>7

LEMMA PutEntryFacts ==
  ASSUME NEW ds, ds \in Seq(ToSet(ds)), NEW d \in DOMAIN ds, DirRecord(ds[d]),
         NEW n, NEW e, NEW ds2,
         ds2 = PutEntry(ds, d, n, e)
  PROVE  /\ OnlyAt(ds, ds2, d) /\ DirRecord(ds2[d])
         /\ ds2[d].hash = ds[d].hash /\ DOMAIN ds2[d].entries = DOMAIN ds[d].entries \union {n}
         /\ ds2[d].entries[n] = e
         /\ \A m \in DOMAIN ds[d].entries : m # n => ds2[d].entries[m] = ds[d].entries[m]
<1>1. PICK es : es = With(ds[d].entries, n, e)
  OBVIOUS
<1>2. /\ DOMAIN es = DOMAIN ds[d].entries \union {n} /\ es = [m \in DOMAIN es |-> es[m]]
      /\ es[n] = e /\ \A m \in DOMAIN ds[d].entries : m # n => es[m] = ds[d].entries[m]
  BY <1>1 DEF With
<1>3. PICK x : x = [ds[d] EXCEPT !.entries = es]
  OBVIOUS
<1>4. DirRecord(x) /\ x.hash = ds[d].hash /\ x.entries = es
  BY <1>2, <1>3 DEF DirRecord
<1>5. ds2 = [ds EXCEPT ![d] = x]
  BY <1>1, <1>3 DEF PutEntry
<1>6. OnlyAt(ds, ds2, d) /\ ds2[d] = x
  BY <1>5, SetDirFacts
<1> QED
  BY <1>2, <1>4, <1>6

\* ds is the heap with entry n of directory d changed at most, and that to one that
\* fits, or with its hash cleared.
Refits(ds, d, n, loc2, fit2) ==
  /\ OnlyAt(dirs, ds, d) /\ ds[d].hash \in {dirs[d].hash, NoHash}
  /\ Names(d) \subseteq DOMAIN ds[d].entries /\ DOMAIN ds[d].entries \subseteq Names(d) \union {n}
  /\ \A m \in Names(d) : m # n => ds[d].entries[m] = Entries(d)[m]
  /\ n \in Names(d) /\ Entries(d)[n].kind = "dir" => ds[d].entries[n].kind = "dir"
  /\ n \in DOMAIN ds[d].entries =>
       \/ n \in Names(d) /\ ds[d].entries[n] = Entries(d)[n]
       \/ \A e : e = ds[d].entries[n] => EntryFits(loc2, fit2, Append(loc2[d], n), e)'

LEMMA RefitStep ==
  ASSUME IInv, NEW loc2, NEW fit2, NEW d \in DOMAIN dirs, NEW n, Refits(dirs', d, n, loc2, fit2)
  PROVE  /\ KindsStay /\ DOMAIN dirs' = DOMAIN dirs
         /\ \A c \in DOMAIN dirs' : Settled(loc2, fit2, c)
<1>1. DOMAIN dirs' = DOMAIN dirs /\ \A c \in DOMAIN dirs : c # d => dirs'[c] = dirs[c]
  BY DEF Refits, OnlyAt
<1>2. KindsStay
  BY <1>1 DEF KindsStay, Refits, Names, Entries
<1>3. ASSUME NEW c \in DOMAIN dirs'
      PROVE  Settled(loc2, fit2, c)
  <2>1. CASE c # d
    BY <1>1, <2>1 DEF Settled, Names, Entries
  <2>2. CASE c = d
    <3>1. \/ dirs'[c].hash = dirs[c].hash
          \/ IsDirHash(dirs'[c].hash) => <<dirs'[c].hash, loc2[c]>> \in fit2
      BY <2>2 DEF Refits, IsDirHash
    <3>2. \A m \in Names(c)' :
            \/ m \in Names(c) /\ Entries(c)'[m] = Entries(c)[m]
            \/ \A e : e = Entries(c)'[m] => EntryFits(loc2, fit2, Append(loc2[c], m), e)'
      BY <2>2 DEF Refits, Names, Entries
    <3> QED
      BY <1>1, <3>1, <3>2 DEF Settled
  <2> QED
    BY <2>1, <2>2
<1> QED
  BY <1>1, <1>2, <1>3

\* ... or not changed at all.
Refitted(ds, loc2, fit2) ==
  ds = dirs \/ \E d \in DOMAIN dirs : \E n : Refits(ds, d, n, loc2, fit2)

\* ... and a new Dir.
LEMMA RefitAppend ==
  ASSUME IInv, NEW loc2, NEW fit2, NEW ds, Refitted(ds, loc2, fit2),
         NEW x, dirs' = Append(ds, x), x.hash = NoHash, NEW new, new = Len(dirs) + 1,
         \A m \in DOMAIN x.entries : \A e :
           e = x.entries[m] => EntryFits(loc2, fit2, Append(loc2[new], m), e)'
  PROVE  /\ KindsStay /\ DOMAIN dirs' = DOMAIN dirs \union {new}
         /\ \A c \in DOMAIN dirs' : Settled(loc2, fit2, c)
<1>1. Len(dirs) \in Nat /\ DOMAIN dirs = 1..Len(dirs)
  BY HeapSizes
<1>2. dirs \in Seq(ToSet(dirs))
  BY DEF IInv, TypeOK, DirsOK
<1>0. PICK d, n : ds = dirs \/ (d \in DOMAIN dirs /\ Refits(ds, d, n, loc2, fit2))
  BY DEF Refitted
<1>3. DOMAIN ds = DOMAIN dirs /\ ds \in Seq(ToSet(ds))
  BY <1>0, <1>2 DEF Refits, OnlyAt
<1>4. Len(ds) = Len(dirs)
  BY <1>1, <1>3, SeqFacts
<1>5. /\ DOMAIN dirs' = DOMAIN dirs \union {new} /\ dirs'[new] = x
      /\ \A c \in DOMAIN dirs : dirs'[c] = ds[c]
  BY <1>1, <1>3, <1>4, SeqFacts
<1>6. KindsStay
  BY <1>0, <1>5 DEF KindsStay, Refits, OnlyAt, Names, Entries
<1>7. ASSUME NEW c \in DOMAIN dirs'
      PROVE  Settled(loc2, fit2, c)
  <2>1. CASE c \in DOMAIN dirs /\ dirs'[c] = dirs[c]
    BY <2>1 DEF Settled, Names, Entries
  <2>2. CASE c = d /\ c \in DOMAIN dirs /\ Refits(ds, d, n, loc2, fit2)
    <3>1. \/ dirs'[c].hash = dirs[c].hash
          \/ IsDirHash(dirs'[c].hash) => <<dirs'[c].hash, loc2[c]>> \in fit2
      BY <1>5, <2>2 DEF Refits, IsDirHash
    <3>2. \A m \in Names(c)' :
            \/ m \in Names(c) /\ Entries(c)'[m] = Entries(c)[m]
            \/ \A e : e = Entries(c)'[m] => EntryFits(loc2, fit2, Append(loc2[c], m), e)'
      BY <1>5, <2>2 DEF Refits, Names, Entries
    <3> QED
      BY <2>2, <3>1, <3>2 DEF Settled
  <2>3. CASE c = new
    <3>1. ~IsDirHash(dirs'[c].hash)
      BY <1>5, <2>3 DEF IsDirHash
    <3>2. \A m \in Names(c)' : \A e : e = Entries(c)'[m] => EntryFits(loc2, fit2, Append(loc2[c], m), e)'
      BY <1>5, <2>3 DEF Names, Entries
    <3> QED
      BY <3>1, <3>2 DEF Settled
  <2> QED
    BY <1>0, <1>5, <2>1, <2>2, <2>3 DEF Refits, OnlyAt
<1> QED
  BY <1>5, <1>6, <1>7

\* A directory loaded from a blob that is known at its place.
LEMMA LoadedFits ==
  ASSUME IInv', NEW fit2, NEW loc2, NEW h, NEW path, BlobFits(fit2, h, path)'
  PROVE  /\ LoadDir(h).hash = NoHash
         /\ \A m \in DOMAIN LoadDir(h).entries : \A e :
              e = LoadDir(h).entries[m] => EntryFits(loc2, fit2, Append(path, m), e)'
<1>1. /\ LoadDir(h).hash = NoHash
      /\ LoadDir(h).entries = [n \in DOMAIN Listing(h) |-> LoadedEntry(Listing(h)[n])]
  BY DEF LoadDir
<1>2. ASSUME NEW m \in DOMAIN Listing(h), NEW e, e = LoadedEntry(Listing(h)[m])
      PROVE  EntryFits(loc2, fit2, Append(path, m), e)'
  <2>1. /\ e.kind = Listing(h)[m].kind /\ e.hash = Listing(h)[m].hash
        /\ e.dir = 0 /\ e.fhash = NoHash /\ e.blobW = 0
    BY <1>2 DEF LoadedEntry
  <2>2. ListedFits(fit2, Append(path, m), Listing(h)[m])'
    BY DEF BlobFits
  <2>3. ListedFits(fit2, Append(path, m), e)'
    BY <2>1, <2>2 DEF ListedFits
  <2>4. ContentFits(Append(path, m), NoHash)'
    BY DEF ContentFits
  <2> QED
    BY <2>1, <2>3, <2>4, ZeroNil DEF EntryFits
<1> QED
  BY <1>1, <1>2

-----------------------------------------------------------------------------
(* The steps, and the places of the objects *)

LEMMA PathFacts ==
  ASSUME NEW r \in Requests
  PROVE  /\ SubSeq(r.path, 1, 0) = <<>>
         /\ \A i \in 1..Len(r.path) :
              Append(SubSeq(r.path, 1, i - 1), r.path[i]) = SubSeq(r.path, 1, i)
         /\ SubSeq(r.path, 1, Len(r.path)) = r.path
<1>1. PICK s : s = r.path
  OBVIOUS
<1>2. s \in Seq(STRING) /\ Len(s) \in Nat /\ DOMAIN s = 1..Len(s)
  BY <1>1, WayFacts
<1>3. SubSeq(s, 1, 0) = <<>>
  BY SubSeqEmpty
<1>4. SubSeq(s, 1, Len(s)) = s
  BY <1>2, SubSeqFull
<1>5. ASSUME NEW i \in 1..Len(s)
      PROVE  Append(SubSeq(s, 1, i - 1), s[i]) = SubSeq(s, 1, i)
  <2>1. PICK a, b : a = Append(SubSeq(s, 1, i - 1), s[i]) /\ b = SubSeq(s, 1, i)
    OBVIOUS
  <2>2. \A j \in 1..i : s[j] \in STRING
    BY <1>2
  <2>3. b \in Seq(STRING) /\ Len(b) = i /\ \A j \in 1..i : b[j] = s[j]
    BY <1>2, <2>1, <2>2
  <2>4. PICK c : c = SubSeq(s, 1, i - 1)
    OBVIOUS
  <2>5. c \in Seq(STRING) /\ Len(c) = i - 1 /\ \A j \in 1..(i - 1) : c[j] = s[j]
    BY <1>2, <2>2, <2>4
  <2>6. a \in Seq(STRING) /\ Len(a) = i /\ \A j \in 1..i : a[j] = s[j]
    BY <1>2, <2>1, <2>2, <2>4, <2>5
  <2>7. a = b
    BY <2>3, <2>6, SeqEqual
  <2> QED
    BY <2>1, <2>7
<1> QED
  BY <1>1, <1>3, <1>4, <1>5

\* The places with one more Dir.
Ext(loc, new, path) == [c \in DOMAIN loc \union {new} |-> IF c = new THEN path ELSE loc[c]]

LEMMA HonestAppend ==
  ASSUME IInv, IInv', NEW loc, NEW fit, Placed(loc, fit), UNCHANGED <<wr, sealed, got>>,
         rt'.dir = rt.dir, rt'.hash \in {rt.hash, NoHash},
         NEW new, new = Len(dirs) + 1, NEW path, NEW loc2, loc2 = Ext(loc, new, path),
         NEW ds, Refitted(ds, loc2, fit),
         NEW y, dirs' = Append(ds, y), y.hash = NoHash,
         \A m \in DOMAIN y.entries : \A e :
           e = y.entries[m] => EntryFits(loc2, fit, Append(path, m), e)',
         NEW p \in Procs, NEW x, g' = [g EXCEPT ![p] = x], LocalFits(loc2, x)'
  PROVE  Honest'
<1>1. Len(dirs) \in Nat /\ DOMAIN dirs = 1..Len(dirs) /\ DOMAIN loc = DOMAIN dirs
  BY HeapSizes DEF Placed
<1>2. /\ DOMAIN loc2 = DOMAIN dirs \union {new} /\ loc2[new] = path
      /\ \A c \in DOMAIN dirs : loc2[c] = loc[c]
  BY <1>1 DEF Ext
<1>3. \A m \in DOMAIN y.entries : \A e :
        e = y.entries[m] => EntryFits(loc2, fit, Append(loc2[new], m), e)'
  BY <1>2
<1>4. /\ KindsStay /\ DOMAIN dirs' = DOMAIN dirs \union {new}
      /\ \A c \in DOMAIN dirs' : Settled(loc2, fit, c)
  BY <1>3, RefitAppend
<1> QED
  BY <1>2, <1>4, HonestHeap

LEMMA HonestLoad ==
  ASSUME IInv, IInv', NEW loc, NEW fit, Placed(loc, fit), UNCHANGED <<wr, sealed, got>>,
         rt'.dir = rt.dir, rt'.hash \in {rt.hash, NoHash},
         NEW new, new = Len(dirs) + 1, NEW path, NEW loc2, loc2 = Ext(loc, new, path),
         NEW ds, Refitted(ds, loc2, fit),
         NEW h, <<h, path>> \in fit, dirs' = Append(ds, LoadDir(h)),
         NEW p \in Procs, NEW x, g' = [g EXCEPT ![p] = x], LocalFits(loc2, x)'
  PROVE  Honest'
<1>1. \A m \in DOMAIN Listing(h) : ListedFits(fit, Append(path, m), Listing(h)[m])
  BY DEF Placed, BlobFits
<1>2. BlobFits(fit, h, path)'
  BY <1>1 DEF BlobFits, ListedFits, ContentFits
<1>3. PICK y : y = LoadDir(h)
  OBVIOUS
<1>4. /\ y.hash = NoHash
      /\ \A m \in DOMAIN y.entries : \A e :
           e = y.entries[m] => EntryFits(loc2, fit, Append(path, m), e)'
  BY <1>2, <1>3, LoadedFits
<1> QED
  BY <1>3, <1>4, HonestAppend

\* An entry of a Dir that is there is changed.
LEMMA HonestRefit ==
  ASSUME IInv, IInv', NEW loc, NEW fit, Placed(loc, fit), UNCHANGED <<wr, sealed, got>>,
         rt'.dir = rt.dir, rt'.hash \in {rt.hash, NoHash},
         NEW d \in DOMAIN dirs, NEW n, Refits(dirs', d, n, loc, fit),
         NEW p \in Procs, NEW x, g' = [g EXCEPT ![p] = x], LocalFits(loc, x)'
  PROVE  Honest'
<1>1. /\ KindsStay /\ DOMAIN dirs' = DOMAIN dirs
      /\ \A c \in DOMAIN dirs' : Settled(loc, fit, c)
  BY RefitStep
<1>2. DOMAIN loc = DOMAIN dirs
  BY DEF Placed
<1> QED
  BY <1>1, <1>2, HonestHeap

\* What a writer passes: a cleared hash fits everywhere.
LEMMA PassedFacts ==
  ASSUME IInv, NEW p \in Procs
  PROVE  /\ RootPassed(p).dir = rt.dir /\ RootPassed(p).hash \in {rt.hash, NoHash}
         /\ \A d \in DOMAIN dirs :
              /\ OnlyAt(dirs, DirPassed(p, d), d) /\ DirRecord(DirPassed(p, d)[d])
              /\ DirPassed(p, d)[d].hash \in {dirs[d].hash, NoHash}
              /\ DirPassed(p, d)[d].entries = Entries(d)
<1>1. /\ RootPassed(p).dir = rt.dir /\ RootPassed(p).hash \in {rt.hash, NoHash}
  BY DEF RootPassed, IInv, TypeOK, RtOK
<1>2. ASSUME NEW d \in DOMAIN dirs
      PROVE  /\ OnlyAt(dirs, DirPassed(p, d), d) /\ DirRecord(DirPassed(p, d)[d])
             /\ DirPassed(p, d)[d].hash \in {dirs[d].hash, NoHash}
             /\ DirPassed(p, d)[d].entries = Entries(d)
  <2>1. DirRecord(dirs[d]) /\ dirs \in Seq(ToSet(dirs))
    BY DirIsRecord
  <2>2. PICK ds : ds = [dirs EXCEPT ![d].hash = NoHash]
    OBVIOUS
  <2>3. /\ OnlyAt(dirs, ds, d) /\ DirRecord(ds[d])
        /\ ds[d].hash = NoHash /\ ds[d].entries = dirs[d].entries
    <3>1. ds = SetHash(dirs, d, NoHash)
      BY <2>2 DEF SetHash
    <3> QED
      BY <2>1, <3>1, SetHashFacts
  <2>4. DirPassed(p, d) = ds \/ DirPassed(p, d) = dirs
    BY <2>2 DEF DirPassed
  <2> QED
    BY <2>1, <2>3, <2>4 DEF OnlyAt, Entries
<1> QED
  BY <1>1, <1>2

LEMMA PassedRefits ==
  ASSUME IInv, NEW p \in Procs, NEW d \in DOMAIN dirs, NEW n, NEW ds, ds = DirPassed(p, d),
         NEW loc2, NEW fit2
  PROVE  Refits(ds, d, n, loc2, fit2) /\ Refitted(ds, loc2, fit2)
<1>1. Refits(ds, d, n, loc2, fit2)
  BY PassedFacts DEF Refits, Names, Entries
<1> QED
  BY <1>1 DEF Refitted

LEMMA EntryPassedFits ==
  ASSUME NEW loc, NEW fit, NEW path, NEW e \in EntrySet, e.kind = "dir",
         EntryFits(loc, fit, path, e), NEW p \in Procs
  PROVE  EntryFits(loc, fit, path, EntryPassed(p, e)) /\ EntryPassed(p, e) \in EntrySet
<1>1. PICK x : x = EntryPassed(p, e)
  OBVIOUS
<1>2. /\ x.kind = e.kind /\ x.dir = e.dir /\ x.hash \in {e.hash, NoHash} /\ x.fhash = e.fhash
      /\ x.blobW = e.blobW /\ x \in EntrySet
  <2>1. NoHash \in Ref
    BY DEF Ref
  <2> QED
    BY <1>1, <2>1 DEF EntryPassed, EntrySet
<1>3. ~IsDirHash(NoHash)
  BY DEF IsDirHash
<1> QED
  BY <1>1, <1>2, <1>3 DEF EntryFits, ListedFits

LEMMA BeginHonest ==
  ASSUME IInv, IInv', Honest, NEW p \in Procs, NEW r \in Requests, Begin(p, r)
  PROVE  Honest'
<1>1. PICK loc, fit : Placed(loc, fit)
  BY DEF Honest
<1>2. UNCHANGED <<rt, dirs, wr, sealed, got>>
  BY DEF Begin, heap, obs
<1> DEFINE hashes == r.op \in {"save", "diff"}
           dirty  == ~rt.readonly /\ rt.dir # 0
<1>3. PICK x : x = [Idle EXCEPT
                      !.req  = r,
                      !.must = IF r.op \in {"save", "read"} THEN [f \in Paths |-> sealed[f].now]
                                                            ELSE @,
                      !.stk  = IF hashes /\ dirty THEN <<RootFrame(rt.dir)>> ELSE @,
                      !.at   = IF ~hashes THEN "getDir" ELSE IF dirty THEN "hash" ELSE "rootReady"]
  OBVIOUS
<1>5. g' = [g EXCEPT ![p] = x]
  BY <1>3 DEF Begin
<1>6. x.at \in {"getDir", "hash", "rootReady"} /\ x.i = 1
  BY <1>3 DEF Idle
<1>4. LocalFits(loc, x)'
  BY <1>6 DEF LocalFits, Walking, Ops
<1> QED
  BY <1>1, <1>2, <1>5, <1>4, HonestMove

LEMMA GetDirHonest ==
  ASSUME IInv, IInv', Honest, NEW p \in Procs, GetDir(p)
  PROVE  Honest'
<1>1. PICK loc, fit : Placed(loc, fit)
  BY DEF Honest
<1>2. UNCHANGED <<wr, sealed, got>> /\ g[p].at = "getDir"
  BY DEF GetDir, obs
<1>3. g[p].i = 1 /\ g[p].req \in Requests
  BY <1>1, <1>2, LocalFacts DEF Placed, LocalFits
<1>4. CASE Return(p) /\ UNCHANGED <<rt, dirs>>
  BY <1>2, <1>4, HonestReturn
<1>5. CASE /\ rt.dir # 0 /\ rt' = RootPassed(p) /\ UNCHANGED dirs
           /\ g' = [g EXCEPT ![p].at = "walk", ![p].d = rt.dir]
  <2>1. PICK x : x = [g[p] EXCEPT !.at = "walk", !.d = rt.dir]
    OBVIOUS
  <2>2. g' = [g EXCEPT ![p] = x]
    BY <1>5, <2>1
  <2>3. x.at = "walk" /\ x.d = rt.dir /\ x.i = 1 /\ x.req = g[p].req
    BY <1>3, <2>1, LocalRecord
  <2>4. loc[x.d] = SubSeq(x.req.path, 1, x.i - 1)
    <3>1. rt.dir \in DOMAIN dirs
      BY <1>5, HeapSizes DEF IInv, TypeOK, RtOK
    <3>2. SubSeq(x.req.path, 1, 0) = <<>>
      BY SubSeqEmpty
    <3>3. x.i - 1 = 0
      BY <2>3
    <3>4. loc[rt.dir] = <<>>
      BY <1>1, <3>1 DEF Placed, RootFits
    <3> QED
      BY <2>3, <3>2, <3>3, <3>4
  <2>5. 1 \in 1..(Len(Way(x.req)) + 1)
    BY <1>3, <2>3, WayFacts
  <2>6. LocalFits(loc, x)'
    BY <2>3, <2>4, <2>5 DEF LocalFits, Ops
  <2> QED
    BY <1>1, <1>2, <1>5, <2>2, <2>6, PassedFacts, HonestMove
<1>6. CASE /\ Loadable(rt.hash) /\ UNCHANGED rt
           /\ dirs' = Append(dirs, LoadDir(rt.hash))
           /\ g' = [g EXCEPT ![p].at = "setRootDir", ![p].new = Len(dirs) + 1]
  <2>1. PICK x, new : x = [g[p] EXCEPT !.at = "setRootDir", !.new = new] /\ new = Len(dirs) + 1
    OBVIOUS
  <2>2. PICK h, loc2 : h = rt.hash /\ loc2 = Ext(loc, new, <<>>)
    OBVIOUS
  <2>3. g' = [g EXCEPT ![p] = x]
    BY <1>6, <2>1
  <2>4. x.at = "setRootDir" /\ x.new = new /\ x.i = 1 /\ x.req = g[p].req
    BY <1>3, <2>1, LocalRecord
  <2>5. LocalFits(loc2, x)'
    BY <2>2, <2>4 DEF LocalFits, Ext, Walking, Ops
  <2>6. <<h, <<>>>> \in fit
    BY <1>1, <1>6, <2>2 DEF Placed, RootFits, Loadable
  <2>7. Refitted(dirs, loc2, fit)
    BY DEF Refitted
  <2> QED
    BY <1>1, <1>2, <1>6, <2>1, <2>2, <2>3, <2>5, <2>6, <2>7, HonestLoad
<1> QED
  BY <1>4, <1>5, <1>6 DEF GetDir

LEMMA SetRootDirHonest ==
  ASSUME IInv, IInv', Honest, NEW p \in Procs, SetRootDir(p)
  PROVE  Honest'
<1>1. PICK loc, fit : Placed(loc, fit)
  BY DEF Honest
<1>2. UNCHANGED <<dirs, wr, sealed, got>> /\ g[p].at = "setRootDir"
  BY DEF SetRootDir, obs
<1>3. g[p].i = 1 /\ g[p].req \in Requests /\ loc[g[p].new] = <<>>
  BY <1>1, <1>2, LocalFacts DEF Placed, LocalFits
<1>4. PICK x : x = [g[p] EXCEPT !.at = "walk", !.d = g[p].new]
  OBVIOUS
<1>5. x.at = "walk" /\ x.d = g[p].new /\ x.i = 1 /\ x.req = g[p].req
  BY <1>3, <1>4, LocalRecord
<1>6. g' = [g EXCEPT ![p] = x]
  BY <1>4 DEF SetRootDir
<1>7. \A q \in Procs : g'[q] = IF q = p THEN x ELSE g[q]
  BY <1>6 DEF IInv, TypeOK
<1>8. SubSeq(x.req.path, 1, 0) = <<>> /\ 1 \in 1..(Len(Way(x.req)) + 1)
  BY <1>3, <1>5, WayFacts, SubSeqEmpty
<1>9. LocalFits(loc, x)'
  <2>1. x.i - 1 = 0
    BY <1>5
  <2>2. loc[x.d] = SubSeq(x.req.path, 1, x.i - 1)
    BY <1>3, <1>5, <1>8, <2>1
  <2> QED
    BY <1>5, <1>8, <2>2 DEF LocalFits, Ops
<1>10. rt'.dir = g[p].new /\ rt'.hash \in {rt.hash, NoHash}
  BY DEF SetRootDir, RootPassed, IInv, TypeOK, RtOK
<1>11. RootFits(loc, fit)'
  BY <1>1, <1>3, <1>10 DEF RootFits, Placed, IsDirHash
<1>12. WrittenOnce'
  BY <1>1, <1>2 DEF Placed, WrittenOnce
<1> QED
  BY <1>1, <1>2, <1>7, <1>9, <1>11, <1>12, HonestSame

\* Where getDir is while there are names to go through.
LEMMA OnTheWay ==
  ASSUME IInv, NEW loc, NEW fit, Placed(loc, fit), NEW p \in Procs,
         g[p].at \in {"walk", "setDir", "mkdir"}, g[p].i <= Len(DirPart(p)),
         NEW d, d = g[p].d, NEW n, n = DirPart(p)[g[p].i]
  PROVE  /\ d \in DOMAIN dirs /\ g[p].req \in Requests /\ n = g[p].req.path[g[p].i]
         /\ g[p].i \in 1..Len(Way(g[p].req)) /\ DirPart(p) = Way(g[p].req)
         /\ Append(loc[d], n) = SubSeq(g[p].req.path, 1, g[p].i)
         /\ g[p].at = "setDir" => /\ loc[g[p].new] = SubSeq(g[p].req.path, 1, g[p].i)
                                  /\ n \in Names(d) /\ Entries(d)[n].kind = "dir"
                                  /\ g[p].new \in DOMAIN dirs
<1>1. PICK r, i : r = g[p].req /\ i = g[p].i
  OBVIOUS
<1>2. /\ r \in Requests /\ DirPart(p) = Way(r) /\ d \in DOMAIN dirs /\ g[p].at \in Walking
      /\ g[p].at = "setDir" => n \in Names(d) /\ g[p].new \in DOMAIN dirs
  BY <1>1, LocalFacts DEF Walking
<1>3. LocalFits(loc, g[p])
  BY DEF Placed
<1>4. /\ i \in 1..(Len(Way(r)) + 1) /\ loc[d] = SubSeq(r.path, 1, i - 1)
      /\ g[p].at = "setDir" => /\ loc[g[p].new] = SubSeq(r.path, 1, i)
                               /\ Entries(d)[r.path[i]].kind = "dir"
  BY <1>1, <1>2, <1>3 DEF LocalFits
<1>5. i \in 1..Len(Way(r)) /\ i \in 1..Len(r.path)
  BY <1>1, <1>2, <1>4, WayFacts
<1>6. n = r.path[i]
  BY <1>1, <1>2, <1>5, WayFacts
<1>7. Append(SubSeq(r.path, 1, i - 1), r.path[i]) = SubSeq(r.path, 1, i)
  BY <1>2, <1>5, PathFacts
<1> QED
  BY <1>1, <1>2, <1>4, <1>5, <1>6, <1>7

\* getDir is one name further.
LEMMA AdvanceFits ==
  ASSUME IInv, NEW p \in Procs, g[p].req \in Requests, g[p].i \in 1..Len(Way(g[p].req)),
         NEW loc2, NEW d2, loc2[d2] = SubSeq(g[p].req.path, 1, g[p].i),
         NEW x, x.at = "walk", x.d = d2, x.i = g[p].i + 1, x.req = g[p].req
  PROVE  LocalFits(loc2, x)'
<1>1. x.i \in 1..(Len(Way(x.req)) + 1) /\ x.i - 1 = g[p].i
  BY WayFacts
<1> QED
  BY <1>1 DEF LocalFits, Ops

\* An entry of a Dir that fits its place.
LEMMA EntryPlaced ==
  ASSUME IInv, NEW loc, NEW fit, Placed(loc, fit), NEW d \in DOMAIN dirs, NEW n \in Names(d)
  PROVE  /\ Entries(d)[n] \in EntrySet /\ EntryFits(loc, fit, Append(loc[d], n), Entries(d)[n])
BY EntryFacts DEF Placed, DirFits

\* Only what the heap says of an entry matters to its place.
LEMMA EntryFitsLater ==
  ASSUME IInv, IInv', NEW loc, NEW fit, NEW loc2, Placed(loc, fit), UNCHANGED <<wr, sealed>>,
         DOMAIN loc2 = DOMAIN dirs', DOMAIN dirs \subseteq DOMAIN dirs',
         \A d \in DOMAIN dirs : loc2[d] = loc[d],
         NEW path, NEW e \in EntrySet, EntryFits(loc, fit, path, e)
  PROVE  EntryFits(loc2, fit, path, e)'
<1>1. Grows(loc, fit, loc2, fit)
  BY DEF Grows
<1> QED
  BY <1>1, EntryKeptFits

\* SetEntry after the directory was passed.
LEMMA SetPassedRefits ==
  ASSUME IInv, NEW p \in Procs, NEW d \in DOMAIN dirs, NEW n \in Names(d),
         NEW e, e.kind = Entries(d)[n].kind, NEW loc2, NEW fit2,
         EntryFits(loc2, fit2, Append(loc2[d], n), e)',
         NEW ds, ds = DirPassed(p, d) \/ ds = dirs, NEW ds2, ds2 = SetEntry(ds, d, n, e)
  PROVE  Refits(ds2, d, n, loc2, fit2) /\ Refitted(ds2, loc2, fit2)
<1>1. /\ OnlyAt(dirs, ds, d) /\ DirRecord(ds[d]) /\ ds \in Seq(ToSet(ds))
      /\ ds[d].hash \in {dirs[d].hash, NoHash} /\ ds[d].entries = Entries(d)
  BY PassedFacts, DirIsRecord DEF OnlyAt, Entries
<1>2. d \in DOMAIN ds /\ n \in DOMAIN ds[d].entries
  BY <1>1 DEF OnlyAt, Names
<1>3. /\ OnlyAt(ds, ds2, d)
      /\ ds2[d].hash = ds[d].hash /\ DOMAIN ds2[d].entries = DOMAIN ds[d].entries
      /\ ds2[d].entries[n] = e
      /\ \A m \in DOMAIN ds[d].entries : m # n => ds2[d].entries[m] = ds[d].entries[m]
  BY <1>1, <1>2, SetEntryFacts
<1>4. OnlyAt(dirs, ds2, d)
  BY <1>1, <1>3 DEF OnlyAt
<1>5. \A f : f = ds2[d].entries[n] => EntryFits(loc2, fit2, Append(loc2[d], n), f)'
  BY <1>3
<1>6. /\ Names(d) \subseteq DOMAIN ds2[d].entries /\ DOMAIN ds2[d].entries \subseteq Names(d) \union {n}
      /\ ds2[d].hash \in {dirs[d].hash, NoHash}
      /\ \A m \in Names(d) : m # n => ds2[d].entries[m] = Entries(d)[m]
      /\ n \in Names(d) /\ Entries(d)[n].kind = "dir" => ds2[d].entries[n].kind = "dir"
  BY <1>1, <1>3 DEF Names
<1>7. Refits(ds2, d, n, loc2, fit2)
  BY <1>4, <1>5, <1>6 DEF Refits
<1> QED
  BY <1>7 DEF Refitted

LEMMA WalkHonest ==
  ASSUME IInv, IInv', Honest, NEW p \in Procs, Walk(p)
  PROVE  Honest'
<1>1. PICK loc, fit : Placed(loc, fit)
  BY DEF Honest
<1>2. PICK d, n, e, ds : /\ d = g[p].d /\ n = DirPart(p)[g[p].i]
                         /\ e = Entries(d)[n] /\ ds = DirPassed(p, d)
  OBVIOUS
<1>a. UNCHANGED <<rt, wr, obs>> /\ g[p].at = "walk"
  BY Zenon DEF Walk
<1>b. g[p].i <= Len(DirPart(p))
  BY Zenon DEF Walk
<1>3. UNCHANGED <<rt, wr, sealed, got>> /\ g[p].at = "walk" /\ g[p].i <= Len(DirPart(p))
  BY <1>a, <1>b DEF obs
<1>4. PICK r, i : r = g[p].req /\ i = g[p].i
  OBVIOUS
<1>5. /\ d \in DOMAIN dirs /\ r \in Requests /\ n = r.path[i] /\ i \in 1..Len(Way(r))
      /\ Append(loc[d], n) = SubSeq(r.path, 1, i)
  BY <1>1, <1>2, <1>3, <1>4, OnTheWay
<1>6. /\ DOMAIN loc = DOMAIN dirs /\ Refits(ds, d, n, loc, fit)
      /\ \A loc2 : Refitted(ds, loc2, fit)
  BY <1>1, <1>2, <1>5, PassedRefits DEF Placed
<1>7. n \in Names(d) => e \in EntrySet /\ EntryFits(loc, fit, Append(loc[d], n), e)
  BY <1>1, <1>2, <1>5, EntryPlaced
<1>8. CASE dirs' = ds /\ Return(p)
  <2>1. PICK x : x = Idle
    OBVIOUS
  <2>2. g' = [g EXCEPT ![p] = x] /\ LocalFits(loc, x)'
    BY <1>8, <2>1, IdleFits DEF Return
  <2>3. Refits(dirs', d, n, loc, fit)
    BY <1>6, <1>8
  <2> QED
    BY <1>1, <1>3, <1>5, <2>2, <2>3, HonestRefit
<1>9. CASE dirs' = ds /\ Goto(p, "mkdir")
  <2>1. PICK x : x = [g[p] EXCEPT !.at = "mkdir"]
    OBVIOUS
  <2>2. g' = [g EXCEPT ![p] = x]
    BY <1>9, <2>1 DEF Goto
  <2>3. x.at = "mkdir" /\ x.d = d /\ x.i = i /\ x.req = r
    BY <1>2, <1>4, <2>1, LocalRecord
  <2>4. /\ i <= Len(Way(r)) /\ i \in 1..(Len(Way(r)) + 1)
        /\ loc[d] = SubSeq(r.path, 1, i - 1)
    <3>1. "walk" \in Walking
      BY DEF Walking
    <3> QED
      BY <1>1, <1>2, <1>3, <1>4, <1>5, <3>1, WayFacts DEF Placed, LocalFits
  <2>5. LocalFits(loc, x)'
    BY <2>3, <2>4 DEF LocalFits, Ops
  <2>6. Refits(dirs', d, n, loc, fit)
    BY <1>6, <1>9
  <2> QED
    BY <1>1, <1>3, <1>5, <2>2, <2>5, <2>6, HonestRefit
<1>10. CASE /\ n \in Names(d) /\ e.kind = "dir" /\ e.dir # 0
            /\ dirs' = [ds EXCEPT ![d].entries[n] = EntryPassed(p, e)]
            /\ Advance(p, e.dir)
  <2>1. PICK x, f : x = [g[p] EXCEPT !.at = "walk", !.d = e.dir, !.i = @ + 1] /\ f = EntryPassed(p, e)
    OBVIOUS
  <2>2. g' = [g EXCEPT ![p] = x]
    BY <1>10, <2>1 DEF Advance
  <2>3. e.dir \in DOMAIN dirs
    BY <1>7, <1>10, HeapSizes DEF EntrySet
  <2>4. loc[e.dir] = SubSeq(r.path, 1, i)
    BY <1>5, <1>7, <1>10, <2>3 DEF EntryFits
  <2>5. LocalFits(loc, x)'
    <3>1. x.at = "walk" /\ x.d = e.dir /\ x.i = g[p].i + 1 /\ x.req = g[p].req
      BY <2>1, LocalRecord
    <3> QED
      BY <1>4, <1>5, <2>4, <3>1, AdvanceFits
  <2>6. EntryFits(loc, fit, Append(loc[d], n), f) /\ f \in EntrySet /\ f.kind = e.kind
    <3>1. f.kind = e.kind
      BY <1>7, <1>10, <2>1 DEF EntryPassed, EntrySet
    <3> QED
      BY <1>7, <1>10, <2>1, <3>1, EntryPassedFits
  <2>7. dirs' = SetEntry(ds, d, n, f)
    BY <1>10, <2>1 DEF SetEntry
  <2>8. DOMAIN dirs' = DOMAIN dirs
    BY <1>6, <2>7 DEF SetEntry, Refits, OnlyAt
  <2>9. EntryFits(loc, fit, Append(loc[d], n), f)'
    BY <1>1, <1>3, <1>6, <2>6, <2>8, EntryFitsLater
  <2>10. Refits(dirs', d, n, loc, fit)
    <3>1. f.kind = Entries(d)[n].kind /\ n \in Names(d)
      BY <1>2, <1>10, <2>6
    <3> QED
      BY <1>2, <1>5, <2>7, <2>9, <3>1, SetPassedRefits
  <2> QED
    BY <1>1, <1>3, <1>5, <2>2, <2>5, <2>10, HonestRefit
<1>11. CASE /\ n \in Names(d) /\ e.kind = "dir" /\ Loadable(e.hash)
            /\ dirs' = Append(ds, LoadDir(e.hash))
            /\ g' = [g EXCEPT ![p].at = "setDir", ![p].new = Len(dirs) + 1, ![p].id = e.id]
  <2>a. PICK new : new = Len(dirs) + 1
    OBVIOUS
  <2>1. PICK x : x = [g[p] EXCEPT !.at = "setDir", !.new = new, !.id = e.id]
    OBVIOUS
  <2>2. PICK path, loc2 : path = Append(loc[d], n) /\ loc2 = Ext(loc, new, path)
    OBVIOUS
  <2>3. g' = [g EXCEPT ![p] = x]
    BY <1>11, <2>a, <2>1
  <2>4. x.at = "setDir" /\ x.new = new /\ x.i = i /\ x.req = r /\ x.d = d
    BY <1>2, <1>4, <2>1, LocalRecord
  <2>5. /\ i <= Len(Way(r)) /\ i \in 1..(Len(Way(r)) + 1)
        /\ loc[d] = SubSeq(r.path, 1, i - 1)
    <3>1. "walk" \in Walking
      BY DEF Walking
    <3> QED
      BY <1>1, <1>2, <1>3, <1>4, <1>5, <3>1, WayFacts DEF Placed, LocalFits
  <2>6. loc2[d] = loc[d] /\ loc2[new] = path
    BY <1>5, <1>6, <2>a, <2>2, HeapSizes DEF Ext
  <2>7. Entries(d)'[n].kind = "dir"
    <3>1. Refitted(ds, loc2, fit) /\ LoadDir(e.hash).hash = NoHash
      BY <1>6 DEF LoadDir
    <3>2. ds \in Seq(ToSet(ds)) /\ DOMAIN ds = DOMAIN dirs
      BY <1>6 DEF Refits, OnlyAt
    <3>3. dirs'[d] = ds[d]
      BY <1>5, <1>11, <3>2, SeqFacts
    <3>4. ds[d].entries = Entries(d)
      BY <1>2, <1>5, PassedFacts
    <3>5. Entries(d)' = Entries(d)
      BY <3>3, <3>4 DEF Entries
    <3> QED
      BY <1>2, <1>11, <3>5
  <2>8. LocalFits(loc2, x)'
    BY <1>5, <2>2, <2>4, <2>5, <2>6, <2>7 DEF LocalFits, Ops
  <2>9. <<e.hash, path>> \in fit
    BY <1>7, <1>11, <2>2 DEF EntryFits, ListedFits, Loadable
  <2> QED
    <3>1. /\ Refitted(ds, loc2, fit) /\ rt'.dir = rt.dir /\ rt'.hash \in {rt.hash, NoHash}
          /\ UNCHANGED <<wr, sealed, got>>
      BY <1>3, <1>6
    <3>2. PICK h : h = e.hash
      OBVIOUS
    <3>3. dirs' = Append(ds, LoadDir(h)) /\ <<h, path>> \in fit
      BY <1>11, <2>9, <3>2
    <3> QED
      BY <1>1, <2>a, <2>2, <2>3, <2>8, <3>1, <3>3, HonestLoad
<1>12. \/ dirs' = ds /\ Return(p)
       \/ dirs' = ds /\ Goto(p, "mkdir")
       \/ /\ n \in Names(d) /\ e.kind = "dir" /\ e.dir # 0
          /\ dirs' = [ds EXCEPT ![d].entries[n] = EntryPassed(p, e)]
          /\ Advance(p, e.dir)
       \/ /\ n \in Names(d) /\ e.kind = "dir" /\ Loadable(e.hash)
          /\ dirs' = Append(ds, LoadDir(e.hash))
          /\ g' = [g EXCEPT ![p].at = "setDir", ![p].new = Len(dirs) + 1, ![p].id = e.id]
  <2>1. CASE n \in Names(d) /\ e.kind # "dir"
    BY <1>2, <2>1, Zenon DEF Walk
  <2>2. CASE n \in Names(d) /\ e.kind = "dir"
    BY <1>2, <2>2, Zenon DEF Walk
  <2>3. CASE n \notin Names(d)
    BY <1>2, <2>3, Zenon DEF Walk
  <2> QED
    BY <2>1, <2>2, <2>3
<1> QED
  BY <1>8, <1>9, <1>10, <1>11, <1>12

LEMMA SetDirHonest ==
  ASSUME IInv, IInv', Honest, NEW p \in Procs, SetDir(p)
  PROVE  Honest'
<1>1. PICK loc, fit : Placed(loc, fit)
  BY DEF Honest
<1>2. PICK d, n, e, y, new : /\ d = g[p].d /\ n = DirPart(p)[g[p].i] /\ e = Entries(d)[n]
                             /\ new = g[p].new /\ y = [EntryPassed(p, e) EXCEPT !.dir = new]
  OBVIOUS
<1>3. /\ UNCHANGED <<rt, wr, sealed, got>> /\ g[p].at = "setDir" /\ Advance(p, new)
      /\ dirs' = Update(d, n, g[p].id, y)
  BY <1>2 DEF SetDir, obs
<1>4. PICK r, i, x : /\ r = g[p].req /\ i = g[p].i
                     /\ x = [g[p] EXCEPT !.at = "walk", !.d = new, !.i = @ + 1]
  OBVIOUS
<1>5. g[p].i <= Len(DirPart(p))
  <2>1. "setDir" \in Walking
    BY DEF Walking
  <2> QED
    BY <1>1, <1>3, <2>1, LocalFacts DEF Placed, LocalFits
<1>6. /\ d \in DOMAIN dirs /\ r \in Requests /\ i \in 1..Len(Way(r))
      /\ Append(loc[d], n) = SubSeq(r.path, 1, i) /\ loc[new] = SubSeq(r.path, 1, i)
      /\ n \in Names(d) /\ e.kind = "dir" /\ new \in DOMAIN dirs
  BY <1>1, <1>2, <1>3, <1>4, <1>5, OnTheWay
<1>7. DOMAIN loc = DOMAIN dirs /\ e \in EntrySet /\ EntryFits(loc, fit, Append(loc[d], n), e)
  BY <1>1, <1>2, <1>6, EntryPlaced DEF Placed
<1>8. g' = [g EXCEPT ![p] = x] /\ LocalFits(loc, x)'
  <2>1. x.at = "walk" /\ x.d = new /\ x.i = g[p].i + 1 /\ x.req = g[p].req
    BY <1>4, LocalRecord
  <2> QED
    BY <1>3, <1>4, <1>6, <2>1, AdvanceFits DEF Advance
<1>9. PICK f : f = EntryPassed(p, e)
  OBVIOUS
<1>10. f \in EntrySet /\ f.kind = "dir" /\ EntryFits(loc, fit, Append(loc[d], n), f)
  <2>1. f.kind = e.kind
    BY <1>7, <1>9 DEF EntryPassed, EntrySet
  <2> QED
    BY <1>6, <1>7, <1>9, <2>1, EntryPassedFits
<1>11. /\ y.kind = "dir" /\ y.hash = f.hash /\ y.fhash = f.fhash /\ y.blobW = f.blobW
       /\ y.dir = new /\ y \in EntrySet
  <2>1. new \in 0..Len(dirs)
    BY <1>6, HeapSizes
  <2> QED
    BY <1>2, <1>9, <1>10, <2>1 DEF EntrySet
<1>12. EntryFits(loc, fit, Append(loc[d], n), y)
  BY <1>6, <1>10, <1>11 DEF EntryFits, ListedFits
<1>13. dirs' = dirs \/ dirs' = SetEntry(dirs, d, n, y)
  BY <1>3 DEF Update, SetEntry
<1>14. CASE dirs' = dirs
  BY <1>1, <1>3, <1>8, <1>14, HonestMove
<1>15. CASE dirs' = SetEntry(dirs, d, n, y)
  <2>1. DOMAIN dirs' = DOMAIN dirs
    BY <1>15 DEF SetEntry
  <2>2. EntryFits(loc, fit, Append(loc[d], n), y)'
    BY <1>1, <1>3, <1>7, <1>11, <1>12, <2>1, EntryFitsLater
  <2>3. y.kind = Entries(d)[n].kind
    BY <1>2, <1>6, <1>11
  <2>4. Refits(dirs', d, n, loc, fit)
    BY <1>6, <1>15, <2>2, <2>3, SetPassedRefits
  <2> QED
    BY <1>1, <1>3, <1>6, <1>8, <2>4, HonestRefit
<1> QED
  BY <1>13, <1>14, <1>15

\* PutEntry, likewise.
LEMMA PutRefits ==
  ASSUME IInv, NEW d \in DOMAIN dirs, NEW n, NEW e,
         n \in Names(d) /\ Entries(d)[n].kind = "dir" => e.kind = "dir", NEW loc2, NEW fit2,
         EntryFits(loc2, fit2, Append(loc2[d], n), e)',
         NEW ds2, ds2 = PutEntry(dirs, d, n, e)
  PROVE  Refits(ds2, d, n, loc2, fit2) /\ Refitted(ds2, loc2, fit2)
<1>1. DirRecord(dirs[d]) /\ dirs \in Seq(ToSet(dirs))
  BY DirIsRecord
<1>2. /\ OnlyAt(dirs, ds2, d)
      /\ ds2[d].hash = dirs[d].hash /\ DOMAIN ds2[d].entries = DOMAIN dirs[d].entries \union {n}
      /\ ds2[d].entries[n] = e
      /\ \A m \in DOMAIN dirs[d].entries : m # n => ds2[d].entries[m] = dirs[d].entries[m]
  BY <1>1, PutEntryFacts
<1>3. \A f : f = ds2[d].entries[n] => EntryFits(loc2, fit2, Append(loc2[d], n), f)'
  BY <1>2
<1>4. /\ Names(d) \subseteq DOMAIN ds2[d].entries /\ DOMAIN ds2[d].entries \subseteq Names(d) \union {n}
      /\ ds2[d].hash \in {dirs[d].hash, NoHash}
      /\ \A m \in Names(d) : m # n => ds2[d].entries[m] = Entries(d)[m]
      /\ n \in Names(d) /\ Entries(d)[n].kind = "dir" => ds2[d].entries[n].kind = "dir"
  BY <1>2 DEF Names, Entries
<1>5. Refits(ds2, d, n, loc2, fit2)
  BY <1>2, <1>3, <1>4 DEF Refits
<1> QED
  BY <1>5 DEF Refitted

LEMMA MkdirHonest ==
  ASSUME IInv, IInv', Honest, NEW p \in Procs, Mkdir(p)
  PROVE  Honest'
<1>1. PICK loc, fit : Placed(loc, fit)
  BY DEF Honest
<1>2. PICK d, n, new : d = g[p].d /\ n = DirPart(p)[g[p].i] /\ new = Len(dirs) + 1
  OBVIOUS
<1>a. PICK e, y, ds : e = NewDirEntry(new) /\ y = EmptyDir /\ ds = PutEntry(dirs, d, n, e)
  OBVIOUS
<1>3. /\ UNCHANGED <<rt, wr, sealed, got>> /\ g[p].at = "mkdir" /\ Advance(p, new)
      /\ dirs' = Append(ds, y)
  BY <1>2, <1>a DEF Mkdir, Store, PutEntry, obs
<1>4. PICK r, i, x : /\ r = g[p].req /\ i = g[p].i
                     /\ x = [g[p] EXCEPT !.at = "walk", !.d = new, !.i = @ + 1]
  OBVIOUS
<1>5. g[p].i <= Len(DirPart(p))
  <2>1. "mkdir" \in Walking
    BY DEF Walking
  <2> QED
    BY <1>1, <1>3, <2>1, LocalFacts DEF Placed, LocalFits
<1>6. /\ d \in DOMAIN dirs /\ r \in Requests /\ i \in 1..Len(Way(r))
      /\ Append(loc[d], n) = SubSeq(r.path, 1, i)
  <2>1. g[p].at \in {"walk", "setDir", "mkdir"}
    BY <1>3
  <2>2. d = g[p].d /\ n = DirPart(p)[g[p].i]
    BY <1>2
  <2>e. PICK old : old = Entries(d)[n]
    OBVIOUS
  <2>3. /\ d \in DOMAIN dirs /\ g[p].req \in Requests /\ g[p].i \in 1..Len(Way(g[p].req))
        /\ Append(loc[d], n) = SubSeq(g[p].req.path, 1, g[p].i)
    BY <1>1, <1>5, <2>1, <2>2, <2>e, OnTheWay
  <2> QED
    BY <1>4, <2>3
<1>7. PICK path, loc2 : path = SubSeq(r.path, 1, i) /\ loc2 = Ext(loc, new, path)
  OBVIOUS
<1>8. /\ loc2[new] = path /\ loc2[d] = loc[d] /\ new \notin DOMAIN dirs
      /\ DOMAIN loc = DOMAIN dirs
  <2>1. DOMAIN loc = DOMAIN dirs
    BY <1>1 DEF Placed
  <2> QED
    BY <1>2, <1>6, <1>7, <2>1, HeapSizes DEF Ext
<1>9. g' = [g EXCEPT ![p] = x] /\ LocalFits(loc2, x)'
  <2>1. x.at = "walk" /\ x.d = new /\ x.i = g[p].i + 1 /\ x.req = g[p].req
    BY <1>4, LocalRecord
  <2>2. loc2[new] = SubSeq(g[p].req.path, 1, g[p].i)
    BY <1>4, <1>7, <1>8
  <2>3. g[p].req \in Requests /\ g[p].i \in 1..Len(Way(g[p].req))
    BY <1>4, <1>6
  <2> QED
    BY <1>3, <1>4, <2>1, <2>2, <2>3, AdvanceFits DEF Advance
<1>10. EntryFits(loc2, fit, Append(loc2[d], n), e)'
  <2>1. e.kind = "dir" /\ e.hash = NoHash /\ e.dir = new /\ ~IsDirHash(NoHash)
    BY <1>a DEF NewDirEntry, IsDirHash
  <2> QED
    BY <1>6, <1>7, <1>8, <2>1 DEF EntryFits, ListedFits
<1>11. Refitted(ds, loc2, fit)
  <2>1. e.kind = "dir"
    BY <1>a DEF NewDirEntry
  <2> QED
    BY <1>6, <1>a, <1>10, <2>1, PutRefits
<1>12. y.hash = NoHash /\ DOMAIN y.entries = {}
  BY <1>a DEF EmptyDir
<1>13. /\ rt'.dir = rt.dir /\ rt'.hash \in {rt.hash, NoHash}
       /\ \A m \in DOMAIN y.entries : \A f :
            f = y.entries[m] => EntryFits(loc2, fit, Append(path, m), f)'
  BY <1>3, <1>12
<1> QED
  BY <1>1, <1>2, <1>3, <1>7, <1>9, <1>11, <1>12, <1>13, HonestAppend

LEMMA ArriveHonest ==
  ASSUME IInv, IInv', Honest, NEW p \in Procs, Arrive(p)
  PROVE  Honest'
<1>1. PICK loc, fit : Placed(loc, fit)
  BY DEF Honest
<1>2. PICK d, r, i, x : /\ d = g[p].d /\ r = g[p].req /\ i = g[p].i
                        /\ x = [g[p] EXCEPT !.at = g[p].req.op]
  OBVIOUS
<1>a. g[p].i > Len(DirPart(p)) /\ UNCHANGED obs
  BY Zenon DEF Arrive
<1>3. /\ UNCHANGED <<rt, wr, sealed, got>> /\ g[p].at = "walk" /\ g' = [g EXCEPT ![p] = x]
      /\ dirs' = DirPassed(p, d)
  BY <1>2, <1>a DEF Arrive, Goto, obs
<1>4. /\ r \in Requests /\ r.op # "save" /\ d \in DOMAIN dirs /\ DirPart(p) = Way(r)
      /\ g[p].at \in Walking
  BY <1>2, <1>3, LocalFacts DEF Walking, Finding
<1>5. /\ i \in 1..(Len(Way(r)) + 1) /\ loc[d] = SubSeq(r.path, 1, i - 1)
  BY <1>1, <1>2, <1>3, <1>4 DEF Placed, LocalFits
<1>6. i = Len(Way(r)) + 1
  BY <1>2, <1>4, <1>5, <1>a, WayFacts
<1>7. x.at = r.op /\ x.d = d /\ x.i = i /\ x.req = r /\ r.op \in Ops
  BY <1>2, <1>4, LocalRecord, WayFacts
<1>8. LocalFits(loc, x)'
  BY <1>4, <1>5, <1>6, <1>7 DEF LocalFits, Ops
<1>9. Refits(dirs', d, 0, loc, fit)
  BY <1>3, <1>4, PassedRefits
<1> QED
  BY <1>1, <1>3, <1>4, <1>8, <1>9, HonestRefit

\* The entry that is asked for, once getDir has found its directory.
LEMMA FilePlace ==
  ASSUME IInv, NEW loc, NEW fit, Placed(loc, fit), NEW p \in Procs,
         g[p].at \in {"write", "link", "read", "entryHash"},
         NEW d, d = g[p].d, NEW n, n = FileName(p)
  PROVE  /\ d \in DOMAIN dirs /\ g[p].req \in Requests /\ g[p].req.op = g[p].at
         /\ Append(loc[d], n) = g[p].req.path
<1>1. PICK r, i : r = g[p].req /\ i = g[p].i
  OBVIOUS
<1>2. /\ r \in Requests /\ d \in DOMAIN dirs /\ g[p].at \in Walking /\ g[p].at \in Ops
      /\ r.op = g[p].at
  BY <1>1, LocalFacts DEF Walking, Ops
<1>3. i = Len(Way(r)) + 1 /\ loc[d] = SubSeq(r.path, 1, i - 1)
  BY <1>1, <1>2 DEF Placed, LocalFits
<1>4. Len(r.path) = i /\ n = r.path[i] /\ i \in 1..Len(r.path)
  <2>1. Len(r.path) = Len(Way(r)) + 1 /\ Last(r.path) = r.path[Len(Way(r)) + 1]
    BY <1>2, WayFacts
  <2>2. Len(Way(r)) \in Nat
    BY <1>2, WayFacts
  <2> QED
    BY <1>1, <1>3, <2>1, <2>2 DEF FileName
<1>5. /\ Append(SubSeq(r.path, 1, i - 1), r.path[i]) = SubSeq(r.path, 1, i)
      /\ SubSeq(r.path, 1, Len(r.path)) = r.path
  BY <1>2, <1>4, PathFacts
<1> QED
  BY <1>1, <1>2, <1>3, <1>4, <1>5

LEMMA SealedSet ==
  ASSUME WrittenOnce, NEW path \in Paths, NEW a, NEW b, NEW x, x = [now |-> a, ever |-> b],
         sealed' = [sealed EXCEPT ![path] = x]
  PROVE  /\ sealed' = [f \in Paths |-> [now |-> sealed'[f].now, ever |-> sealed'[f].ever]]
         /\ sealed'[path].ever = b /\ \A f \in Paths : f # path => sealed'[f] = sealed[f]
<1>1. /\ sealed = [f \in Paths |-> [now |-> sealed[f].now, ever |-> sealed[f].ever]]
      /\ x = [now |-> x.now, ever |-> x.ever] /\ x.ever = b
  BY DEF WrittenOnce
<1>2. DOMAIN sealed' = Paths /\ \A f \in Paths : sealed'[f] = IF f = path THEN x ELSE sealed[f]
  BY <1>1
<1>3. \A f \in Paths : sealed'[f] = [now |-> sealed'[f].now, ever |-> sealed'[f].ever]
  BY <1>1, <1>2
<1>4. sealed' = [f \in Paths |-> sealed'[f]]
  BY <1>1, <1>2
<1> QED
  BY <1>1, <1>2, <1>3, <1>4

\* An operation that stores an entry and returns.
LEMMA HonestPut ==
  ASSUME IInv, IInv', NEW loc, NEW fit, Placed(loc, fit), UNCHANGED rt,
         \A f \in Paths : sealed[f].ever \subseteq sealed'[f].ever,
         DOMAIN wr \subseteq DOMAIN wr', \A w \in DOMAIN wr : wr'[w].path = wr[w].path,
         WrittenOnce', NEW d \in DOMAIN dirs, NEW n, NEW e,
         n \in Names(d) /\ Entries(d)[n].kind = "dir" => e.kind = "dir",
         EntryFits(loc, fit, Append(loc[d], n), e)',
         dirs' = PutEntry(dirs, d, n, e), NEW p \in Procs, Return(p)
  PROVE  Honest'
<1>1. Refits(dirs', d, n, loc, fit)
  BY PutRefits
<1>2. /\ KindsStay /\ DOMAIN dirs' = DOMAIN dirs
      /\ \A c \in DOMAIN dirs' : Settled(loc, fit, c)
  BY <1>1, RefitStep
<1>3. Grows(loc, fit, loc, fit)
  BY <1>2 DEF Grows, Placed
<1>4. RootFits(loc, fit)'
  BY <1>2 DEF RootFits, Placed
<1>5. \A q \in Procs : g'[q] = g[q] \/ \A x : x = g'[q] => LocalFits(loc, x)'
  <2>1. \A q \in Procs : g'[q] = IF q = p THEN Idle ELSE g[q]
    BY DEF IInv, TypeOK, Return
  <2>2. \A x : x = Idle => LocalFits(loc, x)'
    BY IdleFits
  <2> QED
    BY <2>1, <2>2
<1> QED
  BY <1>2, <1>3, <1>4, <1>5, HonestStep

LEMMA WriteHonest ==
  ASSUME IInv, IInv', Honest, NEW p \in Procs, Write(p)
  PROVE  Honest'
<1>1. PICK loc, fit : Placed(loc, fit)
  BY DEF Honest
<1>2. PICK d, n, path, h, k, w : /\ d = g[p].d /\ n = FileName(p)
                                 /\ path = g[p].req.path /\ h = g[p].req.arg
                                 /\ k = Len(wr) + 1 /\ w = [path |-> path, hash |-> h, st |-> "open"]
  OBVIOUS
<1>3. UNCHANGED <<rt, got>> /\ Return(p) /\ g[p].at = "write"
  BY DEF Write
<1>4. /\ d \in DOMAIN dirs /\ g[p].req \in Requests /\ Append(loc[d], n) = path /\ path \in Paths
  <2>1. PICK r : r = g[p].req
    OBVIOUS
  <2>2. d \in DOMAIN dirs /\ r \in Requests /\ r.op = "write" /\ Append(loc[d], n) = r.path
    BY <1>1, <1>2, <1>3, <2>1, FilePlace
  <2> QED
    BY <1>2, <2>1, <2>2, WayFacts
<1>5. /\ WrittenOnce /\ DOMAIN loc = DOMAIN dirs
      /\ Len(wr) \in Nat /\ DOMAIN wr = 1..Len(wr) /\ wr \in Seq(ToSet(wr))
  BY <1>1, WritersFacts DEF Placed
<1> DEFINE e0 == IF n \notin Names(d) THEN NewFileEntry(NoHash)
                 ELSE IF Entries(d)[n].file THEN Entries(d)[n]
                 ELSE [Entries(d)[n] EXCEPT !.file = TRUE, !.fhash = Entries(d)[n].hash]
<1>6. PICK e : e = e0
  OBVIOUS
<1>7. CASE UNCHANGED <<dirs, wr, sealed>>
  BY <1>1, <1>3, <1>7, HonestReturn DEF Honest
<1>8. ASSUME n \in Names(d) => Entries(d)[n].kind = "file"
      PROVE  e \in EntrySet /\ e.kind = "file" /\ EntryFits(loc, fit, path, e)
  <2>1. CASE n \notin Names(d)
    <3>1. e = NewFileEntry(NoHash)
      BY <1>6, <2>1
    <3>2. /\ e.kind = "file" /\ e.hash = NoHash /\ e.fhash = NoHash /\ e.dir = 0 /\ e.blobW = 0
          /\ e \in EntrySet
      <4>1. 0 \in 0..Len(dirs) /\ 0 \in 0..Len(wr) /\ NoHash \in Ref
        BY HeapSizes
      <4> QED
        BY <3>1, <4>1 DEF NewFileEntry, EntrySet
    <3>3. 0 \notin DOMAIN dirs /\ 0 \notin DOMAIN wr
      BY HeapSizes
    <3> QED
      BY <3>2, <3>3 DEF EntryFits, ListedFits, ContentFits
  <2>2. CASE n \in Names(d)
    <3>1. PICK x : x = Entries(d)[n]
      OBVIOUS
    <3>2. x \in EntrySet /\ EntryFits(loc, fit, path, x) /\ x.kind = "file"
      BY <1>1, <1>4, <1>8, <2>2, <3>1, EntryPlaced
    <3>3. CASE e = x
      BY <3>2, <3>3
    <3>4. CASE e = [x EXCEPT !.file = TRUE, !.fhash = x.hash]
      <4>1. /\ e.kind = x.kind /\ e.hash = x.hash /\ e.fhash = x.hash /\ e.dir = x.dir
            /\ e.blobW = x.blobW /\ e \in EntrySet
        BY <3>2, <3>4 DEF EntrySet
      <4> QED
        BY <3>2, <4>1 DEF EntryFits, ListedFits
    <3> QED
      BY <1>6, <2>2, <3>1, <3>3, <3>4
  <2> QED
    BY <2>1, <2>2
<1>9. n \in Names(d) => Entries(d)[n].kind \in {"dir", "file"}
  BY <1>4, EntryFacts DEF EntrySet
<1>10. CASE /\ n \in Names(d) => Entries(d)[n].kind = "file"
            /\ dirs' = PutEntry(dirs, d, n, e) /\ UNCHANGED <<wr, sealed>>
  <2>1. DOMAIN dirs' = DOMAIN dirs
    BY <1>10 DEF PutEntry
  <2>2. e \in EntrySet /\ e.kind = "file" /\ EntryFits(loc, fit, path, e)
    BY <1>8, <1>10
  <2>3. EntryFits(loc, fit, path, e)'
    BY <1>1, <1>5, <1>10, <2>1, <2>2, EntryFitsLater
  <2>4. WrittenOnce'
    BY <1>3, <1>5, <1>10 DEF WrittenOnce
  <2> QED
    BY <1>1, <1>3, <1>4, <1>10, <2>3, <2>4, HonestPut
<1>11. CASE /\ n \in Names(d) => Entries(d)[n].kind = "file"
            /\ dirs' = PutEntry(dirs, d, n, [e EXCEPT !.blobW = k])
            /\ wr' = Append(wr, w) /\ sealed' = [sealed EXCEPT ![path].now = NoHash]
  <2>1. DOMAIN dirs' = DOMAIN dirs
    BY <1>11 DEF PutEntry
  <2>2. e \in EntrySet /\ e.kind = "file" /\ EntryFits(loc, fit, path, e)
    BY <1>8, <1>11
  <2>3. PICK f : f = [e EXCEPT !.blobW = k]
    OBVIOUS
  <2>4. /\ f.kind = "file" /\ f.hash = e.hash /\ f.fhash = e.fhash /\ f.dir = e.dir /\ f.blobW = k
    BY <2>2, <2>3 DEF EntrySet
  <2>5. /\ DOMAIN wr' = DOMAIN wr \union {k} /\ wr'[k] = w /\ \A v \in DOMAIN wr : wr'[v] = wr[v]
    BY <1>2, <1>5, <1>11, SeqFacts
  <2>6. /\ sealed' = [q \in Paths |-> [now |-> sealed'[q].now, ever |-> sealed'[q].ever]]
        /\ \A q \in Paths : sealed'[q].ever = sealed[q].ever
    <3>1. PICK b, x : b = sealed[path].ever /\ x = [now |-> NoHash, ever |-> b]
      OBVIOUS
    <3>2. [sealed[path] EXCEPT !.now = NoHash] = x
      BY <1>4, <1>5, <3>1 DEF WrittenOnce
    <3>3. sealed' = [sealed EXCEPT ![path] = x]
      BY <1>11, <3>2
    <3> QED
      BY <1>4, <1>5, <3>1, <3>3, SealedSet
  <2>7. WrittenOnce'
    <3>1. \A v \in DOMAIN wr' : wr'[v].st # "open" =>
            v \in DOMAIN wr /\ wr'[v] = wr[v]
      BY <1>2, <2>5
    <3>2. \A v \in DOMAIN wr : wr[v].path \in Paths
      BY WritersFacts DEF Writers
    <3> QED
      BY <1>3, <1>5, <2>6, <3>1, <3>2 DEF WrittenOnce
  <2>8. EntryFits(loc, fit, path, f)'
    <3>1. f.dir \in DOMAIN dirs' => f.dir \in DOMAIN dirs
      BY <2>1
    <3>2. wr'[k].path = path
      BY <1>2, <2>5
    <3>3. ContentFits(path, f.hash)' /\ ContentFits(path, f.fhash)'
      BY <1>4, <2>2, <2>4, <2>6 DEF EntryFits, ListedFits, ContentFits
    <3> QED
      BY <2>2, <2>4, <3>1, <3>2, <3>3 DEF EntryFits, ListedFits
  <2>9. dirs' = PutEntry(dirs, d, n, f)
    BY <1>11, <2>3
  <2>10. /\ \A q \in Paths : sealed[q].ever \subseteq sealed'[q].ever
         /\ DOMAIN wr \subseteq DOMAIN wr' /\ \A v \in DOMAIN wr : wr'[v].path = wr[v].path
         /\ n \in Names(d) /\ Entries(d)[n].kind = "dir" => f.kind = "dir"
    BY <1>11, <2>5, <2>6
  <2> QED
    BY <1>1, <1>3, <1>4, <2>7, <2>8, <2>9, <2>10, HonestPut
<1>12. \/ UNCHANGED <<dirs, wr, sealed>>
       \/ /\ ~(n \in Names(d) /\ Entries(d)[n].kind # "file")
          /\ dirs' = Store(d, n, [e EXCEPT !.blobW = Len(wr) + 1])
          /\ wr' = Append(wr, [path |-> path, hash |-> h, st |-> "open"])
          /\ sealed' = [sealed EXCEPT ![path].now = NoHash]
       \/ /\ ~(n \in Names(d) /\ Entries(d)[n].kind # "file")
          /\ dirs' = Store(d, n, e) /\ UNCHANGED <<wr, sealed>>
  BY <1>2, <1>6 DEF Write
<1> HIDE DEF e0
<1> QED
  BY <1>2, <1>7, <1>10, <1>11, <1>12 DEF Store, PutEntry

LEMMA LinkHonest ==
  ASSUME IInv, IInv', Honest, NEW p \in Procs, Link(p)
  PROVE  Honest'
<1>1. PICK loc, fit : Placed(loc, fit)
  BY DEF Honest
<1>2. PICK d, n, path, h, e : /\ d = g[p].d /\ n = FileName(p) /\ path = g[p].req.path
                              /\ h = g[p].req.arg /\ e = NewFileEntry(h)
  OBVIOUS
<1>3. UNCHANGED <<rt, wr, got>> /\ Return(p) /\ g[p].at = "link"
  BY DEF Link
<1>4. /\ d \in DOMAIN dirs /\ g[p].req \in Requests /\ Append(loc[d], n) = path /\ path \in Paths
  <2>1. PICK r : r = g[p].req
    OBVIOUS
  <2>2. d \in DOMAIN dirs /\ r \in Requests /\ r.op = "link" /\ Append(loc[d], n) = r.path
    BY <1>1, <1>2, <1>3, <2>1, FilePlace
  <2> QED
    BY <1>2, <2>1, <2>2, WayFacts
<1>5. WrittenOnce
  BY <1>1 DEF Placed
<1>6. CASE UNCHANGED <<dirs, sealed>>
  BY <1>1, <1>3, <1>6, HonestReturn DEF Honest
<1>7. CASE /\ ~(n \in Names(d) /\ Entries(d)[n].kind # "file") /\ dirs' = Store(d, n, e)
           /\ sealed' = [sealed EXCEPT ![path] = [now |-> h, ever |-> @.ever \union {h}]]
  <2>1. dirs' = PutEntry(dirs, d, n, e)
    BY <1>7 DEF Store, PutEntry
  <2>2. DOMAIN dirs' = DOMAIN dirs
    BY <2>1 DEF PutEntry
  <2>3. /\ sealed' = [q \in Paths |-> [now |-> sealed'[q].now, ever |-> sealed'[q].ever]]
        /\ sealed'[path].ever = sealed[path].ever \union {h}
        /\ \A q \in Paths : q # path => sealed'[q] = sealed[q]
    <3>1. PICK b, x : b = sealed[path].ever \union {h} /\ x = [now |-> h, ever |-> b]
      OBVIOUS
    <3>2. sealed' = [sealed EXCEPT ![path] = x]
      BY <1>4, <1>5, <1>7, <3>1 DEF WrittenOnce
    <3> QED
      BY <1>4, <1>5, <3>1, <3>2, SealedSet
  <2>4. WrittenOnce'
    <3>1. \A v \in DOMAIN wr : wr[v].path \in Paths
      BY WritersFacts DEF Writers
    <3> QED
      BY <1>3, <1>5, <2>3, <3>1 DEF WrittenOnce
  <2>5. EntryFits(loc, fit, path, e)'
    <3>1. e.kind = "file" /\ e.hash = NoHash /\ e.fhash = h /\ e.dir = 0 /\ e.blobW = 0
      BY <1>2 DEF NewFileEntry
    <3> QED
      BY <2>3, <3>1, ZeroNil DEF EntryFits, ListedFits, ContentFits
  <2>6. /\ \A q \in Paths : sealed[q].ever \subseteq sealed'[q].ever
        /\ DOMAIN wr \subseteq DOMAIN wr' /\ \A v \in DOMAIN wr : wr'[v].path = wr[v].path
        /\ n \in Names(d) /\ Entries(d)[n].kind = "dir" => e.kind = "dir"
    BY <1>3, <1>7, <2>3
  <2> QED
    BY <1>1, <1>3, <1>4, <2>1, <2>4, <2>5, <2>6, HonestPut
<1> QED
  BY <1>2, <1>6, <1>7 DEF Link

\* The hash taken from the File of an entry was written to the entry's place.
LEMMA FileHashFits ==
  ASSUME IInv, NEW loc, NEW fit, WrittenOnce, NEW path, NEW e \in EntrySet, e.kind = "file",
         EntryFits(loc, fit, path, e), ~HashFileFails(e), NEW f, f = HashFile(e)
  PROVE  /\ ContentFits(path, FileHashOf(e)) /\ EntryFits(loc, fit, path, f)
         /\ f \in EntrySet /\ f.kind = "file"
<1>1. Len(wr) \in Nat /\ DOMAIN wr = 1..Len(wr)
  BY HeapSizes
<1>2. ContentFits(path, FileHashOf(e))
  <2>1. CASE e.blobW = 0
    BY <2>1 DEF FileHashOf, EntryFits
  <2>2. CASE e.blobW # 0
    <3>1. e.blobW \in DOMAIN wr /\ wr[e.blobW].st # "open"
      BY <1>1, <2>2 DEF EntrySet, HashFileFails
    <3>2. wr[e.blobW].hash \in sealed[path].ever
      BY <3>1 DEF EntryFits, WrittenOnce
    <3> QED
      BY <2>2, <3>2 DEF FileHashOf, ContentFits
  <2> QED
    BY <2>1, <2>2
<1>3. PICK h : h = FileHashOf(e)
  OBVIOUS
<1>4. f = [e EXCEPT !.hash = h, !.fhash = h, !.blobW = 0]
  BY <1>3 DEF HashFile
<1>5. /\ f.kind = "file" /\ f.hash = h /\ f.fhash = h /\ f.dir = e.dir /\ f.blobW = 0
  BY <1>4 DEF EntrySet
<1>6. f \in EntrySet
  BY HashFileOK DEF EntrySet, EntryIn
<1>7. EntryFits(loc, fit, path, f)
  BY <1>1, <1>2, <1>3, <1>5 DEF EntryFits, ListedFits
<1> QED
  BY <1>2, <1>5, <1>6, <1>7

\* The File of an entry is hashed.
LEMMA HashFileRefits ==
  ASSUME IInv, IInv', NEW loc, NEW fit, Placed(loc, fit), UNCHANGED <<wr, sealed>>,
         NEW d \in DOMAIN dirs, NEW n \in Names(d), NEW e, e = Entries(d)[n],
         e.kind = "file", ~HashFileFails(e), dirs' = [dirs EXCEPT ![d].entries[n] = HashFile(e)],
         NEW p \in Procs
  PROVE  Refits(dirs', d, n, loc, fit)
<1>1. PICK f : f = HashFile(e)
  OBVIOUS
<1>2. WrittenOnce /\ DOMAIN loc = DOMAIN dirs
  BY DEF Placed
<1>3. e \in EntrySet /\ EntryFits(loc, fit, Append(loc[d], n), e)
  BY EntryPlaced
<1>4. f \in EntrySet /\ f.kind = "file" /\ EntryFits(loc, fit, Append(loc[d], n), f)
  BY <1>1, <1>2, <1>3, FileHashFits
<1>5. dirs' = SetEntry(dirs, d, n, f)
  BY <1>1 DEF SetEntry
<1>6. DOMAIN dirs' = DOMAIN dirs
  BY <1>5 DEF SetEntry
<1>7. EntryFits(loc, fit, Append(loc[d], n), f)'
  BY <1>2, <1>4, <1>6, EntryFitsLater
<1> QED
  BY <1>4, <1>5, <1>7, SetPassedRefits

LEMMA ReadHonestly ==
  ASSUME IInv, IInv', Honest, NEW p \in Procs, Read(p)
  PROVE  Honest'
<1>1. PICK loc, fit : Placed(loc, fit)
  BY DEF Honest
<1>2. PICK d, n, path, e : /\ d = g[p].d /\ n = FileName(p) /\ path = g[p].req.path
                           /\ e = Entries(d)[n]
  OBVIOUS
<1>3. UNCHANGED <<rt, wr, sealed>> /\ Return(p) /\ g[p].at = "read"
  BY DEF Read
<1>4. /\ d \in DOMAIN dirs /\ g[p].req \in Requests /\ Append(loc[d], n) = path /\ path \in Paths
  <2>1. PICK r : r = g[p].req
    OBVIOUS
  <2>2. d \in DOMAIN dirs /\ r \in Requests /\ r.op = "read" /\ Append(loc[d], n) = r.path
    BY <1>1, <1>2, <1>3, <2>1, FilePlace
  <2> QED
    BY <1>2, <2>1, <2>2, WayFacts
<1>5. WrittenOnce
  BY <1>1 DEF Placed
<1> DEFINE fails == n \notin Names(d) \/ e.kind # "file" \/ (e.file /\ HashFileFails(e))
<1>6. PICK hash : hash = IF fails THEN NoHash ELSE IF e.file THEN FileHashOf(e) ELSE e.hash
  OBVIOUS
<1>7. /\ dirs' = IF ~fails /\ e.file THEN [dirs EXCEPT ![d].entries[n] = HashFile(e)] ELSE dirs
      /\ got'.path = path /\ got'.hash \in {hash, NoHash}
  BY <1>2, <1>6 DEF Read
<1>8. ContentFits(path, hash)
  <2>1. CASE fails
    BY <1>6, <2>1 DEF ContentFits
  <2>2. CASE ~fails
    <3>1. e \in EntrySet /\ EntryFits(loc, fit, path, e)
      BY <1>1, <1>2, <1>4, <2>2, EntryPlaced
    <3>2. CASE e.file
      <4>1. PICK f : f = HashFile(e)
        OBVIOUS
      <4> QED
        BY <1>5, <1>6, <2>2, <3>1, <3>2, <4>1, FileHashFits
    <3>3. CASE ~e.file
      BY <1>6, <2>2, <3>1, <3>3 DEF EntryFits, ListedFits
    <3> QED
      BY <3>2, <3>3
  <2> QED
    BY <2>1, <2>2
<1>9. WrittenOnce'
  BY <1>3, <1>4, <1>5, <1>7, <1>8 DEF WrittenOnce, ContentFits
<1>10. \A q \in Procs : g'[q] = g[q] \/ \A x : x = g'[q] => LocalFits(loc, x)'
  <2>1. \A q \in Procs : g'[q] = IF q = p THEN Idle ELSE g[q]
    BY <1>3 DEF IInv, TypeOK, Return
  <2>2. \A x : x = Idle => LocalFits(loc, x)'
    BY IdleFits
  <2> QED
    BY <2>1, <2>2
<1>11. /\ \A f \in Paths : sealed[f].ever \subseteq sealed'[f].ever
       /\ DOMAIN wr \subseteq DOMAIN wr' /\ \A w \in DOMAIN wr : wr'[w].path = wr[w].path
  BY <1>3
<1>12. CASE dirs' = dirs
  <2>1. RootFits(loc, fit)'
    BY <1>1, <1>3, <1>12 DEF Placed, RootFits
  <2> QED
    BY <1>1, <1>9, <1>10, <1>11, <1>12, <2>1, HonestSame
<1>13. CASE ~fails /\ e.file
  <2>1. Refits(dirs', d, n, loc, fit)
    BY <1>1, <1>2, <1>3, <1>4, <1>7, <1>13, HashFileRefits
  <2>2. /\ KindsStay /\ DOMAIN dirs' = DOMAIN dirs
        /\ \A c \in DOMAIN dirs' : Settled(loc, fit, c)
    BY <1>4, <2>1, RefitStep
  <2>3. Grows(loc, fit, loc, fit)
    BY <1>1, <1>11, <2>2 DEF Grows, Placed
  <2>4. RootFits(loc, fit)'
    BY <1>1, <1>3, <2>2 DEF Placed, RootFits
  <2> QED
    BY <1>1, <1>9, <1>10, <2>2, <2>3, <2>4, HonestStep
<1> QED
  BY <1>7, <1>12, <1>13

\* The caller of hashEntry goes on with its range, at the top level or below.
LEMMA RangeFits ==
  ASSUME IInv, NEW loc, NEW fit, Placed(loc, fit), NEW p \in Procs,
         g[p].at \in {"entryHash", "hash", "hashed"},
         NEW s, g' = [g EXCEPT ![p].at = "hash", ![p].stk = s] \/ Resume(p, s)
  PROVE  \E x : g' = [g EXCEPT ![p] = x] /\ LocalFits(loc, x)'
<1>1. CASE g' = [g EXCEPT ![p].at = "hash", ![p].stk = s]
  <2>1. PICK x : x = [g[p] EXCEPT !.at = "hash", !.stk = s]
    OBVIOUS
  <2>2. x.at = "hash" /\ x.req = g[p].req /\ x.i = g[p].i
    BY <2>1, LocalRecord
  <2>3. x.req.op = "diff" => x.i = 1
    BY <2>2, LocalFacts DEF Placed, LocalFits, Ops
  <2>4. LocalFits(loc, x)'
    BY <2>2, <2>3 DEF LocalFits, Walking, Ops
  <2> QED
    BY <1>1, <2>1, <2>4
<1>2. CASE Return(p)
  <2>1. PICK x : x = Idle
    OBVIOUS
  <2> QED
    BY <1>2, <2>1, IdleFits DEF Return
<1> QED
  BY <1>1, <1>2 DEF Resume

LEMMA HashEntryHonest ==
  ASSUME IInv, IInv', Honest, UNCHANGED <<rt, wr, sealed, got>>,
         NEW p \in Procs, g[p].at \in {"entryHash", "hash"},
         NEW d \in DOMAIN dirs, NEW n \in Names(d), NEW stk, HashEntry(p, d, n, stk)
  PROVE  Honest'
<1>1. PICK loc, fit : Placed(loc, fit)
  BY DEF Honest
<1>2. PICK e : e = Entries(d)[n]
  OBVIOUS
<1>5. CASE Return(p) /\ UNCHANGED dirs
  BY <1>5, HonestReturn
<1>6. CASE Resume(p, stk) /\ UNCHANGED dirs
  <2>1. PICK x : g' = [g EXCEPT ![p] = x] /\ LocalFits(loc, x)'
    BY <1>1, <1>6, RangeFits
  <2> QED
    BY <1>1, <1>6, <2>1, HonestMove
<1>7. CASE /\ UNCHANGED dirs
           /\ g' = [g EXCEPT ![p].at = "hash",
                             ![p].stk = Append(stk, Frame(e.dir, Names(e.dir), d, n, e.id))]
  <2>1. PICK s : s = Append(stk, Frame(e.dir, Names(e.dir), d, n, e.id))
    OBVIOUS
  <2>2. g' = [g EXCEPT ![p].at = "hash", ![p].stk = s]
    BY <1>7, <2>1
  <2>3. PICK x : g' = [g EXCEPT ![p] = x] /\ LocalFits(loc, x)'
    BY <1>1, <2>2, RangeFits
  <2> QED
    BY <1>1, <1>7, <2>3, HonestMove
<1>8. CASE /\ e.kind = "file" /\ ~HashFileFails(e) /\ Resume(p, stk)
           /\ dirs' = [dirs EXCEPT ![d].entries[n] = HashFile(e)]
  <2>1. PICK x : g' = [g EXCEPT ![p] = x] /\ LocalFits(loc, x)'
    BY <1>1, <1>8, RangeFits
  <2>2. Refits(dirs', d, n, loc, fit)
    BY <1>1, <1>2, <1>8, HashFileRefits
  <2> QED
    BY <1>1, <2>1, <2>2, HonestRefit
<1>9. \/ Return(p) /\ UNCHANGED dirs
      \/ Resume(p, stk) /\ UNCHANGED dirs
      \/ /\ UNCHANGED dirs
         /\ g' = [g EXCEPT ![p].at = "hash",
                           ![p].stk = Append(stk, Frame(e.dir, Names(e.dir), d, n, e.id))]
      \/ /\ e.kind = "file" /\ ~HashFileFails(e) /\ Resume(p, stk)
         /\ dirs' = [dirs EXCEPT ![d].entries[n] = HashFile(e)]
  BY <1>2, Zenon DEF HashEntry, Panic
<1> QED
  BY <1>5, <1>6, <1>7, <1>8, <1>9

LEMMA EntryHashHonest ==
  ASSUME IInv, IInv', Honest, NEW p \in Procs, EntryHash(p)
  PROVE  Honest'
<1>1. UNCHANGED <<rt, wr, sealed, got>> /\ g[p].at = "entryHash"
  BY DEF EntryHash
<1>2. PICK d, n : d = g[p].d /\ n = FileName(p)
  OBVIOUS
<1>3. d \in DOMAIN dirs
  BY <1>1, <1>2, AtDir DEF Ops
<1>4. CASE n \in Names(d) /\ HashEntry(p, d, n, <<>>)
  <2>1. PICK s : s = <<>>
    OBVIOUS
  <2> QED
    BY <1>1, <1>3, <1>4, <2>1, HashEntryHonest
<1>5. CASE Return(p) /\ UNCHANGED dirs
  BY <1>1, <1>5, HonestReturn
<1> QED
  BY <1>2, <1>4, <1>5 DEF EntryHash

\* The directory that is being hashed.
LEMMA AtTop ==
  ASSUME IInv, NEW p \in Procs, g[p].at \in Hashing
  PROVE  Top(p).d \in DOMAIN dirs /\ FrameOK(Top(p))
BY StkOfLocal, StkTop DEF Top, FrameOK

LEMMA HashNextHonest ==
  ASSUME IInv, IInv', Honest, NEW p \in Procs, HashNext(p)
  PROVE  Honest'
<1>1. UNCHANGED <<rt, wr, sealed, got>> /\ g[p].at = "hash"
  BY DEF HashNext
<1>2. PICK n \in Names(Top(p).d) : HashEntry(p, Top(p).d, n, SeenBy(p, n))
  BY DEF HashNext
<1>3. PICK d, s : d = Top(p).d /\ s = SeenBy(p, n)
  OBVIOUS
<1>4. d \in DOMAIN dirs
  BY <1>1, <1>3, AtTop DEF Hashing
<1> QED
  BY <1>1, <1>2, <1>3, <1>4, HashEntryHonest

LEMMA HashDirDoneHonest ==
  ASSUME IInv, IInv', Honest, NEW p \in Procs, HashDirDone(p)
  PROVE  Honest'
<1>1. PICK loc, fit : Placed(loc, fit)
  BY DEF Honest
<1>2. UNCHANGED <<rt, wr, sealed, got>> /\ g[p].at = "hash"
  BY DEF HashDirDone, obs
<1>3. PICK d, h, path : d = Top(p).d /\ h = DirHash(Marshal(d)) /\ path = loc[d]
  OBVIOUS
<1>4. d \in DOMAIN dirs /\ DOMAIN loc = DOMAIN dirs
  BY <1>1, <1>2, <1>3, AtTop DEF Hashing, Placed
<1>5. CASE Return(p) /\ UNCHANGED dirs
  BY <1>2, <1>5, HonestReturn
<1>6. CASE dirs' = [dirs EXCEPT ![d].hash = h] /\ Goto(p, "hashed")
  <2>1. PICK x, fit2 : x = [g[p] EXCEPT !.at = "hashed"] /\ fit2 = fit \union {<<h, path>>}
    OBVIOUS
  <2>2. g' = [g EXCEPT ![p] = x]
    BY <1>6, <2>1 DEF Goto
  <2>3. LocalFits(loc, x)'
    <3>1. x.at = "hashed" /\ x.req = g[p].req /\ x.i = g[p].i
      BY <2>1, LocalRecord
    <3>2. x.req.op = "diff" => x.i = 1
      BY <1>1, <1>2, <3>1 DEF Placed, LocalFits
    <3> QED
      BY <3>1, <3>2 DEF LocalFits, Walking, Ops
  <2>4. /\ OnlyAt(dirs, dirs', d) /\ dirs'[d].hash = h /\ dirs'[d].entries = dirs[d].entries
    <3>1. dirs' = SetHash(dirs, d, h)
      BY <1>6 DEF SetHash
    <3> QED
      BY <1>4, <3>1, DirIsRecord, SetHashFacts
  <2>5. DOMAIN dirs' = DOMAIN dirs /\ KindsStay
    BY <2>4 DEF OnlyAt, KindsStay, Names, Entries
  <2>6. \A c \in DOMAIN dirs' : Settled(loc, fit2, c)
    BY <1>3, <1>4, <2>1, <2>4 DEF OnlyAt, Settled, Names, Entries
  <2>7. BlobFits(fit2, h, path)'
    <3>1. \A n \in Names(d) : ListedFits(fit, Append(path, n), Entries(d)[n])
      BY <1>1, <1>3, <1>4 DEF Placed, DirFits, EntryFits
    <3>2. /\ Listing(h) = Marshal(d) /\ DOMAIN Marshal(d) = Names(d)
          /\ \A n \in Names(d) : /\ Marshal(d)[n].kind = Entries(d)[n].kind
                                 /\ Marshal(d)[n].hash = Entries(d)[n].hash
      BY <1>3 DEF Listing, DirHash, Marshal
    <3>3. \A n \in DOMAIN Listing(h) : ListedFits(fit, Append(path, n), Listing(h)[n])
      BY <3>1, <3>2 DEF ListedFits
    <3> QED
      BY <1>2, <2>1, <3>3 DEF BlobFits, ListedFits, ContentFits
  <2>8. \A y \in fit2 : y \in fit \/ BlobFits(fit2, y[1], y[2])'
    <3> SUFFICES ASSUME NEW y \in fit2, y \notin fit
                 PROVE  BlobFits(fit2, y[1], y[2])'
      OBVIOUS
    <3>1. y[1] = h /\ y[2] = path
      BY <2>1
    <3> QED
      BY <2>7, <3>1
  <2>9. /\ fit \subseteq fit2 /\ rt'.dir = rt.dir /\ rt'.hash \in {rt.hash, NoHash}
    BY <1>2, <2>1
  <2> QED
    BY <1>1, <1>2, <1>4, <2>2, <2>3, <2>5, <2>6, <2>8, <2>9, HonestHeap
<1> QED
  BY <1>3, <1>5, <1>6 DEF HashDirDone

LEMMA HashedHonest ==
  ASSUME IInv, IInv', Honest, NEW p \in Procs, Hashed(p)
  PROVE  Honest'
<1>1. PICK loc, fit : Placed(loc, fit)
  BY DEF Honest
<1>2. PICK f, e, s : f = Top(p) /\ e = Entries(f.par)[f.name] /\ s = Front(g[p].stk)
  OBVIOUS
<1>3. UNCHANGED <<wr, sealed, got>> /\ g[p].at = "hashed"
  BY DEF Hashed
<1>4. FrameOK(f) /\ DOMAIN loc = DOMAIN dirs /\ WrittenOnce /\ 0 \notin DOMAIN dirs
  BY <1>1, <1>2, <1>3, AtTop, HeapSizes DEF Hashing, Placed
<1>5. CASE Return(p) /\ UNCHANGED <<rt, dirs>>
  BY <1>3, <1>5, HonestReturn
<1>6. CASE /\ f.par = 0 /\ UNCHANGED dirs
           /\ rt' = [rt EXCEPT !.hash = dirs[rt.dir].hash]
           /\ g' = [g EXCEPT ![p].at = "rootReady", ![p].stk = <<>>]
  <2>1. /\ rt.dir \in DOMAIN dirs
        /\ rt \in [hash : Ref, dir : 0..Len(dirs), readonly : BOOLEAN]
    BY <1>4, <1>6, HeapSizes DEF FrameOK, IInv, TypeOK, RtOK
  <2>2. rt'.dir = rt.dir /\ rt'.hash = dirs[rt.dir].hash
    BY <1>6, <2>1
  <2>3. /\ loc[rt.dir] = <<>>
        /\ IsDirHash(dirs[rt.dir].hash) => <<dirs[rt.dir].hash, loc[rt.dir]>> \in fit
    BY <1>1, <2>1 DEF Placed, RootFits, DirFits
  <2>4. RootFits(loc, fit)'
    BY <2>2, <2>3 DEF RootFits
  <2>5. WrittenOnce'
    BY <1>3, <1>4 DEF WrittenOnce
  <2>6. PICK x : x = [g[p] EXCEPT !.at = "rootReady", !.stk = <<>>]
    OBVIOUS
  <2>7. g' = [g EXCEPT ![p] = x]
    BY <1>6, <2>6
  <2>8. LocalFits(loc, x)'
    <3>1. x.at = "rootReady" /\ x.req = g[p].req /\ x.i = g[p].i
      BY <2>6, LocalRecord
    <3>2. x.req.op = "diff" => x.i = 1
      BY <1>1, <1>3, <3>1 DEF Placed, LocalFits
    <3> QED
      BY <3>1, <3>2 DEF LocalFits, Walking, Ops
  <2>9. \A q \in Procs : g'[q] = IF q = p THEN x ELSE g[q]
    BY <2>7 DEF IInv, TypeOK
  <2> QED
    BY <1>1, <1>3, <1>6, <2>4, <2>5, <2>8, <2>9, HonestSame
<1>7. CASE /\ f.par # 0 /\ ~(e.id = f.id /\ e.dir = 0) /\ UNCHANGED rt
           /\ dirs' = Update(f.par, f.name, f.id, [e EXCEPT !.hash = dirs[e.dir].hash])
           /\ Resume(p, s)
  <2>1. PICK x : g' = [g EXCEPT ![p] = x] /\ LocalFits(loc, x)'
    BY <1>1, <1>3, <1>7, RangeFits
  <2>2. PICK d, n : d = f.par /\ n = f.name
    OBVIOUS
  <2>3. d \in DOMAIN dirs /\ n \in Names(d)
    BY <1>4, <1>7, <2>2, HeapSizes DEF FrameOK
  <2>4. e \in EntrySet /\ EntryFits(loc, fit, Append(loc[d], n), e)
    BY <1>1, <1>2, <2>2, <2>3, EntryPlaced
  <2>5. CASE e.id # f.id
    <3>1. UNCHANGED dirs
      BY <1>2, <1>7, <2>5 DEF Update
    <3> QED
      BY <1>1, <1>3, <1>7, <2>1, <3>1, HonestMove
  <2>6. CASE e.id = f.id
    <3>1. e.dir \in DOMAIN dirs
      BY <1>7, <2>4, <2>6, HeapSizes DEF EntrySet
    <3>2. PICK h, y : h = dirs[e.dir].hash /\ y = [e EXCEPT !.hash = h]
      OBVIOUS
    <3>3. /\ IsDirHash(h) => <<h, loc[e.dir]>> \in fit
          /\ e.kind = "dir" /\ loc[e.dir] = Append(loc[d], n)
      BY <1>1, <2>4, <3>1, <3>2 DEF Placed, DirFits, EntryFits
    <3>4. y.kind = "dir" /\ y.hash = h /\ y.dir = e.dir /\ y \in EntrySet
      <4>1. h \in Ref
        BY <3>1, <3>2, HeapSizes DEF HeapIn, DirIn
      <4> QED
        BY <2>4, <3>2, <3>3, <4>1 DEF EntrySet
    <3>5. EntryFits(loc, fit, Append(loc[d], n), y)
      BY <3>3, <3>4 DEF EntryFits, ListedFits
    <3>6. dirs' = SetEntry(dirs, d, n, y)
      BY <1>2, <1>7, <2>2, <2>6, <3>2 DEF Update, SetEntry
    <3>7. DOMAIN dirs' = DOMAIN dirs
      BY <3>6 DEF SetEntry
    <3>8. EntryFits(loc, fit, Append(loc[d], n), y)'
      BY <1>1, <1>3, <1>4, <3>4, <3>5, <3>7, EntryFitsLater
    <3>9. y.kind = Entries(d)[n].kind
      BY <1>2, <2>2, <3>3, <3>4
    <3>10. Refits(dirs', d, n, loc, fit)
      BY <2>3, <3>6, <3>8, <3>9, SetPassedRefits
    <3> QED
      BY <1>1, <1>3, <1>7, <2>1, <2>3, <3>10, HonestRefit
  <2> QED
    BY <2>5, <2>6
<1>8. \/ Return(p) /\ UNCHANGED <<rt, dirs>>
      \/ /\ f.par = 0 /\ UNCHANGED dirs
         /\ rt' = [rt EXCEPT !.hash = dirs[rt.dir].hash]
         /\ g' = [g EXCEPT ![p].at = "rootReady", ![p].stk = <<>>]
      \/ /\ f.par # 0 /\ ~(e.id = f.id /\ e.dir = 0) /\ UNCHANGED rt
         /\ dirs' = Update(f.par, f.name, f.id, [e EXCEPT !.hash = dirs[e.dir].hash])
         /\ Resume(p, s)
  BY <1>2 DEF Hashed, Panic
<1> QED
  BY <1>5, <1>6, <1>7, <1>8

LEMMA DiffStartHonest ==
  ASSUME IInv, IInv', Honest, NEW p \in Procs, DiffStart(p)
  PROVE  Honest'
<1>1. PICK loc, fit : Placed(loc, fit)
  BY DEF Honest
<1>2. /\ UNCHANGED <<rt, dirs, wr, sealed, got>>
      /\ g[p].at = "rootReady" /\ g[p].req.op = "diff"
  BY DEF DiffStart, heap, obs
<1>3. CASE Return(p)
  BY <1>2, <1>3, HonestReturn
<1>4. CASE Goto(p, "getDir")
  <2>1. PICK x : x = [g[p] EXCEPT !.at = "getDir"]
    OBVIOUS
  <2>2. g' = [g EXCEPT ![p] = x]
    BY <1>4, <2>1 DEF Goto
  <2>3. x.at = "getDir" /\ x.i = g[p].i
    BY <2>1, LocalRecord
  <2>4. x.i = 1
    BY <1>1, <1>2, <2>3 DEF Placed, LocalFits
  <2>5. LocalFits(loc, x)'
    BY <2>3, <2>4 DEF LocalFits, Walking, Ops
  <2> QED
    BY <1>1, <1>2, <2>2, <2>5, HonestMove
<1> QED
  BY <1>3, <1>4 DEF DiffStart

\* The iterator is at its place whatever its stack.
LEMMA NextFits ==
  ASSUME IInv, NEW loc2, NEW p \in Procs,
         NEW s, \/ g' = [g EXCEPT ![p].at = "next", ![p].stk = s]
                \/ g[p].at = "next" /\ SetStk(p, s)
  PROVE  \E x : g' = [g EXCEPT ![p] = x] /\ LocalFits(loc2, x)'
<1>1. PICK x : x = [g[p] EXCEPT !.at = "next", !.stk = s]
  OBVIOUS
<1>2. g' = [g EXCEPT ![p] = x]
  <2>1. CASE g' = [g EXCEPT ![p].at = "next", ![p].stk = s]
    BY <1>1, <2>1
  <2>2. CASE g[p].at = "next" /\ SetStk(p, s)
    <3>1. [g[p] EXCEPT !.stk = s] = x
      BY <1>1, <2>2, LocalRecord
    <3> QED
      BY <2>2, <3>1 DEF SetStk
  <2> QED
    BY <2>1, <2>2
<1>3. x.at = "next"
  BY <1>1, LocalRecord
<1>4. LocalFits(loc2, x)'
  BY <1>3 DEF LocalFits, Walking, Ops
<1> QED
  BY <1>2, <1>4

LEMMA NewDiffIterHonest ==
  ASSUME IInv, IInv', Honest, NEW p \in Procs, NewDiffIter(p) \/ DiffUp(p)
  PROVE  Honest'
<1>1. PICK loc, fit : Placed(loc, fit)
  BY DEF Honest
<1>2. UNCHANGED <<rt, dirs, wr, sealed, got>>
  BY DEF NewDiffIter, DiffUp, heap, obs
<1>3. CASE Return(p)
  BY <1>2, <1>3, HonestReturn
<1>4. PICK s : \/ s = <<RootFrame(g[p].d)>> /\ NewDiffIter(p)
               \/ s = Front(g[p].stk) /\ DiffUp(p)
  OBVIOUS
<1>5. CASE \/ g' = [g EXCEPT ![p].at = "next", ![p].stk = s]
           \/ g[p].at = "next" /\ SetStk(p, s)
  <2>1. PICK x : g' = [g EXCEPT ![p] = x] /\ LocalFits(loc, x)'
    BY <1>5, NextFits
  <2> QED
    BY <1>1, <1>2, <2>1, HonestMove
<1> QED
  BY <1>3, <1>4, <1>5 DEF NewDiffIter, DiffUp

LEMMA DiffNextHonest ==
  ASSUME IInv, IInv', Honest, NEW p \in Procs, DiffNext(p)
  PROVE  Honest'
<1>1. PICK loc, fit : Placed(loc, fit)
  BY DEF Honest
<1>2. UNCHANGED <<rt, wr, sealed, got>> /\ g[p].at = "next"
  BY DEF DiffNext, obs
<1>3. PICK n \in Top(p).todo \ Top(p).seen :
        LET d   == Top(p).d
            e   == Entries(d)[n]
            new == Len(dirs) + 1
            SetTo(k) == [dirs EXCEPT ![d].entries[n].dir = k]
        IN \/ /\ e.kind = "file"
              /\ SetStk(p, SeenBy(p, n))
              /\ UNCHANGED dirs
           \/ /\ e.kind = "dir" /\ Loadable(e.hash)
              /\ dirs' = Append(SetTo(new), LoadDir(e.hash))
              /\ SetStk(p, Append(SeenBy(p, n), Frame(new, DOMAIN Listing(e.hash), d, n, e.id)))
           \/ /\ e.kind = "dir" /\ ~Loadable(e.hash)
              /\ dirs' = SetTo(0)
              /\ Return(p)
  BY DEF DiffNext
<1>4. PICK d, e, new, path : /\ d = Top(p).d /\ e = Entries(d)[n] /\ new = Len(dirs) + 1
                             /\ path = Append(loc[d], n)
  OBVIOUS
<1>5. /\ d \in DOMAIN dirs /\ n \in Names(d) /\ DOMAIN loc = DOMAIN dirs
      /\ new \notin DOMAIN dirs /\ 0 \notin DOMAIN dirs
  BY <1>1, <1>2, <1>4, AtTop, HeapSizes DEF Hashing, FrameOK, Placed
<1>6. e \in EntrySet /\ EntryFits(loc, fit, path, e)
  BY <1>1, <1>4, <1>5, EntryPlaced
<1>a. ASSUME NEW k
      PROVE  \E y : /\ y = [e EXCEPT !.dir = k] /\ y.kind = e.kind /\ y.hash = e.hash /\ y.dir = k
                    /\ [dirs EXCEPT ![d].entries[n].dir = k] = SetEntry(dirs, d, n, y)
  <2>1. PICK y : y = [e EXCEPT !.dir = k]
    OBVIOUS
  <2>2. y.kind = e.kind /\ y.hash = e.hash /\ y.dir = k
    BY <1>6, <2>1 DEF EntrySet
  <2>3. [dirs EXCEPT ![d].entries[n].dir = k] = SetEntry(dirs, d, n, y)
    BY <1>4, <2>1 DEF SetEntry, Entries
  <2> QED
    BY <2>1, <2>2, <2>3
<1>7. CASE SetStk(p, SeenBy(p, n)) /\ UNCHANGED dirs
  <2>1. PICK x : g' = [g EXCEPT ![p] = x] /\ LocalFits(loc, x)'
    BY <1>2, <1>7, NextFits
  <2> QED
    BY <1>1, <1>2, <1>7, <2>1, HonestMove
<1>8. CASE /\ e.kind = "dir" /\ Loadable(e.hash)
           /\ dirs' = Append([dirs EXCEPT ![d].entries[n].dir = new], LoadDir(e.hash))
           /\ SetStk(p, Append(SeenBy(p, n), Frame(new, DOMAIN Listing(e.hash), d, n, e.id)))
  <2>1. PICK y, h, loc2, ds : /\ y.kind = e.kind /\ y.hash = e.hash /\ y.dir = new
                              /\ h = e.hash /\ loc2 = Ext(loc, new, path)
                              /\ ds = SetEntry(dirs, d, n, y)
                              /\ ds = [dirs EXCEPT ![d].entries[n].dir = new]
    BY <1>a
  <2>2. loc2[d] = loc[d] /\ loc2[new] = path
    BY <1>5, <2>1 DEF Ext
  <2>3. <<h, path>> \in fit
    BY <1>6, <1>8, <2>1 DEF EntryFits, ListedFits, Loadable
  <2>4. EntryFits(loc2, fit, Append(loc2[d], n), y)'
    BY <1>4, <1>8, <2>1, <2>2, <2>3 DEF EntryFits, ListedFits
  <2>5. Refitted(ds, loc2, fit)
    <3>1. y.kind = Entries(d)[n].kind
      BY <1>4, <2>1
    <3>2. n \in Names(d) /\ ds = SetEntry(dirs, d, n, y)
      BY <1>5, <2>1
    <3>3. Refits(ds, d, n, loc2, fit)
      BY <1>5, <2>4, <3>1, <3>2, SetPassedRefits
    <3> QED
      BY <1>5, <3>3 DEF Refitted
  <2>6. dirs' = Append(ds, LoadDir(h))
    BY <1>8, <2>1
  <2>7. PICK x : g' = [g EXCEPT ![p] = x] /\ LocalFits(loc2, x)'
    <3>1. PICK s : s = Append(SeenBy(p, n), Frame(new, DOMAIN Listing(e.hash), d, n, e.id))
      OBVIOUS
    <3> QED
      BY <1>2, <1>8, <3>1, NextFits
  <2>8. rt'.dir = rt.dir /\ rt'.hash \in {rt.hash, NoHash} /\ loc2 = Ext(loc, new, path)
    BY <1>2, <2>1
  <2> QED
    BY <1>1, <1>2, <1>4, <2>3, <2>5, <2>6, <2>7, <2>8, HonestLoad
<1>9. CASE e.kind = "dir" /\ dirs' = [dirs EXCEPT ![d].entries[n].dir = 0] /\ Return(p)
  <2>1. PICK y : /\ y.kind = e.kind /\ y.hash = e.hash /\ y.dir = 0
                 /\ dirs' = SetEntry(dirs, d, n, y)
    BY <1>9, <1>a
  <2>2. DOMAIN dirs' = DOMAIN dirs
    BY <2>1 DEF SetEntry
  <2>3. EntryFits(loc, fit, Append(loc[d], n), y)'
    BY <1>4, <1>5, <1>6, <1>9, <2>1, <2>2 DEF EntryFits, ListedFits
  <2>4. y.kind = Entries(d)[n].kind
    BY <1>4, <2>1
  <2>5. Refits(dirs', d, n, loc, fit)
    BY <1>5, <2>1, <2>3, <2>4, SetPassedRefits
  <2>6. PICK x : x = Idle
    OBVIOUS
  <2>7. g' = [g EXCEPT ![p] = x] /\ LocalFits(loc, x)'
    BY <1>9, <2>6, IdleFits DEF Return
  <2> QED
    BY <1>1, <1>2, <1>5, <2>5, <2>7, HonestRefit
<1> QED
  BY <1>3, <1>4, <1>7, <1>8, <1>9

\* A writer moves on; once it is closed its hash counts as written.
LEMMA WriterHonest ==
  ASSUME IInv, IInv', Honest, UNCHANGED <<rt, dirs, g, got>>,
         NEW w \in DOMAIN wr, NEW st, wr' = [wr EXCEPT ![w].st = st],
         sealed' = [f \in Paths |-> [now |-> sealed'[f].now, ever |-> sealed'[f].ever]],
         \A f \in Paths : sealed[f].ever \subseteq sealed'[f].ever,
         wr[w].hash \in sealed'[wr[w].path].ever
  PROVE  Honest'
<1>1. PICK loc, fit : Placed(loc, fit)
  BY DEF Honest
<1>2. WrittenOnce
  BY <1>1 DEF Placed
<1>3. \A v \in DOMAIN wr : wr[v] \in Writers
  BY WritersFacts
<1>4. PICK x : x = [wr[w] EXCEPT !.st = st]
  OBVIOUS
<1>5. x.path = wr[w].path /\ x.hash = wr[w].hash
  BY <1>3, <1>4 DEF Writers
<1>6. DOMAIN wr' = DOMAIN wr /\ \A v \in DOMAIN wr : wr'[v] = IF v = w THEN x ELSE wr[v]
  <2>1. wr' = [wr EXCEPT ![w] = x]
    BY <1>4
  <2> QED
    BY <2>1, WritersFacts
<1>7. WrittenOnce'
  <2>1. \A v \in DOMAIN wr : wr[v].path \in Paths
    BY <1>3 DEF Writers
  <2>2. \A v \in DOMAIN wr' : wr'[v].st # "open" => wr'[v].hash \in sealed'[wr'[v].path].ever
    BY <1>2, <1>5, <1>6, <2>1 DEF WrittenOnce
  <2> QED
    BY <1>2, <2>2 DEF WrittenOnce
<1>8. RootFits(loc, fit)' /\ \A v \in DOMAIN wr : wr'[v].path = wr[v].path
  BY <1>1, <1>5, <1>6 DEF Placed, RootFits
<1> QED
  BY <1>1, <1>6, <1>7, <1>8, HonestSame

LEMMA CloseWriterHonest ==
  ASSUME IInv, IInv', Honest, NEW w \in DOMAIN wr, CloseWriter(w) \/ PublishBlob(w)
  PROVE  Honest'
<1>1. PICK path, h : path = wr[w].path /\ h = wr[w].hash
  OBVIOUS
<1>2. path \in Paths /\ WrittenOnce /\ UNCHANGED <<rt, dirs, g, got>>
  BY <1>1, WritersFacts DEF Writers, Honest, Placed, CloseWriter, PublishBlob
<1>3. PICK now, ever : now = sealed[path].now /\ ever = sealed[path].ever
  OBVIOUS
<1>4. sealed[path] = [now |-> now, ever |-> ever]
  BY <1>2, <1>3 DEF WrittenOnce
<1>5. CASE CloseWriter(w)
  <2>1. PICK b, x : b = ever \union {h} /\ x = [now |-> now, ever |-> b]
    OBVIOUS
  <2>2. [sealed[path] EXCEPT !.ever = @ \union {h}] = x
    BY <1>4, <2>1
  <2>3. sealed' = [sealed EXCEPT ![path] = x]
    BY <1>1, <1>5, <2>2 DEF CloseWriter
  <2>4. /\ sealed' = [f \in Paths |-> [now |-> sealed'[f].now, ever |-> sealed'[f].ever]]
        /\ sealed'[path].ever = b /\ \A f \in Paths : f # path => sealed'[f] = sealed[f]
    BY <1>2, <2>1, <2>3, SealedSet
  <2>5. /\ \A f \in Paths : sealed[f].ever \subseteq sealed'[f].ever
        /\ wr[w].hash \in sealed'[wr[w].path].ever
    BY <1>1, <1>3, <2>1, <2>4
  <2> QED
    BY <1>2, <1>5, <2>4, <2>5, WriterHonest DEF CloseWriter
<1>6. CASE PublishBlob(w)
  <2>1. h \in ever
    <3>1. wr[w].st # "open"
      BY <1>6 DEF PublishBlob
    <3> QED
      BY <1>1, <1>2, <1>3, <3>1 DEF WrittenOnce
  <2>2. PICK st : wr' = [wr EXCEPT ![w].st = st]
    BY <1>6 DEF PublishBlob
  <2>3. CASE UNCHANGED sealed
    BY <1>1, <1>2, <1>3, <2>1, <2>2, <2>3, WriterHonest DEF WrittenOnce
  <2>4. CASE \E now2 : sealed' = [sealed EXCEPT ![path].now = now2]
    <3>1. PICK now2 : sealed' = [sealed EXCEPT ![path].now = now2]
      BY <2>4
    <3>2. PICK x : x = [now |-> now2, ever |-> ever]
      OBVIOUS
    <3>3. [sealed[path] EXCEPT !.now = now2] = x
      BY <1>4, <3>2
    <3>4. sealed' = [sealed EXCEPT ![path] = x]
      BY <3>1, <3>3
    <3>5. /\ sealed' = [f \in Paths |-> [now |-> sealed'[f].now, ever |-> sealed'[f].ever]]
          /\ sealed'[path].ever = ever /\ \A f \in Paths : f # path => sealed'[f] = sealed[f]
      BY <1>2, <3>2, <3>4, SealedSet
    <3>6. /\ \A f \in Paths : sealed[f].ever \subseteq sealed'[f].ever
          /\ wr[w].hash \in sealed'[wr[w].path].ever
      BY <1>1, <1>3, <2>1, <3>5
    <3> QED
      BY <1>2, <2>2, <3>5, <3>6, WriterHonest
  <2> QED
    BY <1>1, <1>6, <2>3, <2>4 DEF PublishBlob
<1> QED
  BY <1>5, <1>6

LEMMA HonestNext ==
  ASSUME IInv, IInv', Honest, [Next]_vars
  PROVE  Honest'
<1>1. ASSUME NEW p \in Procs, NEW r \in Requests, Begin(p, r)
      PROVE  Honest'
  BY <1>1, BeginHonest
<1>2. ASSUME NEW p \in Procs, Step(p)
      PROVE  Honest'
  <2>1. CASE List(p) \/ SaveDone(p)
    <3>1. UNCHANGED <<rt, dirs, wr, sealed, got>> /\ Return(p)
      BY <2>1 DEF List, SaveDone, heap, obs
    <3> QED
      BY <3>1, HonestReturn
  <2> QED
    BY <1>2, <2>1, GetDirHonest, SetRootDirHonest, WalkHonest, SetDirHonest, MkdirHonest,
       ArriveHonest, WriteHonest, LinkHonest, ReadHonestly, EntryHashHonest, HashNextHonest,
       HashDirDoneHonest, HashedHonest, DiffStartHonest, NewDiffIterHonest, DiffNextHonest
    DEF Step
<1>3. CASE UNCHANGED vars
  <2>1. UNCHANGED <<rt, dirs, wr, sealed, got, g>>
    BY <1>3 DEF vars, heap, obs
  <2>2. PICK loc, fit : Placed(loc, fit)
    BY DEF Honest
  <2>3. WrittenOnce' /\ RootFits(loc, fit)'
    BY <2>1, <2>2 DEF Placed, WrittenOnce, RootFits
  <2> QED
    BY <2>1, <2>2, <2>3, HonestSame
<1> QED
  BY <1>1, <1>2, <1>3, CloseWriterHonest DEF Next, Finished

\* The directory blobs of the tree that the Root was opened with, at all their places.
BaseNames == STRING \union UNION {DOMAIN Listing(h) : h \in BaseBlobs}
BaseFit(base) ==
  {<<Resolve(base, q), q>> :
     q \in {q \in Seq(BaseNames) : IsDirHash(Resolve(base, q)) /\ Resolve(base, q) \in BaseBlobs}}

LEMMA BaseFitFits ==
  ASSUME NEW base,
         sealed = [f \in Paths |-> [now  |-> Resolve(base, f),
                                    ever |-> {Resolve(base, f)} \ {NoHash}]],
         NEW y \in BaseFit(base)
  PROVE  BlobFits(BaseFit(base), y[1], y[2])
<1>1. PICK q \in Seq(BaseNames) : /\ IsDirHash(Resolve(base, q)) /\ Resolve(base, q) \in BaseBlobs
                                  /\ y = <<Resolve(base, q), q>>
  BY DEF BaseFit
<1>2. PICK h : h = Resolve(base, q)
  OBVIOUS
<1>3. y[1] = h /\ y[2] = q /\ IsDirHash(h) /\ h \in BaseBlobs
  BY <1>1, <1>2
<1>4. ASSUME NEW n \in DOMAIN Listing(h)
      PROVE  ListedFits(BaseFit(base), Append(q, n), Listing(h)[n])
  <2>1. PICK path, c : path = Append(q, n) /\ c = Listing(h)[n].hash
    OBVIOUS
  <2>2. n \in BaseNames
    BY <1>3 DEF BaseNames
  <2>3. path \in Seq(BaseNames)
    BY <2>1, <2>2
  <2>4. Resolve(base, path) = Child(h, n)
    BY <1>1, <1>2, <2>1, <2>2, ResolveAppend, Zenon
  <2>5. Resolve(base, path) = c
    BY <1>3, <2>1, <2>4 DEF Child
  <2>6. c \in BaseBlobs
    BY <1>3, <2>1, BaseAssumption DEF Children, KindsAgree
  <2>7. IsDirHash(c) => <<c, path>> \in BaseFit(base)
    <3> SUFFICES ASSUME IsDirHash(c)
                 PROVE  <<c, path>> \in BaseFit(base)
      OBVIOUS
    <3>1. path \in {z \in Seq(BaseNames) : IsDirHash(Resolve(base, z))
                                           /\ Resolve(base, z) \in BaseBlobs}
      BY <2>3, <2>5, <2>6
    <3>2. <<Resolve(base, path), path>> \in BaseFit(base)
      BY <3>1 DEF BaseFit
    <3> QED
      BY <2>5, <3>2
  <2>8. ContentFits(path, c)
    BY <2>5 DEF ContentFits
  <2> QED
    BY <2>1, <2>7, <2>8 DEF ListedFits
<1> QED
  BY <1>3, <1>4 DEF BlobFits

LEMMA HonestInit ==
  ASSUME Init
  PROVE  Honest
<1>1. PICK s \in Starts :
        /\ rt = [hash |-> s.base, dir |-> IF s.base = NoHash THEN 1 ELSE 0,
                 readonly |-> s.readonly]
        /\ dirs = IF s.base = NoHash THEN <<EmptyDir>> ELSE <<>>
        /\ sealed = [f \in Paths |-> [now  |-> Resolve(s.base, f),
                                      ever |-> {Resolve(s.base, f)} \ {NoHash}]]
  BY DEF Init
<1>2. PICK base, loc, fit : /\ base = s.base /\ loc = [d \in DOMAIN dirs |-> <<>>]
                            /\ fit = BaseFit(base)
  OBVIOUS
<1>3. /\ rt.hash = base /\ rt.dir = IF base = NoHash THEN 1 ELSE 0
      /\ base = NoHash \/ base \in BaseBlobs
  BY <1>1, <1>2, StartAssumption
<1>4. WrittenOnce
  <2>1. wr = <<>> /\ got.hash = NoHash
    BY DEF Init
  <2>2. sealed = [f \in Paths |-> [now |-> sealed[f].now, ever |-> sealed[f].ever]]
    BY <1>1
  <2> QED
    BY <2>1, <2>2 DEF WrittenOnce
<1>5. RootFits(loc, fit)
  <2>1. IsDirHash(base) => <<base, <<>>>> \in fit
    <3> SUFFICES ASSUME IsDirHash(base)
                 PROVE  <<base, <<>>>> \in fit
      OBVIOUS
    <3>1. base \in BaseBlobs
      BY <1>3 DEF IsDirHash
    <3>2. PICK q : q = <<>>
      OBVIOUS
    <3>3. q \in Seq(BaseNames) /\ Resolve(base, q) = base
      BY <3>2, ResolveEmpty
    <3>4. q \in {z \in Seq(BaseNames) : IsDirHash(Resolve(base, z))
                                        /\ Resolve(base, z) \in BaseBlobs}
      BY <3>1, <3>3
    <3>5. <<Resolve(base, q), q>> \in BaseFit(base)
      BY <3>4 DEF BaseFit
    <3> QED
      BY <1>2, <3>2, <3>3, <3>5
  <2> QED
    BY <1>2, <1>3, <2>1 DEF RootFits
<1>6. \A d \in DOMAIN dirs : DirFits(loc, fit, d)
  <2> SUFFICES ASSUME NEW d \in DOMAIN dirs
               PROVE  DirFits(loc, fit, d)
    OBVIOUS
  <2>1. dirs = <<EmptyDir>> /\ d = 1
    BY <1>1
  <2>2. dirs[d].hash = NoHash /\ Names(d) = {}
    BY <2>1 DEF EmptyDir, Names, Entries
  <2> QED
    BY <2>2 DEF DirFits, IsDirHash
<1>7. \A p \in Procs : LocalFits(loc, g[p])
  BY DEF Init, LocalFits, Idle
<1>8. \A y \in fit : BlobFits(fit, y[1], y[2])
  BY <1>1, <1>2, BaseFitFits
<1> QED
  BY <1>2, <1>4, <1>5, <1>6, <1>7, <1>8 DEF Placed, Honest

\* Whatever goroutines write, link, hash, save and diff meanwhile, a Read returns nothing
\* or a content that was completely written to that very path.
THEOREM ReadsAreHonest == Spec => []ReadHonest
<1>1. Init => IInv
  BY InitOK
<1>2. Init => Honest
  BY HonestInit
<1>3. IInv /\ Honest /\ [Next]_vars => (IInv /\ Honest)'
  BY StepOK, HonestNext
<1>4. Honest => ReadHonest
  BY DEF Honest, Placed, WrittenOnce, ReadHonest
<1> QED
  BY <1>1, <1>2, <1>3, <1>4, PTL DEF Spec

-----------------------------------------------------------------------------
(* No nil pointer is followed.  A Root that is not readonly and that no diff *)
(* runs on loads only the tree it was opened with, whose blobs are complete. *)

\* An entry without its Dir or File has the hash of a blob to load it from.
Safe(e) == (e.kind = "dir" /\ e.dir = 0) \/ (e.kind = "file" /\ ~e.file) => e.hash \in BaseBlobs

LoadedAt(d, n) == Entries(d)[n].kind = "dir" /\ Entries(d)[n].dir # 0

NilStk(s) == \A k \in DOMAIN s : s[k].par # 0 => LoadedAt(s[k].par, s[k].name)

NilLocal(x) ==
  /\ x.req.op # "diff" /\ x.at # "next"
  /\ x.at = "setDir" => Entries(x.d)[Way(x.req)[x.i]].kind = "dir"
  /\ NilStk(x.stk)

NilSafe ==
  ~rt.readonly =>
    /\ left["diff"] = 0 /\ (rt.dir = 0 => rt.hash \in BaseBlobs)
    /\ \A d \in DOMAIN dirs : \A n \in Names(d) : Safe(Entries(d)[n])
    /\ \A p \in Procs : NilLocal(g[p])

\* A loaded directory stays one.
LoadsStay ==
  \A d \in DOMAIN dirs : \A n \in Names(d) :
    /\ Entries(d)[n].kind = "dir" => Entries(d)'[n].kind = "dir"
    /\ LoadedAt(d, n) => LoadedAt(d, n)'

LEMMA NilLocalKept ==
  ASSUME IInv, LoadsStay, NEW q \in Procs, NEW x, x = g[q], NilLocal(x)
  PROVE  NilLocal(x)'
<1>1. x.at = "setDir" => Entries(x.d)'[Way(x.req)[x.i]].kind = "dir"
  BY LocalFacts DEF NilLocal, LoadsStay, Walking
<1>2. ASSUME NEW k \in DOMAIN x.stk, x.stk[k].par # 0
      PROVE  LoadedAt(x.stk[k].par, x.stk[k].name)'
  <2>1. PICK f, d, n : f = x.stk[k] /\ d = f.par /\ n = f.name
    OBVIOUS
  <2>2. FrameOK(f)
    BY <2>1, StkOfLocal DEF StkOK
  <2>3. d \in DOMAIN dirs /\ n \in Names(d)
    BY <1>2, <2>1, <2>2, HeapSizes DEF FrameOK
  <2>4. LoadedAt(d, n)
    BY <1>2, <2>1 DEF NilLocal, NilStk
  <2>5. LoadedAt(d, n)'
    BY <2>3, <2>4 DEF LoadsStay
  <2> QED
    BY <2>1, <2>5
<1> QED
  BY <1>1, <1>2 DEF NilLocal, NilStk

LEMMA NilStep ==
  ASSUME IInv, ~rt.readonly, NilSafe, LoadsStay, left'["diff"] = 0,
         rt'.dir = 0 => rt'.hash \in BaseBlobs,
         \A d \in DOMAIN dirs' : \A n \in Names(d)' :
           \/ d \in DOMAIN dirs /\ n \in Names(d) /\ Entries(d)'[n] = Entries(d)[n]
           \/ Safe(Entries(d)'[n]),
         NEW p \in Procs, NEW x, g' = [g EXCEPT ![p] = x], NilLocal(x)'
  PROVE  NilSafe'
<1>1. \A d \in DOMAIN dirs' : \A n \in Names(d)' : Safe(Entries(d)'[n])
  BY DEF NilSafe
<1>2. \A q \in Procs : g'[q] = IF q = p THEN x ELSE g[q]
  BY DEF IInv, TypeOK
<1>3. ASSUME NEW q \in Procs
      PROVE  NilLocal(g[q])'
  <2>1. PICK y : y = g'[q]
    OBVIOUS
  <2>2. NilLocal(y)'
    BY <1>2, <2>1, NilLocalKept DEF NilSafe
  <2> QED
    BY <2>1, <2>2 DEF NilLocal, NilStk, LoadedAt
<1> QED
  BY <1>1, <1>3 DEF NilSafe

\* ds is the heap with entry n of directory d changed at most, and that to a safe one.
Mends(ds, d, n) ==
  /\ OnlyAt(dirs, ds, d)
  /\ Names(d) \subseteq DOMAIN ds[d].entries /\ DOMAIN ds[d].entries \subseteq Names(d) \union {n}
  /\ \A m \in Names(d) : m # n => ds[d].entries[m] = Entries(d)[m]
  /\ n \in DOMAIN ds[d].entries =>
       \/ n \in Names(d) /\ ds[d].entries[n] = Entries(d)[n]
       \/ /\ Safe(ds[d].entries[n])
          /\ n \in Names(d) /\ Entries(d)[n].kind = "dir" =>
               ds[d].entries[n].kind = "dir" /\ ds[d].entries[n].dir # 0
Mended(ds) == ds = dirs \/ \E d \in DOMAIN dirs : \E n : Mends(ds, d, n)

\* What such a step shows of the entries, with or without a new Dir.
LEMMA MendStep ==
  ASSUME IInv, NEW ds, Mended(ds),
         \/ dirs' = ds
         \/ \E y : dirs' = Append(ds, y) /\ \A m \in DOMAIN y.entries : Safe(y.entries[m])
  PROVE  /\ LoadsStay
         /\ \A d \in DOMAIN dirs' : \A n \in Names(d)' :
              \/ d \in DOMAIN dirs /\ n \in Names(d) /\ Entries(d)'[n] = Entries(d)[n]
              \/ Safe(Entries(d)'[n])
<1>0. PICK d0, n0 : ds = dirs \/ (d0 \in DOMAIN dirs /\ Mends(ds, d0, n0))
  BY DEF Mended
<1>1. /\ Len(dirs) \in Nat /\ DOMAIN dirs = 1..Len(dirs) /\ dirs \in Seq(ToSet(dirs))
  BY HeapSizes DEF IInv, TypeOK, DirsOK
<1>2. DOMAIN ds = DOMAIN dirs /\ ds \in Seq(ToSet(ds))
  BY <1>0, <1>1 DEF Mends, OnlyAt
<1>3. Len(ds) = Len(dirs)
  BY <1>1, <1>2, SeqFacts
<1>4. /\ \A c \in DOMAIN dirs : dirs'[c] = ds[c]
      /\ \A c \in DOMAIN dirs' : c \in DOMAIN dirs \/ \A m \in Names(c)' : Safe(Entries(c)'[m])
  <2>1. CASE dirs' = ds
    BY <1>2, <2>1
  <2>2. CASE \E y : dirs' = Append(ds, y) /\ \A m \in DOMAIN y.entries : Safe(y.entries[m])
    <3>1. PICK y : dirs' = Append(ds, y) /\ \A m \in DOMAIN y.entries : Safe(y.entries[m])
      BY <2>2
    <3>2. /\ DOMAIN dirs' = 1..(Len(dirs) + 1) /\ dirs'[Len(dirs) + 1] = y
          /\ \A c \in DOMAIN dirs : dirs'[c] = ds[c]
      <4>1. PICK t : t = Append(ds, y)
        OBVIOUS
      <4>2. /\ DOMAIN t = 1..(Len(ds) + 1) /\ t[Len(ds) + 1] = y
            /\ \A c \in 1..Len(ds) : t[c] = ds[c]
        BY <1>2, <4>1, SeqFacts
      <4> QED
        BY <1>1, <1>3, <3>1, <4>1, <4>2
    <3>3. \A c \in DOMAIN dirs' : c \in DOMAIN dirs \/ c = Len(dirs) + 1
      BY <1>1, <3>2
    <3> QED
      BY <3>1, <3>2, <3>3 DEF Names, Entries
  <2> QED
    BY <2>1, <2>2
<1>5. LoadsStay
  BY <1>0, <1>4 DEF LoadsStay, LoadedAt, Mends, OnlyAt, Names, Entries
<1>6. ASSUME NEW d \in DOMAIN dirs, NEW n \in Names(d)'
      PROVE  (n \in Names(d) /\ Entries(d)'[n] = Entries(d)[n]) \/ Safe(Entries(d)'[n])
  BY <1>0, <1>4 DEF Mends, OnlyAt, Names, Entries
<1> QED
  BY <1>4, <1>5, <1>6

LEMMA MendPassed ==
  ASSUME IInv, NEW p \in Procs, NEW d \in DOMAIN dirs, NEW ds, ds = DirPassed(p, d)
  PROVE  /\ Mended(ds) /\ DOMAIN ds = DOMAIN dirs /\ ds \in Seq(ToSet(ds))
         /\ ds[d].entries = Entries(d)
<1>1. OnlyAt(dirs, ds, d) /\ ds[d].entries = Entries(d)
  BY PassedFacts
<1>2. Mends(ds, d, 0)
  BY <1>1 DEF Mends, Names
<1> QED
  BY <1>1, <1>2 DEF Mended, OnlyAt

LEMMA MendSet ==
  ASSUME IInv, NEW p \in Procs, NEW d \in DOMAIN dirs, NEW n \in Names(d), NEW e, Safe(e),
         Entries(d)[n].kind = "dir" => e.kind = "dir" /\ e.dir # 0,
         NEW ds, ds = DirPassed(p, d) \/ ds = dirs, NEW ds2, ds2 = SetEntry(ds, d, n, e)
  PROVE  Mended(ds2)
<1>1. /\ OnlyAt(dirs, ds, d) /\ DirRecord(ds[d]) /\ ds \in Seq(ToSet(ds))
      /\ ds[d].entries = Entries(d)
  BY PassedFacts, DirIsRecord DEF OnlyAt, Entries
<1>2. d \in DOMAIN ds /\ n \in DOMAIN ds[d].entries
  BY <1>1 DEF OnlyAt, Names
<1>3. /\ OnlyAt(ds, ds2, d) /\ DOMAIN ds2[d].entries = DOMAIN ds[d].entries
      /\ ds2[d].entries[n] = e
      /\ \A m \in DOMAIN ds[d].entries : m # n => ds2[d].entries[m] = ds[d].entries[m]
  BY <1>1, <1>2, SetEntryFacts
<1>4. OnlyAt(dirs, ds2, d)
  BY <1>1, <1>3 DEF OnlyAt
<1>5. Mends(ds2, d, n)
  BY <1>1, <1>3, <1>4 DEF Mends, Names
<1> QED
  BY <1>5 DEF Mended

LEMMA MendPut ==
  ASSUME IInv, NEW d \in DOMAIN dirs, NEW n, NEW e, Safe(e),
         n \in Names(d) /\ Entries(d)[n].kind = "dir" => e.kind = "dir" /\ e.dir # 0,
         NEW ds2, ds2 = PutEntry(dirs, d, n, e)
  PROVE  Mended(ds2)
<1>1. /\ OnlyAt(dirs, ds2, d) /\ DOMAIN ds2[d].entries = DOMAIN dirs[d].entries \union {n}
      /\ ds2[d].entries[n] = e
      /\ \A m \in DOMAIN dirs[d].entries : m # n => ds2[d].entries[m] = dirs[d].entries[m]
  BY DirIsRecord, PutEntryFacts
<1>2. Mends(ds2, d, n)
  BY <1>1 DEF Mends, Names, Entries
<1> QED
  BY <1>2 DEF Mended

\* What is loaded from the tree the Root was opened with can be loaded further.
LEMMA LoadedSafe ==
  ASSUME NEW h \in BaseBlobs, IsDirHash(h)
  PROVE  \A m \in DOMAIN LoadDir(h).entries : Safe(LoadDir(h).entries[m])
<1>1. LoadDir(h).entries = [n \in DOMAIN Listing(h) |-> LoadedEntry(Listing(h)[n])]
  BY DEF LoadDir
<1>2. ASSUME NEW m \in DOMAIN Listing(h)
      PROVE  Safe(LoadedEntry(Listing(h)[m]))
  <2>1. Listing(h)[m].hash \in BaseBlobs
    BY BaseAssumption DEF Children
  <2> QED
    BY <2>1 DEF Safe, LoadedEntry
<1> QED
  BY <1>1, <1>2

\* The heap stays, or changes by a safe entry, and the goroutine goes on.
LEMMA NilHeap ==
  ASSUME IInv, ~rt.readonly, NilSafe, UNCHANGED left,
         rt'.dir = rt.dir, rt.dir = 0 => rt'.hash = rt.hash,
         Mended(dirs'), NEW p \in Procs, NEW x, g' = [g EXCEPT ![p] = x], NilLocal(x)'
  PROVE  NilSafe'
<1>1. /\ LoadsStay
      /\ \A d \in DOMAIN dirs' : \A n \in Names(d)' :
           \/ d \in DOMAIN dirs /\ n \in Names(d) /\ Entries(d)'[n] = Entries(d)[n]
           \/ Safe(Entries(d)'[n])
  BY MendStep
<1>2. left'["diff"] = 0 /\ (rt'.dir = 0 => rt'.hash \in BaseBlobs)
  BY DEF NilSafe
<1> QED
  BY <1>1, <1>2, NilStep

LEMMA NilIdle == NilLocal(Idle)'
<1>1. Idle.stk = <<>> /\ Idle.req.op = "none" /\ Idle.at = "idle"
  BY DEF Idle, NoReq
<1>2. \A k \in DOMAIN Idle.stk : FALSE
  BY <1>1
<1> QED
  BY <1>1, <1>2 DEF NilLocal, NilStk

LEMMA NilReturn ==
  ASSUME IInv, ~rt.readonly, NilSafe, left'["diff"] = left["diff"],
         rt'.dir = rt.dir, rt.dir = 0 => rt'.hash = rt.hash,
         Mended(dirs'), NEW p \in Procs, Return(p)
  PROVE  NilSafe'
<1>1. /\ LoadsStay
      /\ \A d \in DOMAIN dirs' : \A n \in Names(d)' :
           \/ d \in DOMAIN dirs /\ n \in Names(d) /\ Entries(d)'[n] = Entries(d)[n]
           \/ Safe(Entries(d)'[n])
  BY MendStep
<1>2. left'["diff"] = 0 /\ (rt'.dir = 0 => rt'.hash \in BaseBlobs)
  BY DEF NilSafe
<1>3. PICK x : x = Idle
  OBVIOUS
<1>4. g' = [g EXCEPT ![p] = x] /\ NilLocal(x)'
  BY <1>3, NilIdle DEF Return
<1> QED
  BY <1>1, <1>2, <1>4, NilStep

\* A goroutine that moves with its request and its stack.
LEMMA NilMoves ==
  ASSUME IInv, NilSafe, ~rt.readonly, LoadsStay, NEW p \in Procs,
         NEW x, x.req = g[p].req, x.stk = g[p].stk, x.at # "next",
         x.at = "setDir" => Entries(x.d)'[Way(x.req)[x.i]].kind = "dir"
  PROVE  NilLocal(x)'
<1>1. PICK y : y = g[p]
  OBVIOUS
<1>2. NilLocal(y)'
  BY <1>1, NilLocalKept DEF NilSafe
<1>3. x.req.op # "diff" /\ NilStk(x.stk)'
  BY <1>1, <1>2 DEF NilLocal
<1> QED
  BY <1>3 DEF NilLocal

LEMMA RootFramePar ==
  ASSUME NEW d, NEW s, s = <<RootFrame(d)>>
  PROVE  \A k \in DOMAIN s : s[k].par = 0
<1>1. RootFrame(d).par = 0
  BY Zenon DEF RootFrame, Frame
<1>2. PICK f : f = RootFrame(d)
  OBVIOUS
<1> QED
  BY <1>1, <1>2

LEMMA BeginNil ==
  ASSUME IInv, ~rt.readonly, NilSafe, NEW p \in Procs, NEW r \in Requests, Begin(p, r)
  PROVE  NilSafe' /\ UNCHANGED panicked
<1>1. UNCHANGED <<rt, dirs, panicked>> /\ left[r.op] > 0
  BY DEF Begin, heap, obs
<1>2. /\ r.op # "diff" /\ left["diff"] = 0 /\ r.op \in Ops
      /\ left \in [Ops \union {"fault"} -> Nat]
  <2>1. left["diff"] = 0 /\ r.op \in Ops
    BY RequestOp DEF NilSafe
  <2>2. r.op # "diff"
    BY <1>1, <2>1
  <2> QED
    BY <2>1, <2>2, LocalRecord
<1>3. left' = [left EXCEPT ![r.op] = @ - 1]
  BY DEF Begin
<1>4. left'["diff"] = 0
  <2>1. "diff" \in Ops
    BY DEF Ops
  <2> QED
    BY <1>2, <1>3, <2>1
<1> DEFINE hashes == r.op \in {"save", "diff"}
           dirty  == ~rt.readonly /\ rt.dir # 0
<1>5. PICK must, stk, at :
        /\ must = IF r.op \in {"save", "read"} THEN [f \in Paths |-> sealed[f].now] ELSE Idle.must
        /\ stk = IF hashes /\ dirty THEN <<RootFrame(rt.dir)>> ELSE Idle.stk
        /\ at = IF ~hashes THEN "getDir" ELSE IF dirty THEN "hash" ELSE "rootReady"
  OBVIOUS
<1>a. PICK x : x = [Idle EXCEPT !.req = r, !.must = must, !.stk = stk, !.at = at]
  OBVIOUS
<1>6. g' = [g EXCEPT ![p] = x]
  BY <1>5, <1>a DEF Begin
<1>7. /\ x.at \in {"getDir", "hash", "rootReady"} /\ x.req = r
      /\ x.stk = <<>> \/ x.stk = <<RootFrame(rt.dir)>>
  BY <1>5, <1>a DEF Idle
<1>8. \A k \in DOMAIN x.stk : x.stk[k].par = 0
  <2>1. CASE x.stk = <<>>
    BY <2>1
  <2>2. CASE x.stk = <<RootFrame(rt.dir)>>
    BY <2>2, RootFramePar
  <2> QED
    BY <1>7, <2>1, <2>2
<1>9. NilLocal(x)'
  BY <1>2, <1>7, <1>8 DEF NilLocal, NilStk
<1>10. Mended(dirs')
  BY <1>1 DEF Mended
<1>11. /\ LoadsStay
       /\ \A d \in DOMAIN dirs' : \A n \in Names(d)' :
            \/ d \in DOMAIN dirs /\ n \in Names(d) /\ Entries(d)'[n] = Entries(d)[n]
            \/ Safe(Entries(d)'[n])
  BY <1>10, MendStep
<1>12. rt'.dir = 0 => rt'.hash \in BaseBlobs
  BY <1>1 DEF NilSafe
<1> QED
  BY <1>1, <1>4, <1>6, <1>9, <1>11, <1>12, NilStep

LEMMA GetDirNil ==
  ASSUME IInv, ~rt.readonly, NilSafe, NEW p \in Procs, GetDir(p)
  PROVE  NilSafe' /\ UNCHANGED panicked
<1>1. UNCHANGED <<left, panicked>> /\ g[p].at = "getDir"
  BY DEF GetDir, obs
<1>2. CASE Return(p) /\ UNCHANGED <<rt, dirs>>
  BY <1>1, <1>2, NilReturn DEF Mended
<1>3. CASE /\ rt.dir # 0 /\ rt' = RootPassed(p) /\ UNCHANGED dirs
           /\ g' = [g EXCEPT ![p].at = "walk", ![p].d = rt.dir]
  <2>1. PICK x : x = [g[p] EXCEPT !.at = "walk", !.d = rt.dir]
    OBVIOUS
  <2>2. x.req = g[p].req /\ x.stk = g[p].stk /\ x.at = "walk"
    BY <2>1, LocalRecord
  <2>3. Mended(dirs') /\ LoadsStay
    BY <1>3 DEF Mended, LoadsStay, LoadedAt, Names, Entries
  <2>4. NilLocal(x)'
    BY <2>2, <2>3, NilMoves
  <2>5. rt'.dir = rt.dir /\ rt.dir # 0
    BY <1>3, PassedFacts
  <2>6. g' = [g EXCEPT ![p] = x]
    BY <1>3, <2>1
  <2> QED
    BY <1>1, <2>3, <2>4, <2>5, <2>6, NilHeap
<1>4. CASE /\ rt.dir = 0 /\ Loadable(rt.hash) /\ UNCHANGED rt
           /\ dirs' = Append(dirs, LoadDir(rt.hash))
           /\ g' = [g EXCEPT ![p].at = "setRootDir", ![p].new = Len(dirs) + 1]
  <2>1. PICK x : x = [g[p] EXCEPT !.at = "setRootDir", !.new = Len(dirs) + 1]
    OBVIOUS
  <2>2. x.req = g[p].req /\ x.stk = g[p].stk /\ x.at = "setRootDir" /\ g' = [g EXCEPT ![p] = x]
    BY <1>4, <2>1, LocalRecord
  <2>3. PICK y : y = LoadDir(rt.hash)
    OBVIOUS
  <2>4. rt.hash \in BaseBlobs /\ IsDirHash(rt.hash)
    BY <1>4 DEF NilSafe, Loadable
  <2>5. \A m \in DOMAIN y.entries : Safe(y.entries[m])
    BY <2>3, <2>4, LoadedSafe
  <2>6. /\ LoadsStay
        /\ \A d \in DOMAIN dirs' : \A n \in Names(d)' :
             \/ d \in DOMAIN dirs /\ n \in Names(d) /\ Entries(d)'[n] = Entries(d)[n]
             \/ Safe(Entries(d)'[n])
    <3>1. Mended(dirs)
      BY DEF Mended
    <3> QED
      BY <1>4, <2>3, <2>5, <3>1, MendStep
  <2>7. NilLocal(x)'
    BY <2>2, <2>6, NilMoves
  <2>8. left'["diff"] = 0 /\ (rt'.dir = 0 => rt'.hash \in BaseBlobs)
    BY <1>1, <1>4 DEF NilSafe
  <2> QED
    BY <1>1, <2>2, <2>6, <2>7, <2>8, NilStep
<1> QED
  BY <1>2, <1>3, <1>4 DEF GetDir

LEMMA SetRootDirNil ==
  ASSUME IInv, ~rt.readonly, NilSafe, NEW p \in Procs, SetRootDir(p)
  PROVE  NilSafe' /\ UNCHANGED panicked
<1>1. UNCHANGED <<dirs, left, panicked>> /\ g[p].at = "setRootDir"
  BY DEF SetRootDir, obs
<1>2. PICK x : x = [g[p] EXCEPT !.at = "walk", !.d = g[p].new]
  OBVIOUS
<1>3. x.req = g[p].req /\ x.stk = g[p].stk /\ x.at = "walk" /\ g' = [g EXCEPT ![p] = x]
  BY <1>2, LocalRecord DEF SetRootDir
<1>4. Mended(dirs') /\ LoadsStay
  BY <1>1 DEF Mended, LoadsStay, LoadedAt, Names, Entries
<1>5. NilLocal(x)'
  BY <1>3, <1>4, NilMoves
<1>6. rt'.dir # 0
  <2>1. rt'.dir = g[p].new
    BY DEF SetRootDir, RootPassed, IInv, TypeOK, RtOK
  <2> QED
    BY <1>1, <2>1, LocalFacts, HeapSizes
<1>7. /\ LoadsStay
      /\ \A d \in DOMAIN dirs' : \A n \in Names(d)' :
           \/ d \in DOMAIN dirs /\ n \in Names(d) /\ Entries(d)'[n] = Entries(d)[n]
           \/ Safe(Entries(d)'[n])
  BY <1>4, MendStep
<1>8. left'["diff"] = 0
  BY <1>1 DEF NilSafe
<1> QED
  BY <1>1, <1>3, <1>5, <1>6, <1>7, <1>8, NilStep

LEMMA WalkNil ==
  ASSUME IInv, ~rt.readonly, NilSafe, NEW p \in Procs, Walk(p)
  PROVE  NilSafe' /\ UNCHANGED panicked
<1>1. UNCHANGED <<rt, left, panicked>> /\ g[p].at = "walk"
  BY Zenon DEF Walk, obs
<1>2. PICK d, n, e, ds : /\ d = g[p].d /\ n = DirPart(p)[g[p].i]
                         /\ e = Entries(d)[n] /\ ds = DirPassed(p, d)
  OBVIOUS
<1>3. d \in DOMAIN dirs /\ DirPart(p) = Way(g[p].req)
  BY <1>1, <1>2, LocalFacts DEF Walking
<1>4. /\ Mended(ds) /\ DOMAIN ds = DOMAIN dirs /\ ds \in Seq(ToSet(ds))
      /\ ds[d].entries = Entries(d)
  BY <1>2, <1>3, MendPassed
<1>5. n \in Names(d) => e \in EntrySet /\ Safe(e)
  BY <1>2, <1>3, EntryFacts DEF NilSafe
<1>6. CASE dirs' = ds /\ Return(p)
  BY <1>1, <1>4, <1>6, NilReturn
<1>7. CASE dirs' = ds /\ Goto(p, "mkdir")
  <2>1. PICK x : x = [g[p] EXCEPT !.at = "mkdir"]
    OBVIOUS
  <2>2. x.req = g[p].req /\ x.stk = g[p].stk /\ x.at = "mkdir" /\ g' = [g EXCEPT ![p] = x]
    BY <1>7, <2>1, LocalRecord DEF Goto
  <2>3. LoadsStay
    BY <1>4, <1>7, MendStep
  <2>4. NilLocal(x)'
    BY <2>2, <2>3, NilMoves
  <2> QED
    BY <1>1, <1>4, <1>7, <2>2, <2>4, NilHeap
<1>8. CASE /\ n \in Names(d) /\ e.kind = "dir" /\ e.dir # 0
           /\ dirs' = [ds EXCEPT ![d].entries[n] = EntryPassed(p, e)]
           /\ Advance(p, e.dir)
  <2>1. PICK x, f : x = [g[p] EXCEPT !.at = "walk", !.d = e.dir, !.i = @ + 1] /\ f = EntryPassed(p, e)
    OBVIOUS
  <2>2. x.req = g[p].req /\ x.stk = g[p].stk /\ x.at = "walk" /\ g' = [g EXCEPT ![p] = x]
    BY <1>8, <2>1, LocalRecord DEF Advance
  <2>3. f.kind = "dir" /\ f.dir # 0 /\ dirs' = SetEntry(ds, d, n, f)
    BY <1>5, <1>8, <2>1 DEF EntryPassed, EntrySet, SetEntry
  <2>4. Safe(f)
    BY <2>3 DEF Safe
  <2>5. Mended(dirs')
    <3>1. PICK ds2 : ds2 = SetEntry(ds, d, n, f)
      OBVIOUS
    <3>2. n \in Names(d) /\ d \in DOMAIN dirs /\ ds = DirPassed(p, d)
      BY <1>2, <1>3, <1>8
    <3>3. Mended(ds2)
      BY <2>3, <2>4, <3>1, <3>2, MendSet
    <3> QED
      BY <2>3, <3>1, <3>3
  <2>6. LoadsStay
    BY <2>5, MendStep
  <2>7. NilLocal(x)'
    BY <2>2, <2>6, NilMoves
  <2> QED
    BY <1>1, <2>2, <2>5, <2>7, NilHeap
<1>9. CASE /\ n \in Names(d) /\ e.kind = "dir" /\ e.dir = 0 /\ Loadable(e.hash)
           /\ dirs' = Append(ds, LoadDir(e.hash))
           /\ g' = [g EXCEPT ![p].at = "setDir", ![p].new = Len(dirs) + 1, ![p].id = e.id]
  <2>1. PICK x : x = [g[p] EXCEPT !.at = "setDir", !.new = Len(dirs) + 1, !.id = e.id]
    OBVIOUS
  <2>2. /\ x.req = g[p].req /\ x.stk = g[p].stk /\ x.at = "setDir" /\ x.d = d /\ x.i = g[p].i
        /\ g' = [g EXCEPT ![p] = x]
    BY <1>2, <1>9, <2>1, LocalRecord
  <2>3. PICK y : y = LoadDir(e.hash)
    OBVIOUS
  <2>4. e.hash \in BaseBlobs /\ IsDirHash(e.hash)
    BY <1>5, <1>9 DEF Safe, Loadable
  <2>5. \A m \in DOMAIN y.entries : Safe(y.entries[m])
    BY <2>3, <2>4, LoadedSafe
  <2>6. /\ LoadsStay
        /\ \A c \in DOMAIN dirs' : \A m \in Names(c)' :
             \/ c \in DOMAIN dirs /\ m \in Names(c) /\ Entries(c)'[m] = Entries(c)[m]
             \/ Safe(Entries(c)'[m])
    BY <1>4, <1>9, <2>3, <2>5, MendStep
  <2>7. Entries(x.d)'[Way(x.req)[x.i]].kind = "dir"
    <3>1. n \in Names(d) /\ Entries(d)[n].kind = "dir"
      BY <1>2, <1>9
    <3>2. Entries(d)'[n].kind = "dir"
      BY <1>3, <2>6, <3>1 DEF LoadsStay
    <3>3. x.d = d /\ Way(x.req)[x.i] = n
      BY <1>2, <1>3, <2>2
    <3> QED
      BY <3>2, <3>3
  <2>8. NilLocal(x)'
    BY <2>2, <2>6, <2>7, NilMoves
  <2>9. left'["diff"] = 0 /\ (rt'.dir = 0 => rt'.hash \in BaseBlobs)
    BY <1>1 DEF NilSafe
  <2> QED
    BY <1>1, <2>2, <2>6, <2>8, <2>9, NilStep
<1>10. \/ dirs' = ds /\ Return(p)
       \/ dirs' = ds /\ Goto(p, "mkdir")
       \/ /\ n \in Names(d) /\ e.kind = "dir" /\ e.dir # 0
          /\ dirs' = [ds EXCEPT ![d].entries[n] = EntryPassed(p, e)]
          /\ Advance(p, e.dir)
       \/ /\ n \in Names(d) /\ e.kind = "dir" /\ e.dir = 0 /\ Loadable(e.hash)
          /\ dirs' = Append(ds, LoadDir(e.hash))
          /\ g' = [g EXCEPT ![p].at = "setDir", ![p].new = Len(dirs) + 1, ![p].id = e.id]
  <2>1. CASE n \in Names(d) /\ e.kind # "dir"
    BY <1>2, <2>1, Zenon DEF Walk
  <2>2. CASE n \in Names(d) /\ e.kind = "dir"
    BY <1>2, <2>2, Zenon DEF Walk
  <2>3. CASE n \notin Names(d)
    BY <1>2, <2>3, Zenon DEF Walk
  <2> QED
    BY <2>1, <2>2, <2>3
<1>11. UNCHANGED panicked
  BY <1>1
<1> QED
  BY <1>6, <1>7, <1>8, <1>9, <1>10, <1>11

LEMMA SetDirNil ==
  ASSUME IInv, ~rt.readonly, NilSafe, NEW p \in Procs, SetDir(p)
  PROVE  NilSafe' /\ UNCHANGED panicked
<1>1. UNCHANGED <<rt, left, panicked>> /\ g[p].at = "setDir"
  BY DEF SetDir, obs
<1>2. PICK d, n, new : d = g[p].d /\ n = DirPart(p)[g[p].i] /\ new = g[p].new
  OBVIOUS
<1>3. /\ d \in DOMAIN dirs /\ n \in Names(d) /\ new # 0 /\ n = Way(g[p].req)[g[p].i]
      /\ Entries(d)[n] \in EntrySet
  BY <1>1, <1>2, LocalFacts, HeapSizes, EntryFacts DEF Walking
<1>4. Entries(d)[n].kind = "dir"
  BY <1>1, <1>2, <1>3 DEF NilSafe, NilLocal
<1>5. PICK b, e : b = EntryPassed(p, Entries(d)[n]) /\ e = [b EXCEPT !.dir = new]
  OBVIOUS
<1>6. e.kind = "dir" /\ e.dir # 0
  BY <1>3, <1>4, <1>5 DEF EntryPassed, EntrySet
<1>7. Safe(e)
  BY <1>6 DEF Safe
<1>8. dirs' = SetEntry(dirs, d, n, e) \/ dirs' = dirs
  BY <1>2, <1>5 DEF SetDir, Update, SetEntry
<1>9. Mended(dirs')
  <2>1. CASE dirs' = dirs
    BY <2>1 DEF Mended
  <2>2. CASE dirs' = SetEntry(dirs, d, n, e)
    BY <1>3, <1>6, <1>7, <2>2, MendSet
  <2> QED
    BY <1>8, <2>1, <2>2
<1>10. LoadsStay
  BY <1>9, MendStep
<1>11. PICK x : x = [g[p] EXCEPT !.at = "walk", !.d = new, !.i = @ + 1]
  OBVIOUS
<1>12. x.req = g[p].req /\ x.stk = g[p].stk /\ x.at = "walk" /\ g' = [g EXCEPT ![p] = x]
  BY <1>2, <1>11, LocalRecord DEF SetDir, Advance
<1>13. NilLocal(x)'
  BY <1>10, <1>12, NilMoves
<1> QED
  BY <1>1, <1>9, <1>12, <1>13, NilHeap

LEMMA MkdirNil ==
  ASSUME IInv, ~rt.readonly, NilSafe, NEW p \in Procs, Mkdir(p)
  PROVE  NilSafe' /\ UNCHANGED panicked
<1>1. UNCHANGED <<rt, left, panicked>> /\ g[p].at = "mkdir"
  BY DEF Mkdir, obs
<1>2. PICK d, n, new : d = g[p].d /\ n = DirPart(p)[g[p].i] /\ new = Len(dirs) + 1
  OBVIOUS
<1>3. d \in DOMAIN dirs /\ new # 0
  BY <1>1, <1>2, LocalFacts, HeapSizes DEF Walking
<1>4. PICK e : e = NewDirEntry(new)
  OBVIOUS
<1>5. e.kind = "dir" /\ e.dir # 0
  BY <1>3, <1>4 DEF NewDirEntry
<1>6. Safe(e)
  BY <1>5 DEF Safe
<1>7. PICK ds : ds = PutEntry(dirs, d, n, e)
  OBVIOUS
<1>8. dirs' = Append(ds, EmptyDir)
  BY <1>2, <1>4, <1>7 DEF Mkdir, Store, PutEntry
<1>9. Mended(ds)
  BY <1>3, <1>5, <1>6, <1>7, MendPut
<1>10. \A m \in DOMAIN EmptyDir.entries : Safe(EmptyDir.entries[m])
  BY DEF EmptyDir
<1>11. /\ LoadsStay
       /\ \A c \in DOMAIN dirs' : \A m \in Names(c)' :
            \/ c \in DOMAIN dirs /\ m \in Names(c) /\ Entries(c)'[m] = Entries(c)[m]
            \/ Safe(Entries(c)'[m])
  BY <1>8, <1>9, <1>10, MendStep
<1>12. PICK x : x = [g[p] EXCEPT !.at = "walk", !.d = new, !.i = @ + 1]
  OBVIOUS
<1>13. x.req = g[p].req /\ x.stk = g[p].stk /\ x.at = "walk" /\ g' = [g EXCEPT ![p] = x]
  BY <1>2, <1>12, LocalRecord DEF Mkdir, Advance
<1>14. NilLocal(x)'
  BY <1>11, <1>13, NilMoves
<1>15. left'["diff"] = 0 /\ (rt'.dir = 0 => rt'.hash \in BaseBlobs)
  BY <1>1 DEF NilSafe
<1> QED
  BY <1>1, <1>11, <1>13, <1>14, <1>15, NilStep

LEMMA ArriveNil ==
  ASSUME IInv, ~rt.readonly, NilSafe, NEW p \in Procs, Arrive(p)
  PROVE  NilSafe' /\ UNCHANGED panicked
<1>1. UNCHANGED <<rt, left, panicked>> /\ g[p].at = "walk"
  BY DEF Arrive, obs
<1>2. PICK d, ds : d = g[p].d /\ ds = DirPassed(p, d)
  OBVIOUS
<1>3. d \in DOMAIN dirs
  BY <1>1, <1>2, LocalFacts DEF Walking
<1>4. dirs' = ds /\ Mended(ds)
  BY <1>2, <1>3, MendPassed DEF Arrive
<1>5. LoadsStay
  BY <1>4, MendStep
<1>6. PICK x : x = [g[p] EXCEPT !.at = g[p].req.op]
  OBVIOUS
<1>7. g' = [g EXCEPT ![p] = x] /\ x.req = g[p].req /\ x.stk = g[p].stk /\ x.at = g[p].req.op
  BY <1>6, LocalRecord DEF Arrive, Goto
<1>8. g[p].req.op \in Ops
  BY <1>1, LocalFacts, RequestOp
<1>9. x.at # "next" /\ x.at # "setDir"
  BY <1>7, <1>8 DEF Ops
<1>10. NilLocal(x)'
  BY <1>5, <1>7, <1>9, NilMoves
<1> QED
  BY <1>1, <1>4, <1>7, <1>10, NilHeap

LEMMA WriteNil ==
  ASSUME IInv, ~rt.readonly, NilSafe, NEW p \in Procs, Write(p)
  PROVE  NilSafe' /\ UNCHANGED panicked
<1>1. UNCHANGED <<rt, panicked>> /\ g[p].at = "write" /\ Return(p)
  BY DEF Write
<1>2. left'["diff"] = left["diff"]
  BY LocalRecord DEF Write, Fault, Ops
<1>3. PICK d, n : d = g[p].d /\ n = FileName(p)
  OBVIOUS
<1>4. d \in DOMAIN dirs
  BY <1>1, <1>3, AtDir DEF Ops
<1>5. PICK e : e = IF n \notin Names(d) THEN NewFileEntry(NoHash)
                   ELSE IF Entries(d)[n].file THEN Entries(d)[n]
                   ELSE [Entries(d)[n] EXCEPT !.file = TRUE, !.fhash = Entries(d)[n].hash]
  OBVIOUS
<1>6. PICK f : f = [e EXCEPT !.blobW = Len(wr) + 1]
  OBVIOUS
<1>7. \/ dirs' = dirs
      \/ /\ n \in Names(d) => Entries(d)[n].kind = "file"
         /\ dirs' = PutEntry(dirs, d, n, f) \/ dirs' = PutEntry(dirs, d, n, e)
  BY <1>3, <1>5, <1>6 DEF Write, Store, PutEntry
<1>8. ASSUME n \in Names(d) => Entries(d)[n].kind = "file"
      PROVE  Safe(e) /\ Safe(f)
  <2>1. e.kind = "file" /\ e.file /\ f.kind = "file" /\ f.file
    <3>1. CASE n \notin Names(d)
      BY <1>5, <1>6, <3>1 DEF NewFileEntry
    <3>2. CASE n \in Names(d)
      <4>1. PICK o, h : o = Entries(d)[n] /\ h = o.hash
        OBVIOUS
      <4>2. o \in EntrySet /\ o.kind = "file"
        BY <1>4, <1>8, <3>2, <4>1, EntryFacts
      <4>3. (e = o /\ o.file) \/ e = [o EXCEPT !.file = TRUE, !.fhash = h]
        BY <1>5, <3>2, <4>1
      <4> QED
        BY <1>6, <4>2, <4>3 DEF EntrySet
    <3> QED
      BY <3>1, <3>2
  <2> QED
    BY <2>1 DEF Safe
<1>9. Mended(dirs')
  <2>1. CASE dirs' = dirs
    BY <2>1 DEF Mended
  <2>2. CASE /\ n \in Names(d) => Entries(d)[n].kind = "file"
             /\ dirs' = PutEntry(dirs, d, n, f) \/ dirs' = PutEntry(dirs, d, n, e)
    <3>1. Safe(e) /\ Safe(f) /\ (n \in Names(d) => Entries(d)[n].kind # "dir")
      BY <1>8, <2>2
    <3>2. PICK y \in {e, f} : dirs' = PutEntry(dirs, d, n, y)
      BY <2>2
    <3>3. Safe(y)
      BY <3>1, <3>2
    <3> QED
      BY <1>4, <3>1, <3>2, <3>3, MendPut
  <2> QED
    BY <1>7, <2>1, <2>2
<1> QED
  BY <1>1, <1>2, <1>9, NilReturn

LEMMA LinkNil ==
  ASSUME IInv, ~rt.readonly, NilSafe, NEW p \in Procs, Link(p)
  PROVE  NilSafe' /\ UNCHANGED panicked
<1>1. UNCHANGED <<rt, left, panicked>> /\ g[p].at = "link" /\ Return(p)
  BY DEF Link
<1>2. PICK d, n, e : d = g[p].d /\ n = FileName(p) /\ e = NewFileEntry(g[p].req.arg)
  OBVIOUS
<1>3. d \in DOMAIN dirs
  BY <1>1, <1>2, AtDir DEF Ops
<1>4. Safe(e)
  BY <1>2 DEF Safe, NewFileEntry
<1>5. CASE dirs' = dirs
  BY <1>1, <1>5, NilReturn DEF Mended
<1>6. CASE /\ n \in Names(d) => Entries(d)[n].kind = "file"
           /\ dirs' = PutEntry(dirs, d, n, e)
  <2>1. n \in Names(d) => Entries(d)[n].kind # "dir"
    BY <1>6
  <2>2. Mended(dirs')
    BY <1>3, <1>4, <1>6, <2>1, MendPut
  <2> QED
    BY <1>1, <2>2, NilReturn
<1> QED
  BY <1>2, <1>5, <1>6 DEF Link, Store, PutEntry

\* The File of an entry is hashed.
LEMMA HashFileMends ==
  ASSUME IInv, NEW p \in Procs, NEW d \in DOMAIN dirs, NEW n \in Names(d),
         Entries(d)[n].kind = "file", Entries(d)[n].file,
         dirs' = [dirs EXCEPT ![d].entries[n] = HashFile(Entries(d)[n])]
  PROVE  Mended(dirs')
<1>1. PICK o, h : o = Entries(d)[n] /\ h = FileHashOf(o)
  OBVIOUS
<1>2. PICK e : e = HashFile(o)
  OBVIOUS
<1>3. o \in EntrySet /\ e = [o EXCEPT !.hash = h, !.fhash = h, !.blobW = 0]
  BY <1>1, <1>2, EntryFacts DEF HashFile
<1>4. e.kind = "file" /\ e.file
  BY <1>1, <1>3 DEF EntrySet
<1>5. Safe(e)
  BY <1>4 DEF Safe
<1>6. dirs' = SetEntry(dirs, d, n, e) /\ Entries(d)[n].kind # "dir"
  BY <1>1, <1>2 DEF SetEntry
<1> QED
  BY <1>5, <1>6, MendSet

LEMMA ReadNil ==
  ASSUME IInv, ~rt.readonly, NilSafe, NEW p \in Procs, Read(p)
  PROVE  NilSafe' /\ UNCHANGED panicked
<1>1. UNCHANGED <<rt, left, panicked>> /\ g[p].at = "read" /\ Return(p)
  BY DEF Read
<1>2. PICK d, n : d = g[p].d /\ n = FileName(p)
  OBVIOUS
<1>3. d \in DOMAIN dirs
  BY <1>1, <1>2, AtDir DEF Ops
<1>4. CASE dirs' = dirs
  BY <1>1, <1>4, NilReturn DEF Mended
<1>5. CASE /\ n \in Names(d) /\ Entries(d)[n].kind = "file" /\ Entries(d)[n].file
           /\ dirs' = [dirs EXCEPT ![d].entries[n] = HashFile(Entries(d)[n])]
  BY <1>1, <1>3, <1>5, HashFileMends, NilReturn
<1> QED
  BY <1>2, <1>4, <1>5 DEF Read

LEMMA ListNil ==
  ASSUME IInv, ~rt.readonly, NilSafe, NEW p \in Procs, List(p) \/ SaveDone(p)
  PROVE  NilSafe' /\ UNCHANGED panicked
BY NilReturn DEF List, SaveDone, heap, obs, Mended

\* The frames of a range stay good, and so do those below them.
LEMMA NilStkKept ==
  ASSUME IInv, LoadsStay, NEW s, StkOK(s), NilStk(s)
  PROVE  NilStk(s)'
<1>1. ASSUME NEW k \in DOMAIN s, s[k].par # 0
      PROVE  LoadedAt(s[k].par, s[k].name)'
  <2>1. PICK f, d, n : f = s[k] /\ d = f.par /\ n = f.name
    OBVIOUS
  <2>2. FrameOK(f) /\ LoadedAt(d, n)
    BY <1>1, <2>1 DEF StkOK, NilStk
  <2>3. d \in DOMAIN dirs /\ n \in Names(d)
    BY <1>1, <2>1, <2>2, HeapSizes DEF FrameOK
  <2>4. LoadedAt(d, n)'
    BY <2>2, <2>3 DEF LoadsStay
  <2> QED
    BY <2>1, <2>4
<1> QED
  BY <1>1 DEF NilStk

LEMMA NilStkMoves ==
  ASSUME NEW s, StkOK(s), NilStk(s)
  PROVE  /\ s # <<>> => NilStk(Front(s))
         /\ \A n : s # <<>> => NilStk(Seen(s, n))
         /\ \A f : f.par # 0 /\ LoadedAt(f.par, f.name) => NilStk(Append(s, f))
<1>1. Len(s) \in Nat /\ DOMAIN s = 1..Len(s) /\ s \in Seq(ToSet(s))
  BY SeqFacts DEF StkOK
<1>2. ASSUME s # <<>> PROVE NilStk(Front(s))
  <2>1. PICK t : t = Front(s)
    OBVIOUS
  <2>2. Len(s) \in Nat \ {0}
    BY <1>2, StkTop
  <2>3. DOMAIN t = 1..(Len(s) - 1) /\ \A k \in 1..(Len(s) - 1) : t[k] = s[k]
    BY <1>1, <2>1, <2>2 DEF Front
  <2>4. \A k \in DOMAIN t : k \in DOMAIN s /\ t[k] = s[k]
    BY <1>1, <2>2, <2>3
  <2> QED
    BY <2>1, <2>4 DEF NilStk
<1>3. ASSUME NEW n, s # <<>> PROVE NilStk(Seen(s, n))
  <2>1. PICK t, f : t = Seen(s, n) /\ f = [s[Len(s)] EXCEPT !.seen = @ \union {n}]
    OBVIOUS
  <2>2. Len(s) \in DOMAIN s /\ FrameOK(s[Len(s)])
    BY <1>1, <1>3, StkTop
  <2>3. f.par = s[Len(s)].par /\ f.name = s[Len(s)].name
    BY <2>1, <2>2 DEF FrameOK
  <2>4. /\ DOMAIN t = DOMAIN s
        /\ \A k \in DOMAIN s : t[k] = IF k = Len(s) THEN f ELSE s[k]
    BY <1>1, <2>1, <2>2 DEF Seen
  <2>5. \A k \in DOMAIN t : k \in DOMAIN s /\ t[k].par = s[k].par /\ t[k].name = s[k].name
    BY <2>3, <2>4
  <2> QED
    BY <2>1, <2>5 DEF NilStk
<1>4. ASSUME NEW f, f.par # 0, LoadedAt(f.par, f.name) PROVE NilStk(Append(s, f))
  <2>1. PICK t : t = Append(s, f)
    OBVIOUS
  <2>2. /\ DOMAIN t = 1..(Len(s) + 1) /\ t[Len(s) + 1] = f /\ \A k \in 1..Len(s) : t[k] = s[k]
    BY <1>1, <2>1, SeqFacts
  <2>3. \A k \in DOMAIN t : t[k] = f \/ (k \in DOMAIN s /\ t[k] = s[k])
    BY <1>1, <2>2
  <2> QED
    BY <1>4, <2>1, <2>3 DEF NilStk
<1> QED
  BY <1>2, <1>3, <1>4

LEMMA NilRange ==
  ASSUME IInv, ~rt.readonly, NilSafe, UNCHANGED left,
         rt'.dir = rt.dir, rt.dir = 0 => rt'.hash = rt.hash, Mended(dirs'),
         NEW p \in Procs, NEW s, StkOK(s), NilStk(s), NEW l \in {"hash", "rootReady"},
         g' = [g EXCEPT ![p].at = l, ![p].stk = s]
  PROVE  NilSafe'
<1>1. PICK x : x = [g[p] EXCEPT !.at = l, !.stk = s]
  OBVIOUS
<1>2. g' = [g EXCEPT ![p] = x] /\ x.req = g[p].req /\ x.at = l /\ x.stk = s
  BY <1>1, LocalRecord
<1>3. LoadsStay
  BY MendStep
<1>4. NilStk(s)'
  BY <1>3, NilStkKept
<1>5. g[p].req.op # "diff"
  BY DEF NilSafe, NilLocal
<1>6. NilLocal(x)'
  BY <1>2, <1>4, <1>5 DEF NilLocal
<1> QED
  BY <1>2, <1>6, NilHeap

LEMMA NilResume ==
  ASSUME IInv, ~rt.readonly, NilSafe, UNCHANGED <<rt, left>>, Mended(dirs'),
         NEW p \in Procs, NEW s, StkOK(s), NilStk(s), Resume(p, s)
  PROVE  NilSafe'
<1>1. CASE Return(p)
  BY <1>1, NilReturn
<1>2. CASE g' = [g EXCEPT ![p].at = "hash", ![p].stk = s]
  BY <1>2, NilRange
<1> QED
  BY <1>1, <1>2 DEF Resume

LEMMA HashEntryNil ==
  ASSUME IInv, ~rt.readonly, NilSafe, UNCHANGED <<rt, left>>,
         NEW p \in Procs, NEW d \in DOMAIN dirs, NEW n \in Names(d),
         NEW s, StkOK(s), NilStk(s), HashEntry(p, d, n, s)
  PROVE  NilSafe' /\ UNCHANGED panicked
<1>1. PICK e : e = Entries(d)[n]
  OBVIOUS
<1>2. e \in EntrySet /\ Safe(e) /\ e.kind \in {"dir", "file"}
  BY <1>1, EntryFacts DEF NilSafe, EntrySet
<1>3. NoHash \notin BaseBlobs
  BY BaseAssumption
<1>4. e.hash = NoHash => ~(IF e.kind = "dir" THEN e.dir = 0 ELSE ~e.file)
  BY <1>2, <1>3 DEF Safe
<1>5. Mended(dirs)
  BY DEF Mended
<1>6. CASE Resume(p, s) /\ UNCHANGED <<dirs, panicked>>
  BY <1>5, <1>6, NilResume
<1>7. CASE Return(p) /\ UNCHANGED <<dirs, panicked>>
  BY <1>5, <1>7, NilReturn
<1>8. CASE /\ e.kind = "dir" /\ e.dir # 0 /\ UNCHANGED <<dirs, panicked>>
           /\ g' = [g EXCEPT ![p].at = "hash",
                             ![p].stk = Append(s, Frame(e.dir, Names(e.dir), d, n, e.id))]
  <2>1. PICK f, t : f = Frame(e.dir, Names(e.dir), d, n, e.id) /\ t = Append(s, f)
    OBVIOUS
  <2>2. e.dir \in DOMAIN dirs /\ e.id \in Nat /\ d # 0
    BY <1>2, <1>8, HeapSizes DEF EntrySet
  <2>3. FrameOK(f) /\ f.par = d /\ f.name = n
    BY <2>1, <2>2, HeapSizes DEF FrameOK, Frame
  <2>4. LoadedAt(d, n)
    BY <1>1, <1>8 DEF LoadedAt
  <2>5. StkOK(t) /\ NilStk(t)
    BY <2>1, <2>2, <2>3, <2>4, StkPush, NilStkMoves
  <2> QED
    BY <1>5, <1>8, <2>1, <2>5, NilRange
<1>9. CASE /\ e.kind = "file" /\ e.file /\ Resume(p, s) /\ UNCHANGED panicked
           /\ dirs' = [dirs EXCEPT ![d].entries[n] = HashFile(e)]
  <2>1. Mended(dirs')
    BY <1>1, <1>9, HashFileMends
  <2> QED
    BY <1>9, <2>1, NilResume
<1>10. \/ Resume(p, s) /\ UNCHANGED <<dirs, panicked>>
       \/ Return(p) /\ UNCHANGED <<dirs, panicked>>
       \/ /\ e.kind = "dir" /\ e.dir # 0 /\ UNCHANGED <<dirs, panicked>>
          /\ g' = [g EXCEPT ![p].at = "hash",
                            ![p].stk = Append(s, Frame(e.dir, Names(e.dir), d, n, e.id))]
       \/ /\ e.kind = "file" /\ e.file /\ Resume(p, s) /\ UNCHANGED panicked
          /\ dirs' = [dirs EXCEPT ![d].entries[n] = HashFile(e)]
  <2>1. CASE e.hash # NoHash
    BY <1>1, <2>1, Zenon DEF HashEntry
  <2>2. CASE e.hash = NoHash /\ e.kind = "dir"
    <3>1. e.dir # 0 /\ e.kind # "file"
      BY <1>4, <2>2
    <3> QED
      BY <1>1, <2>2, <3>1, Zenon DEF HashEntry
  <2>3. CASE e.hash = NoHash /\ e.kind = "file"
    <3>1. e.file /\ e.kind # "dir"
      BY <1>4, <2>3
    <3> QED
      BY <1>1, <2>3, <3>1, Zenon DEF HashEntry
  <2> QED
    BY <1>2, <2>1, <2>2, <2>3
<1> QED
  BY <1>6, <1>7, <1>8, <1>9, <1>10

LEMMA EntryHashNil ==
  ASSUME IInv, ~rt.readonly, NilSafe, NEW p \in Procs, EntryHash(p)
  PROVE  NilSafe' /\ UNCHANGED panicked
<1>1. UNCHANGED <<rt, left>> /\ g[p].at = "entryHash"
  BY DEF EntryHash
<1>2. PICK d, n, s : d = g[p].d /\ n = FileName(p) /\ s = <<>>
  OBVIOUS
<1>3. d \in DOMAIN dirs
  BY <1>1, <1>2, AtDir DEF Ops
<1>4. CASE n \in Names(d) /\ HashEntry(p, d, n, s)
  <2>1. StkOK(s) /\ NilStk(s)
    BY <1>2 DEF StkOK, ToSet, NilStk
  <2> QED
    BY <1>1, <1>3, <1>4, <2>1, HashEntryNil
<1>5. CASE Return(p) /\ UNCHANGED <<dirs, panicked>>
  BY <1>1, <1>5, NilReturn DEF Mended
<1> QED
  BY <1>2, <1>4, <1>5 DEF EntryHash

LEMMA HashNextNil ==
  ASSUME IInv, ~rt.readonly, NilSafe, NEW p \in Procs, HashNext(p)
  PROVE  NilSafe' /\ UNCHANGED panicked
<1>1. UNCHANGED <<rt, left>> /\ g[p].at = "hash"
  BY DEF HashNext
<1>2. PICK n \in Names(Top(p).d) : HashEntry(p, Top(p).d, n, SeenBy(p, n))
  BY DEF HashNext
<1>3. PICK d, s, t : d = Top(p).d /\ t = g[p].stk /\ s = Seen(t, n)
  OBVIOUS
<1>4. StkOK(t) /\ t # <<>> /\ NilStk(t)
  BY <1>1, <1>3, StkOfLocal DEF Hashing, NilSafe, NilLocal
<1>5. StkOK(s) /\ NilStk(s) /\ s = SeenBy(p, n)
  BY <1>3, <1>4, StkSeen, NilStkMoves DEF Seen, SeenBy
<1>6. d \in DOMAIN dirs
  BY <1>1, <1>3, AtTop DEF Hashing
<1>7. n \in Names(d) /\ HashEntry(p, d, n, s)
  BY <1>2, <1>3, <1>5
<1> QED
  BY <1>1, <1>5, <1>6, <1>7, HashEntryNil

LEMMA HashDirDoneNil ==
  ASSUME IInv, ~rt.readonly, NilSafe, NEW p \in Procs, HashDirDone(p)
  PROVE  NilSafe' /\ UNCHANGED panicked
<1>1. UNCHANGED <<rt, panicked>> /\ g[p].at = "hash"
  BY DEF HashDirDone, obs
<1>2. left'["diff"] = left["diff"]
  BY LocalRecord DEF HashDirDone, Fault, Ops
<1>3. PICK d, h : d = Top(p).d /\ h = DirHash(Marshal(d))
  OBVIOUS
<1>4. d \in DOMAIN dirs
  BY <1>1, <1>3, AtTop DEF Hashing
<1>5. CASE Return(p) /\ UNCHANGED dirs
  BY <1>1, <1>2, <1>5, NilReturn DEF Mended
<1>6. CASE dirs' = [dirs EXCEPT ![d].hash = h] /\ Goto(p, "hashed")
  <2>1. dirs' = SetHash(dirs, d, h)
    BY <1>6 DEF SetHash
  <2>2. /\ OnlyAt(dirs, dirs', d) /\ dirs'[d].entries = dirs[d].entries
    BY <1>4, <2>1, DirIsRecord, SetHashFacts
  <2>3. PICK ds : ds = dirs'
    OBVIOUS
  <2>4. Mends(ds, d, 0)
    BY <2>2, <2>3 DEF Mends, Names, Entries
  <2>5. Mended(ds)
    BY <1>4, <2>4 DEF Mended
  <2>6. /\ LoadsStay
        /\ \A c \in DOMAIN dirs' : \A n \in Names(c)' :
             \/ c \in DOMAIN dirs /\ n \in Names(c) /\ Entries(c)'[n] = Entries(c)[n]
             \/ Safe(Entries(c)'[n])
    BY <2>3, <2>5, MendStep
  <2>7. PICK x : x = [g[p] EXCEPT !.at = "hashed"]
    OBVIOUS
  <2>8. x.req = g[p].req /\ x.stk = g[p].stk /\ x.at = "hashed" /\ g' = [g EXCEPT ![p] = x]
    BY <1>6, <2>7, LocalRecord DEF Goto
  <2>9. NilLocal(x)'
    BY <2>6, <2>8, NilMoves
  <2>10. left'["diff"] = 0 /\ (rt'.dir = 0 => rt'.hash \in BaseBlobs)
    BY <1>1, <1>2 DEF NilSafe
  <2> QED
    BY <1>1, <2>6, <2>8, <2>9, <2>10, NilStep
<1> QED
  BY <1>1, <1>3, <1>5, <1>6 DEF HashDirDone

LEMMA HashedNil ==
  ASSUME IInv, ~rt.readonly, NilSafe, NEW p \in Procs, Hashed(p)
  PROVE  NilSafe' /\ UNCHANGED panicked
<1>1. UNCHANGED left /\ g[p].at = "hashed"
  BY DEF Hashed
<1>2. PICK f, d, n, t, s : /\ f = Top(p) /\ d = f.par /\ n = f.name
                           /\ t = g[p].stk /\ s = Front(t)
  OBVIOUS
<1>3. StkOK(t) /\ t # <<>> /\ NilStk(t) /\ Len(t) \in DOMAIN t
  BY <1>1, <1>2, StkOfLocal, StkTop DEF Hashing, NilSafe, NilLocal
<1>4. FrameOK(f) /\ f = t[Len(t)]
  BY <1>1, <1>2, AtTop DEF Hashing, Top
<1>5. StkOK(s) /\ NilStk(s)
  BY <1>2, <1>3, StkPop, NilStkMoves
<1>6. CASE /\ d = 0 /\ UNCHANGED <<dirs, panicked>>
           /\ rt' = [rt EXCEPT !.hash = dirs[rt.dir].hash]
           /\ g' = [g EXCEPT ![p].at = "rootReady", ![p].stk = <<>>]
  <2>1. rt.dir # 0
    BY <1>2, <1>4, <1>6 DEF FrameOK
  <2>2. rt'.dir = rt.dir
    BY <1>6 DEF IInv, TypeOK, RtOK
  <2>3. PICK e : e = <<>>
    OBVIOUS
  <2>4. StkOK(e) /\ NilStk(e)
    BY <2>3 DEF StkOK, ToSet, NilStk
  <2>5. Mended(dirs')
    BY <1>6 DEF Mended
  <2> QED
    BY <1>1, <1>6, <2>1, <2>2, <2>3, <2>4, <2>5, NilRange
<1>7. PICK e : e = Entries(d)[n]
  OBVIOUS
<1>8. ASSUME d # 0
      PROVE  d \in DOMAIN dirs /\ n \in Names(d) /\ e.kind = "dir" /\ e.dir # 0 /\ e \in EntrySet
  <2>1. d \in DOMAIN dirs /\ n \in Names(d)
    BY <1>2, <1>4, <1>8, HeapSizes DEF FrameOK
  <2>2. LoadedAt(d, n)
    BY <1>2, <1>3, <1>4, <1>8 DEF NilStk
  <2> QED
    BY <1>7, <2>1, <2>2, EntryFacts DEF LoadedAt
<1>9. CASE /\ d # 0 /\ UNCHANGED <<rt, panicked>>
           /\ dirs' = Update(d, n, f.id, [e EXCEPT !.hash = dirs[e.dir].hash])
           /\ Resume(p, s)
  <2>1. PICK h, y : h = dirs[e.dir].hash /\ y = [e EXCEPT !.hash = h]
    OBVIOUS
  <2>2. y.kind = "dir" /\ y.dir # 0
    BY <1>8, <1>9, <2>1 DEF EntrySet
  <2>3. Safe(y)
    BY <2>2 DEF Safe
  <2>4. dirs' = dirs \/ dirs' = SetEntry(dirs, d, n, y)
    BY <1>9, <2>1 DEF Update, SetEntry
  <2>5. Mended(dirs')
    <3>1. CASE dirs' = dirs
      BY <3>1 DEF Mended
    <3>2. CASE dirs' = SetEntry(dirs, d, n, y)
      BY <1>8, <1>9, <2>2, <2>3, <3>2, MendSet
    <3> QED
      BY <2>4, <3>1, <3>2
  <2> QED
    BY <1>1, <1>5, <1>9, <2>5, NilResume
<1>10. \/ /\ d = 0 /\ UNCHANGED <<dirs, panicked>>
          /\ rt' = [rt EXCEPT !.hash = dirs[rt.dir].hash]
          /\ g' = [g EXCEPT ![p].at = "rootReady", ![p].stk = <<>>]
       \/ /\ d # 0 /\ UNCHANGED <<rt, panicked>>
          /\ dirs' = Update(d, n, f.id, [e EXCEPT !.hash = dirs[e.dir].hash])
          /\ Resume(p, s)
  BY <1>2, <1>7, <1>8 DEF Hashed
<1> QED
  BY <1>6, <1>9, <1>10

\* No diff: its actions never happen.
LEMMA NilNoDiff ==
  ASSUME IInv, ~rt.readonly, NilSafe, NEW p \in Procs
  PROVE  ~(DiffStart(p) \/ NewDiffIter(p) \/ DiffNext(p) \/ DiffUp(p))
<1>1. g[p].req.op # "diff" /\ g[p].at # "next"
  BY DEF NilSafe, NilLocal
<1>2. g[p].at # "diff"
  BY <1>1, AtDir DEF Ops
<1> QED
  BY <1>1, <1>2 DEF DiffStart, NewDiffIter, DiffNext, DiffUp

LEMMA NilWriters ==
  ASSUME IInv, ~rt.readonly, NilSafe, UNCHANGED <<rt, dirs, g, panicked>>,
         left'["diff"] = left["diff"]
  PROVE  NilSafe' /\ UNCHANGED panicked
<1>1. \A d \in DOMAIN dirs' : \A n \in Names(d)' : Safe(Entries(d)'[n])
  BY DEF NilSafe, Names, Entries
<1>2. ASSUME NEW q \in Procs
      PROVE  NilLocal(g[q])'
  <2>1. PICK y : y = g[q]
    OBVIOUS
  <2>2. LoadsStay
    BY DEF LoadsStay, LoadedAt, Names, Entries
  <2>3. NilLocal(y)'
    BY <2>1, <2>2, NilLocalKept DEF NilSafe
  <2> QED
    BY <2>1, <2>3 DEF NilLocal, NilStk, LoadedAt
<1> QED
  BY <1>1, <1>2 DEF NilSafe

LEMMA NilNext ==
  ASSUME IInv, ~rt.readonly, NilSafe, [Next]_vars
  PROVE  NilSafe' /\ UNCHANGED panicked
<1>1. ASSUME NEW p \in Procs, NEW r \in Requests, Begin(p, r)
      PROVE  NilSafe' /\ UNCHANGED panicked
  BY <1>1, BeginNil
<1>2. ASSUME NEW p \in Procs, Step(p)
      PROVE  NilSafe' /\ UNCHANGED panicked
  BY <1>2, NilNoDiff, GetDirNil, SetRootDirNil, WalkNil, SetDirNil, MkdirNil, ArriveNil,
     WriteNil, LinkNil, ReadNil, ListNil, EntryHashNil, HashNextNil, HashDirDoneNil, HashedNil
  DEF Step
<1>3. ASSUME NEW w \in DOMAIN wr, CloseWriter(w) \/ PublishBlob(w)
      PROVE  NilSafe' /\ UNCHANGED panicked
  <2>1. UNCHANGED <<rt, dirs, g, panicked>>
    BY <1>3 DEF CloseWriter, PublishBlob
  <2>2. left'["diff"] = left["diff"]
    BY <1>3, LocalRecord DEF CloseWriter, PublishBlob, Fault, Ops, IInv, TypeOK
  <2> QED
    BY <2>1, <2>2, NilWriters
<1>4. CASE UNCHANGED vars
  BY <1>4, NilWriters DEF vars, heap, obs
<1> QED
  BY <1>1, <1>2, <1>3, <1>4 DEF Next, Finished

\* In a replay every entry has the hash of a blob.
LEMMA ReplayNil ==
  ASSUME IInv, Replay, rt.readonly, [Next]_vars
  PROVE  UNCHANGED panicked
<1>1. ASSUME NEW p \in Procs, NEW r \in Requests, Begin(p, r)
      PROVE  UNCHANGED panicked
  BY <1>1 DEF Begin, obs
<1>2. ASSUME NEW p \in Procs, EntryHash(p)
      PROVE  UNCHANGED panicked
  <2>1. PICK d, n : d = g[p].d /\ n = FileName(p)
    OBVIOUS
  <2>2. n \in Names(d) => Entries(d)[n].hash # NoHash
    BY <1>2, <2>1, AtFile, BaseAssumption DEF ReplayEntry, EntryHash
  <2>3. CASE n \in Names(d)
    <3>1. HashEntry(p, d, n, <<>>)
      BY <1>2, <2>1, <2>3 DEF EntryHash
    <3> QED
      BY <2>2, <2>3, <3>1 DEF HashEntry
  <2>4. CASE n \notin Names(d)
    BY <1>2, <2>1, <2>4 DEF EntryHash
  <2> QED
    BY <2>3, <2>4
<1>3. ASSUME NEW p \in Procs, Walk(p)
      PROVE  UNCHANGED panicked
  BY <1>3, Zenon DEF Walk, obs
<1>4. ASSUME NEW p \in Procs, GetDir(p) \/ SetRootDir(p) \/ SetDir(p) \/ Arrive(p)
      PROVE  UNCHANGED panicked
  BY <1>4 DEF GetDir, SetRootDir, SetDir, Arrive, obs
<1>5. ASSUME NEW p \in Procs, Read(p) \/ List(p) \/ SaveDone(p)
      PROVE  UNCHANGED panicked
  BY <1>5 DEF Read, List, SaveDone, obs
<1>6. ASSUME NEW p \in Procs, DiffStart(p) \/ NewDiffIter(p) \/ DiffNext(p) \/ DiffUp(p)
      PROVE  UNCHANGED panicked
  BY <1>6 DEF DiffStart, NewDiffIter, DiffNext, DiffUp, obs
<1>7. ASSUME NEW p \in Procs, Step(p)
      PROVE  UNCHANGED panicked
  BY <1>2, <1>3, <1>4, <1>5, <1>6, <1>7, ReplayNever DEF Step
<1>8. ASSUME NEW w \in DOMAIN wr, CloseWriter(w) \/ PublishBlob(w)
      PROVE  UNCHANGED panicked
  BY <1>8 DEF CloseWriter, PublishBlob, obs
<1>9. CASE UNCHANGED vars
  BY <1>9 DEF vars, obs
<1> QED
  BY <1>1, <1>7, <1>8, <1>9 DEF Next, Finished

NoDiffs == \A s \in Starts : ~s.readonly => Quota[s]["diff"] = 0

LEMMA NilInit ==
  ASSUME NoDiffs, Init
  PROVE  NilSafe
<1> SUFFICES ASSUME ~rt.readonly
             PROVE  NilSafe
  BY DEF NilSafe
<1>1. PICK s \in Starts :
        /\ rt = [hash |-> s.base, dir |-> IF s.base = NoHash THEN 1 ELSE 0,
                 readonly |-> s.readonly]
        /\ dirs = IF s.base = NoHash THEN <<EmptyDir>> ELSE <<>>
        /\ left = Quota[s]
  BY DEF Init
<1>2. left["diff"] = 0
  BY <1>1 DEF NoDiffs
<1>3. rt.dir = 0 => rt.hash \in BaseBlobs
  BY <1>1, StartAssumption
<1>4. \A d \in DOMAIN dirs : Names(d) = {}
  BY <1>1 DEF Names, Entries, EmptyDir
<1>5. ASSUME NEW p \in Procs
      PROVE  NilLocal(g[p])
  <2>1. g[p] = Idle
    BY DEF Init
  <2>2. Idle.stk = <<>> /\ Idle.req.op = "none" /\ Idle.at = "idle"
    BY DEF Idle, NoReq
  <2> QED
    BY <2>1, <2>2 DEF NilLocal, NilStk
<1> QED
  BY <1>2, <1>3, <1>4, <1>5 DEF NilSafe

\* No interleaving makes an operation follow a nil Dir or File pointer, on a replay or on
\* a Root that is written to but of which no diff is asked for: a diff that runs beside a
\* write does break this (next assigns entry.dir whether or not the load succeeded).
THEOREM NeverPanics ==
  ASSUME NoDiffs
  PROVE  Spec => []NoPanic
<1>1. Init => IInv /\ Replay /\ NilSafe /\ ~panicked
  BY InitOK, ReplayInit, NilInit DEF Init
<1>2. IInv /\ Replay /\ NilSafe /\ ~panicked /\ [Next]_vars
        => (IInv /\ Replay /\ NilSafe /\ ~panicked)'
  <2> SUFFICES ASSUME IInv, Replay, NilSafe, ~panicked, [Next]_vars
               PROVE  (IInv /\ Replay /\ NilSafe /\ ~panicked)'
    OBVIOUS
  <2>1. IInv' /\ Replay' /\ rt'.readonly = rt.readonly
    BY StepOK, ReplayNext, ReadonlyKept
  <2>2. CASE rt.readonly
    BY <2>1, <2>2, ReplayNil DEF NilSafe
  <2>3. CASE ~rt.readonly
    BY <2>1, <2>3, NilNext
  <2> QED
    BY <2>1, <2>2, <2>3
<1>3. ~panicked => NoPanic
  BY DEF NoPanic
<1> QED
  BY <1>1, <1>2, <1>3, PTL DEF Spec
=============================================================================
