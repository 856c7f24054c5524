--------------------------- MODULE RootIndexProofs ---------------------------
(***************************************************************************)
(* Theorems about RootIndex: for any goroutines, files, backends and       *)
(* quotas.                                                                 *)
(***************************************************************************)
EXTENDS RootIndex, TLAPS

-----------------------------------------------------------------------------
(* The inductive invariants *)

RootSet  == [held : Hashes, loaded : BOOLEAN, readonly : BOOLEAN]
LocalSet == [at : Labels, op : {"none", "record", "save", "export", "import"},
             arg : Files \union Archives \union {None}, name : Names \union {None},
             obj : 0..Len(objs), hash : Hashes]

\* What a goroutine knows, by where it is.
Local(x) ==
  /\ x.at \in {"open", "openHash"} =>
       /\ x.op \in {"record", "save", "export"} /\ x.name \in Names
       /\ x.op = "record" => x.arg \in Files
       /\ x.op = "export" => \E h \in Hashes : x.name = Hash(h)
  /\ x.at = "openHash" => \E h \in Hashes : x.name = Hash(h)
  /\ x.at = "record" => x.arg \in Files
  /\ x.at \in {"record", "save", "export"} => x.obj \in DOMAIN objs
  /\ x.at = "export" => objs[x.obj].readonly /\ x.name = Hash(objs[x.obj].held)
  /\ x.at \in {"importDir", "importFile"} => x.arg \in Archives /\ x.hash \subseteq x.arg.root

Locals == \A p \in Procs : Local(g[p])

\* Types, names and what export knows, however many blobs cannot be put in place.
IInv == TypeOK /\ Locals /\ NamesApart

\* The hash that is being saved enters the index before the file, and the file never
\* has less than what was returned.
Indexed ==
  /\ \A p \in Procs : g[p].at \in {"create", "write"} => g[p].hash \in index
  /\ ~amnesia => acked \subseteq index
  /\ AckedOnDisk

\* Every hash in use has its blobs.
InPlace(h) == h \in trees /\ h \subseteq files

Whole(r) ==
  /\ r.held \subseteq files
  /\ r.readonly => ~r.loaded
  /\ ~r.loaded => r.held \in trees

Stored(x) ==
  /\ x.at = "openHash" => x.name[2] \in index
  /\ x.at = "register" => InPlace(x.hash)
  /\ x.at \in {"importDir", "importFile"} => x.hash \subseteq files
  /\ x.at = "importFile" => x.arg.root \in trees

Complete ==
  /\ left["blobFault"] = 0
  /\ IndexComplete
  /\ \A i \in DOMAIN objs : Whole(objs[i])
  /\ \A p \in Procs : Stored(g[p])

-----------------------------------------------------------------------------
(* Names, objects and locals *)

LEMMA NamesDiffer ==
  /\ \A i, j : UUID(i) = UUID(j) => i = j
  /\ \A h, k : Hash(h) = Hash(k) => h = k
  /\ \A i, h : UUID(i) # Hash(h)
  /\ \A h : Hash(h)[1] = "hash" /\ Hash(h)[2] = h
  /\ \A i : UUID(i)[1] = "uuid"
BY DEF UUID, Hash

\* The types, by the names the proofs use.
LEMMA Types ==
  ASSUME TypeOK
  PROVE  /\ objs \in Seq(RootSet) /\ Len(objs) \in Nat /\ DOMAIN objs = 1..Len(objs)
         /\ g \in [Procs -> LocalSet] /\ None \notin Procs /\ None \notin Files
         /\ uuids \in Nat /\ left \in [Bounded -> Nat]
         /\ NewRoot \in RootSet /\ Idle \in LocalSet
         /\ \A h \in Hashes : NewRootHash(h) \in RootSet
<1>1. objs \in Seq(RootSet)
  BY DEF TypeOK, RootSet
<1>2. Len(objs) \in Nat /\ DOMAIN objs = 1..Len(objs)
  BY <1>1
<1>3. g \in [Procs -> LocalSet]
  BY DEF TypeOK, LocalSet
<1>4. NewRoot \in RootSet /\ \A h \in Hashes : NewRootHash(h) \in RootSet
  BY DEF NewRoot, NewRootHash, RootSet, Hashes
<1>5. Idle \in LocalSet
  BY <1>2 DEF Idle, LocalSet, Labels, Hashes
<1> QED
  BY <1>1, <1>2, <1>3, <1>4, <1>5, IndexAssumption DEF TypeOK

\* Objects are added, and none becomes readonly or writable or, if it is readonly,
\* holds something else.
Grows ==
  /\ objs' \in Seq(RootSet) /\ Len(objs) <= Len(objs')
  /\ \A i \in DOMAIN objs : /\ objs'[i].readonly = objs[i].readonly
                            /\ objs[i].readonly => objs'[i].held = objs[i].held

LEMMA GrowsLonger ==
  ASSUME TypeOK, Grows
  PROVE  Len(objs') \in Nat /\ DOMAIN objs' = 1..Len(objs') /\ DOMAIN objs \subseteq DOMAIN objs'
BY Types DEF Grows

LEMMA SameGrows ==
  ASSUME TypeOK, UNCHANGED objs
  PROVE  Grows
BY Types DEF Grows

\* A step of one goroutine leaves the others what they know.
LEMMA LocalsKept ==
  ASSUME TypeOK, Locals, Grows, uuids' \in Nat, uuids <= uuids',
         NEW p \in Procs, NEW x, x \in LocalSet', Local(x)', g' = [g EXCEPT ![p] = x]
  PROVE  g' \in [Procs -> LocalSet'] /\ Locals'
<1>1. Names \subseteq Names'
  BY Types DEF Names
<1>2. LocalSet \subseteq LocalSet'
  BY <1>1, Types, GrowsLonger DEF Grows, LocalSet
<1>3. /\ g' \in [Procs -> LocalSet'] /\ g'[p] = x
      /\ \A q \in Procs \ {p} : g'[q] = g[q]
  BY <1>2, Types
<1>4. ASSUME NEW q \in Procs
      PROVE  Local(g[q])'
  <2>1. CASE q = p
    BY <1>3, <2>1 DEF Local
  <2>2. CASE q # p
    BY <1>1, <1>3, <2>2, GrowsLonger DEF Locals, Local, Grows
  <2> QED
    BY <2>1, <2>2
<1> QED
  BY <1>3, <1>4 DEF Locals

LEMMA LocalsSame ==
  ASSUME TypeOK, Locals, Grows, uuids' \in Nat, uuids <= uuids', UNCHANGED g
  PROVE  g' \in [Procs -> LocalSet'] /\ Locals'
<1>1. Names \subseteq Names'
  BY Types DEF Names
<1>2. LocalSet \subseteq LocalSet'
  BY <1>1, Types, GrowsLonger DEF Grows, LocalSet
<1>3. ASSUME NEW q \in Procs
      PROVE  Local(g[q])'
  BY <1>1, GrowsLonger DEF Locals, Local, Grows
<1> QED
  BY <1>2, <1>3, Types DEF Locals

-----------------------------------------------------------------------------
(* TypeOK and NamesApart, part by part *)

DiskOK ==
  /\ kind \in Kinds /\ files \subseteq Files /\ trees \subseteq Hashes
  /\ indexFile \in [whole : BOOLEAN, roots : SUBSET Hashes]
  /\ index \subseteq Hashes /\ acked \subseteq Hashes /\ amnesia \in BOOLEAN
  /\ left \in [Bounded -> Nat]

RootsOK == DOMAIN roots \subseteq Names /\ \A n \in DOMAIN roots : roots[n] \in DOMAIN objs

Writing(x) == x.at \in {"create", "write"}
MutexOK    == \A p \in Procs : Writing(g[p]) <=> mu = p

LEMMA TypeParts ==
  ASSUME DiskOK', RootsOK', MutexOK', objs' \in Seq(RootSet), uuids' \in Nat,
         g' \in [Procs -> LocalSet']
  PROVE  TypeOK'
BY DEF TypeOK, DiskOK, RootsOK, MutexOK, Writing, RootSet, LocalSet

LEMMA DiskTyped ==
  ASSUME TypeOK
  PROVE  DiskOK
BY DEF TypeOK, DiskOK

LEMMA SpendOK ==
  ASSUME TypeOK, NEW k \in Bounded, Spend(k)
  PROVE  left' \in [Bounded -> Nat]
BY Types DEF Spend

\* The mutex is taken, released or neither.
Locks(p, x) ==
  \/ mu' = mu /\ (Writing(x) <=> Writing(g[p]))
  \/ mu = None /\ mu' = p /\ Writing(x)
  \/ mu' = None /\ ~Writing(x) /\ Writing(g[p])

\* A goroutine goes on, and no name is entered.
LEMMA ActKeeps ==
  ASSUME IInv, DiskOK', Grows, UNCHANGED <<roots, uuids>>,
         NEW p \in Procs, NEW x, x \in LocalSet', Local(x)', g' = [g EXCEPT ![p] = x],
         Locks(p, x)
  PROVE  IInv'
<1>1. g' \in [Procs -> LocalSet'] /\ Locals'
  <2>1. uuids' \in Nat /\ uuids <= uuids' /\ TypeOK /\ Locals
    BY Types DEF IInv
  <2> QED
    BY <2>1, LocalsKept
<1>2. /\ g'[p] = x
      /\ \A q \in Procs \ {p} : g'[q] = g[q]
  BY Types DEF IInv
<1>3. MutexOK'
  BY <1>2, Types DEF IInv, TypeOK, MutexOK, Writing, Locks
<1>4. RootsOK'
  BY GrowsLonger, Types DEF IInv, TypeOK, RootsOK, Names
<1>5. TypeOK'
  BY <1>1, <1>3, <1>4, TypeParts, Types DEF IInv, Grows
<1>6. NamesApart'
  BY DEF IInv, TypeOK, NamesApart, Grows
<1> QED
  BY <1>1, <1>5, <1>6 DEF IInv

\* A name is entered for a new Root: a uuid for a writable one, a hash for a readonly one
\* that holds it.
Fits(name, root) ==
  \/ name = UUID(uuids') /\ uuids' = uuids + 1 /\ ~root.readonly
  \/ \E h \in Hashes : name = Hash(h) /\ uuids' = uuids /\ root.readonly /\ root.held = h

LEMMA EnterGrows ==
  ASSUME IInv, NEW name, NEW root \in RootSet, Enter(name, root), Fits(name, root)
  PROVE  /\ Grows /\ RootsOK' /\ NamesApart' /\ uuids' \in Nat /\ uuids <= uuids'
         /\ Len(objs') = Len(objs) + 1 /\ objs'[Len(objs')] = root
         /\ \A i \in DOMAIN objs : objs'[i] = objs[i]
<1>1. /\ objs' \in Seq(RootSet) /\ Len(objs') = Len(objs) + 1 /\ Len(objs) \in Nat
      /\ DOMAIN objs = 1..Len(objs) /\ DOMAIN objs' = 1..Len(objs')
      /\ objs'[Len(objs')] = root /\ \A i \in DOMAIN objs : objs'[i] = objs[i]
  BY Types DEF IInv, Enter
<1>2. Grows
  BY <1>1 DEF Grows
<1>3. /\ DOMAIN roots' = DOMAIN roots \union {name} /\ roots'[name] = Len(objs')
      /\ \A n \in DOMAIN roots : n # name => roots'[n] = roots[n]
  BY <1>1 DEF Enter
<1>4. uuids \in Nat /\ uuids' \in Nat /\ uuids <= uuids' /\ uuids' <= uuids + 1
  BY Types DEF IInv, Fits
<1>5. name \in Names' /\ Names \subseteq Names'
  BY <1>4, Types DEF IInv, Fits, Names
<1>6. \A n \in DOMAIN roots : n \in Names /\ roots[n] \in 1..Len(objs)
  BY <1>1 DEF IInv, TypeOK
<1>7. RootsOK'
  BY <1>1, <1>3, <1>5, <1>6 DEF RootsOK
<1>8. ASSUME NEW h \in Hashes, Hash(h) \in DOMAIN roots'
      PROVE  objs'[roots'[Hash(h)]].readonly /\ objs'[roots'[Hash(h)]].held = h
  <2>1. CASE name = Hash(h)
    BY <1>1, <1>3, <2>1, NamesDiffer DEF Fits
  <2>2. CASE name # Hash(h)
    BY <1>1, <1>3, <1>6, <1>8, <2>2 DEF IInv, NamesApart
  <2> QED
    BY <2>1, <2>2
<1>9. ASSUME NEW i \in 1..uuids', UUID(i) \in DOMAIN roots'
      PROVE  ~objs'[roots'[UUID(i)]].readonly
  <2>1. CASE name = UUID(i)
    BY <1>1, <1>3, <2>1, NamesDiffer DEF Fits
  <2>2. CASE name # UUID(i)
    <3>1. UUID(i) \in DOMAIN roots
      BY <1>3, <1>9, <2>2
    <3>2. i \in 1..uuids
      BY <1>6, <3>1, NamesDiffer DEF Names
    <3> QED
      BY <1>1, <1>3, <1>6, <2>2, <3>1, <3>2 DEF IInv, NamesApart
  <2> QED
    BY <2>1, <2>2
<1>10. ASSUME NEW m \in DOMAIN roots', NEW n \in DOMAIN roots', roots'[m] = roots'[n]
       PROVE  m = n
  BY <1>1, <1>3, <1>6, <1>10 DEF IInv, NamesApart
<1>11. NamesApart'
  BY <1>8, <1>9, <1>10 DEF NamesApart, Hashes, Hash, UUID
<1> QED
  BY <1>1, <1>2, <1>4, <1>7, <1>11

-----------------------------------------------------------------------------
(* Tokens *)

LEMMA InitHolds == Init => IInv
<1> SUFFICES ASSUME Init PROVE IInv
  OBVIOUS
<1> USE DEF Init
<1>1. None \notin Procs /\ Quota \in [Bounded -> Nat]
  BY IndexAssumption
<1>2. Idle \in LocalSet
  BY DEF Idle, LocalSet, Labels, Hashes
<1>3. g \in [Procs -> LocalSet] /\ \A p \in Procs : g[p].at = "idle"
  BY <1>2 DEF Idle
<1>4. TypeOK
  <2>1. objs \in Seq(RootSet) /\ DOMAIN roots = {}
    OBVIOUS
  <2>2. indexFile \in [whole : BOOLEAN, roots : SUBSET Hashes]
    OBVIOUS
  <2>3. \A p \in Procs : g[p].at \in {"create", "write"} <=> mu = p
    BY <1>1, <1>3
  <2> QED
    BY <1>1, <1>3, <2>1, <2>2, <2>3 DEF TypeOK, LocalSet, RootSet, Hashes
<1>5. Locals
  BY <1>3 DEF Locals, Local
<1>6. NamesApart
  BY DEF NamesApart
<1> QED
  BY <1>4, <1>5, <1>6 DEF IInv

LEMMA RootCreateKeeps ==
  ASSUME IInv, RootCreate
  PROVE  IInv'
<1>1. Fits(UUID(uuids + 1), NewRoot)
  BY DEF RootCreate, Fits, NewRoot
<1>2. /\ Grows /\ RootsOK' /\ NamesApart' /\ uuids' \in Nat /\ uuids <= uuids'
  BY <1>1, EnterGrows, Types DEF IInv, RootCreate
<1>3. g' \in [Procs -> LocalSet'] /\ Locals'
  BY <1>2, LocalsSame DEF IInv, RootCreate
<1>4. DiskOK'
  <2>1. left' \in [Bounded -> Nat]
    BY SpendOK DEF IInv, RootCreate, Bounded
  <2> QED
    BY <2>1, DiskTyped DEF IInv, RootCreate, DiskOK, disk, obs
<1>5. MutexOK'
  BY DEF IInv, TypeOK, RootCreate, MutexOK, Writing
<1> QED
  BY <1>2, <1>3, <1>4, <1>5, TypeParts DEF IInv, Grows

LEMMA RootCreateFromKeeps ==
  ASSUME IInv, NEW h \in Hashes, RootCreateFrom(h)
  PROVE  IInv'
<1> DEFINE root == [NewRootHash(h) EXCEPT !.readonly = FALSE]
<1>1. root \in RootSet /\ ~root.readonly
  BY DEF NewRootHash, RootSet, Hashes
<1>2. Fits(UUID(uuids + 1), root)
  BY <1>1 DEF RootCreateFrom, Fits
<1>3. /\ Grows /\ RootsOK' /\ NamesApart' /\ uuids' \in Nat /\ uuids <= uuids'
  BY <1>1, <1>2, EnterGrows, Types DEF IInv, RootCreateFrom
<1>4. g' \in [Procs -> LocalSet'] /\ Locals'
  BY <1>3, LocalsSame DEF IInv, RootCreateFrom
<1>5. DiskOK'
  <2>1. left' \in [Bounded -> Nat]
    BY SpendOK DEF IInv, RootCreateFrom, Bounded
  <2> QED
    BY <2>1, DiskTyped DEF IInv, RootCreateFrom, DiskOK, disk, obs
<1>6. MutexOK'
  BY DEF IInv, TypeOK, RootCreateFrom, MutexOK, Writing
<1> QED
  BY <1>3, <1>4, <1>5, <1>6, TypeParts DEF IInv, Grows

LEMMA Wider ==
  ASSUME TypeOK, Grows, uuids' \in Nat, uuids <= uuids'
  PROVE  Names \subseteq Names' /\ LocalSet \subseteq LocalSet'
<1>1. Names \subseteq Names'
  BY Types DEF Names
<1> QED
  BY <1>1, Types, GrowsLonger DEF Grows, LocalSet

\* A request ends.
LEMMA ReturnKeeps ==
  ASSUME IInv, DiskOK', Grows, UNCHANGED <<roots, uuids>>, NEW p \in Procs, Return(p),
         (mu' = mu /\ ~Writing(g[p])) \/ (mu' = None /\ Writing(g[p]))
  PROVE  IInv'
<1>1. Idle \in LocalSet'
  BY Types, Wider DEF IInv
<1>2. Local(Idle)'
  BY DEF Local, Idle
<1>3. Locks(p, Idle)
  BY DEF Locks, Writing, Idle
<1> QED
  BY <1>1, <1>2, <1>3, ActKeeps DEF Return

LEMMA BeginKeeps ==
  ASSUME IInv, NEW p \in Procs, NEW op \in {"record", "save", "export"}, NEW name \in Names,
         NEW file \in Files \union {None}, Begin(p, op, name, file),
         op = "record" => file \in Files, op = "export" => \E h \in Hashes : name = Hash(h)
  PROVE  IInv'
<1> DEFINE x == [Idle EXCEPT !.at = "open", !.op = op, !.arg = file, !.name = name]
<1>1. /\ x.at = "open" /\ x.op = op /\ x.arg = file /\ x.name = name
      /\ x \in LocalSet
  BY Types DEF IInv, Idle, LocalSet, Labels, Hashes
<1>2. g' = [g EXCEPT ![p] = x] /\ Spend(op) /\ g[p].at = "idle" /\ mu' = mu
  BY DEF Begin
<1> HIDE DEF x
<1>3. Grows /\ uuids' = uuids /\ roots' = roots
  BY SameGrows DEF IInv, Begin, names
<1>4. x \in LocalSet' /\ Names \subseteq Names'
  BY <1>1, <1>3, Wider, Types DEF IInv
<1>5. Local(x)'
  BY <1>1, <1>4 DEF Local
<1>6. DiskOK'
  <2>1. left' \in [Bounded -> Nat]
    BY <1>2, SpendOK DEF IInv, Bounded
  <2> QED
    BY <2>1, DiskTyped DEF IInv, Begin, DiskOK, disk, names, obs
<1>7. Locks(p, x)
  BY <1>1, <1>2 DEF Locks, Writing
<1> QED
  BY <1>2, <1>3, <1>4, <1>5, <1>6, <1>7, ActKeeps

LEMMA RootOpenKeeps ==
  ASSUME IInv, NEW p \in Procs, RootOpen(p)
  PROVE  IInv'
<1>1. /\ Grows /\ uuids' = uuids /\ roots' = roots /\ mu' = mu /\ objs' = objs
      /\ g[p].at = "open" /\ ~Writing(g[p]) /\ g[p] \in LocalSet /\ Local(g[p])
  BY SameGrows, Types DEF IInv, RootOpen, names, Locals, Writing
<1>2. DiskOK'
  BY DiskTyped DEF IInv, RootOpen, DiskOK, disk, names, obs
<1>3. LocalSet \subseteq LocalSet' /\ Names' = Names
  BY <1>1, Wider, Types DEF IInv, Names
<1>4. CASE Return(p)
  <2>1. (mu' = mu /\ ~Writing(g[p])) \/ (mu' = None /\ Writing(g[p]))
    BY <1>1
  <2>2. UNCHANGED <<roots, uuids>> /\ Grows
    BY <1>1
  <2> QED
    BY <1>2, <1>4, <2>1, <2>2, ReturnKeeps
<1>5. CASE /\ g[p].name \in DOMAIN roots
           /\ g' = [g EXCEPT ![p].at = g[p].op, ![p].obj = roots[g[p].name]]
  <2> PICK x : x = [g[p] EXCEPT !.at = g[p].op, !.obj = roots[g[p].name]]
    OBVIOUS
  <2>1. roots[g[p].name] \in DOMAIN objs /\ roots[g[p].name] \in 0..Len(objs)
    BY <1>5, Types DEF IInv, TypeOK
  <2>2. /\ x.at = g[p].op /\ x.obj = roots[g[p].name] /\ x.arg = g[p].arg /\ x.name = g[p].name
        /\ x \in LocalSet /\ g[p].op \in {"record", "save", "export"}
    BY <1>1, <2>1 DEF LocalSet, Labels, Local
  <2>3. g' = [g EXCEPT ![p] = x]
    BY <1>5, Types DEF IInv, LocalSet
  <2>4. x.at = "export" => objs[x.obj].readonly /\ x.name = Hash(objs[x.obj].held)
    BY <1>1, <1>5, <2>2 DEF Local, IInv, NamesApart
  <2>5. Local(x)'
    BY <1>1, <2>1, <2>2, <2>4 DEF Local
  <2>6. Locks(p, x)
    BY <1>1, <2>2 DEF Locks, Writing
  <2> QED
    BY <1>1, <1>2, <1>3, <2>2, <2>3, <2>5, <2>6, ActKeeps
<1>6. CASE Goto(p, "openHash") /\ g[p].name[1] = "hash"
  <2> PICK x : x = [g[p] EXCEPT !.at = "openHash"]
    OBVIOUS
  <2>1. /\ x.at = "openHash" /\ x.op = g[p].op /\ x.arg = g[p].arg /\ x.name = g[p].name
        /\ x \in LocalSet
    BY <1>1 DEF LocalSet, Labels
  <2>2. g' = [g EXCEPT ![p] = x]
    BY <1>6, Types DEF IInv, LocalSet, Goto
  <2>3. \E h \in Hashes : x.name = Hash(h)
    BY <1>1, <1>6, <2>1, NamesDiffer DEF Local, Names
  <2>4. Local(x)'
    <3>1. /\ x.op \in {"record", "save", "export"} /\ x.name \in Names
          /\ x.op = "record" => x.arg \in Files
      BY <1>1, <2>1 DEF Local
    <3> QED
      BY <1>3, <2>1, <2>3, <3>1 DEF Local
  <2>5. Locks(p, x)
    BY <1>1, <2>1 DEF Locks, Writing
  <2> QED
    BY <1>1, <1>2, <1>3, <2>1, <2>2, <2>4, <2>5, ActKeeps
<1> QED
  BY <1>4, <1>5, <1>6 DEF RootOpen

LEMMA RootOpenHashKeeps ==
  ASSUME IInv, NEW p \in Procs, RootOpenHash(p)
  PROVE  IInv'
<1>1. g[p].at = "openHash" /\ g[p] \in LocalSet /\ Local(g[p]) /\ mu' = mu /\ uuids' = uuids
  BY Types DEF IInv, RootOpenHash, Locals
<1>2. PICK h \in Hashes : g[p].name = Hash(h)
  BY <1>1 DEF Local
<1>3. Enter(Hash(h), NewRootHash(h)) /\ NewRootHash(h) \in RootSet
  BY <1>2, NamesDiffer, Types DEF IInv, RootOpenHash
<1>4. Fits(Hash(h), NewRootHash(h))
  BY <1>1 DEF Fits, NewRootHash
<1>5. /\ Grows /\ RootsOK' /\ NamesApart' /\ uuids' \in Nat /\ uuids <= uuids'
      /\ Len(objs') = Len(objs) + 1 /\ objs'[Len(objs')] = NewRootHash(h)
  BY <1>3, <1>4, EnterGrows
<1>6. PICK x : x = [g[p] EXCEPT !.at = g[p].op, !.obj = Len(objs) + 1]
  OBVIOUS
<1>7. Len(objs) + 1 \in 0..Len(objs') /\ Len(objs) + 1 \in DOMAIN objs'
  BY <1>5, Types, GrowsLonger DEF IInv
<1>8. /\ x.at = g[p].op /\ x.obj = Len(objs) + 1 /\ x.arg = g[p].arg /\ x.name = g[p].name
      /\ x \in LocalSet' /\ g[p].op \in {"record", "save", "export"}
  <2>1. g[p] \in LocalSet'
    BY <1>1, <1>5, Wider DEF IInv
  <2> QED
    BY <1>1, <1>6, <1>7, <2>1 DEF LocalSet, Labels, Local
<1>9. g' = [g EXCEPT ![p] = x]
  BY <1>6, Types DEF IInv, RootOpenHash, LocalSet
<1>10. Local(x)'
  BY <1>1, <1>2, <1>5, <1>7, <1>8 DEF Local, NewRootHash
<1>11. g' \in [Procs -> LocalSet'] /\ Locals'
  BY <1>5, <1>8, <1>9, <1>10, LocalsKept DEF IInv
<1>12. DiskOK'
  BY DiskTyped DEF IInv, RootOpenHash, DiskOK, disk, obs
<1>13. MutexOK'
  BY <1>1, <1>8, <1>9, Types DEF IInv, TypeOK, MutexOK, Writing
<1> QED
  BY <1>5, <1>11, <1>12, <1>13, TypeParts DEF IInv, Grows

-----------------------------------------------------------------------------
(* What is done with a Root *)

\* Closing a blob's writer.
LEMMA PutFileOK ==
  ASSUME TypeOK, NEW f \in Files, PutFile(f)
  PROVE  files' \subseteq Files /\ left' \in [Bounded -> Nat]
BY SpendOK, Types DEF TypeOK, PutFile, Bounded

LEMMA PutTreeOK ==
  ASSUME TypeOK, NEW h \in Hashes, PutTree(h)
  PROVE  trees' \subseteq Hashes /\ left' \in [Bounded -> Nat]
BY SpendOK, Types DEF TypeOK, PutTree, Bounded

LEMMA RecordKeeps ==
  ASSUME IInv, NEW p \in Procs, Record(p)
  PROVE  IInv'
<1>1. /\ g[p].at = "record" /\ g[p].arg \in Files /\ g[p].obj \in DOMAIN objs
      /\ ~Writing(g[p]) /\ mu' = mu /\ UNCHANGED <<roots, uuids>> /\ Return(p)
  BY Types DEF IInv, Record, Locals, Local, Writing
<1>2. objs[g[p].obj] \in RootSet
  BY <1>1, Types DEF IInv
<1>3. CASE UNCHANGED <<files, objs, left>>
  <2>1. DiskOK'
    BY <1>3, DiskTyped DEF IInv, Record, DiskOK, obs
  <2> QED
    BY <1>1, <1>3, <2>1, SameGrows, ReturnKeeps DEF IInv
<1>4. CASE /\ ~objs[g[p].obj].readonly
           /\ objs' = [objs EXCEPT ![g[p].obj].held = @ \union {g[p].arg},
                                   ![g[p].obj].loaded = TRUE]
           /\ PutFile(g[p].arg)
  <2>1. DiskOK'
    BY <1>1, <1>4, PutFileOK, DiskTyped DEF IInv, Record, DiskOK, obs
  <2>2. PICK r : r = [objs[g[p].obj] EXCEPT !.held = @ \union {g[p].arg}, !.loaded = TRUE]
    OBVIOUS
  <2>3. r \in RootSet /\ r.readonly = objs[g[p].obj].readonly
    BY <1>1, <1>2, <2>2 DEF RootSet, Hashes
  <2>4. objs' = [objs EXCEPT ![g[p].obj] = r]
    BY <1>1, <1>2, <1>4, <2>2, Types DEF IInv, RootSet
  <2>5. Grows
    BY <1>1, <1>4, <2>3, <2>4, Types DEF IInv, Grows
  <2> QED
    BY <1>1, <2>1, <2>5, ReturnKeeps
<1> QED
  BY <1>3, <1>4 DEF Record

LEMMA RootHashKeeps ==
  ASSUME IInv, NEW p \in Procs, RootHash(p)
  PROVE  IInv'
<1>1. /\ g[p].at = "save" /\ g[p].obj \in DOMAIN objs /\ g[p] \in LocalSet
      /\ mu' = mu /\ UNCHANGED <<roots, uuids>> /\ Grows
  BY SameGrows, Types DEF IInv, RootHash, Locals, Local, names
<1>2. objs[g[p].obj].held \in Hashes
  <2>1. objs[g[p].obj] \in RootSet
    BY <1>1, Types DEF IInv
  <2> QED
    BY <2>1 DEF RootSet
<1>3. DiskOK'
  BY <1>2, PutTreeOK, DiskTyped DEF IInv, RootHash, DiskOK, names, obs
<1>4. PICK x : x = [g[p] EXCEPT !.at = "register", !.hash = objs[g[p].obj].held]
  OBVIOUS
<1>5. x \in LocalSet /\ x.at = "register"
  BY <1>1, <1>2, <1>4 DEF LocalSet, Labels
<1>6. g' = [g EXCEPT ![p] = x]
  BY <1>4, Types DEF IInv, RootHash, LocalSet
<1>7. x \in LocalSet'
  BY <1>1, <1>5, Wider, Types DEF IInv
<1>8. Local(x)' /\ Locks(p, x)
  BY <1>1, <1>5 DEF Local, Locks, Writing
<1> QED
  BY <1>1, <1>3, <1>6, <1>7, <1>8, ActKeeps

LEMMA RegisterKeeps ==
  ASSUME IInv, NEW p \in Procs, Register(p)
  PROVE  IInv'
<1>1. /\ g[p].at = "register" /\ g[p] \in LocalSet /\ ~Writing(g[p]) /\ mu = None
      /\ uuids' = uuids /\ g[p].hash \in Hashes
  BY Types DEF IInv, Register, Writing, LocalSet
<1>2. NewRootHash(g[p].hash) \in RootSet /\ Fits(Hash(g[p].hash), NewRootHash(g[p].hash))
  BY <1>1, Types DEF IInv, Fits, NewRootHash
<1>3. /\ Grows /\ RootsOK' /\ NamesApart' /\ uuids' \in Nat /\ uuids <= uuids'
  BY <1>2, EnterGrows DEF Register
<1>4. DiskOK'
  BY <1>1, DiskTyped DEF IInv, Register, MemoryDone, IndexNext, DiskOK, disk
<1>5. PICK x : x = IF kind = "memory" THEN Idle ELSE [g[p] EXCEPT !.at = "create"]
  OBVIOUS
<1>6. x \in LocalSet /\ x.at \in {"idle", "create"} /\ (x.at = "create" <=> kind # "memory")
  <2>1. Idle \in LocalSet /\ Idle.at = "idle"
    BY Types DEF IInv, Idle
  <2> QED
    BY <1>1, <1>5, <2>1 DEF LocalSet, Labels
<1>7. g' = [g EXCEPT ![p] = x] /\ mu' = IF kind = "memory" THEN mu ELSE p
  BY <1>5, Types DEF IInv, Register, MemoryDone, IndexNext, Return, Goto, LocalSet
<1>8. x \in LocalSet' /\ Local(x)'
  BY <1>3, <1>6, Wider DEF IInv, Local
<1>9. g' \in [Procs -> LocalSet'] /\ Locals'
  BY <1>3, <1>7, <1>8, LocalsKept DEF IInv
<1>10. MutexOK'
  BY <1>1, <1>6, <1>7, Types DEF IInv, TypeOK, MutexOK, Writing
<1> QED
  BY <1>3, <1>4, <1>9, <1>10, TypeParts DEF IInv, Grows

LEMMA CreateIndexKeeps ==
  ASSUME IInv, NEW p \in Procs, CreateIndex(p)
  PROVE  IInv'
<1>1. /\ g[p].at = "create" /\ g[p] \in LocalSet /\ Writing(g[p])
      /\ UNCHANGED <<roots, uuids>> /\ objs' = objs /\ Grows
  BY SameGrows, Types DEF IInv, CreateIndex, Writing, names
<1>2. DiskOK'
  <2>1. left' \in [Bounded -> Nat]
    BY SpendOK, Types DEF IInv, CreateIndex, Bounded
  <2>2. [whole |-> FALSE, roots |-> {}] \in [whole : BOOLEAN, roots : SUBSET Hashes]
    OBVIOUS
  <2>3. indexFile' \in [whole : BOOLEAN, roots : SUBSET Hashes]
    BY <2>2, DiskTyped DEF IInv, CreateIndex, DiskOK
  <2> QED
    BY <2>1, <2>3, DiskTyped DEF IInv, CreateIndex, DiskOK, names, obs
<1>3. CASE Return(p) /\ mu' = None
  BY <1>1, <1>2, <1>3, ReturnKeeps
<1>4. CASE Goto(p, "write") /\ UNCHANGED mu
  <2>1. PICK x : x = [g[p] EXCEPT !.at = "write"]
    OBVIOUS
  <2>2. x \in LocalSet /\ x.at = "write"
    BY <1>1, <2>1 DEF LocalSet, Labels
  <2>3. g' = [g EXCEPT ![p] = x]
    BY <1>4, <2>1, Types DEF IInv, Goto, LocalSet
  <2>4. x \in LocalSet'
    BY <1>1, <2>2, Wider, Types DEF IInv
  <2>5. Local(x)' /\ Locks(p, x)
    BY <1>1, <1>4, <2>2 DEF Local, Locks, Writing
  <2> QED
    BY <1>1, <1>2, <2>3, <2>4, <2>5, ActKeeps
<1> QED
  BY <1>3, <1>4 DEF CreateIndex

LEMMA WriteIndexKeeps ==
  ASSUME IInv, NEW p \in Procs, WriteIndex(p)
  PROVE  IInv'
<1>1. /\ g[p].at = "write" /\ g[p].hash \in Hashes /\ Writing(g[p]) /\ mu' = None /\ Return(p)
      /\ UNCHANGED <<roots, uuids>> /\ Grows
  BY SameGrows, Types DEF IInv, WriteIndex, Writing, names, LocalSet
<1>2. DiskOK'
  <2>1. left' \in [Bounded -> Nat]
    BY SpendOK, Types DEF IInv, WriteIndex, Bounded
  <2>2. [whole |-> TRUE, roots |-> index] \in [whole : BOOLEAN, roots : SUBSET Hashes]
    BY DiskTyped DEF IInv, DiskOK
  <2>3. indexFile' \in [whole : BOOLEAN, roots : SUBSET Hashes]
    BY <2>2, DiskTyped DEF IInv, WriteIndex, DiskOK
  <2>4. acked' \subseteq Hashes
    BY <1>1, DiskTyped DEF IInv, WriteIndex, DiskOK
  <2> QED
    BY <2>1, <2>3, <2>4, DiskTyped DEF IInv, WriteIndex, DiskOK, names
<1> QED
  BY <1>1, <1>2, ReturnKeeps

-----------------------------------------------------------------------------
(* Archives *)

LEMMA ExportKeeps ==
  ASSUME IInv, NEW p \in Procs, Export(p)
  PROVE  IInv'
<1>1. /\ g[p].at = "export" /\ g[p].obj \in DOMAIN objs /\ ~Writing(g[p]) /\ mu' = mu /\ Return(p)
      /\ UNCHANGED <<roots, uuids>> /\ Grows
  BY SameGrows, Types DEF IInv, Export, Writing, names, Locals, Local
<1>2. objs[g[p].obj].held \in Hashes
  <2>1. objs[g[p].obj] \in RootSet
    BY <1>1, Types DEF IInv
  <2> QED
    BY <2>1 DEF RootSet
<1>3. DiskOK'
  BY <1>2, PutTreeOK, DiskTyped DEF IInv, Export, DiskOK, names, obs
<1> QED
  BY <1>1, <1>3, ReturnKeeps

\* A goroutine goes on with nothing but itself and the blobs changed.
LEMMA MoveKeeps ==
  ASSUME IInv, DiskOK', UNCHANGED <<roots, objs, uuids, mu>>, NEW p \in Procs,
         NEW x \in LocalSet, Local(x), g' = [g EXCEPT ![p] = x], ~Writing(x), ~Writing(g[p])
  PROVE  IInv'
<1>1. Grows /\ UNCHANGED <<roots, uuids>>
  BY SameGrows DEF IInv
<1>2. x \in LocalSet' /\ Names' = Names
  BY <1>1, Wider, Types DEF IInv, Names
<1>3. Local(x)'
  BY <1>2 DEF Local
<1>4. Locks(p, x)
  BY DEF Locks
<1> QED
  BY <1>1, <1>2, <1>3, <1>4, ActKeeps

LEMMA ImportBeginKeeps ==
  ASSUME IInv, NEW p \in Procs, NEW a \in Archives, ImportBegin(p, a)
  PROVE  IInv'
<1>1. PICK x : x = [Idle EXCEPT !.at = "importDir", !.op = "import", !.arg = a]
  OBVIOUS
<1>2. /\ x \in LocalSet /\ x.at = "importDir" /\ x.arg = a /\ x.hash = {}
  BY <1>1, Types DEF IInv, Idle, LocalSet, Labels
<1>3. /\ g' = [g EXCEPT ![p] = x] /\ ~Writing(g[p]) /\ ~Writing(x)
      /\ UNCHANGED <<roots, objs, uuids, mu>>
  BY <1>1, <1>2 DEF ImportBegin, Writing, names
<1>4. Local(x)
  BY <1>2 DEF Local
<1>5. DiskOK'
  <2>1. left' \in [Bounded -> Nat]
    BY SpendOK DEF IInv, ImportBegin, Bounded
  <2> QED
    BY <2>1, DiskTyped DEF IInv, ImportBegin, DiskOK, disk, names, obs
<1> QED
  BY <1>2, <1>3, <1>4, <1>5, MoveKeeps

LEMMA ArchiveHas ==
  ASSUME NEW a \in Archives
  PROVE  a.root \in Hashes /\ a.blob \in [a.root -> Files \union {None}]
BY DEF Archives

LEMMA ImportDirKeeps ==
  ASSUME IInv, NEW p \in Procs, ImportDir(p)
  PROVE  IInv'
<1>1. g[p].at = "importDir" /\ g[p] \in LocalSet /\ g[p].arg \in Archives /\ Local(g[p])
  BY Types DEF IInv, ImportDir, Locals, Local
<1>2. PICK x : x = [g[p] EXCEPT !.at = "importFile"]
  OBVIOUS
<1>3. x \in LocalSet /\ x.at = "importFile" /\ x.arg = g[p].arg /\ x.hash = g[p].hash
  BY <1>1, <1>2 DEF LocalSet, Labels
<1>4. /\ g' = [g EXCEPT ![p] = x] /\ ~Writing(g[p]) /\ ~Writing(x)
      /\ UNCHANGED <<roots, objs, uuids, mu>>
  BY <1>1, <1>2, <1>3, Types DEF IInv, ImportDir, Writing, names, Goto, LocalSet
<1>5. Local(x)
  BY <1>1, <1>3 DEF Local
<1>6. DiskOK'
  BY <1>1, ArchiveHas, PutTreeOK, DiskTyped DEF IInv, ImportDir, DiskOK, names, obs
<1> QED
  BY <1>3, <1>4, <1>5, <1>6, MoveKeeps

LEMMA ImportFileKeeps ==
  ASSUME IInv, NEW p \in Procs, ImportFile(p)
  PROVE  IInv'
<1>1. /\ g[p].at = "importFile" /\ g[p] \in LocalSet /\ g[p].arg \in Archives /\ Local(g[p])
      /\ g[p].hash \subseteq g[p].arg.root /\ ~Writing(g[p])
      /\ UNCHANGED <<roots, objs, uuids, mu>> /\ Grows
  BY SameGrows, Types DEF IInv, ImportFile, Locals, Local, Writing, names
<1>2. PICK f \in g[p].arg.root \ g[p].hash :
        LET content == g[p].arg.blob[f]
        IN \/ content = None /\ Return(p) /\ UNCHANGED <<files, left>>
           \/ content = f /\ PutFile(f) /\ g' = [g EXCEPT ![p].hash = @ \union {f}]
           \/ content \in Files \ {f} /\ PutFile(content) /\ Return(p)
  BY DEF ImportFile
<1>3. f \in Files /\ g[p].arg.root \in Hashes
  BY <1>1, ArchiveHas DEF Hashes
<1>4. DiskOK'
  BY <1>2, <1>3, PutFileOK, DiskTyped DEF IInv, ImportFile, DiskOK, names, obs
<1>5. CASE Return(p)
  BY <1>1, <1>4, <1>5, ReturnKeeps
<1>6. CASE g' = [g EXCEPT ![p].hash = @ \union {f}]
  <2>1. PICK x : x = [g[p] EXCEPT !.hash = @ \union {f}]
    OBVIOUS
  <2>2. /\ x \in LocalSet /\ x.at = "importFile" /\ x.arg = g[p].arg
        /\ x.hash = g[p].hash \union {f}
    BY <1>1, <1>3, <2>1 DEF LocalSet, Hashes
  <2>3. g' = [g EXCEPT ![p] = x] /\ ~Writing(x)
    BY <1>6, <2>1, <2>2, Types DEF IInv, Writing, LocalSet
  <2>4. Local(x)
    BY <1>1, <2>2 DEF Local
  <2> QED
    BY <1>1, <1>4, <2>2, <2>3, <2>4, MoveKeeps
<1> QED
  BY <1>2, <1>5, <1>6

LEMMA ImportRootKeeps ==
  ASSUME IInv, NEW p \in Procs, ImportRoot(p)
  PROVE  IInv'
<1>1. /\ g[p].at = "importFile" /\ g[p] \in LocalSet /\ g[p].hash \in Hashes
      /\ UNCHANGED <<roots, uuids, mu>>
  BY Types DEF IInv, ImportRoot, LocalSet
<1>2. PICK r : r = [NewRoot EXCEPT !.held = g[p].hash]
  OBVIOUS
<1>3. r \in RootSet
  BY <1>1, <1>2 DEF NewRoot, RootSet
<1>4. /\ objs' = Append(objs, r) /\ objs' \in Seq(RootSet) /\ Len(objs') = Len(objs) + 1
      /\ Grows
  BY <1>2, <1>3, Types DEF IInv, ImportRoot, Grows
<1>5. PICK x : x = [g[p] EXCEPT !.at = "save", !.obj = Len(objs) + 1]
  OBVIOUS
<1>6. g[p] \in LocalSet' /\ Len(objs') \in 0..Len(objs') /\ Len(objs') \in DOMAIN objs'
  BY <1>1, <1>4, Wider, GrowsLonger, Types DEF IInv
<1>7. x \in LocalSet' /\ x.at = "save" /\ x.obj = Len(objs')
  BY <1>4, <1>5, <1>6 DEF LocalSet, Labels
<1>8. g' = [g EXCEPT ![p] = x]
  BY <1>5, Types DEF IInv, ImportRoot, LocalSet
<1>9. Local(x)' /\ Locks(p, x)
  BY <1>1, <1>6, <1>7 DEF Local, Locks, Writing
<1>10. DiskOK'
  BY DiskTyped DEF IInv, ImportRoot, DiskOK, disk, obs
<1> QED
  BY <1>1, <1>4, <1>7, <1>8, <1>9, <1>10, ActKeeps

-----------------------------------------------------------------------------
(* The process stops and starts *)

LEMMA RestartKeeps ==
  ASSUME IInv, Restart
  PROVE  IInv'
<1>1. /\ objs' = <<>> /\ objs' \in Seq(RootSet) /\ DOMAIN roots' = {}
      /\ uuids' = uuids /\ uuids' \in Nat /\ mu' = None
  BY Types DEF IInv, Restart
<1>2. Idle \in LocalSet'
  BY <1>1 DEF Idle, LocalSet, Labels, Hashes
<1>3. g' \in [Procs -> LocalSet'] /\ \A p \in Procs : g'[p] = Idle
  BY <1>2 DEF Restart
<1>4. Locals'
  BY <1>3 DEF Locals, Local, Idle
<1>5. MutexOK'
  BY <1>1, <1>3, Types DEF IInv, MutexOK, Writing, Idle
<1>6. DiskOK'
  <2>1. left' \in [Bounded -> Nat]
    BY SpendOK DEF IInv, Restart, Bounded
  <2>2. index' \subseteq Hashes /\ amnesia' \in BOOLEAN
    BY DiskTyped DEF IInv, Restart, DiskOK
  <2> QED
    BY <2>1, <2>2, DiskTyped DEF IInv, Restart, DiskOK, disk
<1>7. RootsOK' /\ NamesApart'
  BY <1>1 DEF RootsOK, NamesApart
<1> QED
  BY <1>1, <1>3, <1>4, <1>5, <1>6, <1>7, TypeParts DEF IInv

-----------------------------------------------------------------------------
(* Types and names *)

LEMMA TokensAreNames ==
  ASSUME TypeOK
  PROVE  Tokens \subseteq Names /\ Known \subseteq Hashes
BY DEF TypeOK, Tokens, Known, Names

LEMMA StutterKeeps ==
  ASSUME IInv, UNCHANGED vars
  PROVE  IInv'
<1>1. /\ UNCHANGED <<kind, files, trees, indexFile, index, roots, objs, uuids, mu, g, left>>
      /\ UNCHANGED <<acked, amnesia>>
  BY DEF vars, disk, names, obs
<1>2. TypeOK'
  BY <1>1 DEF IInv, TypeOK, Names
<1>3. Locals' /\ NamesApart'
  BY <1>1 DEF IInv, Locals, Local, Names, NamesApart
<1> QED
  BY <1>2, <1>3 DEF IInv

LEMMA StepKeeps ==
  ASSUME IInv, NEW p \in Procs, Step(p)
  PROVE  IInv'
BY RootOpenKeeps, RootOpenHashKeeps, RecordKeeps, RootHashKeeps, RegisterKeeps,
   CreateIndexKeeps, WriteIndexKeeps, ExportKeeps, ImportDirKeeps, ImportFileKeeps,
   ImportRootKeeps DEF Step

LEMMA NextKeeps ==
  ASSUME IInv, [Next]_vars
  PROVE  IInv'
<1>1. TypeOK
  BY DEF IInv
<1>2. ASSUME NEW p \in Procs, NEW name \in Tokens, NEW f \in Files, Begin(p, "record", name, f)
      PROVE  IInv'
  BY <1>1, <1>2, TokensAreNames, BeginKeeps
<1>3. ASSUME NEW p \in Procs, NEW name \in Tokens, Begin(p, "save", name, None)
      PROVE  IInv'
  BY <1>1, <1>3, TokensAreNames, BeginKeeps
<1>4. ASSUME NEW p \in Procs, NEW h \in Known, Begin(p, "export", Hash(h), None)
      PROVE  IInv'
  <2>1. h \in Hashes /\ Hash(h) \in Names
    BY <1>1, TokensAreNames DEF Names
  <2> QED
    BY <1>4, <2>1, BeginKeeps
<1>5. ASSUME NEW h \in Known, RootCreateFrom(h)
      PROVE  IInv'
  BY <1>1, <1>5, TokensAreNames, RootCreateFromKeeps
<1> QED
  BY <1>2, <1>3, <1>4, <1>5, RootCreateKeeps, ImportBeginKeeps, StepKeeps, RestartKeeps,
     StutterKeeps DEF Next

\* Every token, Root object and local of the storage fits, for any number of goroutines;
\* the mutex is held by the goroutine inside writeIndex, and by no other.
THEOREM IndexTypes == Spec => []TypeOK
<1>1. IInv => TypeOK
  BY DEF IInv
<1> QED
  BY <1>1, InitHolds, NextKeeps, PTL DEF Spec

\* A hash token names a readonly Root of that content and a uuid token a writable one,
\* and no two tokens share a Root, whatever RootOpen, which looks up without the mutex,
\* RootSave, Import and RootCreateFrom do at once (filesystem.go:150, 172).
THEOREM NamesStayApart == Spec => []NamesApart
<1>1. IInv => NamesApart
  BY DEF IInv
<1> QED
  BY <1>1, InitHolds, NextKeeps, PTL DEF Spec

-----------------------------------------------------------------------------
(* What was returned is in the index file *)

LEMMA InitIndexed == Init => Indexed
BY DEF Init, Indexed, AckedOnDisk, Idle

\* A step that neither saves nor restarts.
LEMMA UnsavedKeeps ==
  ASSUME Indexed, UNCHANGED <<kind, indexFile, index, acked, amnesia>>,
         \A q \in Procs : Writing(g'[q]) => g'[q] = g[q]
  PROVE  Indexed'
BY DEF Indexed, AckedOnDisk, Writing

LEMMA StepIndexed ==
  ASSUME IInv, Indexed, NEW p \in Procs, Step(p)
  PROVE  Indexed'
<1>1. g \in [Procs -> LocalSet] /\ Local(g[p])
  BY Types DEF IInv, Locals
<1>2. Idle.at = "idle"
  BY DEF Idle
<1>3. CASE RootOpen(p)
  <2>1. g[p].at = "open" => g[p].op \in {"record", "save", "export"}
    BY <1>1 DEF Local
  <2>2. \A q \in Procs : Writing(g'[q]) => g'[q] = g[q]
    BY <1>1, <1>2, <1>3, <2>1 DEF RootOpen, Return, Goto, Writing, LocalSet
  <2> QED
    BY <1>3, <2>2, UnsavedKeeps DEF RootOpen, disk, names, obs
<1>4. CASE RootOpenHash(p)
  <2>1. g[p].op \in {"record", "save", "export"}
    BY <1>1, <1>4 DEF Local, RootOpenHash
  <2>2. \A q \in Procs : Writing(g'[q]) => g'[q] = g[q]
    BY <1>1, <1>4, <2>1 DEF RootOpenHash, Writing, LocalSet
  <2> QED
    BY <1>4, <2>2, UnsavedKeeps DEF RootOpenHash, disk, obs
<1>5. CASE Record(p) \/ Export(p)
  <2>1. \A q \in Procs : Writing(g'[q]) => g'[q] = g[q]
    BY <1>1, <1>2, <1>5 DEF Record, Export, Return, Writing
  <2> QED
    BY <1>5, <2>1, UnsavedKeeps DEF Record, Export, names, obs
<1>6. CASE RootHash(p)
  <2>1. \A q \in Procs : Writing(g'[q]) => g'[q] = g[q]
    BY <1>1, <1>6 DEF RootHash, Writing, LocalSet
  <2> QED
    BY <1>6, <2>1, UnsavedKeeps DEF RootHash, names, obs
<1>7. CASE ImportDir(p) \/ ImportRoot(p)
  <2>1. \A q \in Procs : Writing(g'[q]) => g'[q] = g[q]
    BY <1>1, <1>7 DEF ImportDir, ImportRoot, Goto, Writing, LocalSet
  <2> QED
    BY <1>7, <2>1, UnsavedKeeps DEF ImportDir, ImportRoot, disk, names, obs
<1>8. CASE ImportFile(p)
  <2>1. \A q \in Procs : Writing(g'[q]) => g'[q] = g[q]
    BY <1>1, <1>2, <1>8 DEF ImportFile, Return, Writing, LocalSet
  <2> QED
    BY <1>8, <2>1, UnsavedKeeps DEF ImportFile, names, obs
<1>9. CASE Register(p)
  <2>1. index' = index \union {g[p].hash} /\ UNCHANGED <<kind, indexFile, amnesia>>
    BY <1>9 DEF Register, disk
  <2>2. /\ \/ acked' = acked \union {g[p].hash} /\ kind = "memory"
           \/ acked' = acked
        /\ \A q \in Procs : Writing(g'[q]) => g'[q].hash = g[q].hash /\ (q = p \/ g'[q] = g[q])
    BY <1>1, <1>2, <1>9 DEF Register, MemoryDone, IndexNext, Return, Goto, Writing, LocalSet
  <2> QED
    BY <2>1, <2>2 DEF Indexed, AckedOnDisk, Writing
<1>10. CASE CreateIndex(p)
  <2>1. /\ UNCHANGED <<kind, index, acked, amnesia>>
        /\ (indexFile' = indexFile \/ ~indexFile'.whole)
    BY <1>10 DEF CreateIndex, names, obs
  <2>2. \A q \in Procs : Writing(g'[q]) => g'[q].hash = g[q].hash /\ Writing(g[q])
    BY <1>1, <1>2, <1>10 DEF CreateIndex, Return, Goto, Writing, LocalSet
  <2> QED
    BY <2>1, <2>2 DEF Indexed, AckedOnDisk, Writing
<1>11. CASE WriteIndex(p)
  <2>1. /\ UNCHANGED <<kind, index, amnesia>> /\ g[p].hash \in index
        /\ \/ indexFile' = indexFile /\ acked' = acked
           \/ indexFile'.roots = index /\ acked' = acked \union {g[p].hash}
    BY <1>11 DEF WriteIndex, names, Indexed
  <2>2. \A q \in Procs : Writing(g'[q]) => g'[q] = g[q]
    BY <1>1, <1>2, <1>11 DEF WriteIndex, Return, Writing
  <2> QED
    BY <2>1, <2>2 DEF Indexed, AckedOnDisk, Writing
<1> QED
  BY <1>3, <1>4, <1>5, <1>6, <1>7, <1>8, <1>9, <1>10, <1>11 DEF Step

LEMMA NextIndexed ==
  ASSUME IInv, Indexed, [Next]_vars
  PROVE  Indexed'
<1>1. g \in [Procs -> LocalSet] /\ Idle.at = "idle"
  BY Types DEF IInv, Idle
<1>2. ASSUME RootCreate \/ (\E h \in Known : RootCreateFrom(h)) \/ UNCHANGED vars
      PROVE  Indexed'
  BY <1>2, UnsavedKeeps DEF RootCreate, RootCreateFrom, vars, disk, names, obs
<1>3. ASSUME NEW p \in Procs, NEW op, NEW name, NEW file, Begin(p, op, name, file)
      PROVE  Indexed'
  <2>1. \A q \in Procs : Writing(g'[q]) => g'[q] = g[q]
    BY <1>1, <1>3 DEF Begin, Writing, Idle
  <2> QED
    BY <1>3, <2>1, UnsavedKeeps DEF Begin, disk, names, obs
<1>4. ASSUME NEW p \in Procs, NEW a \in Archives, ImportBegin(p, a)
      PROVE  Indexed'
  <2>1. \A q \in Procs : Writing(g'[q]) => g'[q] = g[q]
    BY <1>1, <1>4 DEF ImportBegin, Writing, Idle
  <2> QED
    BY <1>4, <2>1, UnsavedKeeps DEF ImportBegin, disk, names, obs
<1>5. ASSUME Restart
      PROVE  Indexed'
  <2>1. \A q \in Procs : ~Writing(g'[q])
    BY <1>1, <1>5 DEF Restart, Writing
  <2>2. UNCHANGED <<kind, indexFile, acked>> /\ kind = "filesystem"
    BY <1>5 DEF Restart, disk
  <2>3. ~amnesia' => ~amnesia /\ indexFile.whole /\ index' = indexFile.roots
    BY <1>5 DEF Restart
  <2> QED
    BY <2>1, <2>2, <2>3 DEF Indexed, AckedOnDisk, Writing
<1> QED
  BY <1>2, <1>3, <1>4, <1>5, StepIndexed DEF Next

\* A hash that RootSave returned is in the index file whenever that is whole, unless a
\* process started from one that was not: failed writes, other saves and restarts since
\* have not lost it (filesystem.go:177-189).
THEOREM AckedStaysOnDisk == Spec => []AckedOnDisk
<1>1. Indexed => AckedOnDisk
  BY DEF Indexed
<1> QED
  BY <1>1, InitHolds, InitIndexed, NextKeeps, NextIndexed, PTL DEF Spec

-----------------------------------------------------------------------------
(* Every hash has its blobs, if every blob can be put in place *)

LEMMA InitComplete ==
  ASSUME Init, Quota["blobFault"] = 0
  PROVE  Complete
BY DEF Init, Complete, IndexComplete, Stored, Idle

\* Blobs stay where they are.
Stays ==
  /\ left'["blobFault"] = 0
  /\ files \subseteq files' /\ trees \subseteq trees' /\ index \subseteq index'

\* A quota that is spent is not that of the blobs.
LEMMA SpendStays ==
  ASSUME TypeOK, left["blobFault"] = 0, NEW k \in Bounded \ {"blobFault"}, Spend(k)
  PROVE  left'["blobFault"] = 0
BY Types DEF Spend, Bounded

LEMMA PutStays ==
  ASSUME TypeOK, left["blobFault"] = 0
  PROVE  /\ \A f : PutFile(f) => files' = files \union {f} /\ left' = left
         /\ \A h : PutTree(h) => trees' = trees \union {h} /\ left' = left
BY DEF PutFile, PutTree, Spend

\* The parts of Complete grow with the blobs.
LEMMA StaysStored ==
  ASSUME Stays
  PROVE  /\ \A r : Whole(r) => Whole(r)'
         /\ \A x : Stored(x) => Stored(x)'
         /\ \A h : InPlace(h) => InPlace(h)'
BY DEF Stays, Whole, Stored, InPlace

LEMMA CompleteParts ==
  IndexComplete <=> \A h \in index \union indexFile.roots : InPlace(h)
BY DEF IndexComplete, InPlace

\* Goroutines go on, and objects are added.
LEMMA CompleteKept ==
  ASSUME TypeOK, Complete, Stays,
         \A h \in index' \union indexFile'.roots : h \in index \union indexFile.roots \/ InPlace(h)',
         \A i \in DOMAIN objs' : (i \in DOMAIN objs /\ objs'[i] = objs[i]) \/ Whole(objs[i])',
         \A q \in Procs : g'[q] = g[q] \/ Stored(g[q])'
  PROVE  Complete'
<1>1. IndexComplete'
  <2>1. \A h \in index \union indexFile.roots : InPlace(h)'
    BY CompleteParts, StaysStored DEF Complete
  <2>2. \A h \in index' \union indexFile'.roots : InPlace(h)'
    BY <2>1
  <2> QED
    BY <2>2 DEF IndexComplete, InPlace
<1>2. ASSUME NEW i \in DOMAIN objs'
      PROVE  Whole(objs[i])'
  <2>1. CASE i \in DOMAIN objs /\ objs'[i] = objs[i]
    BY <2>1 DEF Complete, Stays, Whole
  <2> QED
    BY <2>1
<1>3. ASSUME NEW q \in Procs
      PROVE  Stored(g[q])'
  <2>1. CASE g'[q] = g[q]
    BY <2>1, Types DEF Complete, Stays, Stored, InPlace
  <2> QED
    BY <2>1
<1> QED
  BY <1>1, <1>2, <1>3 DEF Complete, Stays

\* One of them goes on.
LEMMA OneStored ==
  ASSUME TypeOK, NEW p \in Procs, NEW x, Stored(x)', g' = [g EXCEPT ![p] = x]
  PROVE  \A q \in Procs : g'[q] = g[q] \/ Stored(g[q])'
<1>1. ASSUME NEW q \in Procs
      PROVE  g'[q] = g[q] \/ Stored(g[q])'
  BY Types DEF Stored
<1> QED
  BY <1>1

\* One object is added.
LEMMA OneWhole ==
  ASSUME TypeOK, NEW r, Whole(r)', objs' = Append(objs, r)
  PROVE  \A i \in DOMAIN objs' : (i \in DOMAIN objs /\ objs'[i] = objs[i]) \/ Whole(objs[i])'
<1>1. /\ DOMAIN objs' = 1..(Len(objs) + 1) /\ DOMAIN objs = 1..Len(objs) /\ Len(objs) \in Nat
      /\ objs'[Len(objs) + 1] = r
      /\ \A i \in DOMAIN objs : objs'[i] = objs[i]
  BY Types
<1>2. ASSUME NEW i \in DOMAIN objs'
      PROVE  (i \in DOMAIN objs /\ objs'[i] = objs[i]) \/ Whole(objs[i])'
  <2>1. CASE i = Len(objs) + 1
    BY <1>1, <2>1 DEF Whole
  <2>2. CASE i # Len(objs) + 1
    BY <1>1, <2>2
  <2> QED
    BY <2>1, <2>2
<1> QED
  BY <1>2

\* ... or keeps to itself.
LEMMA CompleteSame ==
  ASSUME TypeOK, Complete, Stays, UNCHANGED <<index, indexFile, objs>>,
         NEW p \in Procs, NEW x, Stored(x)', g' = [g EXCEPT ![p] = x]
  PROVE  Complete'
BY CompleteKept, OneStored

\* ... or ends.
LEMMA CompleteReturn ==
  ASSUME TypeOK, Complete, Stays, UNCHANGED <<index, indexFile, objs>>,
         NEW p \in Procs, Return(p)
  PROVE  Complete'
<1>1. Stored(Idle)'
  BY DEF Stored, Idle
<1> QED
  BY <1>1, CompleteSame DEF Return

LEMMA RootOpenComplete ==
  ASSUME IInv, Complete, NEW p \in Procs, RootOpen(p)
  PROVE  Complete'
<1>1. /\ TypeOK /\ Stays /\ UNCHANGED <<index, indexFile, objs>>
      /\ g[p].at = "open" /\ Local(g[p]) /\ g[p] \in LocalSet
  BY Types DEF IInv, RootOpen, Stays, Complete, disk, names, Locals
<1>2. CASE Return(p)
  BY <1>1, <1>2, CompleteReturn
<1>3. CASE g' = [g EXCEPT ![p].at = g[p].op, ![p].obj = roots[g[p].name]]
  <2>1. PICK x : x = [g[p] EXCEPT !.at = g[p].op, !.obj = roots[g[p].name]]
    OBVIOUS
  <2>2. g' = [g EXCEPT ![p] = x] /\ x.at \in {"record", "save", "export"}
    BY <1>1, <1>3, <2>1, Types DEF LocalSet, Local
  <2>3. Stored(x)'
    BY <2>2 DEF Stored
  <2> QED
    BY <1>1, <2>2, <2>3, CompleteSame
<1>4. CASE Goto(p, "openHash") /\ g[p].name[2] \in index
  <2>1. PICK x : x = [g[p] EXCEPT !.at = "openHash"]
    OBVIOUS
  <2>2. g' = [g EXCEPT ![p] = x] /\ x.at = "openHash" /\ x.name = g[p].name
    BY <1>1, <1>4, <2>1, Types DEF LocalSet, Goto
  <2>3. Stored(x)'
    BY <1>1, <1>4, <2>2 DEF Stored
  <2> QED
    BY <1>1, <2>2, <2>3, CompleteSame
<1> QED
  BY <1>2, <1>3, <1>4 DEF RootOpen

\* A new Root for a hash that has its blobs.
LEMMA WholeHash ==
  ASSUME NEW h, InPlace(h)
  PROVE  Whole(NewRootHash(h)) /\ Whole([NewRootHash(h) EXCEPT !.readonly = FALSE])
BY DEF Whole, NewRootHash, InPlace

LEMMA RootOpenHashComplete ==
  ASSUME IInv, Complete, NEW p \in Procs, RootOpenHash(p)
  PROVE  Complete'
<1>1. /\ TypeOK /\ Stays /\ UNCHANGED <<index, indexFile>> /\ g[p].name[2] \in index
      /\ g[p].at = "openHash" /\ Local(g[p]) /\ g[p] \in LocalSet /\ Stored(g[p])
  BY Types DEF IInv, RootOpenHash, Stays, Complete, disk, Locals, Stored
<1>2. PICK h : h = g[p].name[2]
  OBVIOUS
<1>3. InPlace(h) /\ InPlace(h)'
  BY <1>1, <1>2, CompleteParts, StaysStored DEF Complete
<1>4. Whole(NewRootHash(h))'
  BY <1>1, <1>3, WholeHash, StaysStored
<1>5. objs' = Append(objs, NewRootHash(h))
  BY <1>2 DEF RootOpenHash, Enter
<1>6. \A i \in DOMAIN objs' : (i \in DOMAIN objs /\ objs'[i] = objs[i]) \/ Whole(objs[i])'
  BY <1>1, <1>4, <1>5, OneWhole
<1>7. PICK x : x = [g[p] EXCEPT !.at = g[p].op, !.obj = Len(objs) + 1]
  OBVIOUS
<1>8. g' = [g EXCEPT ![p] = x] /\ x.at \in {"record", "save", "export"}
  BY <1>1, <1>7, Types DEF RootOpenHash, LocalSet, Local
<1>9. Stored(x)'
  BY <1>8 DEF Stored
<1>10. \A q \in Procs : g'[q] = g[q] \/ Stored(g[q])'
  BY <1>1, <1>8, <1>9, OneStored
<1> QED
  BY <1>1, <1>6, <1>10, CompleteKept

\* A recorded file is in place, and a Root that was loaded for it has no tree to miss.
LEMMA RecordComplete ==
  ASSUME IInv, Complete, NEW p \in Procs, Record(p)
  PROVE  Complete'
<1>1. /\ TypeOK /\ UNCHANGED <<index, indexFile>> /\ left["blobFault"] = 0
      /\ g[p].at = "record" /\ Local(g[p]) /\ Return(p)
  BY DEF IInv, Record, Complete, Locals
<1>2. CASE UNCHANGED <<files, objs, left>>
  <2>1. Stays
    BY <1>1, <1>2 DEF Record, Stays
  <2> QED
    BY <1>1, <1>2, <2>1, CompleteReturn
<1>3. CASE /\ ~objs[g[p].obj].readonly
           /\ objs' = [objs EXCEPT ![g[p].obj].held = @ \union {g[p].arg},
                                   ![g[p].obj].loaded = TRUE]
           /\ PutFile(g[p].arg)
  <2>1. files' = files \union {g[p].arg} /\ left' = left
    BY <1>1, <1>3, PutStays
  <2>2. Stays
    BY <1>1, <2>1 DEF Record, Stays
  <2>3. g[p].obj \in DOMAIN objs /\ objs \in Seq(RootSet)
    BY <1>1, Types DEF Local
  <2>4. /\ DOMAIN objs' = DOMAIN objs
        /\ \A i \in DOMAIN objs : i # g[p].obj => objs'[i] = objs[i]
        /\ objs'[g[p].obj].held = objs[g[p].obj].held \union {g[p].arg}
        /\ objs'[g[p].obj].loaded /\ ~objs'[g[p].obj].readonly
    <3>1. PICK r : r = [objs[g[p].obj] EXCEPT !.held = @ \union {g[p].arg}, !.loaded = TRUE]
      OBVIOUS
    <3>2. objs[g[p].obj] \in RootSet
      BY <2>3
    <3>3. /\ r.held = objs[g[p].obj].held \union {g[p].arg}
          /\ r.loaded /\ ~r.readonly
      BY <1>3, <3>1, <3>2 DEF RootSet
    <3>4. objs' = [objs EXCEPT ![g[p].obj] = r]
      BY <1>3, <2>3, <3>1, <3>2 DEF RootSet
    <3> QED
      BY <2>3, <3>3, <3>4
  <2>5. Whole(objs[g[p].obj])
    BY <2>3 DEF Complete
  <2>6. ASSUME NEW i \in DOMAIN objs'
        PROVE  (i \in DOMAIN objs /\ objs'[i] = objs[i]) \/ Whole(objs[i])'
    <3>1. CASE i = g[p].obj
      BY <1>1, <2>1, <2>4, <2>5, <3>1 DEF Whole, Return, Idle
    <3> QED
      BY <2>4, <3>1
  <2>7. Stored(Idle)'
    BY DEF Stored, Idle
  <2>8. \A q \in Procs : g'[q] = g[q] \/ Stored(g[q])'
    BY <1>1, <2>7, OneStored DEF Return
  <2> QED
    BY <1>1, <2>2, <2>6, <2>8, CompleteKept
<1> QED
  BY <1>2, <1>3 DEF Record

\* Save: the tree of a recording is in place, and so was that of any other Root.
LEMMA RootHashComplete ==
  ASSUME IInv, Complete, NEW p \in Procs, RootHash(p)
  PROVE  Complete'
<1>1. /\ TypeOK /\ UNCHANGED <<index, indexFile, objs, files>> /\ left["blobFault"] = 0
      /\ g[p].at = "save" /\ g[p] \in LocalSet /\ g[p].obj \in DOMAIN objs
  BY Types DEF IInv, RootHash, Complete, Locals, Local, names
<1>2. PICK r : r = objs[g[p].obj]
  OBVIOUS
<1>3. Whole(r)
  BY <1>1, <1>2 DEF Complete
<1>4. /\ left' = left /\ trees \subseteq trees' /\ r.held \in trees'
  BY <1>1, <1>2, <1>3, PutStays DEF RootHash, Whole
<1>5. Stays
  BY <1>1, <1>4 DEF Stays
<1>6. PICK x : x = [g[p] EXCEPT !.at = "register", !.hash = r.held]
  OBVIOUS
<1>7. g' = [g EXCEPT ![p] = x] /\ x.at = "register" /\ x.hash = r.held
  BY <1>1, <1>2, <1>6, Types DEF RootHash, LocalSet
<1>8. Stored(x)'
  BY <1>1, <1>3, <1>4, <1>7 DEF Stored, InPlace, Whole
<1> QED
  BY <1>1, <1>5, <1>7, <1>8, CompleteSame

LEMMA RegisterComplete ==
  ASSUME IInv, Complete, NEW p \in Procs, Register(p)
  PROVE  Complete'
<1>1. /\ TypeOK /\ UNCHANGED <<disk, left>> /\ g[p].at = "register" /\ g[p] \in LocalSet
      /\ index' = index \union {g[p].hash}
  BY Types DEF IInv, Register
<1>2. Stays /\ UNCHANGED indexFile
  BY <1>1 DEF Stays, Complete, disk
<1>3. PICK h : h = g[p].hash
  OBVIOUS
<1>4. InPlace(h) /\ InPlace(h)'
  BY <1>1, <1>2, <1>3, StaysStored DEF Complete, Stored
<1>5. Whole(NewRootHash(h))'
  BY <1>2, <1>4, WholeHash, StaysStored
<1>6. objs' = Append(objs, NewRootHash(h))
  BY <1>3 DEF Register, Enter
<1>7. \A i \in DOMAIN objs' : (i \in DOMAIN objs /\ objs'[i] = objs[i]) \/ Whole(objs[i])'
  BY <1>1, <1>5, <1>6, OneWhole
<1>8. \A k \in index' \union indexFile'.roots : k \in index \union indexFile.roots \/ InPlace(k)'
  BY <1>1, <1>2, <1>3, <1>4
<1>9. \A q \in Procs : g'[q] = g[q] \/ Stored(g[q])'
  <2>1. CASE Return(p)
    <3>1. Stored(Idle)'
      BY DEF Stored, Idle
    <3> QED
      BY <1>1, <2>1, <3>1, OneStored DEF Return
  <2>2. CASE Goto(p, "create")
    <3>1. PICK x : x = [g[p] EXCEPT !.at = "create"]
      OBVIOUS
    <3>2. g' = [g EXCEPT ![p] = x] /\ x.at = "create"
      BY <1>1, <2>2, <3>1, Types DEF Goto, LocalSet
    <3>3. Stored(x)'
      BY <3>2 DEF Stored
    <3> QED
      BY <1>1, <3>2, <3>3, OneStored
  <2> QED
    BY <2>1, <2>2 DEF Register, MemoryDone, IndexNext
<1> QED
  BY <1>1, <1>2, <1>7, <1>8, <1>9, CompleteKept

\* The index file never has more than the index in memory.
LEMMA WriteComplete ==
  ASSUME IInv, Complete, NEW p \in Procs, CreateIndex(p) \/ WriteIndex(p)
  PROVE  Complete'
<1>1. /\ TypeOK /\ g[p] \in LocalSet
      /\ UNCHANGED <<files, trees, index, objs>>
      /\ indexFile' = indexFile \/ indexFile'.roots = {} \/ indexFile'.roots = index
      /\ Return(p) \/ Goto(p, "write")
  BY Types DEF IInv, CreateIndex, WriteIndex, names
<1>2. left'["blobFault"] = 0
  <2>1. left["blobFault"] = 0 /\ "indexFault" \in Bounded \ {"blobFault"}
    BY DEF Complete, Bounded
  <2>2. left' = left \/ Spend("indexFault")
    BY DEF CreateIndex, WriteIndex
  <2> QED
    BY <1>1, <2>1, <2>2, SpendStays
<1>3. Stays
  BY <1>1, <1>2 DEF Stays
<1>4. \A q \in Procs : g'[q] = g[q] \/ Stored(g[q])'
  <2>1. CASE Return(p)
    <3>1. Stored(Idle)'
      BY DEF Stored, Idle
    <3> QED
      BY <1>1, <2>1, <3>1, OneStored DEF Return
  <2>2. CASE Goto(p, "write")
    <3>1. PICK x : x = [g[p] EXCEPT !.at = "write"]
      OBVIOUS
    <3>2. g' = [g EXCEPT ![p] = x] /\ x.at = "write"
      BY <1>1, <2>2, <3>1, Types DEF Goto, LocalSet
    <3>3. Stored(x)'
      BY <3>2 DEF Stored
    <3> QED
      BY <1>1, <3>2, <3>3, OneStored
  <2> QED
    BY <1>1, <2>1, <2>2
<1>5. \A h \in index' \union indexFile'.roots : h \in index \union indexFile.roots \/ InPlace(h)'
  BY <1>1
<1>6. \A i \in DOMAIN objs' : (i \in DOMAIN objs /\ objs'[i] = objs[i]) \/ Whole(objs[i])'
  BY <1>1
<1> QED
  BY <1>1, <1>3, <1>4, <1>5, <1>6, CompleteKept

LEMMA ExportComplete ==
  ASSUME IInv, Complete, NEW p \in Procs, Export(p)
  PROVE  Complete'
<1>1. /\ TypeOK /\ UNCHANGED <<index, indexFile, objs, files>> /\ left["blobFault"] = 0
      /\ Return(p)
  BY DEF IInv, Export, Complete, names
<1>2. left' = left /\ trees \subseteq trees'
  BY <1>1, PutStays DEF Export
<1>3. Stays
  BY <1>1, <1>2 DEF Stays
<1> QED
  BY <1>1, <1>3, CompleteReturn

LEMMA ImportDirComplete ==
  ASSUME IInv, Complete, NEW p \in Procs, ImportDir(p)
  PROVE  Complete'
<1>1. /\ TypeOK /\ UNCHANGED <<index, indexFile, objs, files>> /\ left["blobFault"] = 0
      /\ g[p].at = "importDir" /\ g[p] \in LocalSet /\ Stored(g[p])
  BY Types DEF IInv, ImportDir, Complete, names
<1>2. trees' = trees \union {g[p].arg.root} /\ left' = left
  BY <1>1, PutStays DEF ImportDir
<1>3. Stays
  BY <1>1, <1>2 DEF Stays
<1>4. PICK x : x = [g[p] EXCEPT !.at = "importFile"]
  OBVIOUS
<1>5. g' = [g EXCEPT ![p] = x] /\ x.at = "importFile" /\ x.hash = g[p].hash /\ x.arg = g[p].arg
  BY <1>1, <1>4, Types DEF ImportDir, Goto, LocalSet
<1>6. Stored(x)'
  BY <1>1, <1>2, <1>5 DEF Stored
<1> QED
  BY <1>1, <1>3, <1>5, <1>6, CompleteSame

LEMMA ImportFileComplete ==
  ASSUME IInv, Complete, NEW p \in Procs, ImportFile(p)
  PROVE  Complete'
<1>1. /\ TypeOK /\ UNCHANGED <<index, indexFile, objs, trees>> /\ left["blobFault"] = 0
      /\ g[p].at = "importFile" /\ g[p] \in LocalSet /\ Stored(g[p])
  BY Types DEF IInv, ImportFile, Complete, names
<1>2. PICK f \in g[p].arg.root \ g[p].hash :
        \/ Return(p) /\ UNCHANGED <<files, left>>
        \/ PutFile(f) /\ g' = [g EXCEPT ![p].hash = @ \union {f}]
        \/ PutFile(g[p].arg.blob[f]) /\ Return(p)
  BY DEF ImportFile
<1>3. files \subseteq files' /\ left' = left
  BY <1>1, <1>2, PutStays
<1>4. Stays
  BY <1>1, <1>3 DEF Stays
<1>5. CASE Return(p)
  BY <1>1, <1>4, <1>5, CompleteReturn
<1>6. CASE PutFile(f) /\ g' = [g EXCEPT ![p].hash = @ \union {f}]
  <2>1. files' = files \union {f}
    BY <1>1, <1>6, PutStays
  <2>2. PICK x : x = [g[p] EXCEPT !.hash = @ \union {f}]
    OBVIOUS
  <2>3. /\ g' = [g EXCEPT ![p] = x] /\ x.at = "importFile"
        /\ x.hash = g[p].hash \union {f} /\ x.arg = g[p].arg
    BY <1>1, <1>6, <2>2, Types DEF LocalSet
  <2>4. Stored(x)'
    BY <1>1, <2>1, <2>3 DEF Stored
  <2> QED
    BY <1>1, <1>4, <2>3, <2>4, CompleteSame
<1> QED
  BY <1>2, <1>5, <1>6

\* What was imported is in place before its Root is saved.
LEMMA ImportRootComplete ==
  ASSUME IInv, Complete, NEW p \in Procs, ImportRoot(p)
  PROVE  Complete'
<1>1. /\ TypeOK /\ UNCHANGED <<disk, index, left>>
      /\ g[p].at = "importFile" /\ g[p] \in LocalSet /\ Stored(g[p])
  BY Types DEF IInv, ImportRoot, Complete
<1>2. Stays /\ UNCHANGED indexFile
  BY <1>1 DEF Stays, Complete, disk
<1>3. PICK r : r = [NewRoot EXCEPT !.held = g[p].hash]
  OBVIOUS
<1>4. r.held = g[p].hash /\ r.loaded /\ ~r.readonly
  BY <1>3 DEF NewRoot
<1>5. Whole(r)'
  BY <1>1, <1>2, <1>4 DEF Whole, Stored, Stays
<1>6. objs' = Append(objs, r)
  BY <1>3 DEF ImportRoot
<1>7. \A i \in DOMAIN objs' : (i \in DOMAIN objs /\ objs'[i] = objs[i]) \/ Whole(objs[i])'
  BY <1>1, <1>5, <1>6, OneWhole
<1>8. PICK x : x = [g[p] EXCEPT !.at = "save", !.obj = Len(objs) + 1]
  OBVIOUS
<1>9. g' = [g EXCEPT ![p] = x] /\ x.at = "save"
  BY <1>1, <1>8, Types DEF ImportRoot, LocalSet
<1>10. Stored(x)'
  BY <1>9 DEF Stored
<1>11. \A q \in Procs : g'[q] = g[q] \/ Stored(g[q])'
  BY <1>1, <1>9, <1>10, OneStored
<1> QED
  BY <1>1, <1>2, <1>7, <1>11, CompleteKept

\* A new token names an empty Root, or one of a hash that has its blobs.
LEMMA CreateComplete ==
  ASSUME IInv, Complete, RootCreate \/ \E h \in Known : RootCreateFrom(h)
  PROVE  Complete'
<1>1. TypeOK /\ UNCHANGED <<disk, index, g>> /\ left["blobFault"] = 0
  BY DEF IInv, RootCreate, RootCreateFrom, Complete
<1>2. left'["blobFault"] = 0
  <2>1. {"create", "from"} \subseteq Bounded \ {"blobFault"}
    BY DEF Bounded
  <2>2. Spend("create") \/ Spend("from")
    BY DEF RootCreate, RootCreateFrom
  <2> QED
    BY <1>1, <2>1, <2>2, SpendStays
<1>3. Stays /\ UNCHANGED indexFile
  BY <1>1, <1>2 DEF Stays, disk
<1>4. PICK r : objs' = Append(objs, r) /\ Whole(r)
  <2>1. CASE RootCreate
    <3>1. Whole(NewRoot)
      BY DEF Whole, NewRoot
    <3> QED
      BY <2>1, <3>1 DEF RootCreate, Enter
  <2>2. CASE \E h \in Known : RootCreateFrom(h)
    <3>1. PICK h \in index : RootCreateFrom(h)
      BY <2>2 DEF RootCreateFrom
    <3>2. Whole([NewRootHash(h) EXCEPT !.readonly = FALSE])
      BY <3>1, CompleteParts, WholeHash DEF Complete
    <3> QED
      BY <3>1, <3>2 DEF RootCreateFrom, Enter
  <2> QED
    BY <2>1, <2>2
<1>5. Whole(r)'
  BY <1>3, <1>4, StaysStored
<1>6. \A i \in DOMAIN objs' : (i \in DOMAIN objs /\ objs'[i] = objs[i]) \/ Whole(objs[i])'
  BY <1>1, <1>4, <1>5, OneWhole
<1> QED
  BY <1>1, <1>3, <1>6, CompleteKept

\* Requests that begin have mentioned no hash but a known one.
LEMMA BeginComplete ==
  ASSUME IInv, Complete, NEW p \in Procs,
         \/ \E name, file : \E op \in {"record", "save", "export"} : Begin(p, op, name, file)
         \/ \E a \in Archives : ImportBegin(p, a)
  PROVE  Complete'
<1>1. TypeOK /\ UNCHANGED <<disk, names>> /\ left["blobFault"] = 0
  BY DEF IInv, Begin, ImportBegin, Complete
<1>2. left'["blobFault"] = 0
  <2>1. {"record", "save", "export", "import"} \subseteq Bounded \ {"blobFault"}
    BY DEF Bounded
  <2>2. \E k \in {"record", "save", "export", "import"} : Spend(k)
    BY DEF Begin, ImportBegin
  <2> QED
    BY <1>1, <2>1, <2>2, SpendStays
<1>3. Stays /\ UNCHANGED <<index, indexFile, objs>>
  BY <1>1, <1>2 DEF Stays, disk, names
<1>4. PICK x : g' = [g EXCEPT ![p] = x] /\ x.at \in {"open", "importDir"} /\ x.hash = {}
  <2>1. ASSUME NEW name, NEW file, NEW op, Begin(p, op, name, file)
        PROVE  \E x : g' = [g EXCEPT ![p] = x] /\ x.at \in {"open", "importDir"} /\ x.hash = {}
    <3>1. PICK x : x = [Idle EXCEPT !.at = "open", !.op = op, !.arg = file, !.name = name]
      OBVIOUS
    <3>2. x.at = "open" /\ x.hash = {}
      BY <3>1 DEF Idle
    <3> QED
      BY <2>1, <3>1, <3>2 DEF Begin
  <2>2. ASSUME NEW a, ImportBegin(p, a)
        PROVE  \E x : g' = [g EXCEPT ![p] = x] /\ x.at \in {"open", "importDir"} /\ x.hash = {}
    <3>1. PICK x : x = [Idle EXCEPT !.at = "importDir", !.op = "import", !.arg = a]
      OBVIOUS
    <3>2. x.at = "importDir" /\ x.hash = {}
      BY <3>1 DEF Idle
    <3> QED
      BY <2>2, <3>1, <3>2 DEF ImportBegin
  <2> QED
    BY <2>1, <2>2
<1>5. Stored(x)'
  BY <1>4 DEF Stored
<1> QED
  BY <1>1, <1>3, <1>4, <1>5, CompleteSame

\* A process that is started again knows no more than the index file has.
LEMMA RestartComplete ==
  ASSUME IInv, Complete, Restart
  PROVE  Complete'
<1>1. /\ TypeOK /\ UNCHANGED disk /\ left["blobFault"] = 0
      /\ index' \subseteq indexFile.roots /\ objs' = <<>> /\ g' = [p \in Procs |-> Idle]
  BY DEF IInv, Complete, Restart
<1>2. left'["blobFault"] = 0
  <2>1. "restart" \in Bounded \ {"blobFault"} /\ Spend("restart")
    BY DEF Bounded, Restart
  <2> QED
    BY <1>1, <2>1, SpendStays
<1>3. IndexComplete'
  BY <1>1 DEF Complete, IndexComplete, disk
<1>4. \A p \in Procs : Stored(g[p])'
  BY <1>1 DEF Stored, Idle
<1>5. DOMAIN objs' = {}
  BY <1>1
<1> QED
  BY <1>2, <1>3, <1>4, <1>5 DEF Complete

LEMMA NextComplete ==
  ASSUME IInv, Complete, [Next]_vars
  PROVE  Complete'
<1>1. CASE UNCHANGED vars
  BY <1>1 DEF vars, disk, names, obs, Complete, IndexComplete, Whole, Stored, InPlace
<1>2. CASE Next
  <2>1. \/ RootCreate \/ \E h \in Known : RootCreateFrom(h)
        \/ Restart
        \/ \E p \in Procs : \/ Step(p)
                            \/ \E name, file : \E op \in {"record", "save", "export"} :
                                 Begin(p, op, name, file)
                            \/ \E a \in Archives : ImportBegin(p, a)
    BY <1>2 DEF Next
  <2>2. ASSUME NEW p \in Procs, Step(p)
        PROVE  Complete'
    BY <2>2, RootOpenComplete, RootOpenHashComplete, RecordComplete, RootHashComplete,
       RegisterComplete, WriteComplete, ExportComplete, ImportDirComplete,
       ImportFileComplete, ImportRootComplete DEF Step
  <2> QED
    BY <2>1, <2>2, CreateComplete, BeginComplete, RestartComplete
<1> QED
  BY <1>1, <1>2

\* Every hash in the index, in memory or on disk, has its tree and its files in place,
\* also after failed index writes, restarts and damaged archives, if every blob that is
\* written can be put in place (filesystem.go:132-189).  Where one cannot, the code uses
\* its hash all the same and the index may name what was never stored.
THEOREM IndexAlwaysComplete ==
  ASSUME Quota["blobFault"] = 0
  PROVE  Spec => []IndexComplete
<1>1. Complete => IndexComplete
  BY DEF Complete
<1> QED
  BY <1>1, InitHolds, InitComplete, NextKeeps, NextComplete, PTL DEF Spec

\* An export of a hash finds the Root as it was saved, and all its blobs, under the same
\* assumption (export.go:36-95).
THEOREM ExportAlwaysFinds ==
  ASSUME Quota["blobFault"] = 0
  PROVE  Spec => []ExportFinds
<1>1. ASSUME IInv, Complete, NEW p \in Procs, g[p].at = "export"
      PROVE  LET r == objs[g[p].obj]
             IN Hash(r.held) = g[p].name /\ r.held \in trees /\ r.held \subseteq files
  <2>1. /\ g[p].obj \in DOMAIN objs /\ objs[g[p].obj].readonly
        /\ g[p].name = Hash(objs[g[p].obj].held)
    BY <1>1 DEF IInv, Locals, Local
  <2>2. Whole(objs[g[p].obj])
    BY <1>1, <2>1 DEF Complete
  <2> QED
    BY <2>1, <2>2 DEF Whole
<1>2. IInv /\ Complete => ExportFinds
  BY <1>1 DEF ExportFinds
<1> QED
  BY <1>2, InitHolds, InitComplete, NextKeeps, NextComplete, PTL DEF Spec
=============================================================================
