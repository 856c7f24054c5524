-------------------------- MODULE RootSerialProofs -------------------------
(***************************************************************************)
(* A Root that one goroutine works on, with one content for each path: what *)
(* RootTree promises there and breaks with two.  The hashes that are kept   *)
(* for directories in memory agree with what these hold, Save returns a     *)
(* tree with all that was written, and no path of the Root loses it.        *)
(***************************************************************************)
EXTENDS RootTreeProofs

-----------------------------------------------------------------------------
(* What a step of one goroutine does to the entries of the heap *)

SameEntries ==
  DOMAIN dirs' = DOMAIN dirs /\ \A c \in DOMAIN dirs : Entries(c)' = Entries(c)

\* Entries[n] = e in directory d.
SetsEntry(d, n, e) ==
  /\ DOMAIN dirs' = DOMAIN dirs /\ d \in DOMAIN dirs
  /\ \A c \in DOMAIN dirs : c # d => Entries(c)' = Entries(c)
  /\ Names(d)' = Names(d) \union {n} /\ Entries(d)'[n] = e
  /\ \A m \in Names(d) : m # n => Entries(d)'[m] = Entries(d)[m]

\* Dir k is new, and loaded from the blob h.
LoadsDir(k, h) ==
  /\ DOMAIN dirs' = DOMAIN dirs \union {k} /\ k = Len(dirs) + 1
  /\ h \in blobs /\ IsDirHash(h) /\ h = DirHash(Marshal(k)') /\ Names(k)' = DOMAIN Listing(h)
  /\ \A n \in Names(k)' : Entries(k)'[n] = LoadedEntry(Listing(h)[n])

\* What Walk and the others pass keeps its entries.
LEMMA PassedSame ==
  ASSUME IInv, NEW p \in Procs, NEW d \in DOMAIN dirs, dirs' = DirPassed(p, d)
  PROVE  SameEntries
BY PassedFacts DEF SameEntries, OnlyAt, Entries

LEMMA UnchangedSame ==
  ASSUME UNCHANGED dirs
  PROVE  SameEntries
BY DEF SameEntries, Entries

\* The entries of Dir k are those of the blob h.
LEMMA LoadedListing ==
  ASSUME IInv, NEW h, Loadable(h), NEW k, dirs'[k] = LoadDir(h)
  PROVE  /\ h = DirHash(Marshal(k)') /\ Names(k)' = DOMAIN Listing(h)
         /\ \A n \in Names(k)' : Entries(k)'[n] = LoadedEntry(Listing(h)[n])
<1>1. h \in blobs /\ IsDirHash(h) /\ WellFormed(h)
  BY DEF Loadable, IInv, TypeOK
<1>2. Entries(k)' = [n \in DOMAIN Listing(h) |-> LoadedEntry(Listing(h)[n])]
  BY DEF Entries, LoadDir
<1>3. /\ Names(k)' = DOMAIN Listing(h)
      /\ \A n \in Names(k)' : Entries(k)'[n] = LoadedEntry(Listing(h)[n])
  BY <1>2 DEF Names
<1>4. Marshal(k)' = [n \in DOMAIN Listing(h) |-> [kind |-> Listing(h)[n].kind,
                                                 hash |-> Listing(h)[n].hash]]
  <2>1. \A n \in DOMAIN Listing(h) : /\ Entries(k)'[n].kind = Listing(h)[n].kind
                                     /\ Entries(k)'[n].hash = Listing(h)[n].hash
    <3>1. \A n \in DOMAIN Listing(h) : Entries(k)'[n] = LoadedEntry(Listing(h)[n])
      BY <1>3
    <3>2. \A c : LoadedEntry(c).kind = c.kind /\ LoadedEntry(c).hash = c.hash
      BY DEF LoadedEntry
    <3> QED
      BY <3>1, <3>2
  <2> QED
    BY <1>3, <2>1 DEF Marshal
<1>5. h = DirHash(Marshal(k)')
  BY <1>1, <1>4 DEF WellFormed
<1> QED
  BY <1>3, <1>5

\* ds2 is ds and a Dir loaded from h.
LEMMA AppendLoads ==
  ASSUME IInv, NEW h, Loadable(h), NEW ds, ds \in Seq(ToSet(ds)), DOMAIN ds = DOMAIN dirs,
         dirs' = Append(ds, LoadDir(h)), NEW k, k = Len(dirs) + 1
  PROVE  /\ LoadsDir(k, h) /\ \A c \in DOMAIN dirs : dirs'[c] = ds[c]
         /\ k \notin DOMAIN dirs /\ k # 0 /\ k \in Nat /\ \A c \in DOMAIN dirs : c < k
<1>1. Len(dirs) \in Nat /\ DOMAIN dirs = 1..Len(dirs)
  BY HeapSizes
<1>2. Len(ds) \in Nat /\ DOMAIN ds = 1..Len(ds) /\ Len(ds) = Len(dirs)
  BY <1>1, SeqFacts
<1>3. PICK x : x = LoadDir(h)
  OBVIOUS
<1>4. /\ DOMAIN dirs' = 1..(Len(dirs) + 1) /\ dirs'[k] = x
      /\ \A c \in DOMAIN dirs : dirs'[c] = ds[c]
  BY <1>1, <1>2, <1>3, SeqFacts
<1>5. /\ h = DirHash(Marshal(k)') /\ Names(k)' = DOMAIN Listing(h)
      /\ \A n \in Names(k)' : Entries(k)'[n] = LoadedEntry(Listing(h)[n])
  BY <1>3, <1>4, LoadedListing
<1>6. DOMAIN dirs' = DOMAIN dirs \union {k}
  BY <1>1, <1>4
<1>7. h \in blobs /\ IsDirHash(h)
  BY DEF Loadable
<1> QED
  BY <1>1, <1>4, <1>5, <1>6, <1>7 DEF LoadsDir

\* ds is the heap with entry n of d set to e.
SetIn(ds, d, n, e) ==
  /\ DOMAIN ds = DOMAIN dirs /\ ds \in Seq(ToSet(ds)) /\ d \in DOMAIN dirs
  /\ \A c \in DOMAIN dirs : c # d => ds[c].entries = Entries(c)
  /\ DOMAIN ds[d].entries = Names(d) \union {n} /\ ds[d].entries[n] = e
  /\ \A m \in Names(d) : m # n => ds[d].entries[m] = Entries(d)[m]

LEMMA SetInSets ==
  ASSUME NEW d, NEW n, NEW e, SetIn(dirs', d, n, e)
  PROVE  SetsEntry(d, n, e)
BY DEF SetIn, SetsEntry, Entries, Names

LEMMA SetInPassed ==
  ASSUME IInv, NEW p \in Procs, NEW d \in DOMAIN dirs, NEW n \in Names(d), NEW e,
         NEW ds, ds = DirPassed(p, d) \/ ds = dirs,
         NEW ds2, ds2 = SetEntry(ds, d, n, e)
  PROVE  SetIn(ds2, d, n, e)
<1>1. /\ OnlyAt(dirs, ds, d) /\ DirRecord(ds[d]) /\ ds \in Seq(ToSet(ds))
      /\ ds[d].entries = Entries(d)
  BY PassedFacts, DirIsRecord DEF OnlyAt, Entries
<1>2. d \in DOMAIN ds /\ n \in DOMAIN ds[d].entries
  BY <1>1 DEF OnlyAt, Names
<1>4. /\ OnlyAt(ds, ds2, d)
      /\ ds2[d].hash = ds[d].hash /\ DOMAIN ds2[d].entries = DOMAIN ds[d].entries
      /\ ds2[d].entries[n] = e
      /\ \A m \in DOMAIN ds[d].entries : m # n => ds2[d].entries[m] = ds[d].entries[m]
  BY <1>1, <1>2, SetEntryFacts
<1>5. DOMAIN ds2[d].entries = Names(d) \union {n}
  BY <1>1, <1>4 DEF Names
<1> QED
  BY <1>1, <1>4, <1>5 DEF SetIn, OnlyAt, Names, Entries

LEMMA SetInStore ==
  ASSUME IInv, NEW d \in DOMAIN dirs, NEW n, NEW e, NEW ds, ds = Store(d, n, e)
  PROVE  SetIn(ds, d, n, e)
<1>1. ds = PutEntry(dirs, d, n, e)
  BY DEF Store, PutEntry
<1>2. DirRecord(dirs[d]) /\ dirs \in Seq(ToSet(dirs))
  BY DirIsRecord
<1> QED
  BY <1>1, <1>2, PutEntryFacts DEF SetIn, OnlyAt, Names, Entries

\* One iteration of getDir: an end, a name that is missing, a directory that is there or
\* one that is loaded.
Walked(p, d, n, e, k, f, h) ==
  \/ SameEntries /\ Return(p)
  \/ SameEntries /\ n \notin Names(d) /\ IsWrite(p) /\ Goto(p, "mkdir")
  \/ /\ n \in Names(d) /\ e.kind = "dir" /\ e.dir # 0
     /\ SetsEntry(d, n, f) /\ Advance(p, e.dir)
  \/ /\ n \in Names(d) /\ e.kind = "dir" /\ e.dir = 0
     /\ LoadsDir(k, h) /\ \A c \in DOMAIN dirs : Entries(c)' = Entries(c)
     /\ g' = [g EXCEPT ![p].at = "setDir", ![p].new = k, ![p].id = e.id]

LEMMA WalkDoes ==
  ASSUME IInv, NEW loc, NEW fit, Placed(loc, fit), NEW p \in Procs, Walk(p)
  PROVE  \E d, n, e, k, f, h :
    /\ d = g[p].d /\ n = DirPart(p)[g[p].i] /\ e = Entries(d)[n] /\ k = Len(dirs) + 1
    /\ f = EntryPassed(p, e) /\ h = e.hash
    /\ Walked(p, d, n, e, k, f, h)
<1>d. PICK d : d = g[p].d
  OBVIOUS
<1>n. PICK n : n = DirPart(p)[g[p].i]
  OBVIOUS
<1>e. PICK e, k : e = Entries(d)[n] /\ k = Len(dirs) + 1
  OBVIOUS
<1>f. PICK f, h : f = EntryPassed(p, e) /\ h = e.hash
  OBVIOUS
<1>1. PICK ds : ds = DirPassed(p, d)
  OBVIOUS
<1>b. PICK ds2 : ds2 = [ds EXCEPT ![d].entries[n] = f]
  OBVIOUS
<1>c. PICK ds3 : ds3 = Append(ds, LoadDir(h))
  OBVIOUS
<1>a. PICK g2 : g2 = [g EXCEPT ![p].at = "setDir", ![p].new = k, ![p].id = e.id]
  OBVIOUS
<1>2. g[p].at = "walk" /\ g[p].i <= Len(DirPart(p))
  <2>1. g[p].at = "walk"
    BY Zenon DEF Walk
  <2>2. g[p].i <= Len(DirPart(p))
    BY Zenon DEF Walk
  <2> QED
    BY <2>1, <2>2
<1>3. d \in DOMAIN dirs
  BY <1>2, <1>d, <1>n, OnTheWay
<1>4. \/ dirs' = ds /\ Return(p)
      \/ dirs' = ds /\ n \notin Names(d) /\ IsWrite(p) /\ Goto(p, "mkdir")
      \/ /\ n \in Names(d) /\ e.kind = "dir" /\ e.dir # 0
         /\ dirs' = ds2 /\ Advance(p, e.dir)
      \/ /\ n \in Names(d) /\ e.kind = "dir" /\ e.dir = 0 /\ Loadable(h)
         /\ dirs' = ds3 /\ g' = g2
  <2>1. CASE n \in Names(d) /\ e.kind # "dir"
    BY <1>d, <1>n, <1>e, <1>f, <1>1, <2>1, Zenon DEF Walk
  <2>2. CASE n \in Names(d) /\ e.kind = "dir"
    BY <1>d, <1>n, <1>e, <1>f, <1>1, <1>a, <1>b, <1>c, <2>2, Zenon DEF Walk
  <2>3. CASE n \notin Names(d)
    BY <1>d, <1>n, <1>e, <1>f, <1>1, <2>3, Zenon DEF Walk
  <2> QED
    BY <2>1, <2>2, <2>3
<1>5. ASSUME dirs' = ds, Return(p) \/ (n \notin Names(d) /\ IsWrite(p) /\ Goto(p, "mkdir"))
      PROVE  Walked(p, d, n, e, k, f, h)
  <2>1. SameEntries
    BY <1>1, <1>3, <1>5, PassedSame
  <2> QED
    BY <1>5, <2>1, Zenon DEF Walked
<1>6. ASSUME n \in Names(d), e.kind = "dir", e.dir # 0, dirs' = ds2, Advance(p, e.dir)
      PROVE  Walked(p, d, n, e, k, f, h)
  <2>0. dirs' = SetEntry(ds, d, n, f)
    BY <1>b, <1>6 DEF SetEntry
  <2>1. SetIn(dirs', d, n, f)
    BY <1>1, <1>3, <1>6, <2>0, SetInPassed
  <2>2. SetsEntry(d, n, f)
    BY <2>1, SetInSets
  <2> QED
    BY <1>6, <2>2, Zenon DEF Walked
<1>7. ASSUME n \in Names(d), e.kind = "dir", e.dir = 0, Loadable(h), dirs' = ds3, g' = g2
      PROVE  Walked(p, d, n, e, k, f, h)
  <2>1. /\ ds \in Seq(ToSet(ds)) /\ DOMAIN ds = DOMAIN dirs
        /\ \A c \in DOMAIN dirs : ds[c].entries = Entries(c)
    BY <1>1, <1>3, PassedFacts DEF OnlyAt, Entries
  <2>0. dirs' = Append(ds, LoadDir(h)) /\ Loadable(h)
    BY <1>c, <1>7
  <2>2. LoadsDir(k, h) /\ \A c \in DOMAIN dirs : dirs'[c] = ds[c]
    BY <1>e, <2>0, <2>1, AppendLoads
  <2>3. \A c \in DOMAIN dirs : Entries(c)' = Entries(c)
    BY <2>1, <2>2 DEF Entries
  <2> QED
    BY <1>a, <1>7, <2>2, <2>3, Zenon DEF Walked
<1>8. Walked(p, d, n, e, k, f, h)
  BY <1>4, <1>5, <1>6, <1>7
<1> QED
  BY <1>d, <1>n, <1>e, <1>f, <1>8, Zenon

-----------------------------------------------------------------------------
(* One goroutine, and one content for each path: what a path may lead to *)

OneGoroutine == \A p, q \in Procs : p = q

\* The contents that a path has: written to it, linked to it, or in the tree that the
\* Root was opened with.
Contents(f) ==
       {FileHash(put[2]) : put \in {x \in Puts : x[1] = f}}
  \cup {link[2] : link \in {x \in Links : x[1] = f}}
  \cup ({Resolve(s.base, f) : s \in Starts} \ {NoHash})

OneContent == \A f \in Paths : \A h1, h2 \in Contents(f) : h1 = h2

\* What is known to be written to a path is one of its contents.
ContentsOnly ==
  /\ \A f \in Paths : /\ sealed[f].now \in Contents(f) \union {NoHash}
                      /\ sealed[f].ever \subseteq Contents(f)
  /\ \A w \in DOMAIN wr : wr[w].hash \in Contents(wr[w].path)

\* No content is the empty hash.
LEMMA ContentsNotEmpty ==
  ASSUME NEW f
  PROVE  NoHash \notin Contents(f)
<1>1. \A c : FileHash(c) # NoHash
  BY DEF FileHash, NoHash
<1>2. \A link \in Links : link[2] # NoHash
  BY PathAssumption, BaseAssumption
<1> QED
  BY <1>1, <1>2 DEF Contents

LEMMA RequestContents ==
  ASSUME NEW r \in Requests, r.op \in {"write", "link"}
  PROVE  r.arg \in Contents(r.path) /\ r.path \in Paths
<1>1. CASE r.op = "write"
  <2>1. PICK put \in Puts : r.path = put[1] /\ r.arg = FileHash(put[2])
    BY <1>1 DEF Requests
  <2> QED
    BY <2>1, PathAssumption DEF Contents
<1>2. CASE r.op = "link"
  <2>1. PICK link \in Links : r.path = link[1] /\ r.arg = link[2]
    BY <1>2 DEF Requests
  <2> QED
    BY <2>1, PathAssumption DEF Contents
<1> QED
  BY <1>1, <1>2

\* A path is sealed again; the writers are as they were.
LEMMA ContentsSealed ==
  ASSUME WrittenOnce, ContentsOnly, UNCHANGED wr, NEW f \in Paths,
         NEW now \in Contents(f) \union {NoHash}, NEW ever, ever \subseteq Contents(f),
         NEW x, x = [now |-> now, ever |-> ever], sealed' = [sealed EXCEPT ![f] = x]
  PROVE  ContentsOnly'
<1>1. /\ sealed'[f].ever = ever /\ \A q \in Paths : q # f => sealed'[q] = sealed[q]
  BY SealedSet
<1>2. DOMAIN sealed = Paths
  BY DEF WrittenOnce
<1>3. sealed'[f].now = now
  BY <1>2
<1> QED
  BY <1>1, <1>3 DEF ContentsOnly

LEMMA ContentsWrite ==
  ASSUME IInv, IInv', Honest, ContentsOnly, NEW p \in Procs, Write(p)
  PROVE  ContentsOnly'
<1>1. PICK path, h : path = g[p].req.path /\ h = g[p].req.arg
  OBVIOUS
<1>2. h \in Contents(path) /\ path \in Paths
  <2>1. g[p].req \in Requests /\ g[p].req.op = "write"
    BY AtDir DEF Write, Ops
  <2> QED
    BY <1>1, <2>1, RequestContents
<1>3. WrittenOnce
  BY DEF Honest, Placed
<1>4. CASE UNCHANGED <<wr, sealed>>
  BY <1>4 DEF ContentsOnly
<1>5. CASE /\ wr' = Append(wr, [path |-> path, hash |-> h, st |-> "open"])
           /\ sealed' = [sealed EXCEPT ![path].now = NoHash]
  <2>1. PICK x : x = [path |-> path, hash |-> h, st |-> "open"]
    OBVIOUS
  <2>2. wr \in Seq(ToSet(wr)) /\ wr' = Append(wr, x) /\ x.path = path /\ x.hash = h
    BY <1>5, <2>1, WritersFacts
  <2>3. /\ DOMAIN wr' = 1..(Len(wr) + 1) /\ wr'[Len(wr) + 1] = x
        /\ \A v \in DOMAIN wr : wr'[v] = wr[v]
        /\ DOMAIN wr = 1..Len(wr) /\ Len(wr) \in Nat
    BY <2>2, SeqFacts
  <2>4. \A w \in DOMAIN wr' : wr'[w].hash \in Contents(wr'[w].path)
    BY <1>2, <2>2, <2>3 DEF ContentsOnly
  <2>5. /\ DOMAIN sealed = Paths
        /\ \A f \in Paths : sealed[f] = [now |-> sealed[f].now, ever |-> sealed[f].ever]
    BY <1>3 DEF WrittenOnce
  <2>6. \A f \in Paths : /\ sealed'[f].now \in {sealed[f].now, NoHash}
                         /\ sealed'[f].ever = sealed[f].ever
    BY <1>2, <1>5, <2>5
  <2> QED
    BY <2>4, <2>6 DEF ContentsOnly
<1> QED
  BY <1>1, <1>4, <1>5 DEF Write

LEMMA ContentsLink ==
  ASSUME IInv, Honest, ContentsOnly, NEW p \in Procs, Link(p)
  PROVE  ContentsOnly'
<1>1. PICK path, h : path = g[p].req.path /\ h = g[p].req.arg
  OBVIOUS
<1>2. h \in Contents(path) /\ path \in Paths
  <2>1. g[p].req \in Requests /\ g[p].req.op = "link"
    BY AtDir DEF Link, Ops
  <2> QED
    BY <1>1, <2>1, RequestContents
<1>3. WrittenOnce
  BY DEF Honest, Placed
<1>4. PICK ever : ever = sealed[path].ever
  OBVIOUS
<1>5. PICK ever2, x : ever2 = ever \union {h} /\ x = [now |-> h, ever |-> ever2]
  OBVIOUS
<1>6. CASE UNCHANGED <<wr, sealed>>
  BY <1>6 DEF ContentsOnly
<1>7. CASE UNCHANGED wr /\ sealed' = [sealed EXCEPT ![path] = x]
  <2>1. ever2 \subseteq Contents(path)
    BY <1>2, <1>4, <1>5 DEF ContentsOnly
  <2> QED
    BY <1>2, <1>3, <1>5, <1>7, <2>1, ContentsSealed
<1>8. UNCHANGED wr /\ (UNCHANGED sealed \/ sealed' = [sealed EXCEPT ![path] = x])
  BY <1>1, <1>4, <1>5 DEF Link
<1> QED
  BY <1>6, <1>7, <1>8

LEMMA ContentsWriter ==
  ASSUME IInv, Honest, ContentsOnly, NEW w \in DOMAIN wr, CloseWriter(w) \/ PublishBlob(w)
  PROVE  ContentsOnly'
<1>1. PICK path, h : path = wr[w].path /\ h = wr[w].hash
  OBVIOUS
<1>2. /\ h \in Contents(path) /\ path \in Paths /\ WrittenOnce
      /\ \A v \in DOMAIN wr : wr[v] \in Writers
  BY <1>1, WritersFacts DEF ContentsOnly, Honest, Placed, Writers
<1>3. /\ DOMAIN sealed = Paths
      /\ \A f \in Paths : sealed[f] = [now |-> sealed[f].now, ever |-> sealed[f].ever]
  BY <1>2 DEF WrittenOnce
<1>4. \E st : wr' = [wr EXCEPT ![w].st = st]
  BY DEF CloseWriter, PublishBlob
<1>5. PICK st, y : wr' = [wr EXCEPT ![w] = y] /\ y = [wr[w] EXCEPT !.st = st]
  BY <1>4
<1>6. y.path = path /\ y.hash = h
  BY <1>1, <1>2, <1>5 DEF Writers
<1>7. \A v \in DOMAIN wr' : wr'[v].hash \in Contents(wr'[v].path)
  BY <1>1, <1>2, <1>5, <1>6 DEF ContentsOnly
<1>8. \A f \in Paths : /\ sealed'[f].now \in {sealed[f].now} \union Contents(f)
                       /\ sealed'[f].ever \subseteq sealed[f].ever \union Contents(f)
  <2>1. CASE CloseWriter(w)
    BY <1>1, <1>2, <1>3, <2>1 DEF CloseWriter
  <2>2. CASE PublishBlob(w) /\ UNCHANGED sealed
    BY <2>2
  <2>3. CASE \E a \in {sealed[path].now, h} : sealed' = [sealed EXCEPT ![path].now = a]
    BY <1>2, <1>3, <2>3
  <2>4. PublishBlob(w) => \/ UNCHANGED sealed
                          \/ \E a \in {sealed[path].now, h} :
                               sealed' = [sealed EXCEPT ![path].now = a]
    <3> SUFFICES ASSUME PublishBlob(w), ~UNCHANGED sealed
                 PROVE  \E a \in {sealed[path].now, h} : sealed' = [sealed EXCEPT ![path].now = a]
      OBVIOUS
    <3>1. PICK b \in BOOLEAN : b = \A v \in DOMAIN wr : wr[v].path = path => v <= w
      OBVIOUS
    <3>2. sealed' = [sealed EXCEPT ![path].now = IF b THEN h ELSE @]
      BY <1>1, <3>1 DEF PublishBlob
    <3> QED
      BY <3>2
  <2> QED
    BY <2>1, <2>2, <2>3, <2>4
<1> QED
  BY <1>7, <1>8 DEF ContentsOnly

LEMMA ContentsNext ==
  ASSUME IInv, IInv', Honest, ContentsOnly, [Next]_vars
  PROVE  ContentsOnly'
<1>1. CASE UNCHANGED <<wr, sealed>>
  BY <1>1 DEF ContentsOnly
<1>2. ASSUME NEW p \in Procs, NEW r \in Requests, Begin(p, r)
      PROVE  UNCHANGED <<wr, sealed>>
  BY <1>2 DEF Begin, heap, obs
<1>3. ASSUME NEW p \in Procs, Step(p), ~Write(p), ~Link(p)
      PROVE  UNCHANGED <<wr, sealed>>
  <2>1. ASSUME Walk(p)
        PROVE  UNCHANGED <<wr, sealed>>
    <3>1. UNCHANGED <<wr, obs>>
      BY <2>1, Zenon DEF Walk
    <3> QED
      BY <3>1 DEF obs
  <2>2. ASSUME GetDir(p) \/ SetRootDir(p) \/ SetDir(p) \/ Mkdir(p) \/ Arrive(p) \/ Read(p)
        PROVE  UNCHANGED <<wr, sealed>>
    BY <2>2 DEF GetDir, SetRootDir, SetDir, Mkdir, Arrive, Read, obs
  <2>3. ASSUME List(p) \/ EntryHash(p) \/ HashNext(p) \/ HashDirDone(p) \/ Hashed(p) \/ SaveDone(p)
        PROVE  UNCHANGED <<wr, sealed>>
    BY <2>3 DEF List, EntryHash, HashNext, HashDirDone, Hashed, SaveDone, heap, obs
  <2>4. ASSUME DiffStart(p) \/ NewDiffIter(p) \/ DiffNext(p) \/ DiffUp(p)
        PROVE  UNCHANGED <<wr, sealed>>
    BY <2>4 DEF DiffStart, NewDiffIter, DiffNext, DiffUp, heap, obs
  <2> QED
    BY <1>3, <2>1, <2>2, <2>3, <2>4 DEF Step
<1>4. CASE UNCHANGED vars
  BY <1>1, <1>4 DEF vars, heap, obs
<1> QED
  BY <1>1, <1>2, <1>3, <1>4, ContentsWrite, ContentsLink, ContentsWriter DEF Next, Finished

LEMMA ContentsInit ==
  ASSUME Init
  PROVE  ContentsOnly
<1>1. PICK s \in Starts :
        sealed = [f \in Paths |-> [now  |-> Resolve(s.base, f),
                                   ever |-> {Resolve(s.base, f)} \ {NoHash}]]
  BY DEF Init
<1>2. DOMAIN wr = {}
  BY DEF Init
<1>3. \A f \in Paths : /\ sealed[f].now = Resolve(s.base, f)
                       /\ sealed[f].ever = {Resolve(s.base, f)} \ {NoHash}
  BY <1>1
<1> QED
  BY <1>2, <1>3 DEF ContentsOnly, Contents

-----------------------------------------------------------------------------
(* Hashes kept for directories in memory *)

\* Every entry of directory d has a hash: the listing of d can be stored.
Full(d) == \A n \in Names(d) : Entries(d)[n].hash # NoHash

\* h is the hash of directory d as it is now.
Sums(h, d) == h = DirHash(Marshal(d)) /\ Full(d)

\* No entry points to directory d; or those that do keep no hash for it.
Loose(d) == \A c \in DOMAIN dirs : \A n \in Names(c) : Entries(c)[n].dir # d
Clear(d) == \A c \in DOMAIN dirs : \A n \in Names(c) :
              Entries(c)[n].dir = d => Entries(c)[n].hash = NoHash

\* Directory d was loaded from the blob h, and is not yet in the tree.
Fresh(d, h) ==
  /\ Loose(d) /\ d # rt.dir /\ Sums(h, d)
  /\ \A n \in Names(d) : Entries(d)[n].dir = 0 /\ ~Entries(d)[n].file

\* The heap is a forest: an entry points to a younger directory ...
Deeper ==
  \A d \in DOMAIN dirs : \A n \in Names(d) :
    Entries(d)[n].dir # 0 => Entries(d)[n].dir > d

\* ... that no other entry points to, and none to the directory of the Root.
Apart ==
  /\ \A c, d \in DOMAIN dirs : \A m \in Names(c) : \A n \in Names(d) :
       Entries(c)[m].dir = Entries(d)[n].dir /\ Entries(c)[m].dir # 0 => c = d /\ m = n
  /\ rt.dir # 0 => Loose(rt.dir)

\* A hash kept for a directory in memory is that of the directory, which has all of its.
Coherent ==
  \A d \in DOMAIN dirs : \A n \in Names(d) :
    Entries(d)[n].dir # 0 /\ Entries(d)[n].hash # NoHash
      => Sums(Entries(d)[n].hash, Entries(d)[n].dir)

\* No listing in the store names the empty hash.
BlobsFull == \A h \in blobs : NoHash \notin Children(h)

\* The stack of hashDir: each directory was entered through an entry without a hash, and
\* all that it visited has one by now but the entry that it is in.
HashStkIn(ds, root, s) ==
  \A k \in DOMAIN s :
    /\ DOMAIN ds[s[k].d].entries \subseteq s[k].todo
    /\ s[k].par = 0 => k = 1 /\ s[k].d = root
    /\ s[k].par # 0 => /\ ds[s[k].par].entries[s[k].name].dir = s[k].d
                       /\ ds[s[k].par].entries[s[k].name].id = s[k].id
                       /\ ds[s[k].par].entries[s[k].name].hash = NoHash
    /\ k > 1 => s[k].par = s[k - 1].d
    /\ \A n \in s[k].seen : /\ n \in DOMAIN ds[s[k].d].entries
                            /\ \/ ds[s[k].d].entries[n].hash # NoHash
                               \/ k < Len(s) /\ n = s[k + 1].name
    /\ \A l \in DOMAIN s : k < l => s[k].d < s[l].d

HashStk(s) == HashStkIn(dirs, rt.dir, s)

CacheLocal(x) ==
  /\ x.at \in Walking /\ x.req.op \in {"write", "link"} => Clear(x.d)
  /\ x.at = "mkdir" => /\ x.req.op \in {"write", "link"}
                       /\ x.req.path[x.i] \notin Names(x.d)
  /\ x.at = "setRootDir" => rt.dir = 0 /\ Fresh(x.new, rt.hash)
  /\ x.at = "setDir" => /\ Entries(x.d)[x.req.path[x.i]].dir = 0
                        /\ Entries(x.d)[x.req.path[x.i]].id = x.id
                        /\ x.d < x.new
                        /\ Fresh(x.new, Entries(x.d)[x.req.path[x.i]].hash)
  /\ x.at \in {"hash", "hashed"} => HashStk(x.stk)
  /\ x.at = "hashed" => Sums(dirs[x.stk[Len(x.stk)].d].hash, x.stk[Len(x.stk)].d)

CacheInv == /\ Deeper /\ Apart /\ Coherent /\ BlobsFull
            /\ \A p \in Procs : CacheLocal(g[p])

\* A directory whose listing does not change.
LEMMA SumsKept ==
  ASSUME NEW d, Marshal(d)' = Marshal(d)
  PROVE  /\ Full(d)' = Full(d)
         /\ \A h : Sums(h, d) => Sums(h, d)'
<1>1. \A n \in Names(d) : Marshal(d)[n].hash = Entries(d)[n].hash
  BY DEF Marshal
<1>2. \A n \in Names(d)' : Marshal(d)'[n].hash = Entries(d)'[n].hash
  BY DEF Marshal
<1>3. DOMAIN Marshal(d) = Names(d) /\ DOMAIN Marshal(d)' = Names(d)'
  BY DEF Marshal
<1>4. Names(d)' = Names(d)
  BY <1>3
<1>5. \A n \in Names(d) : Entries(d)'[n].hash = Entries(d)[n].hash
  BY <1>1, <1>2, <1>4
<1>6. Full(d)' = Full(d)
  BY <1>4, <1>5 DEF Full
<1> QED
  BY <1>6 DEF Sums

LEMMA SameMarshal ==
  ASSUME NEW d, Names(d)' = Names(d),
         \A n \in Names(d) : /\ Entries(d)'[n].kind = Entries(d)[n].kind
                             /\ Entries(d)'[n].hash = Entries(d)[n].hash
  PROVE  Marshal(d)' = Marshal(d)
BY DEF Marshal

\* Of the directories that were there only d changes, and of its entries only n.
Edited(d, n) ==
  /\ DOMAIN dirs \subseteq DOMAIN dirs'
  /\ \A c \in DOMAIN dirs : c # d => Entries(c)' = Entries(c)
  /\ d \in DOMAIN dirs =>
       /\ Names(d) \subseteq Names(d)' /\ Names(d)' \subseteq Names(d) \union {n}
       /\ \A m \in Names(d) : m # n => Entries(d)'[m] = Entries(d)[m]
  /\ \A c \in DOMAIN dirs' \ DOMAIN dirs : \A m \in Names(c)' : Entries(c)'[m].dir = 0

LEMMA SameEdited ==
  ASSUME SameEntries, NEW d, NEW n
  PROVE  Edited(d, n)
BY DEF SameEntries, Edited, Names

LEMMA SetsEdited ==
  ASSUME NEW d, NEW n, NEW e, SetsEntry(d, n, e)
  PROVE  Edited(d, n)
BY DEF SetsEntry, Edited

LEMMA LoadsEdited ==
  ASSUME NEW k, NEW h, LoadsDir(k, h), \A c \in DOMAIN dirs : Entries(c)' = Entries(c),
         NEW d, NEW n
  PROVE  Edited(d, n)
<1>1. \A c : LoadedEntry(c).dir = 0
  BY DEF LoadedEntry
<1>2. \A m \in Names(k)' : Entries(k)'[m].dir = 0
  BY <1>1 DEF LoadsDir
<1> QED
  BY <1>2 DEF LoadsDir, Edited, Names

\* An entry after the step points to nothing, is as it was, or is the one that changed.
LEMMA EditedEntry ==
  ASSUME NEW d, NEW n, Edited(d, n), NEW c \in DOMAIN dirs', NEW m \in Names(c)'
  PROVE  \/ Entries(c)'[m].dir = 0
         \/ c \in DOMAIN dirs /\ m \in Names(c) /\ Entries(c)'[m] = Entries(c)[m]
         \/ c = d /\ m = n /\ d \in DOMAIN dirs
BY DEF Edited, Names

\* The entry that changed, if there is one, points where it did or to a directory that
\* nothing else points to.
Grafted(d, n) ==
  d \in DOMAIN dirs /\ n \in Names(d)' /\ Entries(d)'[n].dir # 0 =>
    \/ n \in Names(d) /\ Entries(d)'[n].dir = Entries(d)[n].dir
    \/ /\ Entries(d)'[n].dir > d /\ Loose(Entries(d)'[n].dir)
       /\ Entries(d)'[n].dir # rt.dir

LEMMA EditShape ==
  ASSUME NEW d, NEW n, Edited(d, n), rt'.dir = rt.dir, Deeper, Apart, Grafted(d, n)
  PROVE  Deeper' /\ Apart'
<1>1. ASSUME NEW c \in DOMAIN dirs', NEW m \in Names(c)', NEW k, k = Entries(c)'[m].dir, k # 0
      PROVE  \/ c \in DOMAIN dirs /\ m \in Names(c) /\ Entries(c)[m].dir = k
             \/ c = d /\ m = n /\ d \in DOMAIN dirs /\ k > d /\ Loose(k) /\ k # rt.dir
  BY <1>1, EditedEntry DEF Grafted
<1>2. Deeper'
  BY <1>1 DEF Deeper
<1>3. ASSUME NEW b \in DOMAIN dirs', NEW c \in DOMAIN dirs',
             NEW m \in Names(b)', NEW l \in Names(c)',
             Entries(b)'[m].dir = Entries(c)'[l].dir, Entries(b)'[m].dir # 0
      PROVE  b = c /\ m = l
  <2>1. PICK k : k = Entries(b)'[m].dir /\ k = Entries(c)'[l].dir /\ k # 0
    BY <1>3
  <2>2. \/ b \in DOMAIN dirs /\ m \in Names(b) /\ Entries(b)[m].dir = k
        \/ b = d /\ m = n /\ d \in DOMAIN dirs /\ Loose(k)
    BY <1>1, <2>1
  <2>3. \/ c \in DOMAIN dirs /\ l \in Names(c) /\ Entries(c)[l].dir = k
        \/ c = d /\ l = n /\ d \in DOMAIN dirs /\ Loose(k)
    BY <1>1, <2>1
  <2> QED
    BY <2>1, <2>2, <2>3 DEF Apart, Loose
<1>4. ASSUME rt.dir # 0, NEW c \in DOMAIN dirs', NEW m \in Names(c)'
      PROVE  Entries(c)'[m].dir # rt.dir
  BY <1>1, <1>4 DEF Apart, Loose
<1>5. rt'.dir # 0 => Loose(rt.dir)'
  BY <1>4 DEF Loose
<1> QED
  BY <1>2, <1>3, <1>5 DEF Apart

\* A directory that stays as it is.
LEMMA EditedOther ==
  ASSUME NEW d, NEW n, Edited(d, n), NEW c \in DOMAIN dirs, c # d
  PROVE  Marshal(c)' = Marshal(c) /\ Names(c)' = Names(c)
BY DEF Edited, Marshal, Names

LEMMA EditCoherent ==
  ASSUME IInv, NEW d, NEW n, Edited(d, n), Coherent,
         d \in DOMAIN dirs => Clear(d) \/ Marshal(d)' = Marshal(d),
         d \in DOMAIN dirs /\ n \in Names(d)' =>
           \A k, h : k = Entries(d)'[n].dir /\ h = Entries(d)'[n].hash /\ k # 0 /\ h # NoHash
                       => Sums(h, k)'
  PROVE  Coherent'
<1> SUFFICES ASSUME NEW c \in DOMAIN dirs', NEW m \in Names(c)',
                    NEW k, k = Entries(c)'[m].dir, NEW h, h = Entries(c)'[m].hash,
                    k # 0, h # NoHash
             PROVE  Sums(h, k)'
  BY DEF Coherent, Sums, Full
<1>1. CASE c \in DOMAIN dirs /\ m \in Names(c) /\ Entries(c)'[m] = Entries(c)[m]
  <2>1. Sums(h, k) /\ k \in DOMAIN dirs
    BY <1>1, EntryFacts, HeapSizes DEF Coherent, EntrySet
  <2>2. CASE k # d
    BY <2>1, <2>2, EditedOther, SumsKept
  <2>3. CASE k = d
    <3>1. ~Clear(d)
      BY <1>1, <2>3 DEF Clear
    <3> QED
      BY <2>1, <2>3, <3>1, SumsKept
  <2> QED
    BY <2>2, <2>3
<1>2. CASE c = d /\ m = n /\ d \in DOMAIN dirs
  BY <1>2
<1> QED
  BY <1>1, <1>2, EditedEntry

\* What a goroutine remembers of directory k.
LEMMA EditLoose ==
  ASSUME NEW d, NEW n, Edited(d, n), NEW k, k # 0, Loose(k),
         d \in DOMAIN dirs /\ n \in Names(d)' => Entries(d)'[n].dir # k
  PROVE  Loose(k)'
BY EditedEntry DEF Loose

LEMMA EditClear ==
  ASSUME NEW d, NEW n, Edited(d, n), NEW k, k # 0, Clear(k),
         d \in DOMAIN dirs /\ n \in Names(d)' /\ Entries(d)'[n].dir = k
           => Entries(d)'[n].hash = NoHash
  PROVE  Clear(k)'
BY EditedEntry DEF Clear

LEMMA LooseClear ==
  ASSUME NEW k, Loose(k)
  PROVE  Clear(k)
BY DEF Loose, Clear

\* A new directory is pointed to by nothing.
LEMMA NewLoose ==
  ASSUME IInv, NEW d, NEW n, Edited(d, n), NEW k, k \notin DOMAIN dirs, k # 0,
         d \in DOMAIN dirs /\ n \in Names(d)' => Entries(d)'[n].dir # k
  PROVE  Loose(k)'
<1>1. Loose(k)
  BY EntryFacts, HeapSizes DEF Loose, EntrySet
<1> QED
  BY <1>1, EditLoose

\* If some entry of a directory has no hash, none that points to it keeps one.
LEMMA HolesClear ==
  ASSUME Coherent, NEW d, d # 0, NEW n \in Names(d), Entries(d)[n].hash = NoHash
  PROVE  Clear(d)
BY DEF Coherent, Clear, Sums, Full

LEMMA IdleCache == CacheLocal(Idle)'
BY DEF CacheLocal, Idle, Walking, Ops

\* The one goroutine makes a step.
LEMMA CacheStep ==
  ASSUME IInv, OneGoroutine, NEW p \in Procs, NEW x, g' = [g EXCEPT ![p] = x],
         Deeper', Apart', Coherent', BlobsFull', CacheLocal(x)'
  PROVE  CacheInv'
<1>1. g'[p] = x
  BY DEF IInv, TypeOK
<1>2. \A q \in Procs : CacheLocal(g[q])'
  <2> SUFFICES ASSUME NEW q \in Procs
               PROVE  CacheLocal(g[q])'
    OBVIOUS
  <2>1. q = p
    BY DEF OneGoroutine
  <2> QED
    BY <1>1, <2>1 DEF CacheLocal
<1> QED
  BY <1>2 DEF CacheInv

-----------------------------------------------------------------------------
(* getDir, and the hashes kept *)

LEMMA HeapSame ==
  ASSUME SameEntries
  PROVE  \A k : /\ k \in DOMAIN dirs => Marshal(k)' = Marshal(k) /\ Names(k)' = Names(k)
                /\ Loose(k) => Loose(k)'
                /\ Clear(k) => Clear(k)'
                /\ k \in DOMAIN dirs => \A h : Sums(h, k) => Sums(h, k)'
<1>1. ASSUME NEW k \in DOMAIN dirs
      PROVE  Marshal(k)' = Marshal(k) /\ Names(k)' = Names(k)
  BY DEF SameEntries, Marshal, Names
<1>2. \A c \in DOMAIN dirs : Names(c)' = Names(c)
  BY <1>1
<1>3. ASSUME NEW k
      PROVE  (Loose(k) => Loose(k)') /\ (Clear(k) => Clear(k)')
  BY <1>2 DEF SameEntries, Loose, Clear
<1>4. ASSUME NEW k \in DOMAIN dirs, NEW h, Sums(h, k)
      PROVE  Sums(h, k)'
  BY <1>1, <1>4, SumsKept
<1> QED
  BY <1>1, <1>3, <1>4

LEMMA CacheSame ==
  ASSUME IInv, CacheInv, SameEntries, rt'.dir = rt.dir, UNCHANGED blobs
  PROVE  Deeper' /\ Apart' /\ Coherent' /\ BlobsFull'
<1>1. PICK d, n : d = 0 /\ n = 0
  OBVIOUS
<1>2. Edited(d, n) /\ d \notin DOMAIN dirs
  BY <1>1, SameEdited, HeapSizes
<1>3. Deeper' /\ Apart'
  BY <1>2, EditShape DEF CacheInv, Grafted
<1>4. Coherent'
  BY <1>2, EditCoherent DEF CacheInv
<1> QED
  BY <1>3, <1>4 DEF CacheInv, BlobsFull

LEMMA CacheReturn ==
  ASSUME IInv, OneGoroutine, CacheInv, SameEntries, rt'.dir = rt.dir, UNCHANGED blobs,
         NEW p \in Procs, Return(p)
  PROVE  CacheInv'
<1>1. PICK x : x = Idle
  OBVIOUS
<1>2. g' = [g EXCEPT ![p] = x] /\ CacheLocal(x)'
  BY <1>1, IdleCache DEF Return
<1> QED
  BY <1>2, CacheSame, CacheStep

LEMMA BeginCache ==
  ASSUME IInv, OneGoroutine, CacheInv, NEW p \in Procs, NEW r \in Requests, Begin(p, r)
  PROVE  CacheInv'
<1>1. UNCHANGED <<rt, dirs, blobs>>
  BY DEF Begin, heap
<1>2. PICK l, s, m :
        /\ m = IF r.op \in {"save", "read"} THEN [f \in Paths |-> sealed[f].now] ELSE Idle.must
        /\ s = IF r.op \in {"save", "diff"} /\ ~rt.readonly /\ rt.dir # 0
                 THEN <<RootFrame(rt.dir)>> ELSE Idle.stk
        /\ l = IF r.op \notin {"save", "diff"} THEN "getDir"
               ELSE IF ~rt.readonly /\ rt.dir # 0 THEN "hash" ELSE "rootReady"
  OBVIOUS
<1>a. PICK x : x = [Idle EXCEPT !.req = r, !.must = m, !.stk = s, !.at = l]
  OBVIOUS
<1>3. g' = [g EXCEPT ![p] = x]
  BY <1>2, <1>a DEF Begin
<1>b. x.at = l /\ x.stk = s
  BY <1>a DEF Idle
<1>4. \/ x.at \in {"getDir", "rootReady"}
      \/ x.at = "hash" /\ x.stk = <<RootFrame(rt.dir)>>
  BY <1>2, <1>b
<1>5. CacheLocal(x)'
  <2>1. CASE x.at \in {"getDir", "rootReady"}
    BY <2>1 DEF CacheLocal, Walking, Ops
  <2>2. CASE x.at = "hash" /\ x.stk = <<RootFrame(rt.dir)>>
    <3>1. PICK f : f = RootFrame(rt.dir) /\ s = <<f>>
      BY <1>b, <2>2
    <3>2. f.d = rt.dir /\ f.todo = Names(rt.dir) /\ f.par = 0 /\ f.seen = {}
      BY <3>1, Zenon DEF RootFrame, Frame
    <3>3. DOMAIN s = {1} /\ s[1] = f
      BY <3>1
    <3>4. HashStk(s)'
      BY <1>1, <3>2, <3>3 DEF HashStk, HashStkIn, Names, Entries
    <3> QED
      BY <1>b, <2>2, <3>4 DEF CacheLocal, Walking, Ops
  <2> QED
    BY <1>4, <2>1, <2>2
<1> QED
  BY <1>1, <1>3, <1>5, UnchangedSame, CacheSame, CacheStep

\* A directory that was just loaded.
LEMMA LoadedFresh ==
  ASSUME IInv, BlobsFull, NEW k, NEW h, LoadsDir(k, h),
         \A c \in DOMAIN dirs : Entries(c)' = Entries(c), rt'.dir # k
  PROVE  Fresh(k, h)' /\ k \notin DOMAIN dirs /\ k # 0
<1>1. k \notin DOMAIN dirs /\ k # 0
  BY HeapSizes DEF LoadsDir
<1>2. PICK d, n : d = 0 /\ n = 0
  OBVIOUS
<1>3. Edited(d, n) /\ d \notin DOMAIN dirs
  BY <1>2, LoadsEdited, HeapSizes
<1>4. Loose(k)'
  BY <1>1, <1>3, NewLoose
<1>5. \A n2 \in Names(k)' : /\ Entries(k)'[n2].hash = Listing(h)[n2].hash
                            /\ Entries(k)'[n2].dir = 0 /\ ~Entries(k)'[n2].file
  <2>1. \A c : LoadedEntry(c).hash = c.hash /\ LoadedEntry(c).dir = 0 /\ ~LoadedEntry(c).file
    BY DEF LoadedEntry
  <2> QED
    BY <2>1 DEF LoadsDir
<1>6. \A n2 \in DOMAIN Listing(h) : Listing(h)[n2].hash # NoHash
  BY DEF LoadsDir, BlobsFull, Children
<1>7. Sums(h, k)'
  BY <1>5, <1>6 DEF LoadsDir, Sums, Full
<1> QED
  BY <1>1, <1>4, <1>5, <1>7 DEF Fresh

LEMMA GetDirCache ==
  ASSUME IInv, OneGoroutine, CacheInv, NEW p \in Procs, GetDir(p)
  PROVE  CacheInv'
<1>1. UNCHANGED blobs /\ g[p].at = "getDir"
  BY DEF GetDir
<1>2. CASE Return(p) /\ UNCHANGED <<rt, dirs>>
  BY <1>1, <1>2, UnchangedSame, CacheReturn
<1>3. CASE /\ rt.dir # 0 /\ rt' = RootPassed(p) /\ UNCHANGED dirs
           /\ g' = [g EXCEPT ![p].at = "walk", ![p].d = rt.dir]
  <2>1. PICK x : x = [g[p] EXCEPT !.at = "walk", !.d = rt.dir]
    OBVIOUS
  <2>2. g' = [g EXCEPT ![p] = x] /\ x.at = "walk" /\ x.d = rt.dir
    BY <1>3, <2>1, LocalRecord
  <2>3. SameEntries /\ rt'.dir = rt.dir
    BY <1>3, UnchangedSame, PassedFacts
  <2>5. CacheLocal(x)'
    <3>1. PICK k : k = rt.dir
      OBVIOUS
    <3>2. Clear(k)'
      BY <1>3, <2>3, <3>1, HeapSame, LooseClear DEF CacheInv, Apart
    <3> QED
      BY <2>2, <3>1, <3>2 DEF CacheLocal
  <2> QED
    BY <1>1, <2>2, <2>3, <2>5, CacheSame, CacheStep
<1>4. CASE /\ rt.dir = 0 /\ Loadable(rt.hash) /\ UNCHANGED rt
           /\ dirs' = Append(dirs, LoadDir(rt.hash))
           /\ g' = [g EXCEPT ![p].at = "setRootDir", ![p].new = Len(dirs) + 1]
  <2>1. PICK k, h : k = Len(dirs) + 1 /\ h = rt.hash
    OBVIOUS
  <2>a. PICK x : x = [g[p] EXCEPT !.at = "setRootDir", !.new = k]
    OBVIOUS
  <2>2. g' = [g EXCEPT ![p] = x] /\ x.at = "setRootDir" /\ x.new = k
    BY <1>4, <2>1, <2>a, LocalRecord
  <2>3. LoadsDir(k, h) /\ \A c \in DOMAIN dirs : Entries(c)' = Entries(c)
    <3>1. dirs \in Seq(ToSet(dirs)) /\ dirs' = Append(dirs, LoadDir(h)) /\ Loadable(h)
      BY <1>4, <2>1 DEF IInv, TypeOK, DirsOK
    <3>2. LoadsDir(k, h) /\ \A c \in DOMAIN dirs : dirs'[c] = dirs[c]
      BY <2>1, <3>1, AppendLoads
    <3> QED
      BY <3>2 DEF Entries
  <2>4. PICK d, n : d = 0 /\ n = 0
    OBVIOUS
  <2>5. Edited(d, n) /\ d \notin DOMAIN dirs
    BY <2>3, <2>4, LoadsEdited, HeapSizes
  <2>6. Deeper' /\ Apart'
    BY <1>4, <2>5, EditShape DEF CacheInv, Grafted
  <2>7. Coherent'
    BY <2>5, EditCoherent DEF CacheInv
  <2>8. Fresh(k, h)'
    <3>1. rt'.dir # k
      BY <1>4, <2>1, HeapSizes
    <3> QED
      BY <2>3, <3>1, LoadedFresh DEF CacheInv
  <2>9. CacheLocal(x)'
    BY <1>4, <2>1, <2>2, <2>8 DEF CacheLocal, Walking, Ops
  <2>10. BlobsFull'
    BY <1>1 DEF CacheInv, BlobsFull
  <2> QED
    BY <2>2, <2>6, <2>7, <2>9, <2>10, CacheStep
<1> QED
  BY <1>2, <1>3, <1>4 DEF GetDir
LEMMA SetRootDirCache ==
  ASSUME IInv, OneGoroutine, CacheInv, NEW p \in Procs, SetRootDir(p)
  PROVE  CacheInv'
<1>1. PICK x, k : x = [g[p] EXCEPT !.at = "walk", !.d = g[p].new] /\ k = g[p].new
  OBVIOUS
<1>2. /\ UNCHANGED <<dirs, blobs>> /\ g[p].at = "setRootDir"
      /\ g' = [g EXCEPT ![p] = x] /\ x.at = "walk" /\ x.d = k
  BY <1>1, LocalRecord DEF SetRootDir
<1>3. rt'.dir = k
  BY <1>1 DEF SetRootDir, RootPassed, IInv, TypeOK, RtOK
<1>4. Loose(k)
  BY <1>1, <1>2 DEF CacheInv, CacheLocal, Fresh
<1>5. Loose(k)' /\ Clear(k)' /\ SameEntries
  BY <1>2, <1>4, UnchangedSame, HeapSame, LooseClear
<1>6. PICK d, n : d = 0 /\ n = 0
  OBVIOUS
<1>7. Edited(d, n) /\ d \notin DOMAIN dirs
  BY <1>5, <1>6, SameEdited, HeapSizes
<1>8. Coherent' /\ BlobsFull'
  BY <1>2, <1>7, EditCoherent DEF CacheInv, BlobsFull
<1>9. Deeper' /\ Apart'
  <2>1. Deeper'
    BY <1>2 DEF CacheInv, Deeper, Entries, Names
  <2>2. Apart'
    BY <1>2, <1>3, <1>5 DEF CacheInv, Apart, Entries, Names
  <2> QED
    BY <2>1, <2>2
<1>10. CacheLocal(x)'
  BY <1>2, <1>5 DEF CacheLocal
<1> QED
  BY <1>2, <1>8, <1>9, <1>10, CacheStep

LEMMA EntryPassedFacts ==
  ASSUME NEW p, NEW e \in EntrySet, NEW f, f = EntryPassed(p, e)
  PROVE  /\ f.kind = e.kind /\ f.dir = e.dir /\ f.id = e.id
         /\ f.hash = IF IsWrite(p) THEN NoHash ELSE e.hash
BY DEF EntryPassed, EntrySet

\* Passing an entry: a writer's way has no hashes, another leaves the listing as it is.
LEMMA PassedEntry ==
  ASSUME CacheInv, NEW p \in Procs, g[p].at \in Walking, NEW d, d = g[p].d,
         NEW n \in Names(d), NEW y, SetsEntry(d, n, y), y.kind = Entries(d)[n].kind,
         y.hash = IF IsWrite(p) THEN NoHash ELSE Entries(d)[n].hash
  PROVE  Clear(d) \/ Marshal(d)' = Marshal(d)
<1>1. CASE IsWrite(p)
  BY <1>1 DEF CacheInv, CacheLocal, IsWrite
<1>2. CASE ~IsWrite(p)
  <2>1. Names(d)' = Names(d)
    BY DEF SetsEntry
  <2>2. \A m \in Names(d) : /\ Entries(d)'[m].kind = Entries(d)[m].kind
                            /\ Entries(d)'[m].hash = Entries(d)[m].hash
    BY <1>2 DEF SetsEntry
  <2> QED
    BY <2>1, <2>2, SameMarshal
<1> QED
  BY <1>1, <1>2

LEMMA WalkCache ==
  ASSUME IInv, OneGoroutine, CacheInv, NEW loc, NEW fit, Placed(loc, fit),
         NEW p \in Procs, Walk(p)
  PROVE  CacheInv'
<1>a. PICK d, n, e, k, f, h :
        /\ d = g[p].d /\ n = DirPart(p)[g[p].i] /\ e = Entries(d)[n] /\ k = Len(dirs) + 1
        /\ f = EntryPassed(p, e) /\ h = e.hash
        /\ Walked(p, d, n, e, k, f, h)
  BY WalkDoes, Zenon
<1>1. PICK i : i = g[p].i
  OBVIOUS
<1>2. d = g[p].d /\ n = DirPart(p)[i]
  BY <1>1, <1>a
<1>3. e = Entries(d)[n] /\ k = Len(dirs) + 1 /\ h = e.hash
  BY <1>a
<1>4. f = EntryPassed(p, e)
  BY <1>a, Zenon
<1>5. g[p].at = "walk" /\ i <= Len(DirPart(p)) /\ UNCHANGED <<rt, blobs>>
  <2>1. g[p].at = "walk"
    BY Zenon DEF Walk
  <2>2. i <= Len(DirPart(p))
    BY <1>1, Zenon DEF Walk
  <2>3. UNCHANGED <<rt, blobs>>
    BY Zenon DEF Walk
  <2> QED
    BY <2>1, <2>2, <2>3
<1>6. d \in DOMAIN dirs /\ n = g[p].req.path[i] /\ g[p].at \in Walking
  BY <1>1, <1>2, <1>5, OnTheWay DEF Walking
<1>8. BlobsFull'
  BY <1>5 DEF CacheInv, BlobsFull
<1>9. CASE SameEntries /\ Return(p)
  BY <1>5, <1>9, CacheReturn
<1>10. CASE SameEntries /\ n \notin Names(d) /\ IsWrite(p) /\ Goto(p, "mkdir")
  <2>1. PICK x : x = [g[p] EXCEPT !.at = "mkdir"]
    OBVIOUS
  <2>2. /\ g' = [g EXCEPT ![p] = x] /\ x.at = "mkdir" /\ x.d = d /\ x.req = g[p].req /\ x.i = i
    BY <1>1, <1>2, <1>10, <2>1, LocalRecord DEF Goto
  <2>3. Clear(d)
    BY <1>2, <1>6, <1>10 DEF CacheInv, CacheLocal, IsWrite
  <2>4. Clear(d)' /\ Names(d)' = Names(d)
    BY <1>6, <1>10, <2>3, HeapSame
  <2>5. CacheLocal(x)'
    BY <1>6, <1>10, <2>2, <2>4 DEF CacheLocal, IsWrite
  <2> QED
    BY <1>5, <1>10, <2>2, <2>5, CacheSame, CacheStep
<1>11. CASE /\ n \in Names(d) /\ e.kind = "dir" /\ e.dir # 0
            /\ SetsEntry(d, n, f) /\ Advance(p, e.dir)
  <2>1. PICK x : x = [g[p] EXCEPT !.at = "walk", !.d = e.dir, !.i = @ + 1]
    OBVIOUS
  <2>2. /\ g' = [g EXCEPT ![p] = x] /\ x.at = "walk" /\ x.d = e.dir /\ x.req = g[p].req
    BY <1>11, <2>1, LocalRecord DEF Advance
  <2>3. /\ f.kind = e.kind /\ f.dir = e.dir
        /\ f.hash = IF IsWrite(p) THEN NoHash ELSE e.hash
        /\ Clear(d) \/ Marshal(d)' = Marshal(d)
    <3>1. d = g[p].d /\ n \in Names(d) /\ SetsEntry(d, n, f) /\ e \in EntrySet
      BY <1>2, <1>3, <1>6, <1>11, EntryFacts
    <3>2. /\ f.kind = e.kind /\ f.dir = e.dir
          /\ f.hash = IF IsWrite(p) THEN NoHash ELSE e.hash
      BY <1>4, <3>1, EntryPassedFacts
    <3>3. Clear(d) \/ Marshal(d)' = Marshal(d)
      BY <1>3, <1>6, <3>1, <3>2, PassedEntry
    <3> QED
      BY <3>2, <3>3
  <2>4. Edited(d, n) /\ Entries(d)'[n] = f
    BY <1>11, SetsEdited DEF SetsEntry
  <2>5. Deeper' /\ Apart'
    BY <1>3, <1>5, <1>11, <2>3, <2>4, EditShape DEF CacheInv, Grafted
  <2>6. e.dir # d /\ e.dir \in DOMAIN dirs
    BY <1>3, <1>6, <1>11, EntryFacts, HeapSizes DEF CacheInv, Deeper, EntrySet
  <2>7. ASSUME f.hash # NoHash
        PROVE  Sums(f.hash, f.dir)'
    <3>1. PICK c, y : c = e.dir /\ y = e.hash
      OBVIOUS
    <3>2. f.hash = y /\ y # NoHash /\ f.dir = c
      BY <2>3, <2>7, <3>1
    <3>3. Sums(y, c)
      BY <1>3, <1>6, <1>11, <3>1, <3>2 DEF CacheInv, Coherent
    <3>4. Sums(y, c)'
      BY <2>4, <2>6, <3>1, <3>3, EditedOther, SumsKept
    <3> QED
      BY <3>2, <3>4
  <2>8. Coherent'
    BY <2>3, <2>4, <2>7, EditCoherent DEF CacheInv
  <2>9. IsWrite(p) => Clear(e.dir)'
    <3> SUFFICES ASSUME IsWrite(p), NEW c \in DOMAIN dirs', NEW m \in Names(c)',
                        Entries(c)'[m].dir = e.dir
                 PROVE  Entries(c)'[m].hash = NoHash
      BY DEF Clear
    <3>1. CASE c = d /\ m = n
      BY <2>3, <2>4, <3>1
    <3>2. CASE c \in DOMAIN dirs /\ m \in Names(c) /\ Entries(c)'[m] = Entries(c)[m]
      <4>1. c = d /\ m = n
        BY <1>3, <1>6, <1>11, <3>2 DEF CacheInv, Apart
      <4> QED
        BY <2>3, <2>4, <4>1
    <3> QED
      BY <1>11, <2>4, <3>1, <3>2, EditedEntry
  <2>10. CacheLocal(x)'
    <3>1. PICK c : c = e.dir
      OBVIOUS
    <3> QED
      BY <2>2, <2>9, <3>1 DEF CacheLocal, IsWrite
  <2> QED
    BY <1>8, <2>2, <2>5, <2>8, <2>10, CacheStep
<1>12. CASE /\ n \in Names(d) /\ e.kind = "dir" /\ e.dir = 0
            /\ LoadsDir(k, h) /\ \A c \in DOMAIN dirs : Entries(c)' = Entries(c)
            /\ g' = [g EXCEPT ![p].at = "setDir", ![p].new = k, ![p].id = e.id]
  <2>1. PICK x : x = [g[p] EXCEPT !.at = "setDir", !.new = k, !.id = e.id]
    OBVIOUS
  <2>2. /\ g' = [g EXCEPT ![p] = x] /\ x.at = "setDir" /\ x.d = d /\ x.req = g[p].req /\ x.i = i
        /\ x.new = k /\ x.id = e.id
    BY <1>1, <1>2, <1>12, <2>1, LocalRecord
  <2>3. Edited(d, n) /\ Names(d)' = Names(d) /\ Entries(d)' = Entries(d)
    BY <1>6, <1>12, LoadsEdited DEF Names
  <2>4. Deeper' /\ Apart'
    BY <1>3, <1>5, <1>12, <2>3, EditShape DEF CacheInv, Grafted
  <2>5. Marshal(d)' = Marshal(d)
    BY <2>3 DEF Marshal
  <2>6. Coherent'
    BY <1>3, <1>12, <2>3, <2>5, EditCoherent DEF CacheInv
  <2>7. rt'.dir # k /\ d < k /\ d # 0
    BY <1>3, <1>5, <1>6, HeapSizes DEF IInv, TypeOK, RtOK
  <2>8. Fresh(k, h)'
    BY <1>12, <2>7, LoadedFresh DEF CacheInv
  <2>9. IsWrite(p) => Clear(d)'
    <3>1. IsWrite(p) => Clear(d)
      BY <1>2, <1>6 DEF CacheInv, CacheLocal, IsWrite
    <3>2. n \in Names(d) /\ Entries(d)'[n].dir = 0
      BY <1>3, <1>12, <2>3
    <3> QED
      BY <2>3, <2>7, <3>1, <3>2, EditClear
  <2>10. CacheLocal(x)'
    <3>1. Entries(d)'[n].dir = 0 /\ Entries(d)'[n].id = e.id /\ Entries(d)'[n].hash = h
      BY <1>3, <1>12, <2>3
    <3> QED
      BY <1>6, <2>2, <2>7, <2>8, <2>9, <3>1 DEF CacheLocal, IsWrite
  <2> QED
    BY <1>8, <2>2, <2>4, <2>6, <2>10, CacheStep
<1> QED
  BY <1>a, <1>9, <1>10, <1>11, <1>12, Zenon DEF Walked
LEMMA SetDirCache ==
  ASSUME IInv, OneGoroutine, CacheInv, NEW loc, NEW fit, Placed(loc, fit),
         NEW p \in Procs, SetDir(p), g[p].i <= Len(DirPart(p))
  PROVE  CacheInv'
<1>1. PICK d, i, k : d = g[p].d /\ i = g[p].i /\ k = g[p].new
  OBVIOUS
<1>2. PICK n : n = DirPart(p)[i]
  OBVIOUS
<1>3. PICK e, h : e = Entries(d)[n] /\ h = e.hash
  OBVIOUS
<1>4. PICK f : f = EntryPassed(p, e)
  OBVIOUS
<1>5. PICK y : y = [f EXCEPT !.dir = k]
  OBVIOUS
<1>6. g[p].at = "setDir" /\ UNCHANGED <<rt, blobs>> /\ Advance(p, k)
  BY <1>1 DEF SetDir
<1>7. /\ d \in DOMAIN dirs /\ n = g[p].req.path[i] /\ g[p].at \in Walking
      /\ n \in Names(d) /\ e \in EntrySet /\ e.kind = "dir"
  BY <1>1, <1>2, <1>3, <1>6, OnTheWay, EntryFacts DEF Walking
<1>8. e.dir = 0 /\ e.id = g[p].id /\ d < k /\ Fresh(k, h)
  BY <1>1, <1>3, <1>6, <1>7 DEF CacheInv, CacheLocal
<1>9. /\ f.kind = e.kind /\ f.hash = IF IsWrite(p) THEN NoHash ELSE h
      /\ y.dir = k /\ y.kind = f.kind /\ y.hash = f.hash
  <2>1. f.kind = e.kind /\ f.hash = IF IsWrite(p) THEN NoHash ELSE h
    BY <1>3, <1>4, <1>7, EntryPassedFacts
  <2>2. f \in [kind : {f.kind}, hash : {f.hash}, dir : {f.dir}, id : {f.id}, file : {f.file},
               fhash : {f.fhash}, blobW : {f.blobW}]
    BY <1>4, <1>7 DEF EntryPassed, EntrySet
  <2> QED
    BY <1>5, <2>1, <2>2
<1>10. SetsEntry(d, n, y)
  <2>1. dirs' = SetEntry(dirs, d, n, y)
    BY <1>1, <1>2, <1>3, <1>4, <1>5, <1>8 DEF SetDir, Update, SetEntry
  <2>2. SetIn(dirs', d, n, y)
    BY <1>7, <2>1, SetInPassed
  <2> QED
    BY <2>2, SetInSets
<1>11. Edited(d, n) /\ Entries(d)'[n] = y
  BY <1>10, SetsEdited DEF SetsEntry
<1>12. Deeper' /\ Apart'
  BY <1>6, <1>8, <1>9, <1>11, EditShape DEF CacheInv, Grafted, Fresh
<1>13. Clear(d) \/ Marshal(d)' = Marshal(d)
  <2>1. /\ y.kind = Entries(d)[n].kind
        /\ y.hash = IF IsWrite(p) THEN NoHash ELSE Entries(d)[n].hash
    BY <1>3, <1>9
  <2> QED
    BY <1>1, <1>7, <1>10, <2>1, PassedEntry
<1>14. y.hash # NoHash => Sums(y.hash, k)'
  <2>1. k # d /\ k \in DOMAIN dirs /\ Sums(h, k)
    BY <1>1, <1>6, <1>7, <1>8, HeapSizes, LocalFacts DEF Fresh
  <2>2. Sums(h, k)'
    BY <1>11, <2>1, EditedOther, SumsKept
  <2> QED
    BY <1>9, <2>2
<1>15. Coherent'
  BY <1>9, <1>11, <1>13, <1>14, EditCoherent DEF CacheInv
<1>16. IsWrite(p) => Clear(k)'
  <2>1. Clear(k) /\ k # 0
    BY <1>7, <1>8, LooseClear, HeapSizes DEF Fresh
  <2> QED
    BY <1>9, <1>11, <2>1, EditClear
<1>17. PICK x : x = [g[p] EXCEPT !.at = "walk", !.d = k, !.i = @ + 1]
  OBVIOUS
<1>18. /\ g' = [g EXCEPT ![p] = x] /\ x.at = "walk" /\ x.d = k /\ x.req = g[p].req
  BY <1>6, <1>17, LocalRecord DEF Advance
<1>19. CacheLocal(x)' /\ BlobsFull'
  BY <1>6, <1>16, <1>18 DEF CacheLocal, IsWrite, CacheInv, BlobsFull
<1> QED
  BY <1>12, <1>15, <1>18, <1>19, CacheStep

LEMMA MkdirCache ==
  ASSUME IInv, OneGoroutine, CacheInv, NEW loc, NEW fit, Placed(loc, fit),
         NEW p \in Procs, Mkdir(p), g[p].i <= Len(DirPart(p))
  PROVE  CacheInv'
<1>1. PICK d, i, k : d = g[p].d /\ i = g[p].i /\ k = Len(dirs) + 1
  OBVIOUS
<1>2. PICK n : n = DirPart(p)[i]
  OBVIOUS
<1>3. PICK y : y = NewDirEntry(k)
  OBVIOUS
<1>4. y.dir = k /\ y.hash = NoHash
  BY <1>3, Zenon DEF NewDirEntry
<1>5. g[p].at = "mkdir" /\ UNCHANGED <<rt, blobs>> /\ Advance(p, k)
  BY <1>1 DEF Mkdir
<1>6. d \in DOMAIN dirs /\ n = g[p].req.path[i] /\ g[p].at \in Walking
  BY <1>1, <1>2, <1>5, OnTheWay DEF Walking
<1>7. g[p].req.op \in {"write", "link"} /\ n \notin Names(d) /\ Clear(d)
  BY <1>1, <1>5, <1>6 DEF CacheInv, CacheLocal
<1>8. PICK ds : ds = Store(d, n, y)
  OBVIOUS
<1>9. SetIn(ds, d, n, y)
  BY <1>6, <1>8, SetInStore
<1>10. /\ DOMAIN dirs = 1..Len(dirs) /\ Len(dirs) \in Nat /\ DOMAIN ds = 1..Len(dirs)
       /\ Len(ds) = Len(dirs)
  BY <1>9, HeapSizes, SeqFacts DEF SetIn
<1>11. /\ DOMAIN dirs' = 1..(Len(dirs) + 1) /\ dirs'[k] = EmptyDir
       /\ \A c \in DOMAIN dirs : dirs'[c] = ds[c]
  <2>1. PICK z : z = EmptyDir
    OBVIOUS
  <2>2. dirs' = Append(ds, z)
    BY <1>1, <1>2, <1>3, <1>8, <2>1 DEF Mkdir
  <2>3. ds \in Seq(ToSet(ds))
    BY <1>9 DEF SetIn
  <2> QED
    BY <1>1, <1>10, <2>1, <2>2, <2>3, SeqFacts
<1>12. Names(k)' = {}
  BY <1>11 DEF Names, Entries, EmptyDir
<1>13. Edited(d, n) /\ Entries(d)'[n] = y /\ n \in Names(d)'
  BY <1>1, <1>9, <1>10, <1>11, <1>12 DEF SetIn, Edited, Entries, Names
<1>14. k \notin DOMAIN dirs /\ k # 0 /\ k > d /\ Loose(k) /\ k # rt.dir
  <2>1. k \notin DOMAIN dirs /\ k # 0 /\ k > d /\ k # rt.dir
    BY <1>1, <1>6, <1>10 DEF IInv, TypeOK, RtOK
  <2>2. Loose(k)
    BY <1>1, <2>1, EntryFacts, HeapSizes DEF Loose, EntrySet
  <2> QED
    BY <2>1, <2>2
<1>15. Deeper' /\ Apart'
  BY <1>4, <1>5, <1>13, <1>14, EditShape DEF CacheInv, Grafted
<1>16. Coherent'
  BY <1>4, <1>7, <1>13, EditCoherent DEF CacheInv
<1>17. Clear(k)'
  BY <1>4, <1>13, <1>14, LooseClear, EditClear
<1>18. PICK x : x = [g[p] EXCEPT !.at = "walk", !.d = k, !.i = @ + 1]
  OBVIOUS
<1>19. /\ g' = [g EXCEPT ![p] = x] /\ x.at = "walk" /\ x.d = k /\ x.req = g[p].req
  BY <1>5, <1>18, LocalRecord DEF Advance
<1>20. CacheLocal(x)' /\ BlobsFull'
  BY <1>5, <1>17, <1>19 DEF CacheLocal, CacheInv, BlobsFull
<1> QED
  BY <1>15, <1>16, <1>19, <1>20, CacheStep

LEMMA ArriveCache ==
  ASSUME IInv, OneGoroutine, CacheInv, NEW p \in Procs, Arrive(p)
  PROVE  CacheInv'
<1>1. PICK d, l : d = g[p].d /\ l = g[p].req.op
  OBVIOUS
<1>2. /\ g[p].at = "walk" /\ UNCHANGED <<rt, blobs>> /\ dirs' = DirPassed(p, d)
      /\ g' = [g EXCEPT ![p].at = l]
  BY <1>1 DEF Arrive, Goto
<1>3. d \in DOMAIN dirs /\ l \in Ops \ {"save"}
  BY <1>1, <1>2, LocalFacts, WayFacts DEF Walking, Finding, Labels
<1>4. SameEntries
  BY <1>2, <1>3, PassedSame
<1>5. PICK x : x = [g[p] EXCEPT !.at = l]
  OBVIOUS
<1>6. g' = [g EXCEPT ![p] = x] /\ x.at = l /\ x.d = d /\ x.req = g[p].req
  BY <1>1, <1>2, <1>5, LocalRecord
<1>7. l \in {"write", "link"} => Clear(d)'
  BY <1>1, <1>2, <1>4, HeapSame DEF CacheInv, CacheLocal, Walking
<1>8. CacheLocal(x)'
  BY <1>1, <1>3, <1>6, <1>7 DEF CacheLocal, Ops
<1> QED
  BY <1>2, <1>4, <1>6, <1>8, CacheSame, CacheStep

-----------------------------------------------------------------------------
(* The operations on files, and the hashes kept *)

\* An entry that is a file points to no directory.
LEMMA FileNoDir ==
  ASSUME IInv, NEW loc, NEW fit, NEW path, NEW e \in EntrySet, EntryFits(loc, fit, path, e),
         e.kind = "file"
  PROVE  e.dir = 0
BY HeapSizes DEF EntrySet, EntryFits

\* What Write does: the entry has a File, of a new writer or as it was.
Wrote(p, d, n, y) ==
  \/ SameEntries /\ UNCHANGED <<wr, sealed>>
  \/ /\ n \in Names(d) => Entries(d)[n].kind = "file"
     /\ SetsEntry(d, n, y) /\ y.kind = "file" /\ y.dir = 0 /\ y.file
     /\ \/ /\ y.blobW = Len(wr) + 1
           /\ wr' = Append(wr, [path |-> g[p].req.path, hash |-> g[p].req.arg, st |-> "open"])
           /\ sealed' = [sealed EXCEPT ![g[p].req.path].now = NoHash]
        \/ /\ UNCHANGED <<wr, sealed>>
           /\ n \in Names(d) => y.blobW = Entries(d)[n].blobW
           /\ n \in Names(d) =>
                y.fhash = IF Entries(d)[n].file THEN Entries(d)[n].fhash ELSE Entries(d)[n].hash
           /\ n \in Names(d) => y.hash = Entries(d)[n].hash

LEMMA WriteDoes ==
  ASSUME IInv, NEW loc, NEW fit, Placed(loc, fit), NEW p \in Procs, Write(p)
  PROVE  \E d, n, y : d = g[p].d /\ n = FileName(p) /\ Wrote(p, d, n, y)
<1>1. PICK d, n, k : d = g[p].d /\ n = FileName(p) /\ k = Len(wr) + 1
  OBVIOUS
<1> DEFINE e0 == IF n \notin Names(d) THEN NewFileEntry(NoHash)
                 ELSE IF Entries(d)[n].file THEN Entries(d)[n]
                 ELSE [Entries(d)[n] EXCEPT !.file = TRUE, !.fhash = Entries(d)[n].hash]
<1>2. PICK e : e = e0
  OBVIOUS
<1>3. PICK w : w = [path |-> g[p].req.path, hash |-> g[p].req.arg, st |-> "open"]
  OBVIOUS
<1>4. PICK y : y = [e EXCEPT !.blobW = k]
  OBVIOUS
<1>5. \/ UNCHANGED <<dirs, wr, sealed>>
      \/ /\ ~(n \in Names(d) /\ Entries(d)[n].kind # "file")
         /\ dirs' = Store(d, n, y)
         /\ wr' = Append(wr, w)
         /\ sealed' = [sealed EXCEPT ![g[p].req.path].now = NoHash]
      \/ /\ ~(n \in Names(d) /\ Entries(d)[n].kind # "file")
         /\ dirs' = Store(d, n, e) /\ UNCHANGED <<wr, sealed>>
  BY <1>1, <1>2, <1>3, <1>4 DEF Write
<1>6. d \in DOMAIN dirs /\ g[p].at = "write"
  BY <1>1, FilePlace DEF Write
<1>7. ASSUME n \in Names(d) => Entries(d)[n].kind = "file"
      PROVE  /\ e \in EntrySet /\ e.kind = "file" /\ e.dir = 0 /\ e.file
             /\ n \in Names(d) =>
                  /\ e.blobW = Entries(d)[n].blobW /\ e.hash = Entries(d)[n].hash
                  /\ e.fhash = IF Entries(d)[n].file THEN Entries(d)[n].fhash
                                                     ELSE Entries(d)[n].hash
  <2>1. CASE n \notin Names(d)
    <3>1. e = NewFileEntry(NoHash)
      BY <1>2, <2>1
    <3>2. 0 \in 0..Len(dirs) /\ 0 \in 0..Len(wr) /\ NoHash \in Ref
      BY HeapSizes
    <3> QED
      BY <2>1, <3>1, <3>2 DEF NewFileEntry, EntrySet
  <2>2. CASE n \in Names(d)
    <3>1. PICK x : x = Entries(d)[n]
      OBVIOUS
    <3>2. x \in EntrySet /\ x.kind = "file" /\ x.dir = 0
      BY <1>6, <1>7, <2>2, <3>1, EntryPlaced, FileNoDir
    <3>3. CASE x.file
      BY <1>2, <2>2, <3>1, <3>2, <3>3
    <3>4. CASE ~x.file
      <4>1. e = [x EXCEPT !.file = TRUE, !.fhash = x.hash]
        BY <1>2, <2>2, <3>1, <3>4
      <4> QED
        BY <2>2, <3>1, <3>2, <3>4, <4>1 DEF EntrySet
    <3> QED
      BY <3>3, <3>4
  <2> QED
    BY <2>1, <2>2
<1> HIDE DEF e0
<1>8. ASSUME UNCHANGED <<dirs, wr, sealed>>
      PROVE  Wrote(p, d, n, y)
  BY <1>8, UnchangedSame DEF Wrote
<1>9. ASSUME n \in Names(d) => Entries(d)[n].kind = "file", dirs' = Store(d, n, y),
             wr' = Append(wr, w), sealed' = [sealed EXCEPT ![g[p].req.path].now = NoHash]
      PROVE  Wrote(p, d, n, y)
  <2>1. y.kind = "file" /\ y.dir = 0 /\ y.file /\ y.blobW = k
    BY <1>4, <1>7, <1>9 DEF EntrySet
  <2>2. SetsEntry(d, n, y)
    BY <1>6, <1>9, SetInStore, SetInSets
  <2> QED
    BY <1>1, <1>3, <1>9, <2>1, <2>2, Zenon DEF Wrote
<1>10. ASSUME n \in Names(d) => Entries(d)[n].kind = "file", dirs' = Store(d, n, e),
              UNCHANGED <<wr, sealed>>
       PROVE  Wrote(p, d, n, e)
  <2>1. SetsEntry(d, n, e)
    BY <1>6, <1>10, SetInStore, SetInSets
  <2> QED
    BY <1>7, <1>10, <2>1, Zenon DEF Wrote
<1> QED
  BY <1>1, <1>5, <1>8, <1>9, <1>10, Zenon

\* What Link does.
Linked(p, d, n, y) ==
  \/ SameEntries /\ UNCHANGED sealed
  \/ /\ n \in Names(d) => Entries(d)[n].kind = "file"
     /\ SetsEntry(d, n, y) /\ y.kind = "file" /\ y.dir = 0 /\ y.file /\ y.blobW = 0
     /\ y.fhash = g[p].req.arg
     /\ sealed' = [sealed EXCEPT ![g[p].req.path] =
                     [now |-> g[p].req.arg, ever |-> @.ever \union {g[p].req.arg}]]

LEMMA LinkDoes ==
  ASSUME IInv, NEW loc, NEW fit, Placed(loc, fit), NEW p \in Procs, Link(p)
  PROVE  \E d, n, y : d = g[p].d /\ n = FileName(p) /\ Linked(p, d, n, y)
<1>1. PICK d, n, h : d = g[p].d /\ n = FileName(p) /\ h = g[p].req.arg
  OBVIOUS
<1>2. PICK y : y = NewFileEntry(h)
  OBVIOUS
<1>3. d \in DOMAIN dirs /\ g[p].at = "link"
  BY <1>1, FilePlace DEF Link
<1>4. \/ UNCHANGED <<dirs, sealed>>
      \/ /\ ~(n \in Names(d) /\ Entries(d)[n].kind # "file")
         /\ dirs' = Store(d, n, y)
         /\ sealed' = [sealed EXCEPT ![g[p].req.path] =
                         [now |-> h, ever |-> @.ever \union {h}]]
  BY <1>1, <1>2, Zenon DEF Link
<1>5. y.kind = "file" /\ y.dir = 0 /\ y.file /\ y.blobW = 0 /\ y.fhash = h
  BY <1>2 DEF NewFileEntry
<1>6. ASSUME UNCHANGED <<dirs, sealed>>
      PROVE  Linked(p, d, n, y)
  BY <1>6, UnchangedSame DEF Linked
<1>7. ASSUME ~(n \in Names(d) /\ Entries(d)[n].kind # "file"), dirs' = Store(d, n, y),
             sealed' = [sealed EXCEPT ![g[p].req.path] =
                          [now |-> h, ever |-> @.ever \union {h}]]
      PROVE  Linked(p, d, n, y)
  <2>1. SetsEntry(d, n, y)
    BY <1>3, <1>7, SetInStore, SetInSets
  <2> QED
    BY <1>1, <1>5, <1>7, <2>1, Zenon DEF Linked
<1> QED
  BY <1>1, <1>4, <1>6, <1>7, Zenon

\* An entry that points to nothing is put into a directory without a hash.
LEMMA CachePut ==
  ASSUME IInv, OneGoroutine, CacheInv, NEW p \in Procs, Return(p), UNCHANGED <<rt, blobs>>,
         NEW d, NEW n, NEW y, SetsEntry(d, n, y), y.dir = 0, Clear(d) \/ Marshal(d)' = Marshal(d)
  PROVE  CacheInv'
<1>1. Edited(d, n) /\ Entries(d)'[n] = y
  BY SetsEdited DEF SetsEntry
<1>2. Deeper' /\ Apart'
  BY <1>1, EditShape DEF CacheInv, Grafted
<1>3. Coherent' /\ BlobsFull'
  BY <1>1, EditCoherent DEF CacheInv, BlobsFull
<1>4. PICK x : x = Idle
  OBVIOUS
<1>5. g' = [g EXCEPT ![p] = x] /\ CacheLocal(x)'
  BY <1>4, IdleCache DEF Return
<1> QED
  BY <1>2, <1>3, <1>5, CacheStep

LEMMA WriteCache ==
  ASSUME IInv, OneGoroutine, CacheInv, NEW loc, NEW fit, Placed(loc, fit),
         NEW p \in Procs, Write(p)
  PROVE  CacheInv'
<1>1. PICK d, n, y : d = g[p].d /\ n = FileName(p) /\ Wrote(p, d, n, y)
  BY WriteDoes, Zenon
<1>2. Return(p) /\ UNCHANGED <<rt, blobs>> /\ g[p].at = "write"
  BY DEF Write
<1>3. Clear(d)
  BY <1>1, <1>2, FilePlace DEF CacheInv, CacheLocal, Walking, Ops
<1>4. CASE SameEntries
  BY <1>2, <1>4, CacheReturn
<1>5. CASE SetsEntry(d, n, y) /\ y.dir = 0
  BY <1>2, <1>3, <1>5, CachePut
<1> QED
  BY <1>1, <1>4, <1>5, Zenon DEF Wrote

LEMMA LinkCache ==
  ASSUME IInv, OneGoroutine, CacheInv, NEW loc, NEW fit, Placed(loc, fit),
         NEW p \in Procs, Link(p)
  PROVE  CacheInv'
<1>1. PICK d, n, y : d = g[p].d /\ n = FileName(p) /\ Linked(p, d, n, y)
  BY LinkDoes, Zenon
<1>2. Return(p) /\ UNCHANGED <<rt, blobs>> /\ g[p].at = "link"
  BY DEF Link
<1>3. Clear(d)
  BY <1>1, <1>2, FilePlace DEF CacheInv, CacheLocal, Walking, Ops
<1>4. CASE SameEntries
  BY <1>2, <1>4, CacheReturn
<1>5. CASE SetsEntry(d, n, y) /\ y.dir = 0
  BY <1>2, <1>3, <1>5, CachePut
<1> QED
  BY <1>1, <1>4, <1>5, Zenon DEF Linked

\* With one content for a path, a File and its entry agree on the hash.
LEMMA HashFileSame ==
  ASSUME IInv, OneContent, ContentsOnly, NEW loc, NEW fit, Placed(loc, fit),
         NEW path \in Paths, NEW e \in EntrySet, e.kind = "file", EntryFits(loc, fit, path, e),
         ~HashFileFails(e), NEW f, f = HashFile(e)
  PROVE  /\ f.kind = "file" /\ f.dir = 0 /\ f.id = e.id /\ f.file = e.file
         /\ f.hash = FileHashOf(e) /\ f.hash \in Contents(path) /\ FileHashOf(f) = f.hash
         /\ e.hash # NoHash => f.hash = e.hash
<1>1. /\ f.kind = "file" /\ f.dir = e.dir /\ f.id = e.id /\ f.file = e.file
      /\ f.hash = FileHashOf(e) /\ f.fhash = FileHashOf(e) /\ f.blobW = 0
  BY DEF HashFile, EntrySet
<1>2. e.dir = 0
  BY FileNoDir
<1>3. FileHashOf(e) # NoHash
  <2>1. CASE e.blobW = 0
    BY <2>1 DEF HashFileFails, FileHashOf
  <2>2. CASE e.blobW # 0
    <3>1. e.blobW \in DOMAIN wr
      BY <2>2, HeapSizes DEF EntrySet
    <3> QED
      BY <2>2, <3>1, ContentsNotEmpty DEF FileHashOf, ContentsOnly
  <2> QED
    BY <2>1, <2>2
<1>4. ContentFits(path, FileHashOf(e)) /\ ContentFits(path, e.hash)
  BY FileHashFits DEF Placed, EntryFits, ListedFits
<1>5. FileHashOf(e) \in Contents(path)
  BY <1>3, <1>4 DEF ContentFits, ContentsOnly
<1>6. e.hash # NoHash => e.hash \in Contents(path)
  BY <1>4 DEF ContentFits, ContentsOnly
<1> QED
  BY <1>1, <1>2, <1>5, <1>6 DEF FileHashOf, OneContent

\* What Read does: the hash of the File may go into the entry.
ReadDone(d, n, y) ==
  \/ SameEntries
  \/ /\ n \in Names(d) /\ Entries(d)[n].kind = "file" /\ Entries(d)[n].file
     /\ ~HashFileFails(Entries(d)[n])
     /\ SetsEntry(d, n, y) /\ y = HashFile(Entries(d)[n])

LEMMA ReadDoes ==
  ASSUME IInv, NEW loc, NEW fit, Placed(loc, fit), NEW p \in Procs, Read(p)
  PROVE  \E d, n, y : d = g[p].d /\ n = FileName(p) /\ ReadDone(d, n, y)
<1>1. PICK d, n : d = g[p].d /\ n = FileName(p)
  OBVIOUS
<1>2. PICK e : e = Entries(d)[n]
  OBVIOUS
<1>3. PICK y : y = HashFile(e)
  OBVIOUS
<1>4. d \in DOMAIN dirs /\ g[p].at = "read"
  BY <1>1, FilePlace DEF Read
<1> DEFINE fails == n \notin Names(d) \/ e.kind # "file" \/ (e.file /\ HashFileFails(e))
<1>5. dirs' = IF ~fails /\ e.file THEN [dirs EXCEPT ![d].entries[n] = y] ELSE dirs
  BY <1>1, <1>2, <1>3, Zenon DEF Read
<1>6. ASSUME dirs' = dirs
      PROVE  ReadDone(d, n, y)
  BY <1>6, UnchangedSame DEF ReadDone
<1>7. ASSUME ~fails, e.file, dirs' = [dirs EXCEPT ![d].entries[n] = y]
      PROVE  ReadDone(d, n, y)
  <2>1. dirs' = SetEntry(dirs, d, n, y) /\ n \in Names(d)
    BY <1>7 DEF SetEntry
  <2>2. SetsEntry(d, n, y)
    BY <1>4, <2>1, SetInPassed, SetInSets
  <2> QED
    BY <1>2, <1>3, <1>7, <2>2, Zenon DEF ReadDone
<1> QED
  BY <1>1, <1>5, <1>6, <1>7, Zenon

LEMMA ReadCache ==
  ASSUME IInv, OneGoroutine, OneContent, ContentsOnly, CacheInv,
         NEW loc, NEW fit, Placed(loc, fit), NEW p \in Procs, Read(p)
  PROVE  CacheInv'
<1>1. PICK d, n, y : d = g[p].d /\ n = FileName(p) /\ ReadDone(d, n, y)
  BY ReadDoes, Zenon
<1>2. Return(p) /\ UNCHANGED <<rt, blobs>> /\ g[p].at = "read"
  BY DEF Read
<1>3. PICK r, e : r = g[p].req /\ e = Entries(d)[n]
  OBVIOUS
<1>4. d \in DOMAIN dirs /\ r \in Requests /\ r.op = "read" /\ Append(loc[d], n) = r.path
  BY <1>1, <1>2, <1>3, FilePlace
<1>5. r.path \in Paths
  BY <1>4, WayFacts
<1>6. CASE SameEntries
  BY <1>2, <1>6, CacheReturn
<1>7. CASE /\ n \in Names(d) /\ e.kind = "file" /\ ~HashFileFails(e)
           /\ SetsEntry(d, n, y) /\ y = HashFile(e)
  <2>1. e \in EntrySet /\ EntryFits(loc, fit, r.path, e)
    BY <1>3, <1>4, <1>7, EntryPlaced
  <2>2. y.kind = "file" /\ y.dir = 0 /\ (e.hash # NoHash => y.hash = e.hash)
    BY <1>5, <1>7, <2>1, HashFileSame
  <2>3. CASE e.hash = NoHash
    <3>1. Clear(d)
      BY <1>3, <1>4, <1>7, <2>3, HolesClear, HeapSizes DEF CacheInv
    <3> QED
      BY <1>2, <1>7, <2>2, <3>1, CachePut
  <2>4. CASE e.hash # NoHash
    <3>1. Names(d)' = Names(d)
      BY <1>7 DEF SetsEntry
    <3>2. \A m \in Names(d) : /\ Entries(d)'[m].kind = Entries(d)[m].kind
                              /\ Entries(d)'[m].hash = Entries(d)[m].hash
      BY <1>3, <1>7, <2>2, <2>4 DEF SetsEntry
    <3>3. Marshal(d)' = Marshal(d)
      BY <3>1, <3>2, SameMarshal
    <3> QED
      BY <1>2, <1>7, <2>2, <3>3, CachePut
  <2> QED
    BY <2>3, <2>4
<1> QED
  BY <1>1, <1>3, <1>6, <1>7, Zenon DEF ReadDone
LEMMA ListCache ==
  ASSUME IInv, OneGoroutine, CacheInv, NEW p \in Procs, List(p)
  PROVE  CacheInv'
BY UnchangedSame, CacheReturn DEF List, heap

LEMMA SaveDoneCache ==
  ASSUME IInv, OneGoroutine, CacheInv, NEW p \in Procs, SaveDone(p)
  PROVE  CacheInv'
BY UnchangedSame, CacheReturn DEF SaveDone, heap

\* A step to a place that remembers no directory.
LEMMA CacheMove ==
  ASSUME IInv, OneGoroutine, CacheInv, SameEntries, UNCHANGED <<rt, blobs>>,
         NEW p \in Procs, NEW x, g' = [g EXCEPT ![p] = x],
         x.at \in {"getDir", "next"}
  PROVE  CacheInv'
<1>1. CacheLocal(x)'
  BY DEF CacheLocal, Walking, Ops
<1> QED
  BY <1>1, CacheSame, CacheStep

LEMMA DiffStartCache ==
  ASSUME IInv, OneGoroutine, CacheInv, NEW p \in Procs, DiffStart(p)
  PROVE  CacheInv'
<1>1. UNCHANGED <<rt, dirs, blobs>> /\ SameEntries
  BY UnchangedSame DEF DiffStart, heap
<1>2. CASE Return(p)
  BY <1>1, <1>2, CacheReturn
<1>3. CASE Goto(p, "getDir")
  <2>1. PICK x : x = [g[p] EXCEPT !.at = "getDir"]
    OBVIOUS
  <2>2. g' = [g EXCEPT ![p] = x] /\ x.at = "getDir"
    BY <1>3, <2>1, LocalRecord DEF Goto
  <2> QED
    BY <1>1, <2>2, CacheMove
<1> QED
  BY <1>2, <1>3 DEF DiffStart

LEMMA NewDiffIterCache ==
  ASSUME IInv, OneGoroutine, CacheInv, NEW p \in Procs, NewDiffIter(p)
  PROVE  CacheInv'
<1>1. UNCHANGED <<rt, dirs, blobs>> /\ SameEntries
  BY UnchangedSame DEF NewDiffIter, heap
<1>2. PICK s : s = <<RootFrame(g[p].d)>>
  OBVIOUS
<1>3. PICK x : x = [g[p] EXCEPT !.at = "next", !.stk = s]
  OBVIOUS
<1>4. g' = [g EXCEPT ![p] = x] /\ x.at = "next"
  <2>1. g' = [g EXCEPT ![p].at = "next", ![p].stk = s]
    BY <1>2 DEF NewDiffIter
  <2> QED
    BY <1>3, <2>1, LocalRecord
<1> QED
  BY <1>1, <1>4, CacheMove

LEMMA DiffUpCache ==
  ASSUME IInv, OneGoroutine, CacheInv, NEW p \in Procs, DiffUp(p)
  PROVE  CacheInv'
<1>1. UNCHANGED <<rt, dirs, blobs>> /\ SameEntries /\ g[p].at = "next"
  BY UnchangedSame DEF DiffUp, heap
<1>2. CASE Return(p)
  BY <1>1, <1>2, CacheReturn
<1>3. CASE SetStk(p, Front(g[p].stk))
  <2>1. PICK s : s = Front(g[p].stk)
    OBVIOUS
  <2>2. PICK x : x = [g[p] EXCEPT !.stk = s]
    OBVIOUS
  <2>3. g' = [g EXCEPT ![p] = x] /\ x.at = "next"
    BY <1>1, <1>3, <2>1, <2>2, LocalRecord DEF SetStk
  <2> QED
    BY <1>1, <2>3, CacheMove
<1> QED
  BY <1>2, <1>3 DEF DiffUp

\* What the diff iterator does at an entry: a file, a directory that is loaded, or one that
\* cannot be.
DiffVisit(p, d, n, e, k, h, y) ==
  \/ e.kind = "file" /\ SameEntries /\ SetStk(p, SeenBy(p, n))
  \/ /\ e.kind = "dir" /\ LoadsDir(k, h)
     /\ \A c \in DOMAIN dirs : c # d => Entries(c)' = Entries(c)
     /\ Names(d)' = Names(d) /\ Entries(d)'[n] = y
     /\ \A m \in Names(d) : m # n => Entries(d)'[m] = Entries(d)[m]
     /\ y.kind = "dir" /\ y.hash = h /\ y.dir = k /\ y.id = e.id /\ y.file = e.file
     /\ SetStk(p, Append(SeenBy(p, n), Frame(k, DOMAIN Listing(h), d, n, e.id)))
  \/ /\ e.kind = "dir" /\ SetsEntry(d, n, y) /\ Return(p)
     /\ y.kind = "dir" /\ y.hash = h /\ y.dir = 0 /\ y.id = e.id /\ y.file = e.file

LEMMA DiffNextDoes ==
  ASSUME IInv, NEW p \in Procs, DiffNext(p)
  PROVE  \E d, n, e, k, h, y :
           /\ d = Top(p).d /\ n \in Top(p).todo \ Top(p).seen /\ n \in Names(d)
           /\ e = Entries(d)[n] /\ k = Len(dirs) + 1 /\ h = e.hash
           /\ DiffVisit(p, d, n, e, k, h, y)
<1>1. g[p].at = "next" /\ FrameOK(Top(p)) /\ Top(p).d \in DOMAIN dirs
  BY AtTop DEF DiffNext, Hashing
<1>2. PICK d, k : d = Top(p).d /\ k = Len(dirs) + 1
  OBVIOUS
<1> DEFINE Does(n) ==
       LET e == Entries(d)[n]
           SetTo(l) == [dirs EXCEPT ![d].entries[n].dir = l]
       IN \/ /\ e.kind = "file"
             /\ SetStk(p, SeenBy(p, n))
             /\ UNCHANGED dirs
          \/ /\ e.kind = "dir" /\ Loadable(e.hash)
             /\ dirs' = Append(SetTo(k), LoadDir(e.hash))
             /\ SetStk(p, Append(SeenBy(p, n), Frame(k, DOMAIN Listing(e.hash), d, n, e.id)))
          \/ /\ e.kind = "dir" /\ ~Loadable(e.hash)
             /\ dirs' = SetTo(0)
             /\ Return(p)
<1>3. PICK n : n \in Top(p).todo \ Top(p).seen /\ Does(n)
  BY <1>2, Zenon DEF DiffNext
<1>4. PICK e, h : e = Entries(d)[n] /\ h = e.hash
  OBVIOUS
<1>5. n \in Names(d) /\ d \in DOMAIN dirs /\ e \in EntrySet
  <2>1. n \in Names(d) /\ d \in DOMAIN dirs
    BY <1>1, <1>2, <1>3 DEF FrameOK
  <2> QED
    BY <1>4, <2>1, EntryFacts
<1>6. PICK y, z : y = [e EXCEPT !.dir = k] /\ z = [e EXCEPT !.dir = 0]
  OBVIOUS
<1>7. /\ y.kind = e.kind /\ y.hash = h /\ y.dir = k /\ y.id = e.id
      /\ z.kind = e.kind /\ z.hash = h /\ z.dir = 0 /\ z.id = e.id
      /\ y.file = e.file /\ z.file = e.file
  BY <1>4, <1>5, <1>6 DEF EntrySet
<1>8. PICK ds, dz : /\ ds = [dirs EXCEPT ![d].entries[n].dir = k]
                    /\ dz = [dirs EXCEPT ![d].entries[n].dir = 0]
  OBVIOUS
<1>9. ds = SetEntry(dirs, d, n, y) /\ dz = SetEntry(dirs, d, n, z)
  BY <1>4, <1>5, <1>6, <1>8 DEF SetEntry, Entries
<1>10. SetIn(ds, d, n, y) /\ SetIn(dz, d, n, z)
  BY <1>5, <1>9, SetInPassed
<1>11. \/ e.kind = "file" /\ SetStk(p, SeenBy(p, n)) /\ UNCHANGED dirs
       \/ /\ e.kind = "dir" /\ Loadable(h) /\ dirs' = Append(ds, LoadDir(h))
          /\ SetStk(p, Append(SeenBy(p, n), Frame(k, DOMAIN Listing(h), d, n, e.id)))
       \/ e.kind = "dir" /\ dirs' = dz /\ Return(p)
  BY <1>3, <1>4, <1>8, Zenon
<1> HIDE DEF Does
<1>12. ASSUME e.kind = "file", SetStk(p, SeenBy(p, n)), UNCHANGED dirs
       PROVE  DiffVisit(p, d, n, e, k, h, y)
  BY <1>12, UnchangedSame DEF DiffVisit
<1>13. ASSUME e.kind = "dir", Loadable(h), dirs' = Append(ds, LoadDir(h)),
              SetStk(p, Append(SeenBy(p, n), Frame(k, DOMAIN Listing(h), d, n, e.id)))
       PROVE  DiffVisit(p, d, n, e, k, h, y)
  <2>1. ds \in Seq(ToSet(ds)) /\ DOMAIN ds = DOMAIN dirs
    BY <1>10 DEF SetIn
  <2>2. LoadsDir(k, h) /\ \A c \in DOMAIN dirs : dirs'[c] = ds[c]
    BY <1>2, <1>13, <2>1, AppendLoads
  <2>3. \A c \in DOMAIN dirs : Entries(c)' = ds[c].entries
    BY <2>2 DEF Entries
  <2>4. /\ \A c \in DOMAIN dirs : c # d => Entries(c)' = Entries(c)
        /\ Entries(d)' = ds[d].entries
    BY <1>5, <1>10, <2>3 DEF SetIn
  <2>5. DOMAIN ds[d].entries = Names(d)
    BY <1>5, <1>10 DEF SetIn
  <2>6. /\ Names(d)' = Names(d) /\ Entries(d)'[n] = y
        /\ \A m \in Names(d) : m # n => Entries(d)'[m] = Entries(d)[m]
    BY <1>10, <2>4, <2>5 DEF SetIn, Names
  <2> QED
    BY <1>7, <1>13, <2>2, <2>4, <2>6, Zenon DEF DiffVisit
<1>14. ASSUME e.kind = "dir", dirs' = dz, Return(p)
       PROVE  DiffVisit(p, d, n, e, k, h, z)
  <2>1. SetsEntry(d, n, z)
    BY <1>10, <1>14, SetInSets
  <2> QED
    BY <1>7, <1>14, <2>1, Zenon DEF DiffVisit
<1> QED
  BY <1>2, <1>3, <1>4, <1>5, <1>11, <1>12, <1>13, <1>14, Zenon

LEMMA DiffNextCache ==
  ASSUME IInv, OneGoroutine, CacheInv, NEW p \in Procs, DiffNext(p)
  PROVE  CacheInv'
<1>1. PICK d, n, e, k, h, y :
        /\ d = Top(p).d /\ n \in Top(p).todo \ Top(p).seen /\ n \in Names(d)
        /\ e = Entries(d)[n] /\ k = Len(dirs) + 1 /\ h = e.hash
        /\ DiffVisit(p, d, n, e, k, h, y)
  BY DiffNextDoes, Zenon
<1>2. g[p].at = "next" /\ UNCHANGED <<rt, blobs>> /\ d \in DOMAIN dirs
  BY <1>1, AtTop DEF DiffNext, Hashing
<1>3. ASSUME NEW s, SetStk(p, s)
      PROVE  \E x : g' = [g EXCEPT ![p] = x] /\ x.at = "next"
  <2>1. PICK x : x = [g[p] EXCEPT !.stk = s]
    OBVIOUS
  <2>2. g' = [g EXCEPT ![p] = x] /\ x.at = "next"
    BY <1>2, <1>3, <2>1, LocalRecord DEF SetStk
  <2> QED
    BY <2>2
<1>4. CASE SameEntries /\ SetStk(p, SeenBy(p, n))
  <2>1. PICK x : g' = [g EXCEPT ![p] = x] /\ x.at = "next"
    BY <1>3, <1>4, Zenon
  <2> QED
    BY <1>2, <1>4, <2>1, CacheMove
<1>5. CASE e.kind = "dir" /\ SetsEntry(d, n, y) /\ Return(p) /\ y.kind = "dir" /\ y.hash = h
           /\ y.dir = 0
  <2>1. Names(d)' = Names(d)
    BY <1>1, <1>5 DEF SetsEntry
  <2>2. \A m \in Names(d) : /\ Entries(d)'[m].kind = Entries(d)[m].kind
                            /\ Entries(d)'[m].hash = Entries(d)[m].hash
    BY <1>1, <1>5 DEF SetsEntry
  <2>3. Marshal(d)' = Marshal(d)
    BY <2>1, <2>2, SameMarshal
  <2> QED
    BY <1>2, <1>5, <2>3, CachePut
<1>6. CASE /\ e.kind = "dir" /\ LoadsDir(k, h)
           /\ \A c \in DOMAIN dirs : c # d => Entries(c)' = Entries(c)
           /\ Names(d)' = Names(d) /\ Entries(d)'[n] = y
           /\ \A m \in Names(d) : m # n => Entries(d)'[m] = Entries(d)[m]
           /\ y.kind = "dir" /\ y.hash = h /\ y.dir = k
           /\ \E s : SetStk(p, s)
  <2>1. PICK x : g' = [g EXCEPT ![p] = x] /\ x.at = "next"
    BY <1>3, <1>6
  <2>2. k \notin DOMAIN dirs /\ k # 0 /\ k > d /\ k # rt.dir
    BY <1>1, <1>2, HeapSizes DEF IInv, TypeOK, RtOK
  <2>3. /\ \A m \in Names(k)' : Entries(k)'[m].dir = 0 /\ Entries(k)'[m].hash = Listing(h)[m].hash
        /\ DOMAIN dirs' = DOMAIN dirs \union {k} /\ h = DirHash(Marshal(k)')
        /\ Names(k)' = DOMAIN Listing(h) /\ h \in blobs /\ IsDirHash(h)
    <3>1. \A c : LoadedEntry(c).dir = 0 /\ LoadedEntry(c).hash = c.hash
      BY DEF LoadedEntry
    <3> QED
      BY <1>6, <3>1 DEF LoadsDir
  <2>4. Edited(d, n)
    BY <1>6, <2>3 DEF Edited
  <2>5. Loose(k)
    BY <2>2, EntryFacts, HeapSizes DEF Loose, EntrySet
  <2>6. Deeper' /\ Apart'
    BY <1>2, <1>6, <2>2, <2>4, <2>5, EditShape DEF CacheInv, Grafted
  <2>7. Marshal(d)' = Marshal(d)
    <3>1. \A m \in Names(d) : /\ Entries(d)'[m].kind = Entries(d)[m].kind
                              /\ Entries(d)'[m].hash = Entries(d)[m].hash
      BY <1>1, <1>6
    <3> QED
      BY <1>6, <3>1, SameMarshal
  <2>8. Sums(h, k)'
    <3>1. \A m \in DOMAIN Listing(h) : Listing(h)[m].hash # NoHash
      BY <2>3 DEF CacheInv, BlobsFull, Children
    <3> QED
      BY <2>3, <3>1 DEF Sums, Full
  <2>9. Coherent'
    BY <1>6, <2>4, <2>7, <2>8, EditCoherent DEF CacheInv
  <2>10. CacheLocal(x)' /\ BlobsFull'
    BY <1>2, <2>1 DEF CacheLocal, Walking, Ops, CacheInv, BlobsFull
  <2> QED
    BY <2>1, <2>6, <2>9, <2>10, CacheStep
<1> QED
  BY <1>1, <1>4, <1>5, <1>6, Zenon DEF DiffVisit

-----------------------------------------------------------------------------
(* hashDir, and the hashes kept *)

LEMMA KeptStk ==
  ASSUME NEW ds, NEW dt, NEW root, NEW s, HashStkIn(ds, root, s),
         \A k \in DOMAIN s : DOMAIN dt[s[k].d].entries = DOMAIN ds[s[k].d].entries,
         \A k \in DOMAIN s : s[k].par # 0 =>
           dt[s[k].par].entries[s[k].name] = ds[s[k].par].entries[s[k].name],
         \A k \in DOMAIN s : \A m \in s[k].seen :
           ds[s[k].d].entries[m].hash # NoHash => dt[s[k].d].entries[m].hash # NoHash
  PROVE  HashStkIn(dt, root, s)
BY DEF HashStkIn

\* A sequence of frames; t is s after the top frame has visited n; t is that with f pushed.
Framed(s) ==
  /\ Len(s) \in Nat /\ DOMAIN s = 1..Len(s) /\ s = [k \in 1..Len(s) |-> s[k]]
  /\ \A k \in DOMAIN s :
       s[k] \in [d : {s[k].d}, par : {s[k].par}, name : {s[k].name}, id : {s[k].id},
                todo : {s[k].todo}, seen : {s[k].seen}]

LikeFrames(s, t, n) ==
  \A k \in DOMAIN s :
    /\ t[k].d = s[k].d /\ t[k].par = s[k].par /\ t[k].name = s[k].name
    /\ t[k].id = s[k].id /\ t[k].todo = s[k].todo
    /\ t[k].seen = IF k = Len(s) THEN s[k].seen \union {n} ELSE s[k].seen

SeenIn(s, t, n) ==
  /\ DOMAIN t = DOMAIN s /\ Len(t) = Len(s) /\ t = [k \in 1..Len(s) |-> t[k]]
  /\ LikeFrames(s, t, n)

PushedOn(s, t, n, f) ==
  /\ Len(t) = Len(s) + 1 /\ DOMAIN t = 1..(Len(s) + 1) /\ t[Len(s) + 1] = f
  /\ LikeFrames(s, t, n)

\* The entry through which a frame was entered, and the directory of the frame.
LEMMA StkHeap ==
  ASSUME IInv, NEW s, StkOK(s)
  PROVE  /\ Framed(s)
         /\ \A k \in DOMAIN s :
              /\ s[k].d \in DOMAIN dirs /\ s[k].d \in Nat
              /\ s[k].par # 0 => s[k].par \in DOMAIN dirs /\ s[k].name \in Names(s[k].par)
<1>1. Len(s) \in Nat /\ DOMAIN s = 1..Len(s) /\ s = [k \in 1..Len(s) |-> s[k]]
  <2>1. s \in Seq(ToSet(s))
    BY DEF StkOK
  <2> QED
    BY <2>1
<1>2. ASSUME NEW k \in DOMAIN s
      PROVE  /\ s[k].d \in DOMAIN dirs /\ s[k].d \in Nat
             /\ s[k].par # 0 => s[k].par \in DOMAIN dirs /\ s[k].name \in Names(s[k].par)
             /\ s[k] \in [d : {s[k].d}, par : {s[k].par}, name : {s[k].name}, id : {s[k].id},
                          todo : {s[k].todo}, seen : {s[k].seen}]
  BY HeapSizes DEF StkOK, FrameOK
<1> QED
  BY <1>1, <1>2 DEF Framed

LEMMA SameStk ==
  ASSUME IInv, NEW s, StkOK(s), HashStk(s), SameEntries, rt'.dir = rt.dir
  PROVE  HashStk(s)'
<1>1. \A k \in DOMAIN s : /\ s[k].d \in DOMAIN dirs
                          /\ s[k].par # 0 => s[k].par \in DOMAIN dirs
  BY StkHeap
<1>2. \A c \in DOMAIN dirs : dirs'[c].entries = dirs[c].entries
  BY DEF SameEntries, Entries
<1>3. PICK dt, root : dt = dirs' /\ root = rt.dir
  OBVIOUS
<1>4. HashStkIn(dt, root, s)
  BY <1>1, <1>2, <1>3, KeptStk DEF HashStk
<1> QED
  BY <1>3, <1>4 DEF HashStk

\* Frames that differ only in what they have seen.
LEMMA LikeStk ==
  ASSUME NEW ds, NEW root, NEW s, NEW t, NEW n, HashStkIn(ds, root, s), Framed(s), s # <<>>,
         SeenIn(s, t, n), n \in DOMAIN ds[s[Len(s)].d].entries,
         ds[s[Len(s)].d].entries[n].hash # NoHash
  PROVE  HashStkIn(ds, root, t)
<1> SUFFICES ASSUME NEW k \in DOMAIN t
             PROVE  /\ DOMAIN ds[t[k].d].entries \subseteq t[k].todo
                    /\ t[k].par = 0 => k = 1 /\ t[k].d = root
                    /\ t[k].par # 0 => /\ ds[t[k].par].entries[t[k].name].dir = t[k].d
                                       /\ ds[t[k].par].entries[t[k].name].id = t[k].id
                                       /\ ds[t[k].par].entries[t[k].name].hash = NoHash
                    /\ k > 1 => t[k].par = t[k - 1].d
                    /\ \A m \in t[k].seen : /\ m \in DOMAIN ds[t[k].d].entries
                                            /\ \/ ds[t[k].d].entries[m].hash # NoHash
                                               \/ k < Len(t) /\ m = t[k + 1].name
                    /\ \A l \in DOMAIN t : k < l => t[k].d < t[l].d
  BY DEF HashStkIn
<1>1. k \in DOMAIN s /\ (k > 1 => k - 1 \in DOMAIN s) /\ (k < Len(s) => k + 1 \in DOMAIN s)
  BY DEF Framed, SeenIn
<1>a. /\ t[k].d = s[k].d /\ t[k].par = s[k].par /\ t[k].name = s[k].name
      /\ t[k].id = s[k].id /\ t[k].todo = s[k].todo
      /\ t[k].seen = IF k = Len(s) THEN s[k].seen \union {n} ELSE s[k].seen
  BY <1>1 DEF SeenIn, LikeFrames
<1>b. /\ k > 1 => t[k - 1].d = s[k - 1].d
      /\ k < Len(s) => t[k + 1].name = s[k + 1].name
      /\ \A l \in DOMAIN s : t[l].d = s[l].d
      /\ Len(t) = Len(s) /\ DOMAIN t = DOMAIN s
  BY <1>1 DEF SeenIn, LikeFrames
<1>2. /\ DOMAIN ds[t[k].d].entries \subseteq t[k].todo
      /\ t[k].par = 0 => k = 1 /\ t[k].d = root
      /\ t[k].par # 0 => /\ ds[t[k].par].entries[t[k].name].dir = t[k].d
                         /\ ds[t[k].par].entries[t[k].name].id = t[k].id
                         /\ ds[t[k].par].entries[t[k].name].hash = NoHash
  BY <1>1, <1>a DEF HashStkIn
<1>3. /\ k > 1 => t[k].par = t[k - 1].d
      /\ \A l \in DOMAIN t : k < l => t[k].d < t[l].d
  BY <1>1, <1>a, <1>b DEF HashStkIn
<1>4. ASSUME NEW m \in t[k].seen
      PROVE  /\ m \in DOMAIN ds[t[k].d].entries
             /\ \/ ds[t[k].d].entries[m].hash # NoHash
                \/ k < Len(t) /\ m = t[k + 1].name
  <2>1. CASE m \in s[k].seen
    <3>1. /\ m \in DOMAIN ds[s[k].d].entries
          /\ \/ ds[s[k].d].entries[m].hash # NoHash
             \/ k < Len(s) /\ m = s[k + 1].name
      BY <1>1, <2>1 DEF HashStkIn
    <3> QED
      BY <1>a, <1>b, <3>1
  <2>2. CASE k = Len(s) /\ m = n
    BY <1>1, <1>a, <2>2
  <2> QED
    BY <1>1, <1>a, <2>1, <2>2
<1> QED
  BY <1>2, <1>3, <1>4

\* The fields of the frames after the top one has visited n.
LEMMA SeenFields ==
  ASSUME NEW s, Framed(s), NEW n, NEW t, t = Seen(s, n)
  PROVE  SeenIn(s, t, n)
<1>0. /\ Len(s) \in Nat /\ DOMAIN s = 1..Len(s) /\ s = [k \in 1..Len(s) |-> s[k]]
      /\ \A k \in DOMAIN s :
           s[k] \in [d : {s[k].d}, par : {s[k].par}, name : {s[k].name}, id : {s[k].id},
                    todo : {s[k].todo}, seen : {s[k].seen}]
  BY DEF Framed
<1>1. PICK f : f = [s[Len(s)] EXCEPT !.seen = @ \union {n}]
  OBVIOUS
<1>2. t = [s EXCEPT ![Len(s)] = f]
  BY <1>1 DEF Seen
<1>3. Len(s) \in DOMAIN s =>
      /\ f.d = s[Len(s)].d /\ f.par = s[Len(s)].par /\ f.name = s[Len(s)].name
      /\ f.id = s[Len(s)].id /\ f.todo = s[Len(s)].todo
      /\ f.seen = s[Len(s)].seen \union {n}
  BY <1>0, <1>1
<1>4. DOMAIN t = DOMAIN s /\ \A k \in DOMAIN s : t[k] = IF k = Len(s) THEN f ELSE s[k]
  BY <1>2
<1>5. t = [k \in 1..Len(s) |-> t[k]]
  BY <1>0, <1>2, <1>4
<1>6. Len(t) = Len(s)
  BY <1>0, <1>5
<1>7. LikeFrames(s, t, n)
  BY <1>3, <1>4 DEF LikeFrames
<1> QED
  BY <1>4, <1>5, <1>6, <1>7 DEF SeenIn

\* A directory without a hash is entered, from the top frame or from EntryHash.
LEMMA PushStk ==
  ASSUME NEW ds, NEW root, NEW s, Framed(s), HashStkIn(ds, root, s),
         \A k \in DOMAIN s : s[k].d \in Nat,
         NEW d \in Nat, d # 0, s # <<>> => d = s[Len(s)].d, NEW n \in DOMAIN ds[d].entries,
         NEW c \in Nat,
         ds[d].entries[n].dir = c, ds[d].entries[n].hash = NoHash, c > d,
         NEW f, f.d = c, f.par = d, f.name = n, f.id = ds[d].entries[n].id,
         f.todo = DOMAIN ds[c].entries, f.seen = {}, NEW t, PushedOn(s, t, n, f)
  PROVE  HashStkIn(ds, root, t)
<1>0. Len(s) = 0 \/ (s # <<>> /\ Len(s) \in DOMAIN s)
  BY DEF Framed
<1>a. /\ Len(s) \in Nat /\ DOMAIN s = 1..Len(s)
      /\ Len(t) = Len(s) + 1 /\ DOMAIN t = 1..(Len(s) + 1) /\ t[Len(s) + 1] = f
  BY DEF Framed, PushedOn
<1>b. \A k \in DOMAIN s :
        /\ t[k].d = s[k].d /\ t[k].par = s[k].par /\ t[k].name = s[k].name
        /\ t[k].id = s[k].id /\ t[k].todo = s[k].todo
        /\ t[k].seen = IF k = Len(s) THEN s[k].seen \union {n} ELSE s[k].seen
  BY DEF PushedOn, LikeFrames
<1>1. \A k \in DOMAIN s : s[k].d < c
  <2> SUFFICES ASSUME NEW k \in DOMAIN s
               PROVE  s[k].d < c
    OBVIOUS
  <2>1. k = Len(s) \/ s[k].d < s[Len(s)].d
    BY <1>a, <1>b, <1>0 DEF HashStkIn
  <2>2. s[Len(s)].d = d
    BY <1>a, <1>b, <1>0
  <2> QED
    BY <1>a, <1>b, <2>1, <2>2
<1> SUFFICES ASSUME NEW k \in DOMAIN t
             PROVE  /\ DOMAIN ds[t[k].d].entries \subseteq t[k].todo
                    /\ t[k].par = 0 => k = 1 /\ t[k].d = root
                    /\ t[k].par # 0 => /\ ds[t[k].par].entries[t[k].name].dir = t[k].d
                                       /\ ds[t[k].par].entries[t[k].name].id = t[k].id
                                       /\ ds[t[k].par].entries[t[k].name].hash = NoHash
                    /\ k > 1 => t[k].par = t[k - 1].d
                    /\ \A m \in t[k].seen : /\ m \in DOMAIN ds[t[k].d].entries
                                            /\ \/ ds[t[k].d].entries[m].hash # NoHash
                                               \/ k < Len(t) /\ m = t[k + 1].name
                    /\ \A l \in DOMAIN t : k < l => t[k].d < t[l].d
  BY DEF HashStkIn
<1>2. CASE k = Len(s) + 1
  <2>1. t[k] = f
    BY <1>a, <1>b, <1>2
  <2>2. k > 1 => t[k - 1].d = d
    <3>1. k > 1 => k - 1 = Len(s) /\ Len(s) \in DOMAIN s /\ s # <<>>
      BY <1>a, <1>b, <1>0, <1>2
    <3> QED
      BY <1>a, <1>b, <3>1
  <2>3. \A l \in DOMAIN t : ~(k < l)
    BY <1>a, <1>b, <1>2
  <2> QED
    BY <1>a, <1>b, <2>1, <2>2, <2>3
<1>3. CASE k \in DOMAIN s
  <2>0. /\ t[k].d = s[k].d /\ t[k].par = s[k].par /\ t[k].name = s[k].name
        /\ t[k].id = s[k].id /\ t[k].todo = s[k].todo
        /\ t[k].seen = IF k = Len(s) THEN s[k].seen \union {n} ELSE s[k].seen
    BY <1>b, <1>3
  <2>1. /\ DOMAIN ds[t[k].d].entries \subseteq t[k].todo
        /\ t[k].par = 0 => k = 1 /\ t[k].d = root
        /\ t[k].par # 0 => /\ ds[t[k].par].entries[t[k].name].dir = t[k].d
                           /\ ds[t[k].par].entries[t[k].name].id = t[k].id
                           /\ ds[t[k].par].entries[t[k].name].hash = NoHash
    BY <1>a, <1>b, <1>3, <2>0 DEF HashStkIn
  <2>2. k > 1 => t[k].par = t[k - 1].d
    <3>1. k > 1 => k - 1 \in DOMAIN s
      BY <1>a, <1>b, <1>3
    <3>2. k > 1 => t[k - 1].d = s[k - 1].d
      BY <1>a, <1>b, <3>1
    <3>3. k > 1 => s[k].par = s[k - 1].d
      BY <1>a, <1>b, <1>3 DEF HashStkIn
    <3> QED
      BY <1>a, <1>b, <1>3, <2>0, <3>1, <3>2, <3>3
  <2>3. ASSUME NEW l \in DOMAIN t, k < l
        PROVE  t[k].d < t[l].d
    <3>1. CASE l = Len(s) + 1
      BY <1>a, <1>b, <1>1, <1>3, <2>0, <3>1
    <3>2. CASE l \in DOMAIN s
      BY <1>a, <1>b, <1>3, <2>0, <2>3, <3>2 DEF HashStkIn
    <3> QED
      BY <1>a, <1>b, <3>1, <3>2
  <2>4. ASSUME NEW m \in t[k].seen
        PROVE  /\ m \in DOMAIN ds[t[k].d].entries
               /\ \/ ds[t[k].d].entries[m].hash # NoHash
                  \/ k < Len(t) /\ m = t[k + 1].name
    <3>1. CASE m \in s[k].seen
      <4>1. /\ m \in DOMAIN ds[s[k].d].entries
            /\ \/ ds[s[k].d].entries[m].hash # NoHash
               \/ k < Len(s) /\ m = s[k + 1].name
        BY <1>a, <1>b, <1>3, <3>1 DEF HashStkIn
      <4>2. k < Len(s) => k + 1 \in DOMAIN s /\ k < Len(t)
        BY <1>a, <1>b, <1>3
      <4> QED
        BY <1>a, <1>b, <2>0, <4>1, <4>2
    <3>2. CASE k = Len(s) /\ m = n
      BY <1>a, <1>b, <1>0, <1>3, <2>0, <3>2
    <3> QED
      BY <1>a, <1>b, <2>0, <3>1, <3>2
  <2> QED
    BY <1>a, <1>b, <2>1, <2>2, <2>3, <2>4
<1> QED
  BY <1>a, <1>2, <1>3
LEMMA FrameFields ==
  ASSUME NEW d, NEW names, NEW par, NEW n, NEW id, NEW f, f = Frame(d, names, par, n, id)
  PROVE  f.d = d /\ f.par = par /\ f.name = n /\ f.id = id /\ f.todo = names /\ f.seen = {}
BY DEF Frame

\* The range that goes on: the one that asks has visited n, EntryHash has none.
Visited(s, u, n) == (s = <<>> /\ u = <<>>) \/ (s # <<>> /\ u = Seen(s, n))

LEMMA PushedStk ==
  ASSUME IInv, NEW s, StkOK(s), HashStk(s), NEW d \in DOMAIN dirs, s # <<>> => d = s[Len(s)].d,
         NEW n \in Names(d), NEW c \in DOMAIN dirs, Entries(d)[n].dir = c, c > d,
         Entries(d)[n].hash = NoHash, NEW f, f = Frame(c, Names(c), d, n, Entries(d)[n].id),
         NEW u, Visited(s, u, n), NEW t, t = Append(u, f)
  PROVE  HashStk(t)
<1>1. Framed(s) /\ \A k \in DOMAIN s : s[k].d \in Nat
  BY StkHeap
<1>2. /\ f.d = c /\ f.par = d /\ f.name = n /\ f.id = Entries(d)[n].id
      /\ f.todo = Names(c) /\ f.seen = {}
  <2>1. PICK id, ns : id = Entries(d)[n].id /\ ns = Names(c)
    OBVIOUS
  <2> QED
    BY <2>1, FrameFields
<1>3. SeenIn(s, u, n)
  <2>1. CASE s = <<>> /\ u = <<>>
    BY <2>1 DEF SeenIn, LikeFrames
  <2>2. CASE u = Seen(s, n)
    BY <1>1, <2>2, SeenFields, Zenon
  <2> QED
    BY <2>1, <2>2 DEF Visited
<1>4. PushedOn(s, t, n, f)
  <2>0. /\ Len(s) \in Nat /\ DOMAIN s = 1..Len(s) /\ DOMAIN u = DOMAIN s
        /\ Len(u) = Len(s) /\ u = [k \in 1..Len(s) |-> u[k]]
    BY <1>1, <1>3 DEF Framed, SeenIn
  <2>1. u \in Seq({u[k] : k \in 1..Len(s)} \union {f})
    <3>1. PICK X : X = {u[k] : k \in 1..Len(s)} \union {f}
      OBVIOUS
    <3>2. \A k \in 1..Len(s) : u[k] \in X
      BY <3>1
    <3>3. u \in [1..Len(s) -> X]
      BY <2>0, <3>2
    <3> QED
      BY <2>0, <3>1, <3>3
  <2>2. /\ Len(t) = Len(s) + 1 /\ DOMAIN t = 1..(Len(s) + 1) /\ t[Len(s) + 1] = f
        /\ \A k \in DOMAIN s : t[k] = u[k]
    BY <2>0, <2>1
  <2> QED
    BY <1>3, <2>2 DEF PushedOn, SeenIn, LikeFrames
<1>5. d \in Nat /\ d # 0 /\ c \in Nat
  BY HeapSizes
<1>6. PICK ds, root : ds = dirs /\ root = rt.dir
  OBVIOUS
<1>7. /\ HashStkIn(ds, root, s) /\ n \in DOMAIN ds[d].entries /\ ds[d].entries[n].dir = c
      /\ ds[d].entries[n].hash = NoHash /\ f.id = ds[d].entries[n].id
      /\ f.todo = DOMAIN ds[c].entries
  BY <1>2, <1>6 DEF HashStk, Names, Entries
<1>8. HashStkIn(ds, root, t)
  BY <1>1, <1>2, <1>4, <1>5, <1>7, PushStk
<1> QED
  BY <1>6, <1>8 DEF HashStk

\* What is done of entry n of directory d when its hash is asked for.
HashVisit(p, d, n, e, stk, y) ==
  \/ SameEntries /\ Return(p)
  \/ SameEntries /\ e.hash # NoHash /\ Resume(p, stk)
  \/ /\ SameEntries /\ e.hash = NoHash /\ e.dir # 0 /\ e.kind = "dir"
     /\ g' = [g EXCEPT ![p].at = "hash",
                       ![p].stk = Append(stk, Frame(e.dir, Names(e.dir), d, n, e.id))]
  \/ /\ e.hash = NoHash /\ e.kind = "file" /\ ~HashFileFails(e)
     /\ SetsEntry(d, n, y) /\ y = HashFile(e) /\ Resume(p, stk)

LEMMA HashEntryDoes ==
  ASSUME IInv, NEW p \in Procs, NEW d \in DOMAIN dirs, NEW n \in Names(d), NEW stk,
         HashEntry(p, d, n, stk)
  PROVE  \E e, y : e = Entries(d)[n] /\ HashVisit(p, d, n, e, stk, y)
<1>1. PICK e : e = Entries(d)[n]
  OBVIOUS
<1>2. PICK y : y = HashFile(e)
  OBVIOUS
<1>3. PICK ds : ds = [dirs EXCEPT ![d].entries[n] = y]
  OBVIOUS
<1>4. \/ UNCHANGED dirs /\ Return(p)
      \/ UNCHANGED dirs /\ e.hash # NoHash /\ Resume(p, stk)
      \/ /\ UNCHANGED dirs /\ e.hash = NoHash /\ e.dir # 0 /\ e.kind = "dir"
         /\ g' = [g EXCEPT ![p].at = "hash",
                           ![p].stk = Append(stk, Frame(e.dir, Names(e.dir), d, n, e.id))]
      \/ /\ e.hash = NoHash /\ e.kind = "file" /\ ~HashFileFails(e)
         /\ dirs' = ds /\ Resume(p, stk)
  BY <1>1, <1>2, <1>3, Zenon DEF HashEntry, Panic
<1>5. ASSUME UNCHANGED dirs
      PROVE  SameEntries
  BY <1>5, UnchangedSame
<1>6. ASSUME dirs' = ds
      PROVE  SetsEntry(d, n, y)
  <2>1. dirs' = SetEntry(dirs, d, n, y)
    BY <1>3, <1>6 DEF SetEntry
  <2> QED
    BY <2>1, SetInPassed, SetInSets
<1>7. HashVisit(p, d, n, e, stk, y)
  BY <1>2, <1>4, <1>5, <1>6, Zenon DEF HashVisit
<1> QED
  BY <1>1, <1>7, Zenon

LEMMA HashedFileHash ==
  ASSUME IInv, ContentsOnly, NEW e \in EntrySet, ~HashFileFails(e), NEW y, y = HashFile(e)
  PROVE  y.hash # NoHash /\ y.kind = e.kind /\ y.dir = e.dir
<1>1. y.hash = FileHashOf(e) /\ y.kind = e.kind /\ y.dir = e.dir
  BY DEF HashFile, EntrySet
<1>2. CASE e.blobW = 0
  BY <1>1, <1>2 DEF HashFileFails, FileHashOf
<1>3. CASE e.blobW # 0
  <2>1. e.blobW \in DOMAIN wr
    BY <1>3, HeapSizes DEF EntrySet
  <2> QED
    BY <1>1, <1>3, <2>1, ContentsNotEmpty DEF FileHashOf, ContentsOnly
<1> QED
  BY <1>2, <1>3

LEMMA ResumeCache ==
  ASSUME IInv, NEW p \in Procs, NEW u, Resume(p, u), u # <<>> => HashStk(u)'
  PROVE  \E x : g' = [g EXCEPT ![p] = x] /\ CacheLocal(x)'
<1>1. CASE u = <<>>
  <2>1. PICK x : x = Idle
    OBVIOUS
  <2>2. g' = [g EXCEPT ![p] = x] /\ CacheLocal(x)'
    BY <1>1, <2>1, IdleCache DEF Resume, Return
  <2> QED
    BY <2>2
<1>2. CASE u # <<>>
  <2>1. PICK x : x = [g[p] EXCEPT !.at = "hash", !.stk = u]
    OBVIOUS
  <2>2. g' = [g EXCEPT ![p] = x] /\ x.at = "hash" /\ x.stk = u
    BY <1>2, <2>1, LocalRecord DEF Resume
  <2>3. CacheLocal(x)'
    BY <1>2, <2>2 DEF CacheLocal, Walking, Ops
  <2> QED
    BY <2>2, <2>3
<1> QED
  BY <1>1, <1>2

\* s is the stack of the range that asks, <<>> below EntryHash, and u the one that goes on.
LEMMA HashEntryCache ==
  ASSUME IInv, OneGoroutine, ContentsOnly, CacheInv, NEW loc, NEW fit, Placed(loc, fit),
         NEW p \in Procs, UNCHANGED <<rt, blobs>>, NEW d \in DOMAIN dirs, NEW n \in Names(d),
         NEW s, StkOK(s), HashStk(s), s # <<>> => d = s[Len(s)].d,
         NEW u, Visited(s, u, n),
         HashEntry(p, d, n, u)
  PROVE  CacheInv'
<1>1. PICK e, y : e = Entries(d)[n] /\ HashVisit(p, d, n, e, u, y)
  BY HashEntryDoes, Zenon
<1>2. e \in EntrySet
  BY <1>1, EntryFacts
<1>3. /\ Framed(s)
      /\ \A k \in DOMAIN s :
           /\ s[k].d \in DOMAIN dirs /\ s[k].d \in Nat
           /\ s[k].par # 0 => s[k].par \in DOMAIN dirs /\ s[k].name \in Names(s[k].par)
  BY StkHeap
<1>4. ASSUME s # <<>>, HashStk(s)', n \in Names(d)', Entries(d)'[n].hash # NoHash
      PROVE  HashStk(u)'
  <2>1. u = Seen(s, n) /\ d = s[Len(s)].d
    BY <1>4 DEF Visited
  <2>2. SeenIn(s, u, n)
    BY <1>3, <2>1, SeenFields, Zenon
  <2>3. PICK dt, root : dt = dirs' /\ root = rt'.dir
    OBVIOUS
  <2>4. /\ HashStkIn(dt, root, s) /\ n \in DOMAIN dt[s[Len(s)].d].entries
        /\ dt[s[Len(s)].d].entries[n].hash # NoHash
    BY <1>4, <2>1, <2>3 DEF HashStk, Names, Entries
  <2>5. HashStkIn(dt, root, u)
    BY <1>3, <1>4, <2>2, <2>4, LikeStk
  <2> QED
    BY <2>3, <2>5 DEF HashStk
<1>5. ASSUME Resume(p, u), s # <<>> => HashStk(u)'
      PROVE  \E x : g' = [g EXCEPT ![p] = x] /\ CacheLocal(x)'
  BY <1>5, ResumeCache DEF Visited
<1>6. CASE SameEntries /\ Return(p)
  BY <1>6, CacheReturn
<1>7. CASE SameEntries /\ e.hash # NoHash /\ Resume(p, u)
  <2>1. n \in Names(d)' /\ Entries(d)'[n].hash # NoHash
    BY <1>1, <1>7 DEF SameEntries, Names
  <2>2. s # <<>> => HashStk(u)'
    BY <1>4, <1>7, <2>1, SameStk
  <2>3. PICK x : g' = [g EXCEPT ![p] = x] /\ CacheLocal(x)'
    BY <1>5, <1>7, <2>2
  <2> QED
    BY <1>7, <2>3, CacheSame, CacheStep
<1>8. CASE /\ SameEntries /\ e.hash = NoHash /\ e.dir # 0 /\ e.kind = "dir"
           /\ g' = [g EXCEPT ![p].at = "hash",
                             ![p].stk = Append(u, Frame(e.dir, Names(e.dir), d, n, e.id))]
  <2>1. PICK c : c = e.dir
    OBVIOUS
  <2>2. PICK f : f = Frame(c, Names(c), d, n, Entries(d)[n].id)
    OBVIOUS
  <2>3. PICK t : t = Append(u, f)
    OBVIOUS
  <2>4. c \in DOMAIN dirs /\ c > d
    BY <1>1, <1>2, <1>8, <2>1, HeapSizes DEF EntrySet, CacheInv, Deeper
  <2>5. StkOK(t)
    <3>1. FrameOK(f)
      <4>1. /\ f.d = c /\ f.par = d /\ f.name = n /\ f.id = Entries(d)[n].id
            /\ f.todo = Names(c) /\ f.seen = {}
        BY <2>2, Zenon DEF Frame
      <4> QED
        BY <1>1, <1>2, <2>2, <2>4, HeapSizes DEF FrameOK, Frame, EntrySet
    <3>2. StkOK(u)
      <4>1. CASE s = <<>>
        BY <4>1 DEF Visited
      <4>2. CASE s # <<>>
        BY <4>2, StkSeen DEF Visited
      <4> QED
        BY <4>1, <4>2
    <3> QED
      BY <2>3, <3>1, <3>2, StkPush
  <2>6. HashStk(t)
    BY <1>1, <1>8, <2>1, <2>2, <2>3, <2>4, PushedStk
  <2>7. HashStk(t)'
    BY <1>8, <2>5, <2>6, SameStk
  <2>8. PICK x : x = [g[p] EXCEPT !.at = "hash", !.stk = t]
    OBVIOUS
  <2>9. g' = [g EXCEPT ![p] = x] /\ x.at = "hash" /\ x.stk = t
    <3>1. g' = [g EXCEPT ![p].at = "hash", ![p].stk = t]
      BY <1>1, <1>8, <2>1, <2>2, <2>3
    <3> QED
      BY <2>8, <3>1, LocalRecord
  <2>10. CacheLocal(x)'
    BY <2>7, <2>9 DEF CacheLocal, Walking, Ops
  <2> QED
    BY <1>8, <2>9, <2>10, CacheSame, CacheStep
<1>9. CASE /\ e.hash = NoHash /\ e.kind = "file" /\ ~HashFileFails(e)
           /\ SetsEntry(d, n, y) /\ y = HashFile(e) /\ Resume(p, u)
  <2>1. e.dir = 0 /\ y.hash # NoHash /\ y.dir = 0
    <3>1. EntryFits(loc, fit, Append(loc[d], n), e)
      BY <1>1, EntryPlaced
    <3>2. e.dir = 0
      BY <1>2, <1>9, <3>1, FileNoDir
    <3> QED
      BY <1>2, <1>9, <3>2, HashedFileHash
  <2>2. Edited(d, n) /\ Entries(d)'[n] = y /\ n \in Names(d)'
    BY <1>9, SetsEdited DEF SetsEntry
  <2>3. Deeper' /\ Apart'
    BY <2>1, <2>2, EditShape DEF CacheInv, Grafted
  <2>4. Clear(d)
    BY <1>1, <1>9, HolesClear, HeapSizes DEF CacheInv
  <2>5. Coherent' /\ BlobsFull'
    BY <2>1, <2>2, <2>4, EditCoherent DEF CacheInv, BlobsFull
  <2>6. s # <<>> => HashStk(u)'
    <3> SUFFICES ASSUME s # <<>>
                 PROVE  HashStk(u)'
      OBVIOUS
    <3>1. PICK dt, ds, root : dt = dirs' /\ root = rt'.dir /\ ds = dirs
      OBVIOUS
    <3>2. HashStkIn(ds, root, s)
      BY <3>1 DEF HashStk
    <3>3. \A c \in DOMAIN dirs : DOMAIN dt[c].entries = DOMAIN ds[c].entries
      BY <1>9, <3>1 DEF SetsEntry, Names, Entries
    <3>4. ASSUME NEW k \in DOMAIN s, s[k].par # 0
          PROVE  dt[s[k].par].entries[s[k].name] = ds[s[k].par].entries[s[k].name]
      <4>1. ds[s[k].par].entries[s[k].name].dir = s[k].d /\ s[k].d # 0
        BY <1>3, <3>2, <3>4, HeapSizes DEF HashStkIn
      <4>2. ~(s[k].par = d /\ s[k].name = n)
        BY <1>1, <2>1, <3>1, <4>1 DEF Entries
      <4>3. s[k].par \in DOMAIN dirs /\ s[k].name \in Names(s[k].par)
        BY <1>3, <3>4
      <4> QED
        BY <1>9, <3>1, <4>2, <4>3 DEF SetsEntry, Names, Entries
    <3>5. ASSUME NEW k \in DOMAIN s, NEW m \in s[k].seen, ds[s[k].d].entries[m].hash # NoHash
          PROVE  dt[s[k].d].entries[m].hash # NoHash
      <4>1. s[k].d \in DOMAIN dirs /\ m \in DOMAIN ds[s[k].d].entries
        BY <1>3, <3>2 DEF HashStkIn
      <4> QED
        BY <1>9, <2>1, <3>1, <3>5, <4>1 DEF SetsEntry, Names, Entries
    <3>6. HashStkIn(dt, root, s)
      BY <1>3, <3>2, <3>3, <3>4, <3>5, KeptStk
    <3>7. HashStk(s)'
      BY <3>1, <3>6 DEF HashStk
    <3> QED
      BY <1>4, <2>1, <2>2, <3>7
  <2>7. PICK x : g' = [g EXCEPT ![p] = x] /\ CacheLocal(x)'
    BY <1>5, <1>9, <2>6
  <2> QED
    BY <2>3, <2>5, <2>7, CacheStep
<1> QED
  BY <1>1, <1>6, <1>7, <1>8, <1>9, Zenon DEF HashVisit

LEMMA EntryHashCache ==
  ASSUME IInv, OneGoroutine, ContentsOnly, CacheInv, NEW loc, NEW fit, Placed(loc, fit),
         NEW p \in Procs, EntryHash(p)
  PROVE  CacheInv'
<1>1. UNCHANGED <<rt, blobs>> /\ g[p].at = "entryHash"
  BY DEF EntryHash
<1>2. PICK d, n, s, u : d = g[p].d /\ n = FileName(p) /\ s = <<>> /\ u = <<>>
  OBVIOUS
<1>3. d \in DOMAIN dirs
  BY <1>1, <1>2, AtDir DEF Ops
<1>4. CASE n \in Names(d) /\ HashEntry(p, d, n, u)
  <2>1. StkOK(s)
    BY <1>2 DEF StkOK, ToSet
  <2>2. HashStk(s)
    BY <1>2 DEF HashStk, HashStkIn
  <2>3. Visited(s, u, n) /\ (s # <<>> => d = s[Len(s)].d)
    BY <1>2 DEF Visited
  <2> QED
    BY <1>1, <1>3, <1>4, <2>1, <2>2, <2>3, HashEntryCache
<1>5. CASE Return(p) /\ UNCHANGED dirs
  BY <1>1, <1>5, UnchangedSame, CacheReturn
<1> QED
  BY <1>2, <1>4, <1>5 DEF EntryHash

LEMMA HashNextCache ==
  ASSUME IInv, OneGoroutine, ContentsOnly, CacheInv, NEW loc, NEW fit, Placed(loc, fit),
         NEW p \in Procs, HashNext(p)
  PROVE  CacheInv'
<1>1. UNCHANGED <<rt, blobs>> /\ g[p].at = "hash"
  BY DEF HashNext
<1>2. PICK n \in Names(Top(p).d) : HashEntry(p, Top(p).d, n, SeenBy(p, n))
  BY DEF HashNext
<1>3. PICK d, s, u : d = Top(p).d /\ s = g[p].stk /\ u = SeenBy(p, n)
  OBVIOUS
<1>4. d \in DOMAIN dirs /\ StkOK(s) /\ s # <<>>
  BY <1>1, <1>3, AtTop, StkOfLocal DEF Hashing
<1>5. HashStk(s)
  BY <1>1, <1>3 DEF CacheInv, CacheLocal
<1>6. d = s[Len(s)].d /\ Visited(s, u, n)
  BY <1>3, <1>4 DEF Top, SeenBy, Seen, Visited
<1>7. n \in Names(d) /\ HashEntry(p, d, n, u)
  BY <1>2, <1>3
<1> QED
  BY <1>1, <1>4, <1>5, <1>6, <1>7, HashEntryCache
\* A directory that all of its entries have a hash.
LEMMA FullChildren ==
  ASSUME NEW d, Full(d), NEW h, h = DirHash(Marshal(d))
  PROVE  NoHash \notin Children(h) /\ h # NoHash
<1>1. /\ DOMAIN Marshal(d) = Names(d)
      /\ \A n \in Names(d) : Marshal(d)[n].hash = Entries(d)[n].hash
  BY DEF Marshal
<1>2. PICK m : m = Marshal(d)
  OBVIOUS
<1>3. \A n \in DOMAIN m : m[n].hash # NoHash
  BY <1>1, <1>2 DEF Full
<1>4. h = DirHash(m)
  BY <1>2
<1>5. IsDirHash(h) /\ Listing(h) = m /\ h # NoHash
  BY <1>4 DEF IsDirHash, DirHash, Listing, NoHash
<1> QED
  BY <1>3, <1>5 DEF Children

\* The top frame: all that it visited has its hash.
LEMMA StkEnd ==
  ASSUME NEW ds, NEW root, NEW s, HashStkIn(ds, root, s), Len(s) \in DOMAIN s, Len(s) \in Nat,
         NEW f, f = s[Len(s)]
  PROVE  /\ DOMAIN ds[f.d].entries \subseteq f.todo
         /\ \A m \in f.seen : m \in DOMAIN ds[f.d].entries /\ ds[f.d].entries[m].hash # NoHash
<1>1. PICK k : k = Len(s) /\ k \in DOMAIN s /\ s[k] = f /\ k \in Nat
  OBVIOUS
<1>2. ~(k < k)
  BY <1>1
<1>3. /\ DOMAIN ds[s[k].d].entries \subseteq s[k].todo
      /\ \A m \in s[k].seen : /\ m \in DOMAIN ds[s[k].d].entries
                              /\ \/ ds[s[k].d].entries[m].hash # NoHash
                                 \/ k < Len(s) /\ m = s[k + 1].name
  BY <1>1, Zenon DEF HashStkIn
<1> QED
  BY <1>1, <1>2, <1>3

LEMMA HashDirDoneCache ==
  ASSUME IInv, OneGoroutine, CacheInv, NEW p \in Procs, HashDirDone(p)
  PROVE  CacheInv'
<1>1. UNCHANGED rt /\ g[p].at = "hash" /\ RangeDone(p)
  BY DEF HashDirDone
<1>2. PICK d, h, s : d = Top(p).d /\ h = DirHash(Marshal(d)) /\ s = g[p].stk
  OBVIOUS
<1>3. d \in DOMAIN dirs /\ StkOK(s) /\ s # <<>>
  BY <1>1, <1>2, AtTop, StkOfLocal DEF Hashing
<1>4. HashStk(s) /\ s[Len(s)] = Top(p) /\ Len(s) \in DOMAIN s /\ Len(s) \in Nat
  BY <1>1, <1>2, <1>3, StkTop DEF CacheInv, CacheLocal, Top
<1>5. Full(d)
  <2> SUFFICES ASSUME NEW n \in Names(d)
               PROVE  Entries(d)[n].hash # NoHash
    BY DEF Full
  <2>1. PICK ds, root, k, f : ds = dirs /\ root = rt.dir /\ k = Len(s) /\ f = Top(p)
    OBVIOUS
  <2>2. HashStkIn(ds, root, s) /\ k \in DOMAIN s /\ s[k] = f /\ f.d = d
    BY <1>2, <1>4, <2>1 DEF HashStk
  <2>3. /\ DOMAIN ds[f.d].entries \subseteq f.todo
        /\ \A m \in f.seen : m \in DOMAIN ds[f.d].entries /\ ds[f.d].entries[m].hash # NoHash
    BY <1>4, <2>1, <2>2, StkEnd
  <2>4. f.todo \subseteq f.seen
    BY <1>1, <2>1 DEF RangeDone
  <2>5. n \in DOMAIN ds[f.d].entries
    BY <2>1, <2>2 DEF Names, Entries
  <2>6. n \in f.seen
    BY <2>3, <2>4, <2>5
  <2>7. ds[f.d].entries[n].hash # NoHash
    BY <2>3, <2>6
  <2> QED
    BY <2>1, <2>2, <2>7 DEF Entries
<1>6. CASE Return(p) /\ UNCHANGED <<dirs, blobs>>
  BY <1>1, <1>6, UnchangedSame, CacheReturn
<1>7. CASE /\ dirs' = [dirs EXCEPT ![d].hash = h] /\ Goto(p, "hashed")
           /\ blobs' = blobs \union {h} \/ UNCHANGED blobs
  <2>1. /\ OnlyAt(dirs, dirs', d) /\ dirs'[d].hash = h /\ dirs'[d].entries = dirs[d].entries
    <3>1. dirs' = SetHash(dirs, d, h)
      BY <1>7 DEF SetHash
    <3> QED
      BY <1>3, <3>1, DirIsRecord, SetHashFacts
  <2>2. SameEntries
    BY <2>1 DEF OnlyAt, SameEntries, Entries
  <2>3. PICK x : x = [g[p] EXCEPT !.at = "hashed"]
    OBVIOUS
  <2>4. g' = [g EXCEPT ![p] = x] /\ x.at = "hashed" /\ x.stk = s
    BY <1>2, <1>7, <2>3, LocalRecord DEF Goto
  <2>5. PICK dn, n : dn = 0 /\ n = 0
    OBVIOUS
  <2>6. Edited(dn, n) /\ dn \notin DOMAIN dirs
    BY <2>2, <2>5, SameEdited, HeapSizes
  <2>7. Deeper' /\ Apart' /\ Coherent'
    BY <1>1, <2>6, EditShape, EditCoherent DEF CacheInv, Grafted
  <2>8. BlobsFull'
    <3>1. NoHash \notin Children(h)
      BY <1>2, <1>5, FullChildren
    <3> QED
      BY <1>7, <3>1 DEF CacheInv, BlobsFull
  <2>9. HashStk(s)'
    BY <1>1, <1>3, <1>4, <2>2, SameStk
  <2>10. Sums(h, d)'
    <3>1. Sums(h, d)
      BY <1>2, <1>5 DEF Sums
    <3> QED
      BY <1>3, <2>2, <3>1, HeapSame
  <2>11. CacheLocal(x)'
    <3>1. PICK b : b = dirs'[d].hash
      OBVIOUS
    <3>2. s[Len(s)].d = d /\ b = h
      BY <1>2, <1>4, <2>1, <3>1
    <3>3. Sums(b, s[Len(s)].d)'
      BY <2>10, <3>2
    <3> QED
      BY <2>4, <2>9, <3>1, <3>2, <3>3 DEF CacheLocal, Walking, Ops
  <2> QED
    BY <2>4, <2>7, <2>8, <2>11, CacheStep
<1> QED
  BY <1>2, <1>6, <1>7 DEF HashDirDone

\* The range below goes on when the directory of the top frame has its hash.
LEMMA PopStk ==
  ASSUME NEW ds, NEW dt, NEW root, NEW s, NEW t, HashStkIn(ds, root, s), Framed(s), s # <<>>,
         Len(t) = Len(s) - 1, DOMAIN t = 1..(Len(s) - 1),
         \A k \in 1..(Len(s) - 1) : t[k] = s[k],
         \A k \in 1..(Len(s) - 1) : DOMAIN dt[s[k].d].entries = DOMAIN ds[s[k].d].entries,
         \A k \in 1..(Len(s) - 1) : s[k].par # 0 =>
           dt[s[k].par].entries[s[k].name] = ds[s[k].par].entries[s[k].name],
         \A k \in 1..(Len(s) - 1) : \A m \in s[k].seen :
           ds[s[k].d].entries[m].hash # NoHash => dt[s[k].d].entries[m].hash # NoHash,
         dt[s[Len(s)].par].entries[s[Len(s)].name].hash # NoHash
  PROVE  HashStkIn(dt, root, t)
<1>1. Len(s) \in Nat \ {0} /\ DOMAIN s = 1..Len(s)
  BY DEF Framed
<1>2. ASSUME NEW k \in DOMAIN t
      PROVE  /\ DOMAIN dt[t[k].d].entries \subseteq t[k].todo
             /\ t[k].par = 0 => k = 1 /\ t[k].d = root
             /\ t[k].par # 0 => /\ dt[t[k].par].entries[t[k].name].dir = t[k].d
                                /\ dt[t[k].par].entries[t[k].name].id = t[k].id
                                /\ dt[t[k].par].entries[t[k].name].hash = NoHash
             /\ k > 1 => t[k].par = t[k - 1].d
             /\ \A m \in t[k].seen : /\ m \in DOMAIN dt[t[k].d].entries
                                     /\ \/ dt[t[k].d].entries[m].hash # NoHash
                                        \/ k < Len(t) /\ m = t[k + 1].name
             /\ \A l \in DOMAIN t : k < l => t[k].d < t[l].d
  <2>2. k \in DOMAIN s /\ k + 1 \in DOMAIN s /\ t[k] = s[k] /\ k \in 1..(Len(s) - 1)
    BY <1>1
  <2>3. /\ DOMAIN dt[s[k].d].entries \subseteq s[k].todo
        /\ s[k].par = 0 => k = 1 /\ s[k].d = root
        /\ s[k].par # 0 => /\ dt[s[k].par].entries[s[k].name].dir = s[k].d
                           /\ dt[s[k].par].entries[s[k].name].id = s[k].id
                           /\ dt[s[k].par].entries[s[k].name].hash = NoHash
    BY <2>2 DEF HashStkIn
  <2>4. k > 1 => t[k].par = t[k - 1].d
    <3>1. k > 1 => k - 1 \in DOMAIN s /\ t[k - 1] = s[k - 1]
      BY <1>1
    <3>2. k > 1 => s[k].par = s[k - 1].d
      BY <2>2 DEF HashStkIn
    <3> QED
      BY <2>2, <3>1, <3>2
  <2>5. \A l \in DOMAIN t : k < l => t[k].d < t[l].d
    <3>1. \A l \in DOMAIN t : l \in DOMAIN s /\ t[l] = s[l]
      BY <1>1
    <3>2. \A l \in DOMAIN s : k < l => s[k].d < s[l].d
      BY <2>2 DEF HashStkIn
    <3> QED
      BY <2>2, <3>1, <3>2
  <2>6. ASSUME NEW m \in s[k].seen
        PROVE  /\ m \in DOMAIN dt[s[k].d].entries
               /\ \/ dt[s[k].d].entries[m].hash # NoHash
                  \/ k < Len(t) /\ m = t[k + 1].name
    <3>1. /\ m \in DOMAIN ds[s[k].d].entries
          /\ \/ ds[s[k].d].entries[m].hash # NoHash
             \/ m = s[k + 1].name
      BY <2>2 DEF HashStkIn
    <3>2. m \in DOMAIN dt[s[k].d].entries
      BY <2>2, <3>1
    <3>3. CASE ds[s[k].d].entries[m].hash # NoHash
      BY <2>2, <3>2, <3>3
    <3>4. CASE m = s[k + 1].name /\ k < Len(t)
      <4>1. t[k + 1] = s[k + 1]
        BY <1>1, <2>2, <3>4
      <4> QED
        BY <3>2, <3>4, <4>1
    <3>5. CASE m = s[k + 1].name /\ k = Len(t)
      <4>1. k + 1 = Len(s)
        BY <1>1, <2>2, <3>5
      <4>2. Len(s) > 1 /\ (Len(s) - 1) = k
        BY <1>1, <2>2, <4>1
      <4>3. s[Len(s)].par = s[Len(s) - 1].d
        BY <1>1, <4>2 DEF HashStkIn
      <4>4. s[Len(s)].par = s[k].d
        BY <4>2, <4>3
      <4> QED
        BY <3>2, <3>5, <4>1, <4>4
    <3>6. k < Len(t) \/ k = Len(t)
      BY <1>1, <2>2
    <3> QED
      BY <3>1, <3>3, <3>4, <3>5, <3>6
  <2> QED
    BY <2>2, <2>3, <2>4, <2>5, <2>6
<1> QED
  BY <1>2, Zenon DEF HashStkIn
\* The entry that the top frame was entered through; no frame below was.
LEMMA StkEntry ==
  ASSUME NEW ds, NEW root, NEW s, HashStkIn(ds, root, s), Framed(s), s # <<>>,
         NEW f, f = s[Len(s)], f.par # 0, \A k \in DOMAIN s : s[k].d \in Nat
  PROVE  /\ ds[f.par].entries[f.name].dir = f.d /\ ds[f.par].entries[f.name].id = f.id
         /\ ds[f.par].entries[f.name].hash = NoHash
         /\ \A k \in 1..(Len(s) - 1) : s[k].par # f.par \/ s[k].name # f.name \/ s[k].par = 0
<1>1. Len(s) \in Nat \ {0} /\ DOMAIN s = 1..Len(s)
  BY DEF Framed
<1>2. PICK j : j = Len(s) /\ j \in DOMAIN s /\ s[j] = f /\ s[j].par # 0
  BY <1>1
<1>3. /\ ds[s[j].par].entries[s[j].name].dir = s[j].d
      /\ ds[s[j].par].entries[s[j].name].id = s[j].id
      /\ ds[s[j].par].entries[s[j].name].hash = NoHash
  BY <1>2, Zenon DEF HashStkIn
<1>4. ASSUME NEW k \in 1..(Len(s) - 1), s[k].par = f.par, s[k].name = f.name, s[k].par # 0
      PROVE  FALSE
  <2>1. k \in DOMAIN s /\ k < j
    BY <1>1, <1>2
  <2>2. s[k].d < s[j].d
    BY <1>2, <2>1 DEF HashStkIn
  <2>3. ds[s[k].par].entries[s[k].name].dir = s[k].d
    BY <1>4, <2>1, Zenon DEF HashStkIn
  <2>4. s[k].d = s[j].d
    BY <1>2, <1>3, <1>4, <2>3
  <2>5. s[k].d \in Nat
    BY <2>1
  <2> QED
    BY <2>2, <2>4, <2>5
<1> QED
  BY <1>2, <1>3, <1>4

\* The frame f on top of hashDir's stack s, and the entry that it hashes.
TopFits(f, s) ==
  /\ f.par = 0 => f.d = rt.dir /\ rt.dir # 0
  /\ f.par # 0 =>
       /\ f.par \in DOMAIN dirs /\ f.name \in Names(f.par)
       /\ Entries(f.par)[f.name].dir = f.d /\ Entries(f.par)[f.name].id = f.id
       /\ Entries(f.par)[f.name].hash = NoHash
       /\ f.d \in DOMAIN dirs /\ f.d # 0 /\ f.d # f.par
       /\ \A k \in 1..(Len(s) - 1) :
            s[k].par # f.par \/ s[k].name # f.name \/ s[k].par = 0

LEMMA TopEntry ==
  ASSUME IInv, Deeper, NEW s, StkOK(s), s # << >>, HashStk(s), NEW f, f = s[Len(s)]
  PROVE  TopFits(f, s)
<1>3. Len(s) \in Nat \ {0} /\ DOMAIN s = 1..Len(s)
  BY StkTop
<1>4. /\ Framed(s)
      /\ \A k \in DOMAIN s :
           /\ s[k].d \in DOMAIN dirs /\ s[k].d \in Nat
           /\ s[k].par # 0 => s[k].par \in DOMAIN dirs /\ s[k].name \in Names(s[k].par)
  BY StkHeap
<1>5. ASSUME f.par = 0
      PROVE  f.d = rt.dir /\ rt.dir # 0
  <2>1. PICK ds, root, k : ds = dirs /\ root = rt.dir /\ k = Len(s)
    OBVIOUS
  <2>2. HashStkIn(ds, root, s) /\ k \in DOMAIN s /\ s[k] = f /\ s[k].par = 0
    BY <1>3, <1>5, <2>1 DEF HashStk
  <2>3. s[k].d = root
    BY <2>2 DEF HashStkIn
  <2> QED
    BY <1>3, <1>4, <2>1, <2>2, <2>3, HeapSizes
<1>7. ASSUME f.par # 0
      PROVE  /\ f.par \in DOMAIN dirs /\ f.name \in Names(f.par)
             /\ Entries(f.par)[f.name].dir = f.d /\ Entries(f.par)[f.name].id = f.id
             /\ Entries(f.par)[f.name].hash = NoHash
             /\ f.d \in DOMAIN dirs /\ f.d # 0 /\ f.d # f.par
             /\ \A k \in 1..(Len(s) - 1) :
                  s[k].par # f.par \/ s[k].name # f.name \/ s[k].par = 0
  <2>1. PICK ds, root : ds = dirs /\ root = rt.dir
    OBVIOUS
  <2>2. HashStkIn(ds, root, s)
    BY <1>3, <2>1 DEF HashStk
  <2>3. /\ ds[f.par].entries[f.name].dir = f.d /\ ds[f.par].entries[f.name].id = f.id
        /\ ds[f.par].entries[f.name].hash = NoHash
        /\ \A k \in 1..(Len(s) - 1) : s[k].par # f.par \/ s[k].name # f.name \/ s[k].par = 0
    BY <1>3, <1>4, <1>7, <2>2, StkEntry
  <2>4. /\ f.par \in DOMAIN dirs /\ f.name \in Names(f.par) /\ f.d \in DOMAIN dirs /\ f.d # 0
    BY <1>3, <1>4, <1>7, HeapSizes
  <2>5. Entries(f.par)[f.name].dir = f.d
    BY <2>1, <2>3 DEF Entries
  <2>6. f.d # f.par
    BY <2>4, <2>5, HeapSizes DEF CacheInv, Deeper
  <2> QED
    BY <2>1, <2>3, <2>4, <2>6 DEF Entries
<1> QED
  BY <1>5, <1>7, Zenon DEF TopFits

LEMMA HashedCache ==
  ASSUME IInv, OneGoroutine, CacheInv, NEW p \in Procs, Hashed(p)
  PROVE  CacheInv'
<1>1. UNCHANGED blobs /\ g[p].at = "hashed"
  BY DEF Hashed
<1>2. PICK f, s, t : f = Top(p) /\ s = g[p].stk /\ t = Front(s)
  OBVIOUS
<1>3. /\ StkOK(s) /\ s # <<>> /\ f = s[Len(s)] /\ Len(s) \in Nat \ {0} /\ DOMAIN s = 1..Len(s)
      /\ HashStk(s) /\ Sums(dirs[f.d].hash, f.d)
  BY <1>1, <1>2, StkOfLocal, StkTop DEF Hashing, CacheInv, CacheLocal, Top
<1>a. Deeper
  BY DEF CacheInv
<1>4. /\ Framed(s)
      /\ \A k \in DOMAIN s :
           /\ s[k].d \in DOMAIN dirs /\ s[k].d \in Nat
           /\ s[k].par # 0 => s[k].par \in DOMAIN dirs /\ s[k].name \in Names(s[k].par)
  BY <1>3, StkHeap
<1>5. CASE /\ f.par = 0 /\ UNCHANGED dirs
           /\ rt' = [rt EXCEPT !.hash = dirs[rt.dir].hash]
           /\ g' = [g EXCEPT ![p].at = "rootReady", ![p].stk = <<>>]
  <2>1. rt'.dir = rt.dir
    BY <1>5 DEF IInv, TypeOK, RtOK
  <2>2. PICK x : x = [g[p] EXCEPT !.at = "rootReady", !.stk = <<>>]
    OBVIOUS
  <2>3. g' = [g EXCEPT ![p] = x] /\ x.at = "rootReady"
    BY <1>5, <2>2, LocalRecord
  <2>4. CacheLocal(x)'
    BY <2>3 DEF CacheLocal, Walking, Ops
  <2> QED
    BY <1>1, <1>5, <2>1, <2>3, <2>4, UnchangedSame, CacheSame, CacheStep
<1>6. CASE Return(p) /\ UNCHANGED <<rt, dirs>>
  BY <1>1, <1>6, UnchangedSame, CacheReturn
<1>7. ASSUME f.par # 0
      PROVE  /\ f.par \in DOMAIN dirs /\ f.name \in Names(f.par)
             /\ Entries(f.par)[f.name].dir = f.d /\ Entries(f.par)[f.name].id = f.id
             /\ Entries(f.par)[f.name].hash = NoHash
             /\ f.d \in DOMAIN dirs /\ f.d # 0 /\ f.d # f.par
             /\ \A k \in 1..(Len(s) - 1) :
                  s[k].par # f.par \/ s[k].name # f.name \/ s[k].par = 0
  <2>1. TopFits(f, s)
    BY <1>3, <1>a, TopEntry
  <2> QED
    BY <1>7, <2>1, Zenon DEF TopFits
<1>8. CASE /\ f.par # 0 /\ UNCHANGED rt
           /\ dirs' = Update(f.par, f.name, f.id,
                             [Entries(f.par)[f.name] EXCEPT
                                !.hash = dirs[Entries(f.par)[f.name].dir].hash])
           /\ Resume(p, t)
  <2>1. PICK d, n, e : d = f.par /\ n = f.name /\ e = Entries(d)[n]
    OBVIOUS
  <2>2. PICK h : h = dirs[f.d].hash
    OBVIOUS
  <2>3. PICK y : y = [e EXCEPT !.hash = h]
    OBVIOUS
  <2>4. /\ d \in DOMAIN dirs /\ n \in Names(d) /\ e.dir = f.d /\ e.id = f.id /\ e.hash = NoHash
        /\ f.d \in DOMAIN dirs /\ f.d # 0 /\ f.d # d /\ e \in EntrySet
        /\ \A k \in 1..(Len(s) - 1) : s[k].par # d \/ s[k].name # n \/ s[k].par = 0
    BY <1>7, <1>8, <2>1, EntryFacts
  <2>5. y.dir = f.d /\ y.hash = h
    BY <2>3, <2>4 DEF EntrySet
  <2>6. SetsEntry(d, n, y)
    <3>1. PICK ds : ds = dirs
      OBVIOUS
    <3>2. dirs' = SetEntry(ds, d, n, y)
      BY <1>8, <2>1, <2>2, <2>3, <2>4, <3>1 DEF Update, SetEntry
    <3> QED
      BY <2>4, <3>1, <3>2, SetInPassed, SetInSets
  <2>7. Edited(d, n) /\ Entries(d)'[n] = y /\ n \in Names(d)'
    BY <2>6, SetsEdited DEF SetsEntry
  <2>8. Deeper' /\ Apart'
    <3>1. Grafted(d, n)
      BY <2>1, <2>4, <2>5, <2>7 DEF Grafted
    <3> QED
      BY <1>8, <2>7, <3>1, EditShape DEF CacheInv
  <2>9. Clear(d)
    BY <2>1, <2>4, HolesClear, HeapSizes DEF CacheInv
  <2>10. Sums(h, f.d)'
    <3>1. PICK c : c = f.d
      OBVIOUS
    <3>2. Sums(h, c) /\ c \in DOMAIN dirs /\ c # d
      BY <1>3, <2>2, <2>4, <3>1
    <3>3. Sums(h, c)'
      BY <2>7, <3>2, EditedOther, SumsKept
    <3> QED
      BY <3>1, <3>3
  <2>11. Coherent' /\ BlobsFull'
    <3>1. ASSUME NEW k, NEW b, k = Entries(d)'[n].dir, b = Entries(d)'[n].hash
          PROVE  Sums(b, k)'
      <4>1. k = f.d /\ b = h
        BY <2>5, <2>7, <3>1
      <4> QED
        BY <2>10, <4>1
    <3>2. Coherent'
      BY <2>7, <2>9, <3>1, EditCoherent DEF CacheInv
    <3>3. BlobsFull'
      BY <1>1 DEF CacheInv, BlobsFull
    <3> QED
      BY <3>2, <3>3
  <2>12. h # NoHash
    BY <1>3, <2>2, FullChildren DEF Sums
  <2>13. HashStk(t)'
    <3>1. PICK dt, ds, root : dt = dirs' /\ root = rt'.dir /\ ds = dirs
      OBVIOUS
    <3>2. HashStkIn(ds, root, s)
      <4>1. root = rt.dir
        BY <1>8, <3>1
      <4> QED
        BY <1>3, <3>1, <4>1 DEF HashStk
    <3>3. Len(t) = Len(s) - 1 /\ \A k \in 1..(Len(s) - 1) : t[k] = s[k]
      BY <1>2, <1>3 DEF Front, StkOK
    <3>4. DOMAIN t = 1..(Len(s) - 1)
      <4>1. StkOK(t)
        BY <1>2, <1>3, StkPop
      <4> QED
        BY <3>3, <4>1, StkHeap DEF Framed
    <3>5. \A c \in DOMAIN dirs : DOMAIN dt[c].entries = DOMAIN ds[c].entries
      BY <2>4, <2>6, <3>1 DEF SetsEntry, Names, Entries
    <3>6. ASSUME NEW k \in 1..(Len(s) - 1), s[k].par # 0
          PROVE  dt[s[k].par].entries[s[k].name] = ds[s[k].par].entries[s[k].name]
      <4>1. s[k].par # d \/ s[k].name # n
        BY <2>4, <3>6
      <4>2. s[k].par \in DOMAIN dirs /\ s[k].name \in Names(s[k].par)
        BY <1>3, <1>4, <3>6
      <4> QED
        BY <2>6, <3>1, <4>1, <4>2 DEF SetsEntry, Names, Entries
    <3>7. ASSUME NEW k \in 1..(Len(s) - 1), NEW m \in s[k].seen,
                 ds[s[k].d].entries[m].hash # NoHash
          PROVE  dt[s[k].d].entries[m].hash # NoHash
      <4>1. k \in DOMAIN s
        BY <1>3
      <4>2. s[k].d \in DOMAIN dirs
        BY <1>4, <4>1
      <4>3. m \in DOMAIN ds[s[k].d].entries
        BY <3>2, <4>1 DEF HashStkIn
      <4> QED
        BY <2>5, <2>6, <2>12, <3>1, <3>7, <4>2, <4>3 DEF SetsEntry, Names, Entries
    <3>8. dt[s[Len(s)].par].entries[s[Len(s)].name].hash # NoHash
      BY <1>3, <2>1, <2>5, <2>7, <2>12, <3>1 DEF Entries
    <3>9. \A k \in 1..(Len(s) - 1) : k \in DOMAIN s /\ s[k].d \in DOMAIN dirs
      BY <1>3, <1>4
    <3>10. \A k \in 1..(Len(s) - 1) : DOMAIN dt[s[k].d].entries = DOMAIN ds[s[k].d].entries
      BY <3>5, <3>9
    <3>11. HashStkIn(dt, root, t)
      <4>1. \A k \in 1..(Len(s) - 1) : s[k].par # 0 =>
              dt[s[k].par].entries[s[k].name] = ds[s[k].par].entries[s[k].name]
        BY <3>6
      <4>2. \A k \in 1..(Len(s) - 1) : \A m \in s[k].seen :
              ds[s[k].d].entries[m].hash # NoHash => dt[s[k].d].entries[m].hash # NoHash
        BY <3>7
      <4>3. s # <<>> /\ Framed(s)
        BY <1>3, <1>4
      <4> QED
        BY <3>2, <3>3, <3>4, <3>8, <3>10, <4>1, <4>2, <4>3, PopStk, Zenon
    <3> QED
      BY <3>1, <3>11 DEF HashStk
  <2>14. PICK x : g' = [g EXCEPT ![p] = x] /\ CacheLocal(x)'
    BY <1>8, <2>13, ResumeCache
  <2> QED
    BY <2>8, <2>11, <2>14, CacheStep
<1>9. PICK e : e = Entries(f.par)[f.name]
  OBVIOUS
<1> QED
  BY <1>2, <1>5, <1>6, <1>8 DEF Hashed, Panic

-----------------------------------------------------------------------------
(* Every step, and the hashes kept *)

\* Nothing moves but the writers and the store.
LEMMA StillCache ==
  ASSUME CacheInv, UNCHANGED <<rt, dirs, g>>, BlobsFull'
  PROVE  CacheInv'
<1>1. \A d : Entries(d)' = Entries(d) /\ Names(d)' = Names(d)
  BY DEF Entries, Names
<1>2. \A d : Marshal(d)' = Marshal(d)
  BY <1>1 DEF Marshal
<1>3. \A d : /\ Full(d)' = Full(d) /\ Loose(d)' = Loose(d) /\ Clear(d)' = Clear(d)
  BY <1>1 DEF Full, Loose, Clear
<1>4. \A h, d : Sums(h, d)' = Sums(h, d)
  BY <1>2, <1>3 DEF Sums
<1>5. \A h, d : Fresh(d, h)' = Fresh(d, h)
  BY <1>1, <1>3, <1>4 DEF Fresh
<1>6. \A s : HashStk(s)' = HashStk(s)
  <2>1. dirs' = dirs /\ rt'.dir = rt.dir
    OBVIOUS
  <2> QED
    BY <2>1 DEF HashStk
<1>7. Deeper' /\ Apart' /\ Coherent'
  BY <1>1, <1>3, <1>4 DEF CacheInv, Deeper, Apart, Coherent
<1>8. \A p \in Procs : CacheLocal(g[p])'
  <2> SUFFICES ASSUME NEW p \in Procs
               PROVE  CacheLocal(g[p])'
    OBVIOUS
  <2>1. PICK x : x = g[p] /\ x = g'[p]
    OBVIOUS
  <2>2. CacheLocal(x)
    BY <2>1 DEF CacheInv
  <2>3. CacheLocal(x)'
    <3>1. PICK h : h = dirs[x.stk[Len(x.stk)].d].hash /\ h = dirs'[x.stk[Len(x.stk)].d].hash
      OBVIOUS
    <3> QED
      BY <1>1, <1>3, <1>4, <1>5, <1>6, <2>2, <3>1 DEF CacheLocal
  <2> QED
    BY <2>1, <2>3 DEF CacheLocal
<1> QED
  BY <1>7, <1>8 DEF CacheInv

\* A writer is closed or stored; no listing comes with it.
LEMMA WriterCache ==
  ASSUME IInv, CacheInv, NEW w \in DOMAIN wr, CloseWriter(w) \/ PublishBlob(w)
  PROVE  CacheInv'
<1>1. UNCHANGED <<rt, dirs, g>> /\ (UNCHANGED blobs \/ blobs' = blobs \union {wr[w].hash})
  BY DEF CloseWriter, PublishBlob
<1>2. PICK h : h = wr[w].hash
  OBVIOUS
<1>3. NoHash \notin Children(h)
  <2>1. PICK put \in Puts : h = FileHash(put[2])
    BY <1>2, WritersFacts DEF Writers
  <2> QED
    BY <2>1 DEF FileHash, IsDirHash, Children
<1>4. BlobsFull'
  BY <1>1, <1>2, <1>3 DEF CacheInv, BlobsFull
<1> QED
  BY <1>1, <1>4, StillCache

LEMMA StepCache ==
  ASSUME IInv, OneGoroutine, OneContent, Honest, ContentsOnly, CacheInv,
         NEW p \in Procs, Step(p)
  PROVE  CacheInv'
<1>1. PICK loc, fit : Placed(loc, fit)
  BY DEF Honest
<1>2. SetDir(p) \/ Mkdir(p) => g[p].i <= Len(DirPart(p))
  <2>1. LocalFits(loc, g[p])
    BY <1>1 DEF Placed
  <2> QED
    BY <2>1, LocalFacts DEF LocalFits, SetDir, Mkdir
<1>3. GetDir(p) => CacheInv'
  BY GetDirCache
<1>4. SetRootDir(p) => CacheInv'
  BY SetRootDirCache
<1>5. Walk(p) => CacheInv'
  BY <1>1, WalkCache
<1>6. SetDir(p) => CacheInv'
  BY <1>1, <1>2, SetDirCache
<1>7. Mkdir(p) => CacheInv'
  BY <1>1, <1>2, MkdirCache
<1>8. Arrive(p) => CacheInv'
  BY ArriveCache
<1>9. Write(p) \/ Link(p) => CacheInv'
  BY <1>1, WriteCache, LinkCache
<1>10. Read(p) => CacheInv'
  BY <1>1, ReadCache
<1>11. List(p) \/ SaveDone(p) => CacheInv'
  BY ListCache, SaveDoneCache
<1>12. EntryHash(p) \/ HashNext(p) => CacheInv'
  BY <1>1, EntryHashCache, HashNextCache
<1>13. HashDirDone(p) \/ Hashed(p) => CacheInv'
  BY HashDirDoneCache, HashedCache
<1>14. DiffStart(p) \/ NewDiffIter(p) \/ DiffNext(p) \/ DiffUp(p) => CacheInv'
  BY DiffStartCache, NewDiffIterCache, DiffNextCache, DiffUpCache
<1> QED
  BY <1>3, <1>4, <1>5, <1>6, <1>7, <1>8, <1>9, <1>10, <1>11, <1>12, <1>13, <1>14 DEF Step

LEMMA CacheNext ==
  ASSUME IInv, OneGoroutine, OneContent, Honest, ContentsOnly, CacheInv, [Next]_vars
  PROVE  CacheInv'
<1>1. CASE UNCHANGED vars
  <2>1. UNCHANGED <<rt, dirs, g, blobs>>
    BY <1>1 DEF vars, heap
  <2> QED
    BY <2>1, StillCache DEF CacheInv, BlobsFull
<1> QED
  BY <1>1, BeginCache, StepCache, WriterCache DEF Next, Finished

LEMMA CacheInit ==
  ASSUME Init
  PROVE  CacheInv
<1>1. /\ dirs \in {<<EmptyDir>>, <<>>} /\ blobs = BaseBlobs
      /\ \A p \in Procs : g[p] = Idle
  BY DEF Init
<1>2. \A d \in DOMAIN dirs : Names(d) = {}
  <2>1. DOMAIN EmptyDir.entries = {}
    BY DEF EmptyDir
  <2> QED
    BY <1>1, <2>1 DEF Names, Entries
<1>3. Deeper /\ Apart /\ Coherent
  BY <1>2 DEF Deeper, Apart, Loose, Coherent
<1>4. BlobsFull
  BY <1>1, BaseAssumption DEF BlobsFull
<1>5. \A p \in Procs : CacheLocal(g[p])
  <2>1. CacheLocal(Idle)
    BY DEF CacheLocal, Idle, Walking, Ops
  <2> QED
    BY <1>1, <2>1
<1> QED
  BY <1>3, <1>4, <1>5 DEF CacheInv

\* With one goroutine, and one content for each path, a hash that is kept for a directory
\* in memory is the hash of what the directory holds: hashDir and DiffRoots, which take it
\* instead of hashing again, are right to.  Two goroutines, or two contents, break it: see
\* the runs of RootLost and RootRewrite.
THEOREM CachesCoherent ==
  ASSUME OneGoroutine, OneContent
  PROVE  Spec => []DirCacheCoherent
<1>1. Init => IInv /\ Honest /\ ContentsOnly /\ CacheInv
  BY InitOK, HonestInit, ContentsInit, CacheInit
<1>2. IInv /\ Honest /\ ContentsOnly /\ CacheInv /\ [Next]_vars
        => (IInv /\ Honest /\ ContentsOnly /\ CacheInv)'
  <2> SUFFICES ASSUME IInv, Honest, ContentsOnly, CacheInv, [Next]_vars
               PROVE  (IInv /\ Honest /\ ContentsOnly /\ CacheInv)'
    OBVIOUS
  <2>1. IInv'
    BY StepOK
  <2> QED
    BY <2>1, HonestNext, ContentsNext, CacheNext
<1>3. CacheInv => DirCacheCoherent
  BY DEF CacheInv, Coherent, Sums, DirCacheCoherent
<1> QED
  BY <1>1, <1>2, <1>3, PTL DEF Spec

-----------------------------------------------------------------------------
(* What was written is kept *)

\* No path is a directory of the tree that the Root is opened with.
FilesOnly == \A s \in Starts : \A f \in Paths : ~IsDirHash(Resolve(s.base, f))

\* The content of a path; the paths that were written or linked, or were in that tree.
Content(f) == CHOOSE h \in Contents(f) : TRUE

Held == {f \in Paths : sealed[f].now # NoHash \/ \E w \in DOMAIN wr : wr[w].path = f}

\* c are the blobs that the rest of path f, after j names, leads through from blob h.
HoldsWith(c, h, f, j) ==
  /\ c[j] = h
  /\ \A i \in j..(Len(f) - 1) :
       /\ IsDirHash(c[i]) /\ f[i + 1] \in DOMAIN Listing(c[i])
       /\ i + 1 = Len(f) => /\ Listing(c[i])[f[i + 1]].kind = "file"
                            /\ Listing(c[i])[f[i + 1]].hash = Content(f)
       /\ i + 1 < Len(f) => /\ Listing(c[i])[f[i + 1]].kind = "dir"
                            /\ Listing(c[i])[f[i + 1]].hash = c[i + 1]

\* The blob h has, below it, the content of path f after j names.
HoldsAt(h, f, j) == \E c : HoldsWith(c, h, f, j)

LEMMA HoldsStep ==
  ASSUME NEW f, Len(f) \in Nat, NEW h, NEW j \in 0..(Len(f) - 1), HoldsAt(h, f, j)
  PROVE  /\ IsDirHash(h) /\ f[j + 1] \in DOMAIN Listing(h)
         /\ j + 1 = Len(f) => /\ Listing(h)[f[j + 1]].kind = "file"
                              /\ Listing(h)[f[j + 1]].hash = Content(f)
         /\ j + 1 < Len(f) => /\ Listing(h)[f[j + 1]].kind = "dir"
                              /\ HoldsAt(Listing(h)[f[j + 1]].hash, f, j + 1)
<1>1. PICK c : HoldsWith(c, h, f, j)
  BY Zenon DEF HoldsAt
<1>2. /\ c[j] = h /\ IsDirHash(h) /\ f[j + 1] \in DOMAIN Listing(h)
      /\ j + 1 = Len(f) => /\ Listing(h)[f[j + 1]].kind = "file"
                           /\ Listing(h)[f[j + 1]].hash = Content(f)
      /\ j + 1 < Len(f) => /\ Listing(h)[f[j + 1]].kind = "dir"
                           /\ Listing(h)[f[j + 1]].hash = c[j + 1]
  BY <1>1 DEF HoldsWith
<1>3. HoldsWith(c, c[j + 1], f, j + 1)
  BY <1>1 DEF HoldsWith
<1> QED
  BY <1>2, <1>3 DEF HoldsAt

\* A blob with the name that is next, of a file with the content or of a blob that has it.
LEMMA HoldsLast ==
  ASSUME NEW f, Len(f) \in Nat, NEW h, NEW j \in 0..(Len(f) - 1), j + 1 = Len(f),
         IsDirHash(h), f[j + 1] \in DOMAIN Listing(h),
         Listing(h)[f[j + 1]].kind = "file", Listing(h)[f[j + 1]].hash = Content(f)
  PROVE  HoldsAt(h, f, j)
<1>1. PICK c : c = [i \in 0..Len(f) |-> h]
  OBVIOUS
<1>2. HoldsWith(c, h, f, j)
  BY <1>1 DEF HoldsWith
<1> QED
  BY <1>2 DEF HoldsAt

LEMMA HoldsUp ==
  ASSUME NEW f, Len(f) \in Nat, NEW h, NEW j \in 0..(Len(f) - 1), j + 1 < Len(f),
         IsDirHash(h), f[j + 1] \in DOMAIN Listing(h),
         Listing(h)[f[j + 1]].kind = "dir", NEW b, Listing(h)[f[j + 1]].hash = b,
         HoldsAt(b, f, j + 1)
  PROVE  HoldsAt(h, f, j)
<1>1. PICK c : HoldsWith(c, b, f, j + 1)
  BY Zenon DEF HoldsAt
<1>2. PICK a : a = [i \in 0..Len(f) |-> IF i = j THEN h ELSE c[i]]
  OBVIOUS
<1>3. \A i \in 0..Len(f) : a[i] = IF i = j THEN h ELSE c[i]
  BY <1>2
<1>4. a[j] = h /\ a[j + 1] = b
  BY <1>1, <1>3 DEF HoldsWith
<1>5. ASSUME NEW i \in (j + 1)..(Len(f) - 1)
      PROVE  /\ IsDirHash(a[i]) /\ f[i + 1] \in DOMAIN Listing(a[i])
             /\ i + 1 = Len(f) => /\ Listing(a[i])[f[i + 1]].kind = "file"
                                  /\ Listing(a[i])[f[i + 1]].hash = Content(f)
             /\ i + 1 < Len(f) => /\ Listing(a[i])[f[i + 1]].kind = "dir"
                                  /\ Listing(a[i])[f[i + 1]].hash = a[i + 1]
  <2>1. a[i] = c[i] /\ a[i + 1] = c[i + 1]
    BY <1>3
  <2> QED
    BY <1>1, <2>1 DEF HoldsWith
<1>6. \A i \in j..(Len(f) - 1) : i = j \/ i \in (j + 1)..(Len(f) - 1)
  OBVIOUS
<1>7. HoldsWith(a, h, f, j)
  BY <1>4, <1>5, <1>6 DEF HoldsWith
<1> QED
  BY <1>7 DEF HoldsAt

\* A path that a blob holds leads to its content.
LEMMA HoldsResolve ==
  ASSUME NEW f \in Paths, NEW h, HoldsAt(h, f, 0)
  PROVE  Resolve(h, f) = Content(f)
<1>1. f \in Seq(STRING) /\ Len(f) \in Nat /\ Len(f) # 0
  BY PathAssumption
<1>2. PICK c : HoldsWith(c, h, f, 0)
  BY Zenon DEF HoldsAt
<1> DEFINE S == {k \in Nat : k < Len(f) => Reached(h, f, k) = c[k]}
<1>3. 0 \in S
  BY <1>1, <1>2, ReachedSteps DEF HoldsWith
<1>4. ASSUME NEW k \in Nat, k \in S
      PROVE  k + 1 \in S
  <2> SUFFICES ASSUME k + 1 < Len(f)
               PROVE  Reached(h, f, k + 1) = c[k + 1]
    OBVIOUS
  <2>1. k \in 0..(Len(f) - 1) /\ Reached(h, f, k) = c[k]
    BY <1>1, <1>4
  <2>2. Reached(h, f, k + 1) = Child(c[k], f[k + 1])
    BY <1>1, <2>1, ReachedStep
  <2> QED
    BY <1>1, <1>2, <2>1, <2>2 DEF HoldsWith, Child
<1>5. Nat \subseteq S
  <2> HIDE DEF S
  <2> QED
    BY <1>3, <1>4, NatSteps
<1>6. PICK k : k = Len(f) - 1
  OBVIOUS
<1>7. k \in Nat /\ k + 1 = Len(f) /\ k \in 0..(Len(f) - 1)
  BY <1>1, <1>6
<1>8. Reached(h, f, k) = c[k]
  BY <1>5, <1>7
<1>9. Reached(h, f, Len(f)) = Child(c[k], f[k + 1])
  BY <1>1, <1>7, <1>8, ReachedStep
<1>10. Resolve(h, f) = Reached(h, f, Len(f))
  BY <1>1, ReachedSteps
<1> QED
  BY <1>2, <1>7, <1>9, <1>10 DEF HoldsWith, Child
\* The hash that entry e has or will have, for the writers ws.
HashIn(ws, e) ==
  IF e.file THEN IF e.blobW # 0 THEN ws[e.blobW].hash ELSE e.fhash ELSE e.hash

\* Entry e is on the way of path f after i names, and k is the directory there.
EntryHolds(ws, f, i, e, k) ==
  /\ i + 1 = Len(f) => e.kind = "file" /\ HashIn(ws, e) # NoHash
  /\ i + 1 < Len(f) => e.kind = "dir" /\ e.dir = k /\ (k = 0 => HoldsAt(e.hash, f, i + 1))

\* c are the directories in memory on the way of path f, 0 from the first one that is not
\* loaded.
ChainIn(ds, ws, f, c) ==
  \A i \in 0..(Len(f) - 1) :
    /\ c[i] # 0 => /\ c[i] \in DOMAIN ds /\ f[i + 1] \in DOMAIN ds[c[i]].entries
                   /\ EntryHolds(ws, f, i, ds[c[i]].entries[f[i + 1]], c[i + 1])
    /\ c[i] = 0 => c[i + 1] = 0

\* Path f leads to a file, through what is in memory and then through blobs that hold its
\* content.
Chain(f) ==
  \/ rt.dir = 0 /\ HoldsAt(rt.hash, f, 0)
  \/ rt.dir # 0 /\ \E c : c[0] = rt.dir /\ ChainIn(dirs, wr, f, c)

\* Entry e was replaced by y and still leads where it did.
SameHold(ws, wt, e, y) ==
  /\ y.kind = e.kind
  /\ e.kind = "dir" => y.dir = e.dir /\ (e.dir = 0 => y.hash = e.hash)
  /\ e.kind = "file" /\ HashIn(ws, e) # NoHash => HashIn(wt, y) # NoHash

HoldsOn ==
  \A d \in DOMAIN dirs :
    /\ d \in DOMAIN dirs'
    /\ \A n \in Names(d) : n \in Names(d)' /\ SameHold(wr, wr', Entries(d)[n], Entries(d)'[n])

LEMMA HoldKept ==
  ASSUME NEW ws, NEW wt, NEW e, NEW y, SameHold(ws, wt, e, y), NEW f, NEW i, NEW k,
         Len(f) \in Nat, i \in 0..(Len(f) - 1), EntryHolds(ws, f, i, e, k)
  PROVE  EntryHolds(wt, f, i, y, k)
BY DEF SameHold, EntryHolds

LEMMA ChainKept ==
  ASSUME HoldsOn, NEW f, Len(f) \in Nat, NEW c, ChainIn(dirs, wr, f, c)
  PROVE  ChainIn(dirs', wr', f, c)
<1> SUFFICES ASSUME NEW i \in 0..(Len(f) - 1), c[i] # 0
             PROVE  /\ c[i] \in DOMAIN dirs' /\ f[i + 1] \in DOMAIN dirs'[c[i]].entries
                    /\ EntryHolds(wr', f, i, dirs'[c[i]].entries[f[i + 1]], c[i + 1])
  BY DEF ChainIn
<1>1. PICK d, n : d = c[i] /\ n = f[i + 1]
  OBVIOUS
<1>2. d \in DOMAIN dirs /\ n \in Names(d) /\ EntryHolds(wr, f, i, Entries(d)[n], c[i + 1])
  BY <1>1 DEF ChainIn, Names, Entries
<1>3. d \in DOMAIN dirs' /\ n \in Names(d)' /\ SameHold(wr, wr', Entries(d)[n], Entries(d)'[n])
  BY <1>2 DEF HoldsOn
<1>4. EntryHolds(wr', f, i, Entries(d)'[n], c[i + 1])
  BY <1>2, <1>3, HoldKept
<1> QED
  BY <1>1, <1>3, <1>4 DEF Names, Entries

\* A step that changes no way but for what is computed of it.
LEMMA ChainsKept ==
  ASSUME HoldsOn, rt'.dir = rt.dir, rt.dir = 0 => rt'.hash = rt.hash,
         NEW f \in Paths, Chain(f)
  PROVE  Chain(f)'
<1>1. Len(f) \in Nat
  BY PathAssumption
<1>2. CASE rt.dir = 0
  BY <1>2 DEF Chain
<1>3. CASE rt.dir # 0
  <2>1. PICK c : c[0] = rt.dir /\ ChainIn(dirs, wr, f, c)
    BY <1>3 DEF Chain
  <2>2. ChainIn(dirs', wr', f, c)
    BY <1>1, <2>1, ChainKept
  <2> QED
    BY <1>3, <2>1, <2>2 DEF Chain
<1> QED
  BY <1>2, <1>3

\* Writers stay what they are.
WritersStay == \A w \in DOMAIN wr : w \in DOMAIN wr' /\ wr'[w].hash = wr[w].hash

LEMMA EntryStays ==
  ASSUME IInv, WritersStay, NEW d \in DOMAIN dirs, NEW n \in Names(d), NEW e, e = Entries(d)[n]
  PROVE  SameHold(wr, wr', e, e)
<1>1. e \in EntrySet
  BY EntryFacts
<1>2. e.blobW # 0 => e.blobW \in DOMAIN wr
  BY <1>1, HeapSizes DEF EntrySet
<1> QED
  BY <1>2 DEF SameHold, HashIn, WritersStay

LEMMA HoldsSame ==
  ASSUME IInv, WritersStay,
         \A d \in DOMAIN dirs : d \in DOMAIN dirs' /\ Entries(d)' = Entries(d)
  PROVE  HoldsOn
<1> SUFFICES ASSUME NEW d \in DOMAIN dirs, NEW n \in Names(d)
             PROVE  n \in Names(d)' /\ SameHold(wr, wr', Entries(d)[n], Entries(d)'[n])
  BY DEF HoldsOn
<1> QED
  BY EntryStays DEF Names

LEMMA HoldsEdited ==
  ASSUME IInv, WritersStay, NEW d, NEW n, NEW y, Edited(d, n),
         d \in DOMAIN dirs /\ n \in Names(d) =>
           Entries(d)'[n] = y /\ SameHold(wr, wr', Entries(d)[n], y)
  PROVE  HoldsOn
<1> SUFFICES ASSUME NEW b \in DOMAIN dirs
             PROVE  /\ b \in DOMAIN dirs'
                    /\ \A m \in Names(b) :
                         m \in Names(b)' /\ SameHold(wr, wr', Entries(b)[m], Entries(b)'[m])
  BY DEF HoldsOn
<1>1. b \in DOMAIN dirs'
  BY DEF Edited
<1>2. ASSUME NEW m \in Names(b)
      PROVE  m \in Names(b)' /\ SameHold(wr, wr', Entries(b)[m], Entries(b)'[m])
  <2>1. CASE b = d /\ m = n
    BY <2>1 DEF Edited
  <2>2. CASE b # d \/ m # n
    <3>1. m \in Names(b)' /\ Entries(b)'[m] = Entries(b)[m]
      BY <2>2 DEF Edited, Names
    <3> QED
      BY <3>1, EntryStays
  <2> QED
    BY <2>1, <2>2
<1> QED
  BY <1>1, <1>2

LEMMA WritersSame ==
  ASSUME UNCHANGED wr
  PROVE  WritersStay
BY DEF WritersStay
\* Directory k is nil, or as it is when it was just loaded from the blob h.
AsBlob(k, h) ==
  k # 0 =>
    /\ k \in DOMAIN dirs
    /\ \A n \in DOMAIN Listing(h) :
         /\ n \in Names(k) /\ Entries(k)[n].dir = 0 /\ ~Entries(k)[n].file
         /\ Entries(k)[n].kind = Listing(h)[n].kind /\ Entries(k)[n].hash = Listing(h)[n].hash

\* The way of a path goes on in a directory just loaded.
LEMMA HoldsLoaded ==
  ASSUME NEW f, Len(f) \in Nat, NEW j \in 0..(Len(f) - 1), NEW h, HoldsAt(h, f, j),
         NEW k, k # 0, AsBlob(k, h), Content(f) # NoHash, NEW ws
  PROVE  /\ f[j + 1] \in Names(k)
         /\ EntryHolds(ws, f, j, Entries(k)[f[j + 1]], 0)
<1>1. PICK n : n = f[j + 1]
  OBVIOUS
<1>2. /\ IsDirHash(h) /\ n \in DOMAIN Listing(h)
      /\ j + 1 = Len(f) => Listing(h)[n].kind = "file" /\ Listing(h)[n].hash = Content(f)
      /\ j + 1 < Len(f) => Listing(h)[n].kind = "dir" /\ HoldsAt(Listing(h)[n].hash, f, j + 1)
  BY <1>1, HoldsStep
<1>3. /\ n \in Names(k) /\ Entries(k)[n].dir = 0 /\ ~Entries(k)[n].file
      /\ Entries(k)[n].kind = Listing(h)[n].kind /\ Entries(k)[n].hash = Listing(h)[n].hash
  BY <1>2 DEF AsBlob
<1> QED
  BY <1>1, <1>2, <1>3 DEF EntryHolds, HashIn

\* Entry n of directory d, a directory, is replaced by y, whose directory k is nil or loaded
\* from the blob h: the way of a path through it goes on there.
Cut(d, n, y, k, h) ==
  /\ d \in DOMAIN dirs /\ n \in Names(d) /\ Entries(d)[n].kind = "dir"
  /\ Edited(d, n) /\ Entries(d)'[n] = y /\ y.kind = "dir"
  /\ y.dir = k /\ AsBlob(k, h)' /\ (k = 0 => y.hash = h)

HoldsBelow(f, c, d, n, h) ==
  \A i \in 0..(Len(f) - 1) :
    i + 1 < Len(f) /\ c[i] = d /\ f[i + 1] = n => HoldsAt(h, f, i + 1)

LEMMA ChainCut ==
  ASSUME IInv, WritersStay, NEW d, NEW n, NEW y, NEW k, NEW h, Cut(d, n, y, k, h),
         NEW f \in Paths, Content(f) # NoHash, NEW c, ChainIn(dirs, wr, f, c),
         HoldsBelow(f, c, d, n, h)
  PROVE  \E a : a[0] = c[0] /\ ChainIn(dirs', wr', f, a)
<1> /\ d \in DOMAIN dirs /\ n \in Names(d) /\ Entries(d)[n].kind = "dir"
    /\ Edited(d, n) /\ Entries(d)'[n] = y /\ y.kind = "dir"
    /\ y.dir = k /\ AsBlob(k, h)' /\ (k = 0 => y.hash = h)
  BY DEF Cut
<1> \A i \in 0..(Len(f) - 1) :
      i + 1 < Len(f) /\ c[i] = d /\ f[i + 1] = n => HoldsAt(h, f, i + 1)
  BY DEF HoldsBelow
<1>1. Len(f) \in Nat /\ Len(f) # 0
  BY PathAssumption
<1>2. \A b \in DOMAIN dirs : \A m \in Names(b) : b # d \/ m # n =>
        b \in DOMAIN dirs' /\ m \in Names(b)' /\ Entries(b)'[m] = Entries(b)[m]
  BY DEF Edited, Names
<1>3. ASSUME NEW i \in 0..(Len(f) - 1), c[i] # 0, c[i] # d \/ f[i + 1] # n
      PROVE  /\ c[i] \in DOMAIN dirs' /\ f[i + 1] \in Names(c[i])'
             /\ EntryHolds(wr', f, i, Entries(c[i])'[f[i + 1]], c[i + 1])
  <2>1. PICK b, m : b = c[i] /\ m = f[i + 1]
    OBVIOUS
  <2>2. b \in DOMAIN dirs /\ m \in Names(b) /\ EntryHolds(wr, f, i, Entries(b)[m], c[i + 1])
    BY <1>3, <2>1 DEF ChainIn, Names, Entries
  <2>3. b \in DOMAIN dirs' /\ m \in Names(b)' /\ Entries(b)'[m] = Entries(b)[m]
    BY <1>2, <1>3, <2>1, <2>2
  <2>4. SameHold(wr, wr', Entries(b)[m], Entries(b)[m])
    BY <2>2, EntryStays
  <2>5. EntryHolds(wr', f, i, Entries(b)'[m], c[i + 1])
    BY <1>1, <2>2, <2>3, <2>4, HoldKept
  <2> QED
    BY <2>1, <2>3, <2>5
<1> DEFINE B == {i \in 0..(Len(f) - 1) : c[i] = d /\ f[i + 1] = n}
<1>4. CASE B = {}
  <2>1. ASSUME NEW i \in 0..(Len(f) - 1)
        PROVE  /\ c[i] # 0 => /\ c[i] \in DOMAIN dirs' /\ f[i + 1] \in DOMAIN dirs'[c[i]].entries
                              /\ EntryHolds(wr', f, i, dirs'[c[i]].entries[f[i + 1]], c[i + 1])
               /\ c[i] = 0 => c[i + 1] = 0
    <3>1. c[i] # d \/ f[i + 1] # n
      BY <1>4
    <3>2. c[i] = 0 => c[i + 1] = 0
      BY DEF ChainIn
    <3> QED
      BY <1>3, <3>1, <3>2 DEF Names, Entries
  <2>2. ChainIn(dirs', wr', f, c)
    BY <2>1 DEF ChainIn
  <2> QED
    BY <2>2
<1>5. CASE B # {}
  <2>1. PICK i \in B : \A j \in B : i <= j
    <3>1. B \subseteq Nat
      BY <1>1
    <3> HIDE DEF B
    <3> QED
      BY <1>5, <3>1, LeastNat
  <2>2. /\ i \in 0..(Len(f) - 1) /\ c[i] = d /\ f[i + 1] = n
        /\ \A j \in 0..(Len(f) - 1) : j < i => c[j] # d \/ f[j + 1] # n
    BY <2>1
  <2>3. i + 1 < Len(f) /\ i \in Nat
    <3>1. d # 0 /\ EntryHolds(wr, f, i, Entries(d)[n], c[i + 1])
      BY <2>2, HeapSizes DEF ChainIn, Names, Entries
    <3> QED
      BY <1>1, <2>2, <3>1 DEF EntryHolds
  <2>4. HoldsAt(h, f, i + 1)
    BY <2>2, <2>3
  <2>5. PICK a : a = [j \in 0..Len(f) |-> IF j <= i THEN c[j] ELSE IF j = i + 1 THEN k ELSE 0]
    OBVIOUS
  <2>6. /\ \A j \in 0..Len(f) : j <= i => a[j] = c[j]
        /\ a[i + 1] = k
        /\ \A j \in 0..Len(f) : j > i + 1 => a[j] = 0
    BY <1>1, <2>3, <2>5
  <2> HIDE DEF B
  <2>7. ASSUME NEW j \in 0..(Len(f) - 1)
        PROVE  /\ a[j] # 0 => /\ a[j] \in DOMAIN dirs' /\ f[j + 1] \in Names(a[j])'
                              /\ EntryHolds(wr', f, j, Entries(a[j])'[f[j + 1]], a[j + 1])
               /\ a[j] = 0 => a[j + 1] = 0
    <3>1. CASE j < i
      <4>1. a[j] = c[j] /\ a[j + 1] = c[j + 1]
        BY <1>1, <2>3, <2>6, <3>1
      <4>2. c[j] # d \/ f[j + 1] # n
        BY <2>2, <3>1
      <4>3. c[j] = 0 => c[j + 1] = 0
        BY DEF ChainIn
      <4> QED
        BY <1>3, <4>1, <4>2, <4>3
    <3>2. CASE j = i
      <4>1. a[j] = d /\ a[j + 1] = k /\ d # 0
        BY <2>2, <2>3, <2>6, <3>2, HeapSizes
      <4>2. EntryHolds(wr', f, i, y, k)
        BY <2>3, <2>4 DEF EntryHolds
      <4>3. d \in DOMAIN dirs' /\ n \in Names(d)'
        BY DEF Edited
      <4> QED
        BY <2>2, <3>2, <4>1, <4>2, <4>3
    <3>3. CASE j = i + 1
      <4>1. a[j] = k /\ a[j + 1] = 0
        BY <1>1, <2>3, <2>6, <3>3
      <4>2. CASE k = 0
        BY <4>1, <4>2
      <4>3. CASE k # 0
        <5>1. k \in DOMAIN dirs'
          BY <4>3 DEF AsBlob
        <5>2. f[j + 1] \in Names(k)' /\ EntryHolds(wr', f, j, Entries(k)'[f[j + 1]], 0)
          <6>1. HoldsAt(h, f, j)
            BY <2>4, <3>3
          <6>2. PICK ds : ds = dirs'
            OBVIOUS
          <6>3. PICK m : m = f[j + 1]
            OBVIOUS
          <6>4. /\ IsDirHash(h) /\ m \in DOMAIN Listing(h)
                /\ j + 1 = Len(f) => /\ Listing(h)[m].kind = "file"
                                     /\ Listing(h)[m].hash = Content(f)
                /\ j + 1 < Len(f) => /\ Listing(h)[m].kind = "dir"
                                     /\ HoldsAt(Listing(h)[m].hash, f, j + 1)
            BY <1>1, <6>1, <6>3, HoldsStep
          <6>5. /\ m \in Names(k)' /\ Entries(k)'[m].dir = 0 /\ ~Entries(k)'[m].file
                /\ Entries(k)'[m].kind = Listing(h)[m].kind
                /\ Entries(k)'[m].hash = Listing(h)[m].hash
            BY <4>3, <6>4 DEF AsBlob
          <6> QED
            BY <6>3, <6>4, <6>5 DEF EntryHolds, HashIn
        <5> QED
          BY <4>1, <4>3, <5>1, <5>2
      <4> QED
        BY <4>2, <4>3
    <3>4. CASE j > i + 1
      BY <1>1, <2>3, <2>6, <3>4
    <3> QED
      BY <2>3, <3>1, <3>2, <3>3, <3>4
  <2>8. ChainIn(dirs', wr', f, a)
    BY <2>7 DEF ChainIn, Names, Entries
  <2>9. a[0] = c[0]
    BY <1>1, <2>3, <2>6
  <2> QED
    BY <2>8, <2>9
<1> QED
  BY <1>4, <1>5
LEMMA TheContent ==
  ASSUME OneContent, NEW f \in Paths, NEW h \in Contents(f)
  PROVE  h = Content(f) /\ h # NoHash
<1>1. Content(f) \in Contents(f)
  BY DEF Content
<1> QED
  BY <1>1, ContentsNotEmpty DEF OneContent

LEMMA HeldContent ==
  ASSUME IInv, OneContent, ContentsOnly, NEW f \in Held
  PROVE  /\ f \in Paths /\ Content(f) # NoHash
         /\ sealed[f].now # NoHash => sealed[f].now = Content(f)
<1>1. f \in Paths
  BY DEF Held
<1>2. CASE sealed[f].now # NoHash
  <2>1. sealed[f].now \in Contents(f)
    BY <1>1, <1>2 DEF ContentsOnly
  <2> QED
    BY <1>1, <2>1, TheContent
<1>3. CASE sealed[f].now = NoHash
  <2>1. PICK w \in DOMAIN wr : wr[w].path = f
    BY <1>3 DEF Held
  <2>2. wr[w].hash \in Contents(f)
    BY <2>1 DEF ContentsOnly
  <2> QED
    BY <1>1, <1>3, <2>2, TheContent
<1> QED
  BY <1>2, <1>3

\* An entry at the place of a path has its content, if any.
LEMMA HashContent ==
  ASSUME IInv, OneContent, ContentsOnly, NEW loc, NEW fit, NEW f \in Paths,
         NEW e \in EntrySet, e.kind = "file", EntryFits(loc, fit, f, e)
  PROVE  /\ HashIn(wr, e) # NoHash => HashIn(wr, e) = Content(f)
         /\ e.hash # NoHash => e.hash = Content(f)
<1>1. \A h : ContentFits(f, h) /\ h # NoHash => h = Content(f)
  <2> SUFFICES ASSUME NEW h, ContentFits(f, h), h # NoHash
               PROVE  h = Content(f)
    OBVIOUS
  <2>1. h \in Contents(f)
    BY DEF ContentFits, ContentsOnly
  <2> QED
    BY <2>1, TheContent
<1>2. ContentFits(f, e.hash) /\ ContentFits(f, e.fhash)
  BY DEF EntryFits, ListedFits
<1>3. e.blobW # 0 => wr[e.blobW].hash = Content(f)
  <2> SUFFICES ASSUME e.blobW # 0
               PROVE  wr[e.blobW].hash = Content(f)
    OBVIOUS
  <2>1. e.blobW \in DOMAIN wr
    BY HeapSizes DEF EntrySet
  <2>2. wr[e.blobW].path = f
    BY <2>1 DEF EntryFits
  <2>3. wr[e.blobW].hash \in Contents(f)
    BY <2>1, <2>2 DEF ContentsOnly
  <2> QED
    BY <2>3, TheContent
<1> QED
  BY <1>1, <1>2, <1>3 DEF HashIn

LEMMA PrefixFacts ==
  ASSUME NEW f \in Paths
  PROVE  /\ SubSeq(f, 1, 0) = <<>> /\ SubSeq(f, 1, Len(f)) = f
         /\ \A i \in 1..Len(f) : Append(SubSeq(f, 1, i - 1), f[i]) = SubSeq(f, 1, i)
         /\ f \in Seq(STRING) /\ Len(f) \in Nat /\ Len(f) # 0
<1>1. PICK r : r = [op |-> "read", path |-> f, arg |-> NoHash]
  OBVIOUS
<1>2. r \in Requests /\ r.path = f
  BY <1>1 DEF Requests
<1>3. f \in Seq(STRING) /\ Len(f) \in Nat /\ Len(f) # 0
  BY PathAssumption
<1> QED
  BY <1>2, <1>3, PathFacts

\* The directories on the way of a path are where the path leads.
LEMMA ChainPlace ==
  ASSUME IInv, NEW loc, NEW fit, Placed(loc, fit), NEW f \in Paths,
         NEW c, c[0] = rt.dir, ChainIn(dirs, wr, f, c), NEW i \in 0..(Len(f) - 1), c[i] # 0
  PROVE  c[i] \in DOMAIN dirs /\ loc[c[i]] = SubSeq(f, 1, i)
<1>1. Len(f) \in Nat
  BY PrefixFacts
<1> DEFINE S == {k \in Nat : k < Len(f) /\ c[k] # 0 =>
                               c[k] \in DOMAIN dirs /\ loc[c[k]] = SubSeq(f, 1, k)}
<1>2. 0 \in S
  <2> SUFFICES ASSUME 0 < Len(f), c[0] # 0
               PROVE  c[0] \in DOMAIN dirs /\ loc[c[0]] = SubSeq(f, 1, 0)
    OBVIOUS
  <2>1. rt.dir \in DOMAIN dirs
    BY <1>1 DEF ChainIn
  <2> QED
    BY <2>1, PrefixFacts DEF Placed, RootFits
<1>3. ASSUME NEW k \in Nat, k \in S
      PROVE  k + 1 \in S
  <2> SUFFICES ASSUME k + 1 < Len(f), c[k + 1] # 0
               PROVE  c[k + 1] \in DOMAIN dirs /\ loc[c[k + 1]] = SubSeq(f, 1, k + 1)
    OBVIOUS
  <2>1. k \in 0..(Len(f) - 1) /\ k + 1 \in 0..(Len(f) - 1) /\ k + 1 \in 1..Len(f)
    BY <1>1
  <2>2. c[k] # 0 /\ c[k + 1] \in DOMAIN dirs
    BY <2>1 DEF ChainIn
  <2>3. PICK d, n, e : d = c[k] /\ n = f[k + 1] /\ e = Entries(d)[n]
    OBVIOUS
  <2>4. d \in DOMAIN dirs /\ n \in Names(d) /\ e.dir = c[k + 1]
    BY <2>1, <2>2, <2>3 DEF ChainIn, EntryHolds, Names, Entries
  <2>5. loc[d] = SubSeq(f, 1, k)
    BY <1>3, <2>1, <2>2, <2>3
  <2>6. loc[e.dir] = Append(loc[d], n)
    BY <2>2, <2>3, <2>4, EntryPlaced DEF EntryFits
  <2>7. \A j \in 1..Len(f) : Append(SubSeq(f, 1, j - 1), f[j]) = SubSeq(f, 1, j)
    BY PrefixFacts
  <2>8. Append(SubSeq(f, 1, k), f[k + 1]) = SubSeq(f, 1, k + 1)
    <3>1. (k + 1) - 1 = k
      OBVIOUS
    <3> QED
      BY <2>1, <2>7, <3>1
  <2> QED
    BY <2>2, <2>3, <2>4, <2>5, <2>6, <2>8
<1>4. Nat \subseteq S
  <2> HIDE DEF S
  <2> QED
    BY <1>2, <1>3, NatSteps
<1> QED
  BY <1>1, <1>4

\* The last entry on the way.
LEMMA ChainFile ==
  ASSUME IInv, OneContent, ContentsOnly, NEW loc, NEW fit, Placed(loc, fit), NEW f \in Paths,
         NEW c, c[0] = rt.dir, ChainIn(dirs, wr, f, c),
         NEW i \in 0..(Len(f) - 1), i + 1 = Len(f), c[i] # 0,
         NEW e, e = Entries(c[i])[f[i + 1]]
  PROVE  e.kind = "file" /\ HashIn(wr, e) = Content(f) /\ (e.hash # NoHash => e.hash = Content(f))
<1>1. PICK d, n : d = c[i] /\ n = f[i + 1]
  OBVIOUS
<1>2. /\ d \in DOMAIN dirs /\ n \in Names(d) /\ e = Entries(d)[n]
      /\ e.kind = "file" /\ HashIn(wr, e) # NoHash
  BY <1>1 DEF ChainIn, EntryHolds, Names, Entries
<1>3. loc[d] = SubSeq(f, 1, i)
  BY <1>1, ChainPlace
<1>4. Append(loc[d], n) = f
  <2>1. i + 1 \in 1..Len(f) /\ (i + 1) - 1 = i
    BY PrefixFacts
  <2> QED
    BY <1>1, <1>3, <2>1, PrefixFacts
<1>5. e \in EntrySet /\ EntryFits(loc, fit, f, e)
  BY <1>2, <1>4, EntryPlaced
<1> QED
  BY <1>2, <1>5, HashContent

\* What is in memory below a hash that is kept, or was computed, is what its blob holds.
LEMMA MemHolds ==
  ASSUME IInv, OneContent, ContentsOnly, Coherent, NEW loc, NEW fit, Placed(loc, fit),
         NEW f \in Paths, NEW c, c[0] = rt.dir, ChainIn(dirs, wr, f, c),
         NEW j \in 0..(Len(f) - 1), c[j] # 0, NEW h, Sums(h, c[j])
  PROVE  HoldsAt(h, f, j)
<1>1. Len(f) \in Nat
  BY PrefixFacts
<1> DEFINE S == {k \in Nat : \A i \in 0..(Len(f) - 1) : \A b :
                   i + k + 1 = Len(f) /\ c[i] # 0 /\ Sums(b, c[i]) => HoldsAt(b, f, i)}
<1>2. ASSUME NEW i \in 0..(Len(f) - 1), c[i] # 0, NEW b, Sums(b, c[i])
      PROVE  /\ IsDirHash(b) /\ f[i + 1] \in DOMAIN Listing(b) /\ f[i + 1] \in Names(c[i])
             /\ c[i] \in DOMAIN dirs
             /\ Listing(b)[f[i + 1]].kind = Entries(c[i])[f[i + 1]].kind
             /\ Listing(b)[f[i + 1]].hash = Entries(c[i])[f[i + 1]].hash
             /\ Entries(c[i])[f[i + 1]].hash # NoHash
  <2>1. PICK d, n : d = c[i] /\ n = f[i + 1]
    OBVIOUS
  <2>2. d \in DOMAIN dirs /\ n \in Names(d)
    BY <1>2, <2>1 DEF ChainIn, Names, Entries
  <2>3. b = DirHash(Marshal(d)) /\ Entries(d)[n].hash # NoHash
    BY <1>2, <2>1, <2>2 DEF Sums, Full
  <2>4. PICK m : m = Marshal(d)
    OBVIOUS
  <2>5. /\ n \in DOMAIN m /\ m[n].kind = Entries(d)[n].kind /\ m[n].hash = Entries(d)[n].hash
    BY <2>2, <2>4 DEF Marshal
  <2>6. IsDirHash(b) /\ Listing(b) = m
    BY <2>3, <2>4 DEF IsDirHash, DirHash, Listing, NoHash
  <2> QED
    BY <2>1, <2>2, <2>3, <2>5, <2>6
<1>3. 0 \in S
  <2> SUFFICES ASSUME NEW i \in 0..(Len(f) - 1), NEW b, i + 0 + 1 = Len(f), c[i] # 0,
                      Sums(b, c[i])
               PROVE  HoldsAt(b, f, i)
    OBVIOUS
  <2>1. i + 1 = Len(f)
    OBVIOUS
  <2>2. PICK e : e = Entries(c[i])[f[i + 1]]
    OBVIOUS
  <2>3. e.kind = "file" /\ (e.hash # NoHash => e.hash = Content(f))
    BY <2>1, <2>2, ChainFile
  <2> QED
    BY <1>1, <1>2, <2>1, <2>2, <2>3, HoldsLast
<1>4. ASSUME NEW k \in Nat, k \in S
      PROVE  k + 1 \in S
  <2> SUFFICES ASSUME NEW i \in 0..(Len(f) - 1), NEW b, i + (k + 1) + 1 = Len(f), c[i] # 0,
                      Sums(b, c[i])
               PROVE  HoldsAt(b, f, i)
    OBVIOUS
  <2>1. i + 1 < Len(f) /\ i + 1 \in 0..(Len(f) - 1) /\ (i + 1) + k + 1 = Len(f)
    BY <1>1
  <2>2. PICK d, n : d = c[i] /\ n = f[i + 1]
    OBVIOUS
  <2>3. PICK e : e = Entries(d)[n]
    OBVIOUS
  <2>4. EntryHolds(wr, f, i, e, c[i + 1]) /\ d \in DOMAIN dirs /\ n \in Names(d)
    BY <2>2, <2>3 DEF ChainIn, Entries, Names
  <2>5. e.kind = "dir" /\ e.dir = c[i + 1] /\ (e.dir = 0 => HoldsAt(e.hash, f, i + 1))
    BY <2>1, <2>4 DEF EntryHolds
  <2>6. e.hash # NoHash
    BY <1>2, <2>2, <2>3
  <2>7. HoldsAt(e.hash, f, i + 1)
    <3>1. CASE c[i + 1] = 0
      BY <2>5, <3>1
    <3>2. CASE c[i + 1] # 0
      <4>1. Sums(e.hash, c[i + 1])
        BY <2>3, <2>4, <2>5, <2>6, <3>2 DEF Coherent
      <4> QED
        BY <1>4, <2>1, <3>2, <4>1
    <3> QED
      BY <3>1, <3>2
  <2>8. /\ IsDirHash(b) /\ f[i + 1] \in DOMAIN Listing(b)
        /\ Listing(b)[f[i + 1]].kind = "dir" /\ Listing(b)[f[i + 1]].hash = e.hash
    BY <1>2, <2>2, <2>3, <2>5
  <2> QED
    BY <1>1, <2>1, <2>7, <2>8, HoldsUp
<1>5. Nat \subseteq S
  <2> HIDE DEF S
  <2> QED
    BY <1>3, <1>4, NatSteps
<1>6. PICK k : k = Len(f) - 1 - j
  OBVIOUS
<1>7. k \in Nat /\ j + k + 1 = Len(f)
  BY <1>1, <1>6
<1> QED
  BY <1>5, <1>7
\* c are the directories on the first m names of a path, all of them in memory.
WayIn(ds, path, m, c) ==
  \A j \in 0..(m - 1) :
    /\ c[j] \in DOMAIN ds /\ path[j + 1] \in DOMAIN ds[c[j]].entries
    /\ ds[c[j]].entries[path[j + 1]].kind = "dir"
    /\ ds[c[j]].entries[path[j + 1]].dir = c[j + 1] /\ c[j + 1] # 0

\* getDir is in the tree, where the names that it passed lead to.
WalkChain(x) == \E c : /\ c[0] = rt.dir /\ c[x.i - 1] = x.d
                       /\ WayIn(dirs, x.req.path, x.i - 1, c)

KeepLocal(x) ==
  /\ x.at \in Walking => WalkChain(x)
  /\ x.at = "rootReady" => (rt.dir # 0 => Sums(rt.hash, rt.dir))
  /\ x.at = "getDir" /\ x.req.op = "diff" => (rt.dir # 0 => Full(rt.dir))
  /\ x.at \in {"walk", "diff"} /\ x.req.op = "diff" => x.d = rt.dir /\ Full(rt.dir)
  /\ x.at = "next" => \A k \in DOMAIN x.stk : Full(x.stk[k].d)
  /\ x.req.op = "save" => \A f \in DOMAIN x.must :
       x.must[f] # NoHash => f \in Held /\ x.must[f] = Content(f)

KeepInv == /\ \A f \in Held : Chain(f)
           /\ SaveCaptures
           /\ \A p \in Procs : KeepLocal(g[p])

\* The directories that entries point to stay.
PointersStay ==
  \A d \in DOMAIN dirs :
    /\ d \in DOMAIN dirs'
    /\ \A n \in Names(d) : Entries(d)[n].kind = "dir" /\ Entries(d)[n].dir # 0 =>
         /\ n \in Names(d)' /\ Entries(d)'[n].kind = "dir"
         /\ Entries(d)'[n].dir = Entries(d)[n].dir

LEMMA HoldsPointers ==
  ASSUME HoldsOn
  PROVE  PointersStay
BY DEF HoldsOn, SameHold, PointersStay

LEMMA WayKept ==
  ASSUME PointersStay, NEW path, NEW m \in Nat, NEW c, WayIn(dirs, path, m, c)
  PROVE  WayIn(dirs', path, m, c)
<1> SUFFICES ASSUME NEW j \in 0..(m - 1)
             PROVE  /\ c[j] \in DOMAIN dirs' /\ path[j + 1] \in DOMAIN dirs'[c[j]].entries
                    /\ dirs'[c[j]].entries[path[j + 1]].kind = "dir"
                    /\ dirs'[c[j]].entries[path[j + 1]].dir = c[j + 1] /\ c[j + 1] # 0
  BY DEF WayIn
<1>1. PICK d, n : d = c[j] /\ n = path[j + 1]
  OBVIOUS
<1>2. /\ d \in DOMAIN dirs /\ n \in Names(d) /\ Entries(d)[n].kind = "dir"
      /\ Entries(d)[n].dir = c[j + 1] /\ c[j + 1] # 0
  BY <1>1 DEF WayIn, Names, Entries
<1>3. /\ d \in DOMAIN dirs' /\ n \in Names(d)' /\ Entries(d)'[n].kind = "dir"
      /\ Entries(d)'[n].dir = c[j + 1]
  BY <1>2 DEF PointersStay
<1> QED
  BY <1>1, <1>2, <1>3 DEF Names, Entries

\* getDir stays where it is, or goes on by one name.
LEMMA WalkStays ==
  ASSUME PointersStay, rt'.dir = rt.dir, NEW x, WalkChain(x), x.i \in Nat \ {0},
         NEW y, y.i = x.i, y.d = x.d, y.req = x.req
  PROVE  WalkChain(y)'
<1>1. PICK c : c[0] = rt.dir /\ c[x.i - 1] = x.d /\ WayIn(dirs, x.req.path, x.i - 1, c)
  BY DEF WalkChain
<1>2. WayIn(dirs', x.req.path, x.i - 1, c)
  <2>1. x.i - 1 \in Nat
    OBVIOUS
  <2> QED
    BY <1>1, <2>1, WayKept
<1> QED
  BY <1>1, <1>2 DEF WalkChain

LEMMA WalkGoesOn ==
  ASSUME PointersStay, rt'.dir = rt.dir, NEW x, WalkChain(x), NEW i \in Nat \ {0}, x.i = i,
         NEW d, x.d = d, NEW n, x.req.path[i] = n, d \in DOMAIN dirs', n \in Names(d)',
         Entries(d)'[n].kind = "dir", NEW k, Entries(d)'[n].dir = k, k # 0,
         NEW y, y.i = i + 1, y.d = k, y.req = x.req
  PROVE  WalkChain(y)'
<1>1. PICK c : c[0] = rt.dir /\ c[i - 1] = d /\ WayIn(dirs, x.req.path, i - 1, c)
  BY DEF WalkChain
<1>2. WayIn(dirs', x.req.path, i - 1, c)
  <2>1. i - 1 \in Nat
    OBVIOUS
  <2> QED
    BY <1>1, <2>1, WayKept
<1>3. PICK a : a = [j \in 0..i |-> IF j = i THEN k ELSE c[j]]
  OBVIOUS
<1>4. a[i] = k /\ \A j \in 0..i : j < i => a[j] = c[j]
  BY <1>3
<1>5. ASSUME NEW j \in 0..(i - 1)
      PROVE  /\ a[j] \in DOMAIN dirs' /\ x.req.path[j + 1] \in DOMAIN dirs'[a[j]].entries
             /\ dirs'[a[j]].entries[x.req.path[j + 1]].kind = "dir"
             /\ dirs'[a[j]].entries[x.req.path[j + 1]].dir = a[j + 1] /\ a[j + 1] # 0
  <2>1. CASE j = i - 1
    <3>1. a[j] = d /\ a[j + 1] = k /\ x.req.path[j + 1] = n
      BY <1>1, <1>4, <2>1
    <3> QED
      BY <3>1 DEF Names, Entries
  <2>2. CASE j # i - 1
    <3>1. j \in 0..((i - 1) - 1) /\ a[j] = c[j] /\ a[j + 1] = c[j + 1]
      BY <1>4, <2>2
    <3> QED
      BY <1>2, <3>1 DEF WayIn
  <2> QED
    BY <2>1, <2>2
<1>6. WayIn(dirs', x.req.path, i, a)
  BY <1>5 DEF WayIn
<1>7. a[0] = rt'.dir /\ a[i] = k /\ (i + 1) - 1 = i
  BY <1>1, <1>4
<1> QED
  BY <1>6, <1>7 DEF WalkChain

\* getDir begins at the directory of the Root.
LEMMA WalkBegins ==
  ASSUME NEW x, x.i = 1, x.d = rt'.dir
  PROVE  WalkChain(x)'
<1>1. PICK c : c = [j \in {0} |-> rt'.dir]
  OBVIOUS
<1>2. c[0] = rt'.dir /\ x.i - 1 = 0 /\ WayIn(dirs', x.req.path, 0, c)
  BY <1>1 DEF WayIn
<1> QED
  BY <1>2 DEF WalkChain

LEMMA HeldSame ==
  ASSUME UNCHANGED <<wr, sealed>>
  PROVE  Held' = Held
BY DEF Held

LEMMA IdleKeeps == KeepLocal(Idle)'
BY DEF KeepLocal, Idle, NoReq, Walking, Ops

LEMMA SavedKept ==
  ASSUME UNCHANGED saved, SaveCaptures
  PROVE  SaveCaptures'
BY DEF SaveCaptures

LEMMA KeepStep ==
  ASSUME IInv, OneGoroutine, NEW p \in Procs, NEW x, g' = [g EXCEPT ![p] = x],
         \A f \in Held' : Chain(f)', SaveCaptures', KeepLocal(x)'
  PROVE  KeepInv'
<1>1. g'[p] = x
  BY DEF IInv, TypeOK
<1>2. \A q \in Procs : KeepLocal(g[q])'
  <2> SUFFICES ASSUME NEW q \in Procs
               PROVE  KeepLocal(g[q])'
    OBVIOUS
  <2>1. q = p
    BY DEF OneGoroutine
  <2> QED
    BY <1>1, <2>1 DEF KeepLocal
<1> QED
  BY <1>2 DEF KeepInv

\* A step that takes no path from where it led.
LEMMA KeepMove ==
  ASSUME IInv, OneGoroutine, KeepInv, HoldsOn, rt'.dir = rt.dir, rt.dir = 0 => rt'.hash = rt.hash,
         UNCHANGED <<wr, sealed, saved>>,
         NEW p \in Procs, NEW x, g' = [g EXCEPT ![p] = x], KeepLocal(x)'
  PROVE  KeepInv'
<1>1. \A f \in Held' : Chain(f)'
  <2> SUFFICES ASSUME NEW f \in Held
               PROVE  Chain(f)'
    BY HeldSame
  <2>1. f \in Paths /\ Chain(f)
    BY DEF KeepInv, Held
  <2> QED
    BY <2>1, ChainsKept
<1>2. SaveCaptures'
  BY SavedKept DEF KeepInv
<1> QED
  BY <1>1, <1>2, KeepStep

LEMMA KeepReturn ==
  ASSUME IInv, OneGoroutine, KeepInv, HoldsOn, rt'.dir = rt.dir, rt.dir = 0 => rt'.hash = rt.hash,
         UNCHANGED <<wr, sealed, saved>>, NEW p \in Procs, Return(p)
  PROVE  KeepInv'
<1>1. PICK x : x = Idle
  OBVIOUS
<1>2. g' = [g EXCEPT ![p] = x] /\ KeepLocal(x)'
  BY <1>1, IdleKeeps DEF Return
<1> QED
  BY <1>2, KeepMove

\* What a Save has to find stays known.
LEMMA MustKept ==
  ASSUME KeepInv, UNCHANGED <<wr, sealed>>, NEW p \in Procs, NEW x,
         x.req = g[p].req, x.must = g[p].must
  PROVE  x.req.op = "save" => \A f \in DOMAIN x.must :
           x.must[f] # NoHash => f \in Held' /\ x.must[f] = Content(f)
BY HeldSame DEF KeepInv, KeepLocal

LEMMA SameHolds ==
  ASSUME IInv, UNCHANGED wr, SameEntries
  PROVE  HoldsOn
BY WritersSame, HoldsSame DEF SameEntries

-----------------------------------------------------------------------------
(* getDir, and what was written *)

LEMMA LoadedKeeps ==
  ASSUME IInv, UNCHANGED wr, NEW k, NEW h, LoadsDir(k, h),
         \A c \in DOMAIN dirs : Entries(c)' = Entries(c)
  PROVE  HoldsOn
BY WritersSame, HoldsSame DEF LoadsDir

\* A replay has the hashes of all its entries.
LEMMA ReplayFull ==
  ASSUME IInv, Replay, rt.readonly, rt.dir # 0
  PROVE  Sums(rt.hash, rt.dir)
<1>1. rt.dir \in DOMAIN dirs
  BY HeapSizes DEF IInv, TypeOK, RtOK
<1>2. rt.hash = DirHash(Marshal(rt.dir))
  BY <1>1 DEF Replay, Named
<1>3. Full(rt.dir)
  BY <1>1, BaseAssumption DEF Replay, ReplayEntry, Full
<1> QED
  BY <1>2, <1>3 DEF Sums

LEMMA BeginHeld ==
  ASSUME IInv, OneGoroutine, OneContent, ContentsOnly, Replay, KeepInv,
         NEW p \in Procs, NEW r \in Requests, Begin(p, r)
  PROVE  KeepInv'
<1>0. PICK x : x = [Idle EXCEPT
         !.req  = r,
         !.must = IF r.op \in {"save", "read"} THEN [f \in Paths |-> sealed[f].now] ELSE @,
         !.stk  = IF r.op \in {"save", "diff"} /\ (~rt.readonly /\ rt.dir # 0)
                    THEN <<RootFrame(rt.dir)>> ELSE @,
         !.at   = IF ~(r.op \in {"save", "diff"}) THEN "getDir"
                  ELSE IF ~rt.readonly /\ rt.dir # 0 THEN "hash" ELSE "rootReady"]
  BY Zenon
<1>1. g' = [g EXCEPT ![p] = x]
  BY <1>0, Zenon DEF Begin
<1>2. /\ x.req = r /\ x.at \in {"getDir", "hash", "rootReady"}
      /\ x.at = "getDir" => r.op \notin {"save", "diff"}
      /\ x.at = "rootReady" => rt.readonly \/ rt.dir = 0
      /\ r.op = "save" => x.must = [f \in Paths |-> sealed[f].now]
  BY <1>0 DEF Idle
<1>3. UNCHANGED <<rt, dirs, wr, sealed, saved>>
  BY DEF Begin, heap, obs
<1>4. SameEntries /\ HoldsOn
  BY <1>3, UnchangedSame, SameHolds
<1>5. rt.dir # 0 => rt.dir \in DOMAIN dirs
  BY HeapSizes DEF IInv, TypeOK, RtOK
<1>6. x.at = "rootReady" => (rt'.dir # 0 => Sums(rt.hash, rt.dir)')
  <2> SUFFICES ASSUME x.at = "rootReady", rt'.dir # 0
               PROVE  Sums(rt.hash, rt.dir)'
    OBVIOUS
  <2>1. rt.dir # 0 /\ Sums(rt.hash, rt.dir)
    BY <1>2, <1>3, ReplayFull
  <2>2. PICK h, d : h = rt.hash /\ d = rt.dir
    OBVIOUS
  <2>3. Sums(h, d)'
    BY <1>4, <1>5, <2>1, <2>2, HeapSame
  <2> QED
    BY <1>3, <2>2, <2>3
<1>7. x.req.op = "save" => \A f \in DOMAIN x.must :
        x.must[f] # NoHash => f \in Held' /\ x.must[f] = Content(f)
  <2> SUFFICES ASSUME r.op = "save", NEW f \in Paths, sealed[f].now # NoHash
               PROVE  f \in Held' /\ sealed[f].now = Content(f)
    BY <1>2
  <2>1. f \in Held
    BY DEF Held
  <2> QED
    BY <1>3, <2>1, HeldContent, HeldSame
<1>8. KeepLocal(x)'
  <2>1. x.at \notin Walking \union {"walk", "diff", "next"}
    BY <1>2 DEF Walking, Ops
  <2> QED
    BY <1>2, <1>6, <1>7, <2>1 DEF KeepLocal
<1> QED
  BY <1>1, <1>3, <1>4, <1>8, KeepMove

LEMMA GetDirHeld ==
  ASSUME IInv, OneGoroutine, KeepInv, NEW loc, NEW fit, Placed(loc, fit), NEW p \in Procs, GetDir(p)
  PROVE  KeepInv'
<1>1. UNCHANGED <<wr, sealed, saved>> /\ g[p].at = "getDir"
  BY DEF GetDir, obs
<1>a. g[p].i = 1 /\ g[p].req.op # "save"
  <2>1. LocalFits(loc, g[p])
    BY DEF Placed
  <2> QED
    BY <1>1, <2>1, LocalFacts DEF LocalFits, Finding
<1>2. CASE Return(p) /\ UNCHANGED <<rt, dirs>>
  <2>1. HoldsOn
    BY <1>1, <1>2, UnchangedSame, SameHolds
  <2> QED
    BY <1>1, <1>2, <2>1, KeepReturn
<1>3. CASE /\ rt.dir # 0 /\ rt' = RootPassed(p) /\ UNCHANGED dirs
           /\ g' = [g EXCEPT ![p].at = "walk", ![p].d = rt.dir]
  <2>1. PICK x : x = [g[p] EXCEPT !.at = "walk", !.d = rt.dir]
    OBVIOUS
  <2>2. /\ g' = [g EXCEPT ![p] = x] /\ x.at = "walk" /\ x.d = rt.dir /\ x.i = g[p].i
        /\ x.req = g[p].req
    BY <1>3, <2>1, LocalRecord
  <2>3. SameEntries /\ rt'.dir = rt.dir /\ HoldsOn
    BY <1>1, <1>3, UnchangedSame, PassedFacts, SameHolds
  <2>4. WalkChain(x)'
    BY <1>a, <2>2, <2>3, WalkBegins
  <2>5. g[p].req.op = "diff" => Full(rt.dir)'
    <3>1. g[p].req.op = "diff" => Full(rt.dir)
      BY <1>1, <1>3 DEF KeepInv, KeepLocal
    <3>2. \A d : Full(d)' = Full(d)
      BY <1>3 DEF Full, Names, Entries
    <3> QED
      BY <2>3, <3>1, <3>2
  <2>6. KeepLocal(x)'
    BY <1>a, <2>2, <2>3, <2>4, <2>5 DEF KeepLocal
  <2> QED
    BY <1>1, <1>3, <2>2, <2>3, <2>6, KeepMove
<1>4. CASE /\ rt.dir = 0 /\ Loadable(rt.hash) /\ UNCHANGED rt
           /\ dirs' = Append(dirs, LoadDir(rt.hash))
           /\ g' = [g EXCEPT ![p].at = "setRootDir", ![p].new = Len(dirs) + 1]
  <2>1. PICK k, h : k = Len(dirs) + 1 /\ h = rt.hash
    OBVIOUS
  <2>2. PICK x : x = [g[p] EXCEPT !.at = "setRootDir", !.new = k]
    OBVIOUS
  <2>3. g' = [g EXCEPT ![p] = x] /\ x.at = "setRootDir" /\ x.req = g[p].req
    BY <1>4, <2>1, <2>2, LocalRecord
  <2>4. LoadsDir(k, h) /\ \A c \in DOMAIN dirs : Entries(c)' = Entries(c)
    <3>1. dirs \in Seq(ToSet(dirs)) /\ dirs' = Append(dirs, LoadDir(h)) /\ Loadable(h)
      BY <1>4, <2>1 DEF IInv, TypeOK, DirsOK
    <3>2. LoadsDir(k, h) /\ \A c \in DOMAIN dirs : dirs'[c] = dirs[c]
      BY <2>1, <3>1, AppendLoads
    <3> QED
      BY <3>2 DEF Entries
  <2>5. HoldsOn
    BY <1>1, <2>4, LoadedKeeps
  <2>6. KeepLocal(x)'
    BY <1>a, <2>3 DEF KeepLocal, Walking, Ops
  <2> QED
    BY <1>1, <1>4, <2>3, <2>5, <2>6, KeepMove
<1> QED
  BY <1>2, <1>3, <1>4 DEF GetDir

\* A directory that was just loaded is as its blob.
LEMMA FreshAsBlob ==
  ASSUME NEW k \in DOMAIN dirs, NEW h, Fresh(k, h)
  PROVE  AsBlob(k, h)
<1>1. PICK m : m = Marshal(k)
  OBVIOUS
<1>2. Listing(h) = m
  BY <1>1 DEF Fresh, Sums, DirHash, Listing
<1>3. /\ DOMAIN m = Names(k)
      /\ \A n \in Names(k) : m[n].kind = Entries(k)[n].kind /\ m[n].hash = Entries(k)[n].hash
  BY <1>1 DEF Marshal
<1> QED
  BY <1>2, <1>3 DEF AsBlob, Fresh

LEMMA SetRootDirHeld ==
  ASSUME IInv, OneGoroutine, OneContent, ContentsOnly, CacheInv, KeepInv,
         NEW loc, NEW fit, Placed(loc, fit), NEW p \in Procs, SetRootDir(p)
  PROVE  KeepInv'
<1>1. PICK x, k, h : x = [g[p] EXCEPT !.at = "walk", !.d = g[p].new] /\ k = g[p].new /\ h = rt.hash
  OBVIOUS
<1>2. /\ UNCHANGED <<dirs, wr, sealed, saved>> /\ g[p].at = "setRootDir"
      /\ g' = [g EXCEPT ![p] = x] /\ x.at = "walk" /\ x.d = k /\ x.i = g[p].i /\ x.req = g[p].req
  BY <1>1, LocalRecord DEF SetRootDir, obs
<1>3. rt'.dir = k
  BY <1>1 DEF SetRootDir, RootPassed, IInv, TypeOK, RtOK
<1>4. rt.dir = 0 /\ Fresh(k, h) /\ k \in DOMAIN dirs /\ k # 0
  BY <1>1, <1>2, LocalFacts, HeapSizes DEF CacheInv, CacheLocal
<1>5. g[p].i = 1 /\ g[p].req.op # "save"
  <2>1. LocalFits(loc, g[p])
    BY DEF Placed
  <2> QED
    BY <1>2, <2>1, LocalFacts DEF LocalFits, Finding
<1>6. \A f \in Held' : Chain(f)'
  <2> SUFFICES ASSUME NEW f \in Held
               PROVE  Chain(f)'
    BY <1>2, HeldSame
  <2>1. f \in Paths /\ HoldsAt(h, f, 0) /\ Content(f) # NoHash
    BY <1>1, <1>4, HeldContent DEF KeepInv, Chain
  <2>2. Len(f) \in Nat /\ Len(f) # 0 /\ 0 \in 0..(Len(f) - 1)
    BY <2>1, PrefixFacts
  <2>3. PICK n : n = f[0 + 1]
    OBVIOUS
  <2>4. n \in Names(k) /\ EntryHolds(wr, f, 0, Entries(k)[n], 0)
    BY <1>4, <2>1, <2>2, <2>3, FreshAsBlob, HoldsLoaded
  <2>5. PICK c : c = [i \in 0..Len(f) |-> IF i = 0 THEN k ELSE 0]
    OBVIOUS
  <2>6. c[0] = k /\ \A i \in 0..Len(f) : i # 0 => c[i] = 0
    BY <2>2, <2>5
  <2>7. ASSUME NEW i \in 0..(Len(f) - 1)
        PROVE  /\ c[i] # 0 => /\ c[i] \in DOMAIN dirs /\ f[i + 1] \in DOMAIN dirs[c[i]].entries
                              /\ EntryHolds(wr, f, i, dirs[c[i]].entries[f[i + 1]], c[i + 1])
               /\ c[i] = 0 => c[i + 1] = 0
    <3>1. c[i + 1] = 0 /\ (i # 0 => c[i] = 0)
      BY <2>2, <2>6
    <3>2. CASE i = 0
      BY <1>4, <2>3, <2>4, <2>6, <3>1, <3>2 DEF Names, Entries
    <3> QED
      BY <3>1, <3>2
  <2>8. ChainIn(dirs, wr, f, c)
    BY <2>7 DEF ChainIn
  <2> QED
    BY <1>2, <1>3, <1>4, <2>6, <2>8 DEF Chain
<1>7. Full(k)'
  BY <1>2, <1>4 DEF Fresh, Sums, Full, Names, Entries
<1>8. WalkChain(x)'
  BY <1>2, <1>3, <1>5, WalkBegins
<1>9. KeepLocal(x)'
  BY <1>2, <1>3, <1>5, <1>7, <1>8 DEF KeepLocal
<1>10. SaveCaptures'
  BY <1>2, SavedKept DEF KeepInv
<1> QED
  BY <1>2, <1>6, <1>9, <1>10, KeepStep
\* Where getDir goes on, the operation is neither a diff, which has no names, nor a save.
LEMMA WalkNotDiff ==
  ASSUME IInv, NEW loc, NEW fit, Placed(loc, fit), NEW p \in Procs,
         g[p].at \in {"walk", "setDir", "mkdir"}, g[p].i <= Len(DirPart(p))
  PROVE  g[p].req.op \notin {"diff", "save"} /\ g[p].i \in Nat \ {0}
<1>1. PICK d, n : d = g[p].d /\ n = DirPart(p)[g[p].i]
  OBVIOUS
<1>2. g[p].i \in 1..Len(Way(g[p].req)) /\ g[p].req \in Requests
  BY <1>1, OnTheWay
<1>3. g[p].req.op # "save"
  BY LocalFacts DEF Finding
<1>4. g[p].req.op = "diff" => g[p].req.path = << >>
  BY <1>2 DEF Requests
<1>5. g[p].req.op = "diff" => Len(Way(g[p].req)) = 0
  BY <1>4 DEF Way
<1>6. g[p].req.op # "diff"
  BY <1>2, <1>5
<1>7. g[p].i \in Nat \ {0}
  BY <1>2, LocalFacts
<1> QED
  BY <1>3, <1>6, <1>7

LEMMA KeepWalk ==
  ASSUME NEW x, x.at \in {"walk", "setDir", "mkdir"}, x.req.op \notin {"diff", "save"},
         WalkChain(x)'
  PROVE  KeepLocal(x)'
BY DEF KeepLocal

LEMMA WalkHeld ==
  ASSUME IInv, OneGoroutine, KeepInv, NEW loc, NEW fit, Placed(loc, fit),
         NEW p \in Procs, Walk(p)
  PROVE  KeepInv'
<1>a. PICK d, n, e, k, f, h :
        /\ d = g[p].d /\ n = DirPart(p)[g[p].i] /\ e = Entries(d)[n] /\ k = Len(dirs) + 1
        /\ f = EntryPassed(p, e) /\ h = e.hash
        /\ Walked(p, d, n, e, k, f, h)
  BY WalkDoes, Zenon
<1>1. PICK i, z : i = g[p].i /\ z = g[p]
  OBVIOUS
<1>2. d = g[p].d /\ n = DirPart(p)[i] /\ e = Entries(d)[n]
  BY <1>1, <1>a
<1>3. f = EntryPassed(p, e)
  BY <1>a, Zenon
<1>4. g[p].at = "walk" /\ i <= Len(DirPart(p)) /\ UNCHANGED <<rt, wr, sealed, saved>>
  <2>1. g[p].at = "walk"
    BY Zenon DEF Walk
  <2>2. i <= Len(DirPart(p))
    BY <1>1, Zenon DEF Walk
  <2>3. UNCHANGED <<rt, wr, obs>>
    BY Zenon DEF Walk
  <2> QED
    BY <2>1, <2>2, <2>3 DEF obs
<1>5. d \in DOMAIN dirs /\ n = g[p].req.path[i] /\ g[p].at \in Walking
  BY <1>1, <1>2, <1>4, OnTheWay DEF Walking
<1>6. g[p].req.op \notin {"diff", "save"} /\ i \in Nat \ {0}
  BY <1>1, <1>4, WalkNotDiff
<1>7. WalkChain(z) /\ z.i = i /\ z.d = d /\ z.req = g[p].req
  BY <1>1, <1>2, <1>5 DEF KeepInv, KeepLocal
<1>8. rt'.dir = rt.dir /\ (rt.dir = 0 => rt'.hash = rt.hash) /\ WritersStay
  BY <1>4, WritersSame
<1>9. CASE SameEntries /\ Return(p)
  BY <1>4, <1>8, <1>9, SameHolds, KeepReturn
<1>10. CASE SameEntries /\ n \notin Names(d) /\ IsWrite(p) /\ Goto(p, "mkdir")
  <2>1. PICK x : x = [g[p] EXCEPT !.at = "mkdir"]
    OBVIOUS
  <2>2. /\ g' = [g EXCEPT ![p] = x] /\ x.at = "mkdir" /\ x.d = d /\ x.req = g[p].req /\ x.i = i
    BY <1>1, <1>2, <1>10, <2>1, LocalRecord DEF Goto
  <2>3. HoldsOn
    BY <1>4, <1>10, SameHolds
  <2>4. WalkChain(x)'
    BY <1>6, <1>7, <1>8, <2>2, <2>3, HoldsPointers, WalkStays
  <2>5. KeepLocal(x)'
    BY <1>6, <2>2, <2>4, KeepWalk
  <2> QED
    BY <1>4, <1>8, <2>2, <2>3, <2>5, KeepMove
<1>11. CASE /\ n \in Names(d) /\ e.kind = "dir" /\ e.dir # 0
            /\ SetsEntry(d, n, f) /\ Advance(p, e.dir)
  <2>1. PICK x, c : x = [g[p] EXCEPT !.at = "walk", !.d = e.dir, !.i = @ + 1] /\ c = e.dir
    OBVIOUS
  <2>2. /\ g' = [g EXCEPT ![p] = x] /\ x.at = "walk" /\ x.d = c /\ x.req = g[p].req
        /\ x.i = i + 1
    BY <1>1, <1>11, <2>1, LocalRecord DEF Advance
  <2>3. e \in EntrySet
    BY <1>2, <1>5, <1>11, EntryFacts
  <2>4. f.kind = "dir" /\ f.dir = c /\ c # 0
    BY <1>3, <1>11, <2>1, <2>3, EntryPassedFacts
  <2>5. SameHold(wr, wr', e, f)
    BY <1>11, <2>1, <2>4 DEF SameHold
  <2>6. Edited(d, n) /\ Entries(d)'[n] = f /\ n \in Names(d)' /\ d \in DOMAIN dirs'
    BY <1>5, <1>11, SetsEdited DEF SetsEntry
  <2>7. HoldsOn
    BY <1>2, <1>8, <2>5, <2>6, HoldsEdited
  <2>8. WalkChain(x)'
    <3>1. z.req.path[i] = n /\ Entries(d)'[n].kind = "dir" /\ Entries(d)'[n].dir = c
      BY <1>5, <1>7, <2>4, <2>6
    <3>2. PointersStay /\ x.req = z.req
      BY <1>7, <2>2, <2>7, HoldsPointers
    <3> QED
      BY <1>6, <1>7, <1>8, <2>2, <2>4, <2>6, <3>1, <3>2, WalkGoesOn
  <2>9. KeepLocal(x)'
    BY <1>6, <2>2, <2>8, KeepWalk
  <2> QED
    BY <1>4, <1>8, <2>2, <2>7, <2>9, KeepMove
<1>12. CASE /\ n \in Names(d) /\ e.kind = "dir" /\ e.dir = 0
            /\ LoadsDir(k, h) /\ \A c \in DOMAIN dirs : Entries(c)' = Entries(c)
            /\ g' = [g EXCEPT ![p].at = "setDir", ![p].new = k, ![p].id = e.id]
  <2>1. PICK x : x = [g[p] EXCEPT !.at = "setDir", !.new = k, !.id = e.id]
    OBVIOUS
  <2>2. /\ g' = [g EXCEPT ![p] = x] /\ x.at = "setDir" /\ x.d = d /\ x.req = g[p].req /\ x.i = i
    BY <1>1, <1>2, <1>12, <2>1, LocalRecord
  <2>3. HoldsOn
    BY <1>4, <1>12, LoadedKeeps
  <2>4. WalkChain(x)'
    BY <1>6, <1>7, <1>8, <2>2, <2>3, HoldsPointers, WalkStays
  <2>5. KeepLocal(x)'
    BY <1>6, <2>2, <2>4, KeepWalk
  <2> QED
    BY <1>4, <1>8, <2>2, <2>3, <2>5, KeepMove
<1> QED
  BY <1>a, <1>9, <1>10, <1>11, <1>12, Zenon DEF Walked

LEMMA ArriveHeld ==
  ASSUME IInv, OneGoroutine, KeepInv, NEW loc, NEW fit, Placed(loc, fit), NEW p \in Procs,
         Arrive(p)
  PROVE  KeepInv'
<1>1. PICK d, l, z : d = g[p].d /\ l = g[p].req.op /\ z = g[p]
  OBVIOUS
<1>2. /\ g[p].at = "walk" /\ UNCHANGED <<rt, wr, sealed, saved>> /\ dirs' = DirPassed(p, d)
      /\ g' = [g EXCEPT ![p].at = l]
  BY <1>1 DEF Arrive, Goto, obs
<1>3. d \in DOMAIN dirs /\ l \in Ops \ {"save"}
  BY <1>1, <1>2, LocalFacts, WayFacts DEF Walking, Finding, Labels
<1>4. SameEntries /\ HoldsOn
  BY <1>2, <1>3, PassedSame, SameHolds
<1>5. PICK x : x = [g[p] EXCEPT !.at = l]
  OBVIOUS
<1>6. g' = [g EXCEPT ![p] = x] /\ x.at = l /\ x.d = d /\ x.req = g[p].req /\ x.i = g[p].i
  BY <1>1, <1>2, <1>5, LocalRecord
<1>7. WalkChain(x)'
  <2>1. WalkChain(z) /\ z.d = d /\ z.req = g[p].req /\ z.i = g[p].i
    BY <1>1, <1>2 DEF KeepInv, KeepLocal, Walking
  <2>2. LocalFits(loc, z)
    BY <1>1 DEF Placed
  <2>3. z.i \in Nat \ {0}
    BY <1>1, <1>2, <2>2, LocalFacts, WayFacts DEF LocalFits, Walking
  <2> QED
    BY <1>2, <1>4, <1>6, <2>1, <2>3, HoldsPointers, WalkStays
<1>8. l = "diff" => d = rt.dir /\ Full(rt.dir)'
  <2> SUFFICES ASSUME l = "diff"
               PROVE  d = rt.dir /\ Full(rt.dir)'
    OBVIOUS
  <2>1. d = rt.dir /\ Full(rt.dir)
    BY <1>1, <1>2 DEF KeepInv, KeepLocal
  <2>2. Full(d)'
    BY <1>3, <1>4, <2>1 DEF Full, SameEntries, Names
  <2> QED
    BY <1>2, <2>1, <2>2
<1>9. KeepLocal(x)'
  BY <1>1, <1>2, <1>3, <1>6, <1>7, <1>8 DEF KeepLocal, Ops
<1> QED
  BY <1>2, <1>4, <1>6, <1>9, KeepMove
\* A path goes on through what hangs from an entry that has no directory in memory.
LEMMA CutHolds ==
  ASSUME NEW f, Len(f) \in Nat, NEW c, ChainIn(dirs, wr, f, c), NEW d, d # 0, NEW n, NEW h,
         Entries(d)[n].dir = 0, Entries(d)[n].hash = h
  PROVE  HoldsBelow(f, c, d, n, h)
<1> SUFFICES ASSUME NEW i \in 0..(Len(f) - 1), i + 1 < Len(f), c[i] = d, f[i + 1] = n
             PROVE  HoldsAt(h, f, i + 1)
  BY DEF HoldsBelow
<1>1. EntryHolds(wr, f, i, Entries(d)[n], c[i + 1])
  BY DEF ChainIn, Entries
<1> QED
  BY <1>1 DEF EntryHolds

LEMMA SetDirHeld ==
  ASSUME IInv, OneGoroutine, OneContent, ContentsOnly, CacheInv, KeepInv,
         NEW loc, NEW fit, Placed(loc, fit),
         NEW p \in Procs, SetDir(p), g[p].i <= Len(DirPart(p))
  PROVE  KeepInv'
<1>1. PICK d, i, k, z : d = g[p].d /\ i = g[p].i /\ k = g[p].new /\ z = g[p]
  OBVIOUS
<1>2. PICK n : n = DirPart(p)[i]
  OBVIOUS
<1>3. PICK e, h : e = Entries(d)[n] /\ h = e.hash
  OBVIOUS
<1>4. PICK f : f = EntryPassed(p, e)
  OBVIOUS
<1>5. PICK y : y = [f EXCEPT !.dir = k]
  OBVIOUS
<1>6. g[p].at = "setDir" /\ UNCHANGED <<rt, wr, sealed, saved>> /\ Advance(p, k)
  BY <1>1 DEF SetDir, obs
<1>7. /\ d \in DOMAIN dirs /\ n = g[p].req.path[i] /\ g[p].at \in Walking
      /\ n \in Names(d) /\ e \in EntrySet /\ e.kind = "dir"
  BY <1>1, <1>2, <1>3, <1>6, OnTheWay, EntryFacts DEF Walking
<1>8. /\ e.dir = 0 /\ e.id = g[p].id /\ d < k /\ Fresh(k, h)
      /\ k \in DOMAIN dirs /\ k # d /\ k # 0 /\ d # 0 /\ rt.dir # 0
  <2>1. e.dir = 0 /\ e.id = g[p].id /\ d < k /\ Fresh(k, h)
    BY <1>1, <1>3, <1>6, <1>7 DEF CacheInv, CacheLocal
  <2>2. k \in DOMAIN dirs
    BY <1>1, <1>6, LocalFacts
  <2>3. k # d /\ k # 0 /\ d # 0
    BY <1>7, <2>1, <2>2, HeapSizes
  <2>4. rt.dir # 0
    BY <1>7 DEF IInv, TypeOK, LocalOK
  <2> QED
    BY <2>1, <2>2, <2>3, <2>4
<1>9. y.dir = k /\ y.kind = "dir"
  <2>1. f.kind = e.kind
    BY <1>3, <1>4, <1>7, EntryPassedFacts
  <2>2. f \in [kind : {f.kind}, hash : {f.hash}, dir : {f.dir}, id : {f.id}, file : {f.file},
               fhash : {f.fhash}, blobW : {f.blobW}]
    BY <1>4, <1>7 DEF EntryPassed, EntrySet
  <2> QED
    BY <1>5, <1>7, <2>1, <2>2
<1>10. SetsEntry(d, n, y)
  <2>1. dirs' = SetEntry(dirs, d, n, y)
    <3>1. e.id = g[p].id
      BY <1>8
    <3> QED
      BY <1>1, <1>2, <1>3, <1>4, <1>5, <3>1 DEF SetDir, Update, SetEntry
  <2>2. SetIn(dirs', d, n, y)
    BY <1>7, <2>1, SetInPassed
  <2> QED
    BY <2>2, SetInSets
<1>11. Edited(d, n) /\ Entries(d)'[n] = y /\ n \in Names(d)' /\ d \in DOMAIN dirs'
  BY <1>7, <1>10, SetsEdited DEF SetsEntry
<1>12. AsBlob(k, h)'
  <2>1. AsBlob(k, h)
    BY <1>8, FreshAsBlob
  <2>2. k \in DOMAIN dirs' /\ Entries(k)' = Entries(k) /\ Names(k)' = Names(k)
    BY <1>8, <1>10 DEF SetsEntry, Names
  <2> QED
    BY <2>1, <2>2 DEF AsBlob
<1>13. PointersStay
  <2> SUFFICES ASSUME NEW b \in DOMAIN dirs, NEW m \in Names(b),
                      Entries(b)[m].kind = "dir", Entries(b)[m].dir # 0
               PROVE  /\ m \in Names(b)' /\ Entries(b)'[m].kind = "dir"
                      /\ Entries(b)'[m].dir = Entries(b)[m].dir
    BY <1>10 DEF PointersStay, SetsEntry
  <2>1. b # d \/ m # n
    BY <1>3, <1>8
  <2> QED
    BY <1>10, <2>1 DEF SetsEntry, Names
<1>14. WritersStay
  BY <1>6, WritersSame
<1>15. \A q \in Held' : Chain(q)'
  <2> SUFFICES ASSUME NEW q \in Held
               PROVE  Chain(q)'
    BY <1>6, HeldSame
  <2>1. q \in Paths /\ Chain(q) /\ Content(q) # NoHash
    BY HeldContent DEF KeepInv
  <2>2. PICK c : c[0] = rt.dir /\ ChainIn(dirs, wr, q, c)
    BY <1>8, <2>1 DEF Chain
  <2>3. Len(q) \in Nat
    BY <2>1, PrefixFacts
  <2>4. HoldsBelow(q, c, d, n, h)
    BY <1>3, <1>8, <2>2, <2>3, CutHolds
  <2>5. Cut(d, n, y, k, h)
    BY <1>3, <1>7, <1>8, <1>9, <1>11, <1>12, Zenon DEF Cut
  <2>6. PICK a : a[0] = c[0] /\ ChainIn(dirs', wr', q, a)
    BY <1>14, <2>1, <2>2, <2>4, <2>5, ChainCut
  <2> QED
    BY <1>6, <1>8, <2>2, <2>6 DEF Chain
<1>16. SaveCaptures'
  BY <1>6, SavedKept DEF KeepInv
<1>17. PICK x : x = [g[p] EXCEPT !.at = "walk", !.d = k, !.i = @ + 1]
  OBVIOUS
<1>18. /\ g' = [g EXCEPT ![p] = x] /\ x.at = "walk" /\ x.d = k /\ x.req = g[p].req
       /\ x.i = i + 1
  BY <1>1, <1>6, <1>17, LocalRecord DEF Advance
<1>19. g[p].req.op \notin {"diff", "save"} /\ i \in Nat \ {0}
  BY <1>1, <1>6, WalkNotDiff
<1>20. WalkChain(x)'
  <2>1. WalkChain(z) /\ z.i = i /\ z.d = d /\ z.req = g[p].req
    BY <1>1, <1>7 DEF KeepInv, KeepLocal
  <2>2. z.req.path[i] = n /\ Entries(d)'[n].kind = "dir" /\ Entries(d)'[n].dir = k
    BY <1>7, <1>9, <1>11, <2>1
  <2>3. rt'.dir = rt.dir /\ x.req = z.req
    BY <1>6, <1>18, <2>1
  <2> QED
    BY <1>8, <1>11, <1>13, <1>18, <1>19, <2>1, <2>2, <2>3, WalkGoesOn
<1>21. KeepLocal(x)'
  BY <1>18, <1>19, <1>20, KeepWalk
<1> QED
  BY <1>15, <1>16, <1>18, <1>21, KeepStep

LEMMA MkdirHeld ==
  ASSUME IInv, OneGoroutine, CacheInv, KeepInv, NEW loc, NEW fit, Placed(loc, fit),
         NEW p \in Procs, Mkdir(p), g[p].i <= Len(DirPart(p))
  PROVE  KeepInv'
<1>1. PICK d, i, k, z : d = g[p].d /\ i = g[p].i /\ k = Len(dirs) + 1 /\ z = g[p]
  OBVIOUS
<1>2. PICK n : n = DirPart(p)[i]
  OBVIOUS
<1>3. PICK y : y = NewDirEntry(k)
  OBVIOUS
<1>4. y.dir = k /\ y.kind = "dir"
  BY <1>3, Zenon DEF NewDirEntry
<1>5. g[p].at = "mkdir" /\ UNCHANGED <<rt, wr, sealed, saved>> /\ Advance(p, k)
  BY <1>1 DEF Mkdir, obs
<1>6. d \in DOMAIN dirs /\ n = g[p].req.path[i] /\ g[p].at \in Walking
  BY <1>1, <1>2, <1>5, OnTheWay DEF Walking
<1>7. n \notin Names(d)
  BY <1>1, <1>5, <1>6 DEF CacheInv, CacheLocal
<1>8. PICK ds : ds = Store(d, n, y)
  OBVIOUS
<1>9. SetIn(ds, d, n, y)
  BY <1>6, <1>8, SetInStore
<1>10. /\ DOMAIN dirs = 1..Len(dirs) /\ Len(dirs) \in Nat /\ DOMAIN ds = 1..Len(dirs)
       /\ Len(ds) = Len(dirs)
  BY <1>9, HeapSizes, SeqFacts DEF SetIn
<1>11. /\ DOMAIN dirs' = 1..(Len(dirs) + 1) /\ dirs'[k] = EmptyDir
       /\ \A c \in DOMAIN dirs : dirs'[c] = ds[c]
  <2>1. PICK e : e = EmptyDir
    OBVIOUS
  <2>2. dirs' = Append(ds, e)
    BY <1>1, <1>2, <1>3, <1>8, <2>1 DEF Mkdir
  <2>3. ds \in Seq(ToSet(ds))
    BY <1>9 DEF SetIn
  <2> QED
    BY <1>1, <1>10, <2>1, <2>2, <2>3, SeqFacts
<1>12. Names(k)' = {}
  BY <1>11 DEF Names, Entries, EmptyDir
<1>13. Edited(d, n) /\ Entries(d)'[n] = y /\ n \in Names(d)' /\ d \in DOMAIN dirs'
  BY <1>1, <1>6, <1>9, <1>10, <1>11, <1>12 DEF SetIn, Edited, Entries, Names
<1>14. HoldsOn
  <2>1. WritersStay
    BY <1>5, WritersSame
  <2> QED
    BY <1>7, <1>13, <2>1, HoldsEdited
<1>15. k # 0
  BY <1>1, <1>10
<1>16. PICK x : x = [g[p] EXCEPT !.at = "walk", !.d = k, !.i = @ + 1]
  OBVIOUS
<1>17. /\ g' = [g EXCEPT ![p] = x] /\ x.at = "walk" /\ x.d = k /\ x.req = g[p].req
       /\ x.i = i + 1
  BY <1>1, <1>5, <1>16, LocalRecord DEF Advance
<1>18. g[p].req.op \notin {"diff", "save"} /\ i \in Nat \ {0}
  BY <1>1, <1>5, WalkNotDiff
<1>19. WalkChain(x)'
  <2>1. WalkChain(z) /\ z.i = i /\ z.d = d /\ z.req = g[p].req
    BY <1>1, <1>6 DEF KeepInv, KeepLocal
  <2>2. z.req.path[i] = n /\ Entries(d)'[n].kind = "dir" /\ Entries(d)'[n].dir = k
    BY <1>4, <1>6, <1>13, <2>1
  <2>3. rt'.dir = rt.dir /\ x.req = z.req /\ PointersStay
    BY <1>5, <1>14, <1>17, <2>1, HoldsPointers
  <2> QED
    BY <1>13, <1>15, <1>17, <1>18, <2>1, <2>2, <2>3, WalkGoesOn
<1>20. KeepLocal(x)'
  BY <1>17, <1>18, <1>19, KeepWalk
<1>21. rt'.dir = rt.dir /\ (rt.dir = 0 => rt'.hash = rt.hash)
  BY <1>5
<1> QED
  BY <1>5, <1>14, <1>17, <1>20, <1>21, KeepMove

-----------------------------------------------------------------------------
(* The operations on files, and what was written *)
\* A path whose directories are all in memory, and that ends in a file with a hash.
EndsIn(ds, ws, d, n) ==
  /\ d \in DOMAIN ds /\ n \in DOMAIN ds[d].entries
  /\ ds[d].entries[n].kind = "file" /\ HashIn(ws, ds[d].entries[n]) # NoHash

LEMMA WayArrives ==
  ASSUME NEW q, NEW l \in Nat \ {0}, Len(q) = l, NEW ds, 0 \notin DOMAIN ds, NEW ws,
         NEW c, WayIn(ds, q, l - 1, c), EndsIn(ds, ws, c[l - 1], q[l])
  PROVE  \E a : a[0] = c[0] /\ ChainIn(ds, ws, q, a)
<1>0. PICK d, n, y : d = c[l - 1] /\ n = q[l] /\ y = ds[d].entries[n]
  OBVIOUS
<1> /\ c[l - 1] = d /\ q[l] = n /\ d \in DOMAIN ds /\ n \in DOMAIN ds[d].entries
    /\ ds[d].entries[n] = y /\ y.kind = "file" /\ HashIn(ws, y) # NoHash
  BY <1>0 DEF EndsIn
<1>1. PICK a : a = [j \in 0..l |-> IF j = l THEN 0 ELSE c[j]]
  OBVIOUS
<1>2. a[l] = 0 /\ \A j \in 0..l : j < l => a[j] = c[j]
  BY <1>1
<1>3. ASSUME NEW j \in 0..(Len(q) - 1)
      PROVE  /\ a[j] # 0 => /\ a[j] \in DOMAIN ds /\ q[j + 1] \in DOMAIN ds[a[j]].entries
                            /\ EntryHolds(ws, q, j, ds[a[j]].entries[q[j + 1]], a[j + 1])
             /\ a[j] = 0 => a[j + 1] = 0
  <2>1. CASE j = l - 1
    <3>1. a[j] = d /\ a[j + 1] = 0 /\ q[j + 1] = n /\ j + 1 = Len(q)
      BY <1>2, <2>1
    <3>2. EntryHolds(ws, q, j, y, 0)
      BY <3>1 DEF EntryHolds
    <3> QED
      BY <3>1, <3>2
  <2>2. CASE j # l - 1
    <3>1. j \in 0..((l - 1) - 1) /\ j + 1 < Len(q)
      BY <2>2
    <3>2. a[j] = c[j] /\ a[j + 1] = c[j + 1]
      BY <1>2, <2>2
    <3>3. PICK b, m : b = a[j] /\ m = q[j + 1]
      OBVIOUS
    <3>4. /\ b \in DOMAIN ds /\ m \in DOMAIN ds[b].entries
          /\ ds[b].entries[m].kind = "dir"
          /\ ds[b].entries[m].dir = a[j + 1] /\ a[j + 1] # 0
      BY <3>1, <3>2, <3>3 DEF WayIn
    <3>5. EntryHolds(ws, q, j, ds[b].entries[m], a[j + 1])
      BY <3>1, <3>4 DEF EntryHolds
    <3>6. a[j] # 0
      BY <3>3, <3>4
    <3> QED
      BY <3>3, <3>4, <3>5, <3>6
  <2> QED
    BY <2>1, <2>2
<1>4. ChainIn(ds, ws, q, a)
  BY <1>3 DEF ChainIn
<1>5. a[0] = c[0]
  BY <1>2
<1> QED
  BY <1>4, <1>5
\* A file with a hash is put at the path of a request.
LEMMA PutHeld ==
  ASSUME IInv, OneGoroutine, KeepInv, NEW loc, NEW fit, Placed(loc, fit), NEW p \in Procs,
         Return(p), UNCHANGED <<rt, saved>>, WritersStay, g[p].at \in {"write", "link"},
         NEW d, d = g[p].d, NEW n, n = FileName(p), NEW y, SetsEntry(d, n, y), y.kind = "file",
         n \in Names(d) => Entries(d)[n].kind = "file", HashIn(wr', y) # NoHash,
         NEW q, q = g[p].req.path, Held' \subseteq Held \union {q}
  PROVE  KeepInv'
<1>1. PICK z, r, i : z = g[p] /\ r = g[p].req /\ i = g[p].i
  OBVIOUS
<1>2. /\ d \in DOMAIN dirs /\ r \in Requests /\ r.op \in {"write", "link"} /\ z.at \in Walking
  BY <1>1, FilePlace DEF Walking, Ops
<1>3. LocalFits(loc, z)
  BY <1>1 DEF Placed
<1>4. i = Len(q) /\ n = q[i] /\ i \in Nat \ {0} /\ q \in Paths
  <2>1. /\ Len(r.path) = Len(Way(r)) + 1 /\ Last(r.path) = r.path[Len(Way(r)) + 1]
        /\ Len(Way(r)) \in Nat /\ r.path \in Paths
    BY <1>2, WayFacts
  <2>2. i = Len(Way(r)) + 1
    BY <1>1, <1>2, <1>3 DEF LocalFits, Ops
  <2> QED
    BY <1>1, <2>1, <2>2 DEF FileName
<1>5. HoldsOn
  <2>1. Edited(d, n) /\ Entries(d)'[n] = y
    BY SetsEdited DEF SetsEntry
  <2>2. n \in Names(d) => SameHold(wr, wr', Entries(d)[n], y)
    BY DEF SameHold
  <2> QED
    BY <2>1, <2>2, HoldsEdited
<1>6. rt.dir # 0
  BY <1>1, <1>2 DEF IInv, TypeOK, LocalOK
<1>7. Chain(q)'
  <2>1. WalkChain(z)
    BY <1>1, <1>2 DEF KeepInv, KeepLocal
  <2>2. PICK c : c[0] = rt.dir /\ c[i - 1] = d /\ WayIn(dirs, q, i - 1, c)
    BY <1>1, <2>1 DEF WalkChain
  <2>3. PICK ds, ws : ds = dirs' /\ ws = wr'
    OBVIOUS
  <2>4. WayIn(ds, q, i - 1, c)
    <3>1. i - 1 \in Nat /\ PointersStay
      BY <1>4, <1>5, HoldsPointers
    <3> QED
      BY <2>2, <2>3, <3>1, WayKept
  <2>5. d \in DOMAIN ds /\ n \in DOMAIN ds[d].entries /\ ds[d].entries[n] = y
    BY <2>3 DEF SetsEntry, Names, Entries
  <2>6. 0 \notin DOMAIN ds
    BY <2>3, HeapSizes DEF SetsEntry
  <2>7. EndsIn(ds, ws, d, n) /\ Len(q) = i
    BY <1>4, <2>3, <2>5 DEF EndsIn
  <2>8. PICK a : a[0] = c[0] /\ ChainIn(ds, ws, q, a)
    <3>1. EndsIn(ds, ws, c[i - 1], q[i])
      BY <1>4, <2>2, <2>7
    <3> QED
      BY <1>4, <2>4, <2>6, <2>7, <3>1, WayArrives
  <2> QED
    BY <1>6, <2>2, <2>3, <2>8 DEF Chain
<1>8. \A f \in Held' : Chain(f)'
  <2> SUFFICES ASSUME NEW f \in Held
               PROVE  Chain(f)'
    BY <1>7
  <2>1. f \in Paths /\ Chain(f)
    BY DEF KeepInv, Held
  <2> QED
    BY <1>5, <1>6, <2>1, ChainsKept
<1>9. SaveCaptures'
  BY SavedKept DEF KeepInv
<1>10. PICK x : x = Idle
  OBVIOUS
<1>11. g' = [g EXCEPT ![p] = x] /\ KeepLocal(x)'
  BY <1>10, IdleKeeps DEF Return
<1> QED
  BY <1>8, <1>9, <1>11, KeepStep

LEMMA WriteHeld ==
  ASSUME IInv, OneGoroutine, ContentsOnly, KeepInv, NEW loc, NEW fit, Placed(loc, fit),
         NEW p \in Procs, Write(p)
  PROVE  KeepInv'
<1>1. PICK d, n, y : d = g[p].d /\ n = FileName(p) /\ Wrote(p, d, n, y)
  BY WriteDoes, Zenon
<1>2. Return(p) /\ UNCHANGED <<rt, saved>> /\ g[p].at = "write"
  BY DEF Write
<1>3. PICK q, h : q = g[p].req.path /\ h = g[p].req.arg
  OBVIOUS
<1>4. q \in Paths /\ h # NoHash /\ d \in DOMAIN dirs
  <2>1. g[p].req \in Requests /\ g[p].req.op = "write" /\ d \in DOMAIN dirs
    BY <1>1, <1>2, FilePlace
  <2> QED
    BY <1>3, <2>1, RequestContents, ContentsNotEmpty
<1>5. CASE SameEntries /\ UNCHANGED <<wr, sealed>>
  BY <1>2, <1>5, SameHolds, KeepReturn
<1>6. CASE /\ n \in Names(d) => Entries(d)[n].kind = "file"
           /\ SetsEntry(d, n, y) /\ y.kind = "file" /\ y.dir = 0 /\ y.file
           /\ y.blobW = Len(wr) + 1
           /\ wr' = Append(wr, [path |-> q, hash |-> h, st |-> "open"])
           /\ sealed' = [sealed EXCEPT ![q].now = NoHash]
  <2>1. PICK x : x = [path |-> q, hash |-> h, st |-> "open"]
    OBVIOUS
  <2>2. wr \in Seq(ToSet(wr)) /\ wr' = Append(wr, x) /\ x.path = q /\ x.hash = h
    BY <1>6, <2>1, WritersFacts
  <2>3. /\ DOMAIN wr' = 1..(Len(wr) + 1) /\ wr'[Len(wr) + 1] = x
        /\ \A v \in DOMAIN wr : wr'[v] = wr[v]
        /\ DOMAIN wr = 1..Len(wr) /\ Len(wr) \in Nat
    BY <2>2, SeqFacts
  <2>4. WritersStay
    BY <2>3 DEF WritersStay
  <2>5. HashIn(wr', y) # NoHash
    BY <1>4, <1>6, <2>2, <2>3 DEF HashIn
  <2>6. Held' \subseteq Held \union {q}
    <3>1. \A f \in Paths : f # q => sealed'[f] = sealed[f]
      <4>1. DOMAIN sealed = Paths
        BY DEF Placed, WrittenOnce
      <4> QED
        BY <1>6, <4>1
    <3>2. \A v \in DOMAIN wr' : wr'[v].path = q \/ (v \in DOMAIN wr /\ wr'[v].path = wr[v].path)
      BY <2>2, <2>3
    <3> QED
      BY <3>1, <3>2 DEF Held
  <2> QED
    BY <1>1, <1>2, <1>3, <1>6, <2>4, <2>5, <2>6, PutHeld
<1>7. CASE /\ n \in Names(d) => Entries(d)[n].kind = "file"
           /\ SetsEntry(d, n, y) /\ y.kind = "file" /\ y.dir = 0 /\ y.file
           /\ UNCHANGED <<wr, sealed>>
           /\ n \in Names(d) => y.blobW = Entries(d)[n].blobW
           /\ n \in Names(d) =>
                y.fhash = IF Entries(d)[n].file THEN Entries(d)[n].fhash ELSE Entries(d)[n].hash
  <2>1. Edited(d, n) /\ Entries(d)'[n] = y
    BY <1>7, SetsEdited DEF SetsEntry
  <2>2. ASSUME n \in Names(d)
        PROVE  SameHold(wr, wr', Entries(d)[n], y)
    <3>1. PICK e : e = Entries(d)[n]
      OBVIOUS
    <3>2. e \in EntrySet /\ e.kind = "file"
      BY <1>4, <1>7, <2>2, <3>1, EntryFacts
    <3>3. e.blobW # 0 => e.blobW \in DOMAIN wr
      BY <3>2, HeapSizes DEF EntrySet
    <3>4. e.blobW # 0 => wr[e.blobW].hash # NoHash
      BY <3>3, ContentsNotEmpty DEF ContentsOnly
    <3>5. y.blobW = e.blobW /\ y.fhash = IF e.file THEN e.fhash ELSE e.hash
      BY <1>7, <2>2, <3>1
    <3>6. HashIn(wr, e) # NoHash => HashIn(wr, y) # NoHash
      BY <1>7, <3>4, <3>5 DEF HashIn
    <3> QED
      BY <1>7, <3>1, <3>2, <3>6 DEF SameHold
  <2>3. HoldsOn
    BY <1>7, <2>1, <2>2, WritersSame, HoldsEdited
  <2> QED
    BY <1>2, <1>7, <2>3, KeepReturn
<1> QED
  BY <1>1, <1>3, <1>5, <1>6, <1>7, Zenon DEF Wrote

LEMMA LinkHeld ==
  ASSUME IInv, OneGoroutine, KeepInv, NEW loc, NEW fit, Placed(loc, fit),
         NEW p \in Procs, Link(p)
  PROVE  KeepInv'
<1>1. PICK d, n, y : d = g[p].d /\ n = FileName(p) /\ Linked(p, d, n, y)
  BY LinkDoes, Zenon
<1>2. Return(p) /\ UNCHANGED <<rt, wr, saved>> /\ g[p].at = "link"
  BY DEF Link
<1>3. PICK q, h : q = g[p].req.path /\ h = g[p].req.arg
  OBVIOUS
<1>4. h # NoHash
  <2>1. g[p].req \in Requests /\ g[p].req.op = "link"
    BY <1>1, <1>2, FilePlace
  <2> QED
    BY <1>3, <2>1, RequestContents, ContentsNotEmpty
<1>5. CASE SameEntries /\ UNCHANGED sealed
  BY <1>2, <1>5, SameHolds, KeepReturn
<1>6. CASE /\ n \in Names(d) => Entries(d)[n].kind = "file"
           /\ SetsEntry(d, n, y) /\ y.kind = "file" /\ y.dir = 0 /\ y.file /\ y.blobW = 0
           /\ y.fhash = h
           /\ sealed' = [sealed EXCEPT ![q] = [now |-> h, ever |-> @.ever \union {h}]]
  <2>1. WritersStay
    BY <1>2, WritersSame
  <2>2. HashIn(wr', y) # NoHash
    BY <1>4, <1>6 DEF HashIn
  <2>3. Held' \subseteq Held \union {q}
    <3>1. DOMAIN sealed = Paths
      BY DEF Placed, WrittenOnce
    <3>2. \A f \in Paths : f # q => sealed'[f] = sealed[f]
      BY <1>6, <3>1
    <3> QED
      BY <1>2, <3>2 DEF Held
  <2> QED
    BY <1>1, <1>2, <1>3, <1>6, <2>1, <2>2, <2>3, PutHeld
<1> QED
  BY <1>1, <1>3, <1>5, <1>6, Zenon DEF Linked
\* The hash of a File goes into its entry.
LEMMA HashedHolds ==
  ASSUME IInv, ContentsOnly, UNCHANGED wr, NEW d, NEW n, n \in Names(d), NEW e, e = Entries(d)[n],
         e.kind = "file", ~HashFileFails(e), NEW y, y = HashFile(e), SetsEntry(d, n, y)
  PROVE  HoldsOn
<1>1. Edited(d, n) /\ Entries(d)'[n] = y
  BY SetsEdited DEF SetsEntry
<1>2. e \in EntrySet
  BY EntryFacts DEF SetsEntry
<1>3. y.hash # NoHash /\ y.kind = "file"
  BY <1>2, HashedFileHash
<1>4. y.hash = FileHashOf(e) /\ y.fhash = FileHashOf(e) /\ y.blobW = 0
  BY <1>2 DEF HashFile, EntrySet
<1>5. HashIn(wr', y) # NoHash
  BY <1>3, <1>4 DEF HashIn
<1>6. SameHold(wr, wr', e, y)
  BY <1>3, <1>5 DEF SameHold
<1> QED
  BY <1>1, <1>6, WritersSame, HoldsEdited

LEMMA ReadHeld ==
  ASSUME IInv, OneGoroutine, ContentsOnly, KeepInv, NEW loc, NEW fit, Placed(loc, fit),
         NEW p \in Procs, Read(p)
  PROVE  KeepInv'
<1>1. PICK d, n, y : d = g[p].d /\ n = FileName(p) /\ ReadDone(d, n, y)
  BY ReadDoes, Zenon
<1>2. Return(p) /\ UNCHANGED <<rt, wr, sealed, saved>>
  BY DEF Read
<1>3. CASE SameEntries
  BY <1>2, <1>3, SameHolds, KeepReturn
<1>4. CASE /\ n \in Names(d) /\ Entries(d)[n].kind = "file" /\ ~HashFileFails(Entries(d)[n])
           /\ SetsEntry(d, n, y) /\ y = HashFile(Entries(d)[n])
  <2>1. HoldsOn
    BY <1>2, <1>4, HashedHolds
  <2> QED
    BY <1>2, <2>1, KeepReturn
<1> QED
  BY <1>1, <1>3, <1>4, Zenon DEF ReadDone

LEMMA ListHeld ==
  ASSUME IInv, OneGoroutine, KeepInv, NEW p \in Procs, List(p)
  PROVE  KeepInv'
<1>1. UNCHANGED <<rt, dirs, wr, sealed, saved>> /\ Return(p)
  BY DEF List, heap, obs
<1> QED
  BY <1>1, UnchangedSame, SameHolds, KeepReturn

-----------------------------------------------------------------------------
(* hashDir, and what was written *)

\* hashDir goes on, at a place where only a Save remembers something.
LEMMA HashGoesOn ==
  ASSUME KeepInv, UNCHANGED <<wr, sealed>>, NEW p \in Procs, NEW x,
         x.at \in {"hash", "hashed"}, x.req = g[p].req, x.must = g[p].must
  PROVE  KeepLocal(x)'
<1>1. x.req.op = "save" => \A f \in DOMAIN x.must :
        x.must[f] # NoHash => f \in Held' /\ x.must[f] = Content(f)
  BY MustKept
<1> QED
  BY <1>1 DEF KeepLocal, Walking, Ops

LEMMA ResumeHeld ==
  ASSUME IInv, KeepInv, UNCHANGED <<wr, sealed>>, NEW p \in Procs, NEW u, Resume(p, u)
  PROVE  \E x : g' = [g EXCEPT ![p] = x] /\ KeepLocal(x)'
<1>1. CASE u = << >>
  <2>1. PICK x : x = Idle
    OBVIOUS
  <2>2. g' = [g EXCEPT ![p] = x] /\ KeepLocal(x)'
    BY <1>1, <2>1, IdleKeeps DEF Resume, Return
  <2> QED
    BY <2>2
<1>2. CASE u # << >>
  <2>1. PICK x : x = [g[p] EXCEPT !.at = "hash", !.stk = u]
    OBVIOUS
  <2>2. /\ g' = [g EXCEPT ![p] = x] /\ x.at = "hash" /\ x.req = g[p].req
        /\ x.must = g[p].must
    BY <1>2, <2>1, LocalRecord DEF Resume
  <2>3. KeepLocal(x)'
    BY <2>2, HashGoesOn
  <2> QED
    BY <2>2, <2>3
<1> QED
  BY <1>1, <1>2

LEMMA HashEntryHeld ==
  ASSUME IInv, OneGoroutine, ContentsOnly, KeepInv, NEW p \in Procs,
         UNCHANGED <<rt, wr, sealed, saved>>, NEW d \in DOMAIN dirs, NEW n \in Names(d),
         NEW u, HashEntry(p, d, n, u)
  PROVE  KeepInv'
<1>1. PICK e, y : e = Entries(d)[n] /\ HashVisit(p, d, n, e, u, y)
  BY HashEntryDoes, Zenon
<1>2. ASSUME SameEntries
      PROVE  HoldsOn
  BY <1>2, SameHolds
<1>3. CASE SameEntries /\ Return(p)
  BY <1>2, <1>3, KeepReturn
<1>4. CASE SameEntries /\ Resume(p, u)
  <2>1. PICK x : g' = [g EXCEPT ![p] = x] /\ KeepLocal(x)'
    BY <1>4, ResumeHeld
  <2> QED
    BY <1>2, <1>4, <2>1, KeepMove
<1>5. CASE /\ SameEntries
           /\ g' = [g EXCEPT ![p].at = "hash",
                             ![p].stk = Append(u, Frame(e.dir, Names(e.dir), d, n, e.id))]
  <2>1. PICK s : s = Append(u, Frame(e.dir, Names(e.dir), d, n, e.id))
    OBVIOUS
  <2>2. PICK x : x = [g[p] EXCEPT !.at = "hash", !.stk = s]
    OBVIOUS
  <2>3. /\ g' = [g EXCEPT ![p] = x] /\ x.at = "hash" /\ x.req = g[p].req
        /\ x.must = g[p].must
    <3>1. g' = [g EXCEPT ![p].at = "hash", ![p].stk = s]
      BY <1>5, <2>1
    <3> QED
      BY <2>2, <3>1, LocalRecord
  <2>4. KeepLocal(x)'
    BY <2>3, HashGoesOn
  <2> QED
    BY <1>2, <1>5, <2>3, <2>4, KeepMove
<1>6. CASE /\ e.kind = "file" /\ ~HashFileFails(e)
           /\ SetsEntry(d, n, y) /\ y = HashFile(e) /\ Resume(p, u)
  <2>1. HoldsOn
    BY <1>1, <1>6, HashedHolds
  <2>2. PICK x : g' = [g EXCEPT ![p] = x] /\ KeepLocal(x)'
    BY <1>6, ResumeHeld
  <2> QED
    BY <2>1, <2>2, KeepMove
<1> QED
  BY <1>1, <1>3, <1>4, <1>5, <1>6, Zenon DEF HashVisit

LEMMA EntryHashHeld ==
  ASSUME IInv, OneGoroutine, ContentsOnly, KeepInv, NEW loc, NEW fit, Placed(loc, fit),
         NEW p \in Procs, EntryHash(p)
  PROVE  KeepInv'
<1>1. UNCHANGED <<rt, wr, sealed, saved>> /\ g[p].at = "entryHash"
  BY DEF EntryHash
<1>2. PICK d, n, u : d = g[p].d /\ n = FileName(p) /\ u = << >>
  OBVIOUS
<1>3. d \in DOMAIN dirs
  BY <1>1, <1>2, FilePlace
<1>4. CASE n \in Names(d) /\ HashEntry(p, d, n, u)
  BY <1>1, <1>3, <1>4, HashEntryHeld
<1>5. CASE Return(p) /\ UNCHANGED dirs
  BY <1>1, <1>5, UnchangedSame, SameHolds, KeepReturn
<1> QED
  BY <1>2, <1>4, <1>5 DEF EntryHash

LEMMA HashNextHeld ==
  ASSUME IInv, OneGoroutine, ContentsOnly, KeepInv, NEW p \in Procs, HashNext(p)
  PROVE  KeepInv'
<1>1. UNCHANGED <<rt, wr, sealed, saved>> /\ g[p].at = "hash"
  BY DEF HashNext
<1>2. PICK n \in Names(Top(p).d) : HashEntry(p, Top(p).d, n, SeenBy(p, n))
  BY DEF HashNext
<1>3. PICK d, u : d = Top(p).d /\ u = SeenBy(p, n)
  OBVIOUS
<1>4. d \in DOMAIN dirs
  BY <1>1, <1>3, AtTop DEF Hashing
<1>5. n \in Names(d) /\ HashEntry(p, d, n, u)
  BY <1>2, <1>3
<1> QED
  BY <1>1, <1>4, <1>5, HashEntryHeld
LEMMA HashDirDoneHeld ==
  ASSUME IInv, OneGoroutine, KeepInv, NEW p \in Procs, HashDirDone(p)
  PROVE  KeepInv'
<1>1. UNCHANGED <<rt, wr, sealed, saved>> /\ g[p].at = "hash"
  BY DEF HashDirDone, obs
<1>2. PICK d, h : d = Top(p).d /\ h = DirHash(Marshal(d))
  OBVIOUS
<1>3. d \in DOMAIN dirs
  BY <1>1, <1>2, AtTop DEF Hashing
<1>4. CASE Return(p) /\ UNCHANGED dirs
  BY <1>1, <1>4, UnchangedSame, SameHolds, KeepReturn
<1>5. CASE dirs' = [dirs EXCEPT ![d].hash = h] /\ Goto(p, "hashed")
  <2>1. /\ OnlyAt(dirs, dirs', d) /\ dirs'[d].hash = h /\ dirs'[d].entries = dirs[d].entries
    <3>1. dirs' = SetHash(dirs, d, h)
      BY <1>5 DEF SetHash
    <3> QED
      BY <1>3, <3>1, DirIsRecord, SetHashFacts
  <2>2. SameEntries
    BY <2>1 DEF OnlyAt, SameEntries, Entries
  <2>3. PICK x : x = [g[p] EXCEPT !.at = "hashed"]
    OBVIOUS
  <2>4. /\ g' = [g EXCEPT ![p] = x] /\ x.at = "hashed" /\ x.req = g[p].req
        /\ x.must = g[p].must
    BY <1>5, <2>3, LocalRecord DEF Goto
  <2>5. KeepLocal(x)'
    BY <1>1, <2>4, HashGoesOn
  <2> QED
    BY <1>1, <2>2, <2>4, <2>5, SameHolds, KeepMove
<1> QED
  BY <1>2, <1>4, <1>5 DEF HashDirDone

LEMMA HashedHeld ==
  ASSUME IInv, OneGoroutine, CacheInv, KeepInv, NEW loc, NEW fit, Placed(loc, fit),
         NEW p \in Procs, Hashed(p)
  PROVE  KeepInv'
<1>1. UNCHANGED <<wr, sealed, saved>> /\ g[p].at = "hashed"
  BY DEF Hashed
<1>2. PICK f, s, t : f = Top(p) /\ s = g[p].stk /\ t = Front(s)
  OBVIOUS
<1>3. /\ StkOK(s) /\ s # << >> /\ f = s[Len(s)] /\ HashStk(s) /\ Sums(dirs[f.d].hash, f.d)
  BY <1>1, <1>2, StkOfLocal, StkTop DEF Hashing, CacheInv, CacheLocal, Top
<1>4. TopFits(f, s)
  <2>1. Deeper
    BY DEF CacheInv
  <2> QED
    BY <1>3, <2>1, TopEntry
<1>5. CASE /\ f.par = 0 /\ UNCHANGED dirs
           /\ rt' = [rt EXCEPT !.hash = dirs[rt.dir].hash]
           /\ g' = [g EXCEPT ![p].at = "rootReady", ![p].stk = <<>>]
  <2>1. PICK h, d : h = dirs[rt.dir].hash /\ d = rt.dir
    OBVIOUS
  <2>2. d = f.d /\ d # 0
    BY <1>4, <1>5, <2>1, Zenon DEF TopFits
  <2>3. Sums(h, d)
    BY <1>3, <2>1, <2>2
  <2>4. rt'.dir = d /\ rt'.hash = h
    BY <1>5, <2>1 DEF IInv, TypeOK, RtOK
  <2>5. PICK x : x = [g[p] EXCEPT !.at = "rootReady", !.stk = <<>>]
    OBVIOUS
  <2>6. /\ g' = [g EXCEPT ![p] = x] /\ x.at = "rootReady" /\ x.req = g[p].req
        /\ x.must = g[p].must
    BY <1>5, <2>5, LocalRecord
  <2>7. x.req.op = "save" => \A q \in DOMAIN x.must :
          x.must[q] # NoHash => q \in Held' /\ x.must[q] = Content(q)
    BY <1>1, <2>6, MustKept
  <2>8. Sums(h, d)'
    BY <1>5, <2>3 DEF Sums, Full, Marshal, Names, Entries
  <2>9. KeepLocal(x)'
    BY <2>4, <2>6, <2>7, <2>8 DEF KeepLocal, Walking, Ops
  <2> QED
    BY <1>1, <1>5, <2>1, <2>2, <2>4, <2>6, <2>9, UnchangedSame, SameHolds, KeepMove
<1>6. CASE Return(p) /\ UNCHANGED <<rt, dirs>>
  BY <1>1, <1>6, UnchangedSame, SameHolds, KeepReturn
<1>7. CASE /\ f.par # 0 /\ UNCHANGED rt
           /\ dirs' = Update(f.par, f.name, f.id,
                             [Entries(f.par)[f.name] EXCEPT
                                !.hash = dirs[Entries(f.par)[f.name].dir].hash])
           /\ Resume(p, t)
  <2>1. PICK d, n, e : d = f.par /\ n = f.name /\ e = Entries(d)[n]
    OBVIOUS
  <2>2. PICK h : h = dirs[f.d].hash
    OBVIOUS
  <2>3. PICK y : y = [e EXCEPT !.hash = h]
    OBVIOUS
  <2>4. /\ d \in DOMAIN dirs /\ n \in Names(d) /\ e.dir = f.d /\ e.id = f.id
        /\ f.d \in DOMAIN dirs /\ f.d # 0 /\ e \in EntrySet
    <3>1. /\ f.par \in DOMAIN dirs /\ f.name \in Names(f.par)
          /\ Entries(f.par)[f.name].dir = f.d /\ Entries(f.par)[f.name].id = f.id
          /\ f.d \in DOMAIN dirs /\ f.d # 0
      BY <1>4, <1>7, Zenon DEF TopFits
    <3> QED
      BY <2>1, <3>1, EntryFacts
  <2>5. y.dir = f.d /\ y.kind = e.kind
    BY <2>3, <2>4 DEF EntrySet
  <2>6. e.kind = "dir"
    <3>1. EntryFits(loc, fit, Append(loc[d], n), e)
      BY <2>1, <2>4, EntryPlaced
    <3> QED
      BY <2>4, <3>1 DEF EntryFits
  <2>7. SetsEntry(d, n, y)
    <3>1. PICK ds : ds = dirs
      OBVIOUS
    <3>2. dirs' = SetEntry(ds, d, n, y)
      BY <1>7, <2>1, <2>2, <2>3, <2>4, <3>1 DEF Update, SetEntry
    <3> QED
      BY <2>4, <3>1, <3>2, SetInPassed, SetInSets
  <2>8. HoldsOn
    <3>1. Edited(d, n) /\ Entries(d)'[n] = y
      BY <2>7, SetsEdited DEF SetsEntry
    <3>2. SameHold(wr, wr', e, y)
      BY <2>4, <2>5, <2>6 DEF SameHold
    <3> QED
      BY <1>1, <2>1, <3>1, <3>2, WritersSame, HoldsEdited
  <2>9. PICK x : g' = [g EXCEPT ![p] = x] /\ KeepLocal(x)'
    BY <1>1, <1>7, ResumeHeld
  <2> QED
    BY <1>1, <1>7, <2>8, <2>9, KeepMove
<1>8. PICK e : e = Entries(f.par)[f.name]
  OBVIOUS
<1> QED
  BY <1>2, <1>5, <1>6, <1>7, Zenon DEF Hashed, Panic

\* A Save that ends has what it had to find.
LEMMA SaveDoneHeld ==
  ASSUME IInv, OneGoroutine, OneContent, ContentsOnly, CacheInv, KeepInv,
         NEW loc, NEW fit, Placed(loc, fit), NEW p \in Procs, SaveDone(p)
  PROVE  KeepInv'
<1>1. /\ UNCHANGED <<rt, dirs, wr, sealed>> /\ Return(p)
      /\ g[p].at = "rootReady" /\ g[p].req.op = "save"
      /\ saved' = IF rt.hash = NoHash THEN saved ELSE [hash |-> rt.hash, must |-> g[p].must]
  BY DEF SaveDone, heap
<1>2. PICK z : z = g[p]
  OBVIOUS
<1>3. /\ rt.dir # 0 => Sums(rt.hash, rt.dir)
      /\ \A f \in DOMAIN z.must : z.must[f] # NoHash => f \in Held /\ z.must[f] = Content(f)
  BY <1>1, <1>2 DEF KeepInv, KeepLocal
<1>4. ASSUME NEW f \in Held
      PROVE  Resolve(rt.hash, f) = Content(f)
  <2>1. f \in Paths /\ Chain(f)
    BY <1>4 DEF KeepInv, Held
  <2>2. CASE rt.dir = 0
    BY <2>1, <2>2, HoldsResolve DEF Chain
  <2>3. CASE rt.dir # 0
    <3>1. PICK c : c[0] = rt.dir /\ ChainIn(dirs, wr, f, c)
      BY <2>1, <2>3 DEF Chain
    <3>2. Coherent /\ c[0] # 0 /\ 0 \in 0..(Len(f) - 1)
      BY <2>1, <2>3, <3>1, PrefixFacts DEF CacheInv
    <3>3. PICK h : h = rt.hash
      OBVIOUS
    <3>4. Sums(h, c[0])
      BY <1>3, <2>3, <3>1, <3>3
    <3>5. HoldsAt(h, f, 0)
      BY <2>1, <3>1, <3>2, <3>4, MemHolds
    <3> QED
      BY <2>1, <3>3, <3>5, HoldsResolve
  <2> QED
    BY <2>2, <2>3
<1>5. SaveCaptures'
  <2>1. CASE rt.hash = NoHash
    BY <1>1, <2>1, SavedKept DEF KeepInv
  <2>2. CASE rt.hash # NoHash
    <3>1. saved'.hash = rt.hash /\ saved'.must = z.must
      BY <1>1, <1>2, <2>2
    <3> QED
      BY <1>3, <1>4, <3>1 DEF SaveCaptures
  <2> QED
    BY <2>1, <2>2
<1>6. \A f \in Held' : Chain(f)'
  <2> SUFFICES ASSUME NEW f \in Held
               PROVE  Chain(f)'
    BY <1>1, HeldSame
  <2>1. f \in Paths /\ Chain(f)
    BY DEF KeepInv, Held
  <2> QED
    BY <1>1, <2>1, UnchangedSame, SameHolds, ChainsKept
<1>7. PICK x : x = Idle
  OBVIOUS
<1>8. g' = [g EXCEPT ![p] = x] /\ KeepLocal(x)'
  BY <1>1, <1>7, IdleKeeps DEF Return
<1> QED
  BY <1>5, <1>6, <1>8, KeepStep

-----------------------------------------------------------------------------
(* The diff iterator, and what was written *)

LEMMA DiffStartHeld ==
  ASSUME IInv, OneGoroutine, KeepInv, NEW p \in Procs, DiffStart(p)
  PROVE  KeepInv'
<1>1. /\ UNCHANGED <<rt, dirs, wr, sealed, saved>>
      /\ g[p].at = "rootReady" /\ g[p].req.op = "diff"
  BY DEF DiffStart, heap, obs
<1>2. HoldsOn
  BY <1>1, UnchangedSame, SameHolds
<1>3. CASE Return(p)
  BY <1>1, <1>2, <1>3, KeepReturn
<1>4. CASE Goto(p, "getDir")
  <2>1. PICK x : x = [g[p] EXCEPT !.at = "getDir"]
    OBVIOUS
  <2>2. g' = [g EXCEPT ![p] = x] /\ x.at = "getDir" /\ x.req = g[p].req
    BY <1>4, <2>1, LocalRecord DEF Goto
  <2>3. rt.dir # 0 => Full(rt.dir)
    BY <1>1 DEF KeepInv, KeepLocal, Sums
  <2>4. Full(rt.dir)' = Full(rt.dir)
    BY <1>1 DEF Full, Names, Entries
  <2>5. rt'.dir # 0 => Full(rt.dir)'
    BY <1>1, <2>3, <2>4
  <2>6. KeepLocal(x)'
    BY <1>1, <2>2, <2>5 DEF KeepLocal, Walking, Ops
  <2> QED
    BY <1>1, <1>2, <2>2, <2>6, KeepMove
<1> QED
  BY <1>3, <1>4 DEF DiffStart

\* The iterator is at directories that have the hashes of all their entries.
LEMMA DiffGoesOn ==
  ASSUME KeepInv, UNCHANGED <<wr, sealed>>, NEW p \in Procs, NEW x,
         x.at = "next", x.req = g[p].req, x.must = g[p].must,
         \A k \in DOMAIN x.stk : Full(x.stk[k].d)'
  PROVE  KeepLocal(x)'
<1>1. x.req.op = "save" => \A f \in DOMAIN x.must :
        x.must[f] # NoHash => f \in Held' /\ x.must[f] = Content(f)
  BY MustKept
<1> QED
  BY <1>1 DEF KeepLocal, Walking, Ops

LEMMA RootFrameDir ==
  ASSUME NEW d
  PROVE  RootFrame(d).d = d
BY DEF RootFrame, Frame

LEMMA NewDiffIterHeld ==
  ASSUME IInv, OneGoroutine, KeepInv, NEW p \in Procs, NewDiffIter(p)
  PROVE  KeepInv'
<1>1. UNCHANGED <<rt, dirs, wr, sealed, saved>> /\ g[p].at = "diff"
  BY DEF NewDiffIter, heap, obs
<1>2. PICK d, s : d = g[p].d /\ s = <<RootFrame(d)>>
  OBVIOUS
<1>3. PICK x : x = [g[p] EXCEPT !.at = "next", !.stk = s]
  OBVIOUS
<1>4. g' = [g EXCEPT ![p] = x] /\ x.at = "next" /\ x.stk = s /\ x.req = g[p].req
      /\ x.must = g[p].must
  <2>1. g' = [g EXCEPT ![p].at = "next", ![p].stk = s]
    BY <1>2 DEF NewDiffIter
  <2> QED
    BY <1>3, <2>1, LocalRecord
<1>5. g[p].req.op = "diff"
  BY <1>1 DEF IInv, TypeOK, LocalOK, Ops
<1>6. Full(d)
  BY <1>1, <1>2, <1>5 DEF KeepInv, KeepLocal
<1>7. Full(d)'
  BY <1>1, <1>6 DEF Full, Names, Entries
<1>8. \A k \in DOMAIN s : s[k].d = d
  BY <1>2, RootFrameDir
<1>9. KeepLocal(x)'
  BY <1>1, <1>4, <1>7, <1>8, DiffGoesOn
<1> QED
  BY <1>1, <1>4, <1>9, UnchangedSame, SameHolds, KeepMove

LEMMA DiffUpHeld ==
  ASSUME IInv, OneGoroutine, KeepInv, NEW p \in Procs, DiffUp(p)
  PROVE  KeepInv'
<1>1. UNCHANGED <<rt, dirs, wr, sealed, saved>> /\ g[p].at = "next"
  BY DEF DiffUp, heap, obs
<1>2. HoldsOn
  BY <1>1, UnchangedSame, SameHolds
<1>3. CASE Return(p)
  BY <1>1, <1>2, <1>3, KeepReturn
<1>4. CASE SetStk(p, Front(g[p].stk))
  <2>1. PICK s, t : s = g[p].stk /\ t = Front(s)
    OBVIOUS
  <2>2. PICK x : x = [g[p] EXCEPT !.stk = t]
    OBVIOUS
  <2>3. g' = [g EXCEPT ![p] = x] /\ x.at = "next" /\ x.stk = t /\ x.req = g[p].req
        /\ x.must = g[p].must
    BY <1>1, <1>4, <2>1, <2>2, LocalRecord DEF SetStk
  <2>4. \A k \in DOMAIN t : k \in DOMAIN s /\ t[k] = s[k]
    <3>1. StkOK(s) /\ s # << >>
      BY <1>1, <2>1, StkOfLocal DEF Hashing
    <3>2. Len(s) \in Nat \ {0} /\ DOMAIN s = 1..Len(s)
      BY <3>1, StkTop
    <3> QED
      BY <2>1, <3>2 DEF Front
  <2>5. \A k \in DOMAIN s : Full(s[k].d)
    BY <1>1, <2>1 DEF KeepInv, KeepLocal
  <2>6. \A k \in DOMAIN t : Full(t[k].d)'
    <3>1. \A d : Full(d)' = Full(d)
      BY <1>1 DEF Full, Names, Entries
    <3> QED
      BY <2>4, <2>5, <3>1
  <2>7. KeepLocal(x)'
    BY <1>1, <2>3, <2>6, DiffGoesOn
  <2> QED
    BY <1>1, <1>2, <2>3, <2>7, KeepMove
<1> QED
  BY <1>3, <1>4 DEF DiffUp
\* The diff iterator loads again a directory that may be in memory already: what is in memory
\* below it is cut off, and the blob of its hash holds the same.
LEMMA CutBelow ==
  ASSUME IInv, OneContent, ContentsOnly, Coherent, NEW loc, NEW fit, Placed(loc, fit),
         NEW f \in Paths, NEW c, c[0] = rt.dir, ChainIn(dirs, wr, f, c),
         NEW d \in DOMAIN dirs, NEW n \in Names(d), NEW h, Entries(d)[n].hash = h, h # NoHash
  PROVE  HoldsBelow(f, c, d, n, h)
<1>1. Len(f) \in Nat /\ d # 0
  BY PrefixFacts, HeapSizes
<1>2. CASE Entries(d)[n].dir = 0
  BY <1>1, <1>2, CutHolds
<1>3. CASE Entries(d)[n].dir # 0
  <2> SUFFICES ASSUME NEW i \in 0..(Len(f) - 1), i + 1 < Len(f), c[i] = d, f[i + 1] = n
               PROVE  HoldsAt(h, f, i + 1)
    BY DEF HoldsBelow
  <2>1. PICK j : j = i + 1
    OBVIOUS
  <2>2. j \in 0..(Len(f) - 1)
    BY <1>1, <2>1
  <2>3. EntryHolds(wr, f, i, Entries(d)[n], c[j])
    BY <1>1, <2>1 DEF ChainIn, Entries
  <2>4. Entries(d)[n].kind = "dir" /\ Entries(d)[n].dir = c[j]
    BY <2>3 DEF EntryHolds
  <2>5. Sums(h, c[j])
    BY <1>3, <2>4 DEF Coherent
  <2>6. HoldsAt(h, f, j)
    BY <1>3, <2>2, <2>4, <2>5, MemHolds
  <2> QED
    BY <2>1, <2>6
<1> QED
  BY <1>2, <1>3

LEMMA CutChains ==
  ASSUME IInv, OneContent, ContentsOnly, Coherent, KeepInv, NEW loc, NEW fit, Placed(loc, fit),
         UNCHANGED <<rt, wr, sealed>>, NEW d, NEW n, NEW y, NEW k, NEW h, Cut(d, n, y, k, h),
         Entries(d)[n].hash = h, h # NoHash
  PROVE  \A f \in Held' : Chain(f)'
<1> SUFFICES ASSUME NEW f \in Held
             PROVE  Chain(f)'
  BY HeldSame
<1>1. f \in Paths /\ Chain(f) /\ Content(f) # NoHash
  BY HeldContent DEF KeepInv
<1>2. CASE rt.dir = 0
  BY <1>1, <1>2 DEF Chain
<1>3. CASE rt.dir # 0
  <2>1. PICK c : c[0] = rt.dir /\ ChainIn(dirs, wr, f, c)
    BY <1>1, <1>3 DEF Chain
  <2>2. d \in DOMAIN dirs /\ n \in Names(d)
    BY DEF Cut
  <2>3. HoldsBelow(f, c, d, n, h)
    BY <1>1, <2>1, <2>2, CutBelow
  <2>4. PICK a : a[0] = c[0] /\ ChainIn(dirs', wr', f, a)
    BY <1>1, <2>1, <2>3, WritersSame, ChainCut
  <2> QED
    BY <1>3, <2>1, <2>4 DEF Chain
<1> QED
  BY <1>2, <1>3

\* The iterator has visited name n; t is its stack then.
LEMMA VisitFrames ==
  ASSUME IInv, KeepInv, NEW p \in Procs, g[p].at = "next", NEW n, NEW u, u = SeenBy(p, n)
  PROVE  /\ Top(p).d \in DOMAIN dirs /\ Full(Top(p).d)
         /\ Len(u) \in Nat /\ DOMAIN u = 1..Len(u) /\ u = [k \in 1..Len(u) |-> u[k]]
         /\ \A k \in DOMAIN u : u[k].d \in DOMAIN dirs /\ Full(u[k].d)
<1>1. PICK s : s = g[p].stk
  OBVIOUS
<1>2. StkOK(s) /\ s # << >>
  BY <1>1, StkOfLocal DEF Hashing
<1>3. /\ Framed(s) /\ \A k \in DOMAIN s : s[k].d \in DOMAIN dirs
      /\ Len(s) \in Nat \ {0} /\ DOMAIN s = 1..Len(s)
  BY <1>2, StkHeap, StkTop
<1>4. \A k \in DOMAIN s : Full(s[k].d)
  BY <1>1 DEF KeepInv, KeepLocal
<1>5. SeenIn(s, u, n)
  <2>1. u = Seen(s, n)
    BY <1>1 DEF SeenBy, Seen
  <2> QED
    BY <1>3, <2>1, SeenFields
<1>6. /\ DOMAIN u = DOMAIN s /\ Len(u) = Len(s) /\ u = [k \in 1..Len(s) |-> u[k]]
      /\ \A k \in DOMAIN s : u[k].d = s[k].d
  BY <1>5 DEF SeenIn, LikeFrames
<1>7. Top(p).d = s[Len(s)].d /\ Len(s) \in DOMAIN s
  BY <1>1, <1>3 DEF Top
<1> QED
  BY <1>3, <1>4, <1>6, <1>7

\* A load, or the entry that points to it, changes no hash of a directory in memory.
LEMMA StillFull ==
  ASSUME NEW d, NEW n, NEW y, Edited(d, n), d \in DOMAIN dirs, n \in Names(d),
         Entries(d)'[n] = y, y.hash = Entries(d)[n].hash,
         NEW b \in DOMAIN dirs, Full(b)
  PROVE  Full(b)'
<1>1. Names(b)' = Names(b)
  BY DEF Edited, Names
<1>2. \A m \in Names(b) : Entries(b)'[m].hash = Entries(b)[m].hash
  BY DEF Edited
<1> QED
  BY <1>1, <1>2 DEF Full

LEMMA DiffNextHeld ==
  ASSUME IInv, OneGoroutine, OneContent, ContentsOnly, CacheInv, KeepInv,
         NEW loc, NEW fit, Placed(loc, fit), NEW p \in Procs, DiffNext(p)
  PROVE  KeepInv'
<1>1. PICK d, n, e, k, h, y :
        /\ d = Top(p).d /\ n \in Top(p).todo \ Top(p).seen /\ n \in Names(d)
        /\ e = Entries(d)[n] /\ k = Len(dirs) + 1 /\ h = e.hash
        /\ DiffVisit(p, d, n, e, k, h, y)
  BY DiffNextDoes, Zenon
<1>2. UNCHANGED <<rt, wr, sealed, saved, blobs>> /\ g[p].at = "next"
  BY DEF DiffNext, obs
<1>3. PICK u : u = SeenBy(p, n)
  OBVIOUS
<1>4. /\ d \in DOMAIN dirs /\ Full(d)
      /\ Len(u) \in Nat /\ DOMAIN u = 1..Len(u) /\ u = [j \in 1..Len(u) |-> u[j]]
      /\ \A j \in DOMAIN u : u[j].d \in DOMAIN dirs /\ Full(u[j].d)
  BY <1>1, <1>2, <1>3, VisitFrames
<1>5. h # NoHash /\ Coherent /\ Entries(d)[n].hash = h /\ e.kind = Entries(d)[n].kind
  BY <1>1, <1>4 DEF Full, CacheInv
<1>6. ASSUME NEW s, SetStk(p, s), \A j \in DOMAIN s : Full(s[j].d)'
      PROVE  \E x : g' = [g EXCEPT ![p] = x] /\ KeepLocal(x)'
  <2>1. PICK x : x = [g[p] EXCEPT !.stk = s]
    OBVIOUS
  <2>2. /\ g' = [g EXCEPT ![p] = x] /\ x.at = "next" /\ x.stk = s /\ x.req = g[p].req
        /\ x.must = g[p].must
    BY <1>2, <1>6, <2>1, LocalRecord DEF SetStk
  <2>3. KeepLocal(x)'
    BY <1>2, <1>6, <2>2, DiffGoesOn
  <2> QED
    BY <2>2, <2>3
<1>7. SaveCaptures'
  BY <1>2, SavedKept DEF KeepInv
<1>8. CASE SameEntries /\ SetStk(p, u)
  <2>1. \A j \in DOMAIN u : Full(u[j].d)'
    <3>1. \A b \in DOMAIN dirs : Full(b)' = Full(b)
      BY <1>8 DEF SameEntries, Full, Names
    <3> QED
      BY <1>4, <3>1
  <2>2. PICK x : g' = [g EXCEPT ![p] = x] /\ KeepLocal(x)'
    BY <1>6, <1>8, <2>1
  <2> QED
    BY <1>2, <1>8, <2>2, SameHolds, KeepMove
<1>9. CASE e.kind = "dir" /\ SetsEntry(d, n, y) /\ Return(p) /\ y.kind = "dir" /\ y.hash = h
           /\ y.dir = 0
  <2>1. Cut(d, n, y, 0, h)
    <3>1. Edited(d, n) /\ Entries(d)'[n] = y
      BY <1>9, SetsEdited DEF SetsEntry
    <3>2. AsBlob(0, h)'
      BY DEF AsBlob
    <3> QED
      BY <1>1, <1>4, <1>5, <1>9, <3>1, <3>2 DEF Cut
  <2>2. \A f \in Held' : Chain(f)'
    BY <1>2, <1>5, <2>1, CutChains
  <2>3. PICK x : x = Idle
    OBVIOUS
  <2>4. g' = [g EXCEPT ![p] = x] /\ KeepLocal(x)'
    BY <1>9, <2>3, IdleKeeps DEF Return
  <2> QED
    BY <1>7, <2>2, <2>4, KeepStep
<1>10. CASE /\ e.kind = "dir" /\ LoadsDir(k, h)
            /\ \A c \in DOMAIN dirs : c # d => Entries(c)' = Entries(c)
            /\ Names(d)' = Names(d) /\ Entries(d)'[n] = y
            /\ \A m \in Names(d) : m # n => Entries(d)'[m] = Entries(d)[m]
            /\ y.kind = "dir" /\ y.hash = h /\ y.dir = k
            /\ SetStk(p, Append(u, Frame(k, DOMAIN Listing(h), d, n, e.id)))
  <2>1. /\ DOMAIN dirs' = DOMAIN dirs \union {k} /\ k # 0 /\ h \in blobs
        /\ Names(k)' = DOMAIN Listing(h) /\ IsDirHash(h)
        /\ \A m \in Names(k)' : Entries(k)'[m] = LoadedEntry(Listing(h)[m])
    <3>1. k # 0
      BY <1>1, HeapSizes
    <3> QED
      BY <1>10, <3>1 DEF LoadsDir
  <2>2. \A m \in Names(k)' :
          /\ Entries(k)'[m].dir = 0 /\ ~Entries(k)'[m].file
          /\ Entries(k)'[m].kind = Listing(h)[m].kind
          /\ Entries(k)'[m].hash = Listing(h)[m].hash
    <3>1. \A c : /\ LoadedEntry(c).dir = 0 /\ LoadedEntry(c).hash = c.hash
                 /\ ~LoadedEntry(c).file /\ LoadedEntry(c).kind = c.kind
      BY DEF LoadedEntry
    <3> QED
      BY <2>1, <3>1
  <2>3. Edited(d, n)
    BY <1>10, <2>1, <2>2 DEF Edited
  <2>4. AsBlob(k, h)'
    BY <2>1, <2>2 DEF AsBlob
  <2>5. Cut(d, n, y, k, h)
    BY <1>1, <1>4, <1>5, <1>10, <2>1, <2>3, <2>4 DEF Cut
  <2>6. \A f \in Held' : Chain(f)'
    BY <1>2, <1>5, <2>5, CutChains
  <2>7. PICK f : f = Frame(k, DOMAIN Listing(h), d, n, e.id)
    OBVIOUS
  <2>8. f.d = k
    BY <2>7, FrameFields
  <2>9. PICK t : t = Append(u, f)
    OBVIOUS
  <2>10. /\ \A j \in DOMAIN t : (j \in DOMAIN u /\ t[j] = u[j]) \/ t[j] = f
    BY <1>4, <2>9
  <2>11. Full(k)'
    <3>1. \A m \in DOMAIN Listing(h) : Listing(h)[m].hash # NoHash
      BY <2>1 DEF CacheInv, BlobsFull, Children
    <3> QED
      BY <2>1, <2>2, <3>1 DEF Full
  <2>12. \A j \in DOMAIN u : Full(u[j].d)'
    BY <1>1, <1>4, <1>5, <1>10, <2>3, StillFull
  <2>13. \A j \in DOMAIN t : Full(t[j].d)'
    BY <2>8, <2>10, <2>11, <2>12
  <2>14. SetStk(p, t)
    BY <1>10, <2>7, <2>9
  <2>15. PICK x : g' = [g EXCEPT ![p] = x] /\ KeepLocal(x)'
    BY <1>6, <2>13, <2>14
  <2> QED
    BY <1>7, <2>6, <2>15, KeepStep
<1> QED
  BY <1>1, <1>3, <1>8, <1>9, <1>10, Zenon DEF DiffVisit

-----------------------------------------------------------------------------
(* What was written is kept, at every step *)

\* Neither the tree nor what goroutines know of it changes.
LEMMA StillHeld ==
  ASSUME IInv, KeepInv, UNCHANGED <<rt, dirs, g, saved>>, WritersStay, Held' = Held
  PROVE  KeepInv'
<1>1. \A f \in Held' : Chain(f)'
  <2> SUFFICES ASSUME NEW f \in Held
               PROVE  Chain(f)'
    OBVIOUS
  <2>1. f \in Paths /\ Chain(f)
    BY DEF KeepInv, Held
  <2>2. HoldsOn
    BY HoldsSame DEF Entries
  <2> QED
    BY <2>1, <2>2, ChainsKept
<1>2. SaveCaptures'
  BY SavedKept DEF KeepInv
<1>3. \A d : Full(d)' = Full(d)
  BY DEF Full, Names, Entries
<1>4. \A h, d : Sums(h, d)' = Sums(h, d)
  <2>1. \A d : Marshal(d)' = Marshal(d)
    BY DEF Marshal, Names, Entries
  <2> QED
    BY <1>3, <2>1 DEF Sums
<1>5. \A x : WalkChain(x)' = WalkChain(x)
  BY DEF WalkChain
<1>6. \A p \in Procs : KeepLocal(g[p])'
  <2> SUFFICES ASSUME NEW p \in Procs
               PROVE  KeepLocal(g[p])'
    OBVIOUS
  <2>1. PICK x : x = g[p] /\ x = g'[p]
    OBVIOUS
  <2>2. KeepLocal(x)
    BY <2>1 DEF KeepInv
  <2>3. rt' = rt /\ Held' = Held
    OBVIOUS
  <2>4. KeepLocal(x)'
    BY <1>3, <1>4, <1>5, <2>2, <2>3 DEF KeepLocal
  <2> QED
    BY <2>1, <2>4 DEF KeepLocal
<1> QED
  BY <1>1, <1>2, <1>6 DEF KeepInv

\* A writer is closed or stored: it was a writer of its path before.
LEMMA WriterHeld ==
  ASSUME IInv, KeepInv, NEW loc, NEW fit, Placed(loc, fit),
         NEW w \in DOMAIN wr, CloseWriter(w) \/ PublishBlob(w)
  PROVE  KeepInv'
<1>1. UNCHANGED <<rt, dirs, g, saved>>
  BY DEF CloseWriter, PublishBlob
<1>2. PICK path : path = wr[w].path
  OBVIOUS
<1>3. path \in Paths /\ \A v \in DOMAIN wr : wr[v] \in Writers
  BY <1>2, WritersFacts DEF Writers
<1>4. /\ DOMAIN sealed = Paths
      /\ \A f \in Paths : sealed[f] = [now |-> sealed[f].now, ever |-> sealed[f].ever]
  BY DEF Placed, WrittenOnce
<1>5. \E st : wr' = [wr EXCEPT ![w].st = st]
  BY DEF CloseWriter, PublishBlob
<1>6. PICK st, y : wr' = [wr EXCEPT ![w] = y] /\ y = [wr[w] EXCEPT !.st = st]
  BY <1>5
<1>7. y.path = path /\ y.hash = wr[w].hash
  BY <1>2, <1>3, <1>6 DEF Writers
<1>8. /\ DOMAIN wr' = DOMAIN wr
      /\ \A v \in DOMAIN wr : wr'[v].path = wr[v].path /\ wr'[v].hash = wr[v].hash
  BY <1>2, <1>6, <1>7
<1>9. \A f \in Paths : f # path => sealed'[f].now = sealed[f].now
  <2>1. CASE CloseWriter(w)
    BY <1>2, <1>3, <1>4, <2>1 DEF CloseWriter
  <2>2. CASE \E a : sealed' = [sealed EXCEPT ![path].now = a]
    BY <1>3, <1>4, <2>2
  <2>3. CASE UNCHANGED sealed
    BY <2>3
  <2>4. PublishBlob(w) => UNCHANGED sealed \/ \E a : sealed' = [sealed EXCEPT ![path].now = a]
    BY <1>2 DEF PublishBlob
  <2> QED
    BY <2>1, <2>2, <2>3, <2>4
<1>10. Held' = Held
  <2>1. path \in Held /\ path \in Held'
    BY <1>2, <1>3, <1>8 DEF Held
  <2>2. \A f \in Paths : f # path => (f \in Held' <=> f \in Held)
    BY <1>8, <1>9 DEF Held
  <2> QED
    BY <2>1, <2>2 DEF Held
<1>11. WritersStay
  BY <1>8 DEF WritersStay
<1> QED
  BY <1>1, <1>10, <1>11, StillHeld

LEMMA StepHeld ==
  ASSUME IInv, OneGoroutine, OneContent, Honest, ContentsOnly, Replay, CacheInv, KeepInv,
         NEW p \in Procs, Step(p)
  PROVE  KeepInv'
<1>1. PICK loc, fit : Placed(loc, fit)
  BY DEF Honest
<1>2. SetDir(p) \/ Mkdir(p) => g[p].i <= Len(DirPart(p))
  <2>1. LocalFits(loc, g[p])
    BY <1>1 DEF Placed
  <2> QED
    BY <2>1, LocalFacts DEF LocalFits, SetDir, Mkdir
<1>3. GetDir(p) => KeepInv'
  BY <1>1, GetDirHeld
<1>4. SetRootDir(p) => KeepInv'
  BY <1>1, SetRootDirHeld
<1>5. Walk(p) => KeepInv'
  BY <1>1, WalkHeld
<1>6. SetDir(p) => KeepInv'
  BY <1>1, <1>2, SetDirHeld
<1>7. Mkdir(p) => KeepInv'
  BY <1>1, <1>2, MkdirHeld
<1>8. Arrive(p) => KeepInv'
  BY <1>1, ArriveHeld
<1>9. Write(p) => KeepInv'
  BY <1>1, WriteHeld
<1>10. Link(p) => KeepInv'
  BY <1>1, LinkHeld
<1>11. Read(p) => KeepInv'
  BY <1>1, ReadHeld
<1>12. List(p) => KeepInv'
  BY ListHeld
<1>13. SaveDone(p) => KeepInv'
  BY <1>1, SaveDoneHeld
<1>14. EntryHash(p) \/ HashNext(p) => KeepInv'
  BY <1>1, EntryHashHeld, HashNextHeld
<1>15. HashDirDone(p) \/ Hashed(p) => KeepInv'
  BY <1>1, HashDirDoneHeld, HashedHeld
<1>16. DiffStart(p) \/ NewDiffIter(p) \/ DiffUp(p) => KeepInv'
  BY DiffStartHeld, NewDiffIterHeld, DiffUpHeld
<1>17. DiffNext(p) => KeepInv'
  BY <1>1, DiffNextHeld
<1> QED
  BY <1>3, <1>4, <1>5, <1>6, <1>7, <1>8, <1>9, <1>10, <1>11, <1>12, <1>13, <1>14, <1>15,
     <1>16, <1>17 DEF Step

LEMMA KeepNext ==
  ASSUME IInv, OneGoroutine, OneContent, Honest, ContentsOnly, Replay, CacheInv, KeepInv,
         [Next]_vars
  PROVE  KeepInv'
<1>1. CASE UNCHANGED vars
  <2>1. UNCHANGED <<rt, dirs, g, saved, wr, sealed>>
    BY <1>1 DEF vars, heap, obs
  <2> QED
    BY <2>1, StillHeld, WritersSame, HeldSame
<1>2. ASSUME NEW w \in DOMAIN wr, CloseWriter(w) \/ PublishBlob(w)
      PROVE  KeepInv'
  BY <1>2, WriterHeld DEF Honest
<1> QED
  BY <1>1, <1>2, BeginHeld, StepHeld DEF Next, Finished

\* A file of the tree that the Root is opened with is held by the blob of that tree.
LEMMA BaseHolds ==
  ASSUME OneContent, NEW s \in Starts, NEW f \in Paths, NEW base, s.base = base,
         Resolve(base, f) # NoHash, ~IsDirHash(Resolve(base, f))
  PROVE  HoldsAt(base, f, 0) /\ base # NoHash
<1>1. f \in Seq(STRING) /\ Len(f) \in Nat /\ Len(f) # 0
  BY PathAssumption
<1>2. Resolve(base, f) = Content(f)
  <2>1. Resolve(base, f) \in Contents(f)
    BY DEF Contents
  <2> QED
    BY <2>1, TheContent
<1>3. PICK c : c = [i \in 0..Len(f) |-> Reached(base, f, i)]
  OBVIOUS
<1>4. /\ c[0] = base /\ c[Len(f)] = Content(f)
      /\ \A i \in 0..(Len(f) - 1) : c[i + 1] = Child(c[i], f[i + 1])
  <2>1. \A i \in 0..Len(f) : c[i] = Reached(base, f, i)
    BY <1>3
  <2>2. \A i \in 0..(Len(f) - 1) : Reached(base, f, i + 1) = Child(Reached(base, f, i), f[i + 1])
    BY <1>1, ReachedStep
  <2>3. Reached(base, f, 0) = base /\ Resolve(base, f) = Reached(base, f, Len(f))
    BY <1>1, ReachedSteps
  <2>4. 0 \in 0..Len(f) /\ Len(f) \in 0..Len(f)
        /\ \A i \in 0..(Len(f) - 1) : i \in 0..Len(f) /\ i + 1 \in 0..Len(f)
    BY <1>1
  <2> QED
    BY <1>2, <2>1, <2>2, <2>3, <2>4
<1>5. \A i \in 0..(Len(f) - 1) : IsDirHash(c[i])
  <2>1. \A i \in 0..(Len(f) - 1) : IsDirHash(Reached(base, f, i))
    BY <1>1, ReachedDirs
  <2> QED
    BY <1>1, <1>3, <2>1
<1>6. base # NoHash /\ base \in BaseBlobs
  <2>1. IsDirHash(c[0])
    BY <1>1, <1>5
  <2>2. base # NoHash
    BY <1>4, <2>1 DEF IsDirHash
  <2> QED
    BY <2>2, StartAssumption
<1>7. ASSUME NEW i \in 0..(Len(f) - 1)
      PROVE  /\ f[i + 1] \in DOMAIN Listing(c[i]) /\ Listing(c[i])[f[i + 1]].hash = c[i + 1]
             /\ c[i + 1] \in Children(c[i])
  <2>1. PICK b, n, h : b = c[i] /\ n = f[i + 1] /\ h = c[i + 1]
    OBVIOUS
  <2>2. h # NoHash
    <3>1. CASE i + 1 = Len(f)
      BY <1>2, <1>4, <2>1, <3>1
    <3>2. CASE i + 1 # Len(f)
      <4>1. i + 1 \in 0..(Len(f) - 1)
        BY <1>1, <3>2
      <4> QED
        BY <1>5, <2>1, <4>1 DEF IsDirHash
    <3> QED
      BY <3>1, <3>2
  <2>3. h = Child(b, n) /\ IsDirHash(b)
    BY <1>4, <1>5, <2>1
  <2>4. n \in DOMAIN Listing(b) /\ Listing(b)[n].hash = h
    BY <2>2, <2>3 DEF Child
  <2>5. h \in Children(b)
    BY <2>3, <2>4 DEF Children
  <2> QED
    BY <2>1, <2>4, <2>5
<1> DEFINE S == {i \in Nat : i < Len(f) => c[i] \in BaseBlobs}
<1>8. 0 \in S
  BY <1>4, <1>6
<1>9. ASSUME NEW i \in Nat, i \in S
      PROVE  i + 1 \in S
  <2> SUFFICES ASSUME i + 1 < Len(f)
               PROVE  c[i + 1] \in BaseBlobs
    OBVIOUS
  <2>1. i \in 0..(Len(f) - 1) /\ c[i] \in BaseBlobs
    BY <1>1, <1>9
  <2>2. c[i + 1] \in Children(c[i])
    BY <1>7, <2>1
  <2> QED
    BY <2>1, <2>2, BaseAssumption
<1>10. Nat \subseteq S
  <2> HIDE DEF S
  <2> QED
    BY <1>8, <1>9, NatSteps
<1>11. ASSUME NEW i \in 0..(Len(f) - 1)
       PROVE  /\ i + 1 = Len(f) => Listing(c[i])[f[i + 1]].kind = "file"
              /\ i + 1 < Len(f) => Listing(c[i])[f[i + 1]].kind = "dir"
  <2>1. PICK b, n, h : b = c[i] /\ n = f[i + 1] /\ h = c[i + 1]
    OBVIOUS
  <2>2. b \in BaseBlobs /\ IsDirHash(b)
    BY <1>1, <1>5, <1>10, <2>1
  <2>3. n \in DOMAIN Listing(b) /\ Listing(b)[n].hash = h
    BY <1>7, <2>1
  <2>4. /\ Listing(b)[n].kind \in {"dir", "file"}
        /\ Listing(b)[n].kind = "dir" <=> IsDirHash(h)
    BY <2>2, <2>3, BaseAssumption DEF WellFormed, KindsAgree
  <2>5. CASE i + 1 = Len(f)
    BY <1>2, <1>4, <2>1, <2>4, <2>5
  <2>6. CASE i + 1 < Len(f)
    <3>1. i + 1 \in 0..(Len(f) - 1)
      BY <1>1, <2>6
    <3>2. IsDirHash(h)
      BY <1>5, <2>1, <3>1
    <3> QED
      BY <2>1, <2>4, <2>6, <3>2
  <2> QED
    BY <2>5, <2>6
<1>12. \A i \in 0..(Len(f) - 1) : i + 1 = Len(f) => c[i + 1] = Content(f)
  BY <1>4
<1>13. HoldsWith(c, base, f, 0)
  BY <1>4, <1>5, <1>7, <1>11, <1>12 DEF HoldsWith
<1> QED
  BY <1>6, <1>13 DEF HoldsAt

LEMMA KeepInit ==
  ASSUME Init, OneContent, FilesOnly
  PROVE  KeepInv
<1>1. PICK s \in Starts :
        /\ rt = [hash |-> s.base, dir |-> IF s.base = NoHash THEN 1 ELSE 0,
                 readonly |-> s.readonly]
        /\ sealed = [f \in Paths |-> [now  |-> Resolve(s.base, f),
                                      ever |-> {Resolve(s.base, f)} \ {NoHash}]]
  BY DEF Init
<1>2. /\ wr = << >> /\ \A p \in Procs : g[p] = Idle
      /\ saved.must = [f \in Paths |-> NoHash]
  BY DEF Init
<1>3. ASSUME NEW f \in Held
      PROVE  Chain(f)
  <2>1. f \in Paths /\ Resolve(s.base, f) # NoHash
    BY <1>1, <1>2, <1>3 DEF Held
  <2>2. ~IsDirHash(Resolve(s.base, f))
    BY <2>1 DEF FilesOnly
  <2>3. HoldsAt(s.base, f, 0) /\ s.base # NoHash
    BY <2>1, <2>2, BaseHolds
  <2>4. rt.dir = 0 /\ rt.hash = s.base
    BY <1>1, <2>3
  <2> QED
    BY <2>3, <2>4 DEF Chain
<1>4. SaveCaptures
  BY <1>2 DEF SaveCaptures
<1>5. \A p \in Procs : KeepLocal(g[p])
  <2>1. KeepLocal(Idle)
    BY DEF KeepLocal, Idle, NoReq, Walking, Ops
  <2> QED
    BY <1>2, <2>1
<1> QED
  BY <1>3, <1>4, <1>5 DEF KeepInv

-----------------------------------------------------------------------------
(* An entry of kind directory has no File *)

Plain(e)  == e.kind = "dir" => ~e.file
PlainDirs == \A d \in DOMAIN dirs : \A n \in Names(d) : Plain(Entries(d)[n])

LEMMA SamePlain ==
  ASSUME PlainDirs, SameEntries
  PROVE  PlainDirs'
BY DEF PlainDirs, SameEntries, Names

LEMMA SetPlain ==
  ASSUME PlainDirs, NEW d, NEW n, NEW y, SetsEntry(d, n, y), Plain(y)
  PROVE  PlainDirs'
BY DEF PlainDirs, SetsEntry, Names

LEMMA LoadPlain ==
  ASSUME PlainDirs, NEW k, NEW h, LoadsDir(k, h),
         \A c \in DOMAIN dirs : \A m \in Names(c)' :
           (m \in Names(c) /\ Entries(c)'[m] = Entries(c)[m]) \/ Plain(Entries(c)'[m])
  PROVE  PlainDirs'
<1>1. \A m \in Names(k)' : Plain(Entries(k)'[m])
  <2>1. \A c : ~LoadedEntry(c).file
    BY DEF LoadedEntry
  <2> QED
    BY <2>1 DEF LoadsDir, Plain
<1> QED
  BY <1>1 DEF PlainDirs, LoadsDir

LEMMA UpdatePlain ==
  ASSUME IInv, PlainDirs, NEW p \in Procs, NEW d \in DOMAIN dirs, NEW n \in Names(d), NEW id,
         NEW y, Plain(y), dirs' = Update(d, n, id, y)
  PROVE  PlainDirs'
<1>1. CASE UNCHANGED dirs
  BY <1>1, UnchangedSame, SamePlain
<1>2. CASE dirs' = SetEntry(dirs, d, n, y)
  <2>1. SetsEntry(d, n, y)
    BY <1>2, SetInPassed, SetInSets
  <2> QED
    BY <2>1, SetPlain
<1> QED
  BY <1>1, <1>2 DEF Update, SetEntry

\* An entry with another hash, or another directory.
LEMMA EntryPlain ==
  ASSUME IInv, PlainDirs, NEW d \in DOMAIN dirs, NEW n \in Names(d), NEW e, e = Entries(d)[n],
         NEW y, y.kind = e.kind, y.file = e.file
  PROVE  Plain(y)
BY DEF PlainDirs, Plain

LEMMA PassedPlain ==
  ASSUME NEW p, NEW e \in EntrySet
  PROVE  EntryPassed(p, e) \in EntrySet /\ EntryPassed(p, e).kind = e.kind
         /\ EntryPassed(p, e).file = e.file
BY DEF EntryPassed, EntrySet, Ref

LEMMA FilePlain ==
  ASSUME NEW e \in EntrySet, e.kind = "file", NEW y, y = HashFile(e)
  PROVE  Plain(y)
BY DEF HashFile, EntrySet, Plain

LEMMA WalkPlain ==
  ASSUME IInv, PlainDirs, NEW loc, NEW fit, Placed(loc, fit), NEW p \in Procs, Walk(p)
  PROVE  PlainDirs'
<1>1. PICK d, n, e, k, f, h :
        /\ d = g[p].d /\ n = DirPart(p)[g[p].i] /\ e = Entries(d)[n] /\ k = Len(dirs) + 1
        /\ f = EntryPassed(p, e) /\ h = e.hash
        /\ Walked(p, d, n, e, k, f, h)
  BY WalkDoes, Zenon
<1>2. CASE SameEntries
  BY <1>2, SamePlain
<1>3. CASE n \in Names(d) /\ SetsEntry(d, n, f)
  <2>1. d \in DOMAIN dirs
    BY <1>3 DEF SetsEntry
  <2>2. e \in EntrySet
    BY <1>1, <1>3, <2>1, EntryFacts
  <2>3. f.kind = e.kind /\ f.file = e.file
    BY <1>1, <2>2, PassedPlain
  <2>4. Plain(f)
    BY <1>1, <1>3, <2>1, <2>3, EntryPlain
  <2> QED
    BY <1>3, <2>4, SetPlain
<1>4. CASE LoadsDir(k, h) /\ \A c \in DOMAIN dirs : Entries(c)' = Entries(c)
  BY <1>4, LoadPlain DEF Names
<1> QED
  BY <1>1, <1>2, <1>3, <1>4, Zenon DEF Walked

LEMMA SetDirPlain ==
  ASSUME IInv, PlainDirs, NEW p \in Procs, SetDir(p)
  PROVE  PlainDirs'
<1>1. PICK d, k, id : d = g[p].d /\ k = g[p].new /\ id = g[p].id
  OBVIOUS
<1>2. PICK n : n = DirPart(p)[g[p].i]
  OBVIOUS
<1>3. PICK e : e = Entries(d)[n]
  OBVIOUS
<1>4. PICK f : f = EntryPassed(p, e)
  OBVIOUS
<1>5. PICK y : y = [f EXCEPT !.dir = k]
  OBVIOUS
<1>6. dirs' = Update(d, n, id, y)
  BY <1>1, <1>2, <1>3, <1>4, <1>5 DEF SetDir
<1>7. d \in DOMAIN dirs /\ n \in Names(d)
  BY <1>1, <1>2, LocalFacts, HeapSizes DEF SetDir, IInv, TypeOK, LocalOK, Walking
<1>8. e \in EntrySet
  BY <1>3, <1>7, EntryFacts
<1>9. f \in EntrySet /\ f.kind = e.kind /\ f.file = e.file
  BY <1>4, <1>8, PassedPlain
<1>10. y.kind = e.kind /\ y.file = e.file
  BY <1>5, <1>9 DEF EntrySet
<1>11. Plain(y)
  BY <1>3, <1>7, <1>10, EntryPlain
<1> QED
  BY <1>6, <1>7, <1>11, UpdatePlain

LEMMA MkdirPlain ==
  ASSUME IInv, PlainDirs, NEW p \in Procs, Mkdir(p)
  PROVE  PlainDirs'
<1>1. PICK d, k : d = g[p].d /\ k = Len(dirs) + 1
  OBVIOUS
<1>2. PICK n : n = DirPart(p)[g[p].i]
  OBVIOUS
<1>3. PICK y : y = NewDirEntry(k)
  OBVIOUS
<1>4. Plain(y)
  BY <1>3 DEF NewDirEntry, Plain
<1>5. d \in DOMAIN dirs
  BY <1>1, LocalFacts, HeapSizes DEF Mkdir, IInv, TypeOK, LocalOK, Walking
<1>6. PICK ds : ds = Store(d, n, y)
  OBVIOUS
<1>7. SetIn(ds, d, n, y)
  BY <1>5, <1>6, SetInStore
<1>8. /\ DOMAIN dirs = 1..Len(dirs) /\ Len(dirs) \in Nat /\ DOMAIN ds = 1..Len(dirs)
      /\ Len(ds) = Len(dirs) /\ ds \in Seq(ToSet(ds))
  BY <1>7, HeapSizes, SeqFacts DEF SetIn
<1>9. /\ DOMAIN dirs' = 1..(Len(dirs) + 1) /\ dirs'[k] = EmptyDir
      /\ \A c \in DOMAIN dirs : dirs'[c] = ds[c]
  <2>1. PICK e : e = EmptyDir
    OBVIOUS
  <2>2. dirs' = Append(ds, e)
    BY <1>1, <1>2, <1>3, <1>6, <2>1 DEF Mkdir
  <2> QED
    BY <1>1, <1>8, <2>1, <2>2, SeqFacts
<1>10. Names(k)' = {}
  BY <1>9 DEF Names, Entries, EmptyDir
<1>11. ASSUME NEW c \in DOMAIN dirs, NEW m \in Names(c)'
       PROVE  Plain(Entries(c)'[m])
  <2>1. (c = d /\ m = n) \/ (m \in Names(c) /\ Entries(c)'[m] = Entries(c)[m])
    BY <1>7, <1>9 DEF SetIn, Names, Entries
  <2>2. c = d /\ m = n => Entries(c)'[m] = y
    BY <1>7, <1>9 DEF SetIn, Entries
  <2> QED
    BY <1>4, <2>1, <2>2 DEF PlainDirs
<1> QED
  BY <1>1, <1>8, <1>9, <1>10, <1>11 DEF PlainDirs

LEMMA FilesPlain ==
  ASSUME IInv, PlainDirs, NEW loc, NEW fit, Placed(loc, fit), NEW p \in Procs,
         Write(p) \/ Link(p) \/ Read(p)
  PROVE  PlainDirs'
<1>1. CASE Write(p)
  <2>1. PICK d, n, y : Wrote(p, d, n, y)
    BY <1>1, WriteDoes, Zenon
  <2>2. SameEntries \/ (SetsEntry(d, n, y) /\ y.kind = "file")
    BY <2>1, Zenon DEF Wrote
  <2> QED
    BY <2>2, SamePlain, SetPlain DEF Plain
<1>2. CASE Link(p)
  <2>1. PICK d, n, y : Linked(p, d, n, y)
    BY <1>2, LinkDoes, Zenon
  <2>2. SameEntries \/ (SetsEntry(d, n, y) /\ y.kind = "file")
    BY <2>1, Zenon DEF Linked
  <2> QED
    BY <2>2, SamePlain, SetPlain DEF Plain
<1>3. CASE Read(p)
  <2>1. PICK d, n, y : ReadDone(d, n, y)
    BY <1>3, ReadDoes, Zenon
  <2>2. CASE /\ n \in Names(d) /\ Entries(d)[n].kind = "file"
             /\ SetsEntry(d, n, y) /\ y = HashFile(Entries(d)[n])
    <3>1. Plain(y)
      BY <2>2, EntryFacts, FilePlain DEF SetsEntry
    <3> QED
      BY <2>2, <3>1, SetPlain
  <2> QED
    BY <2>1, <2>2, SamePlain, Zenon DEF ReadDone
<1> QED
  BY <1>1, <1>2, <1>3

LEMMA HashEntryPlain ==
  ASSUME IInv, PlainDirs, NEW p \in Procs, NEW d \in DOMAIN dirs, NEW n \in Names(d),
         NEW u, HashEntry(p, d, n, u)
  PROVE  PlainDirs'
<1>1. PICK e, y : e = Entries(d)[n] /\ HashVisit(p, d, n, e, u, y)
  BY HashEntryDoes, Zenon
<1>2. CASE e.kind = "file" /\ SetsEntry(d, n, y) /\ y = HashFile(e)
  <2>1. Plain(y)
    BY <1>1, <1>2, EntryFacts, FilePlain
  <2> QED
    BY <1>2, <2>1, SetPlain
<1> QED
  BY <1>1, <1>2, SamePlain, Zenon DEF HashVisit

LEMMA HashPlain ==
  ASSUME IInv, PlainDirs, NEW loc, NEW fit, Placed(loc, fit), NEW p \in Procs,
         EntryHash(p) \/ HashNext(p) \/ HashDirDone(p) \/ Hashed(p)
  PROVE  PlainDirs'
<1>1. CASE EntryHash(p)
  <2>1. PICK d, n, u : d = g[p].d /\ n = FileName(p) /\ u = << >>
    OBVIOUS
  <2>2. d \in DOMAIN dirs
    BY <1>1, <2>1, FilePlace DEF EntryHash
  <2>3. UNCHANGED dirs \/ (n \in Names(d) /\ HashEntry(p, d, n, u))
    BY <1>1, <2>1 DEF EntryHash
  <2> QED
    BY <2>2, <2>3, HashEntryPlain, UnchangedSame, SamePlain
<1>2. CASE HashNext(p)
  <2>1. PICK n \in Names(Top(p).d) : HashEntry(p, Top(p).d, n, SeenBy(p, n))
    BY <1>2 DEF HashNext
  <2>2. PICK d, u : d = Top(p).d /\ u = SeenBy(p, n)
    OBVIOUS
  <2>3. d \in DOMAIN dirs
    BY <1>2, <2>2, AtTop DEF HashNext, Hashing
  <2> QED
    BY <2>1, <2>2, <2>3, HashEntryPlain
<1>3. CASE HashDirDone(p)
  <2>1. PICK d, h : d = Top(p).d /\ h = DirHash(Marshal(d))
    OBVIOUS
  <2>2. d \in DOMAIN dirs
    BY <1>3, <2>1, AtTop DEF HashDirDone, Hashing
  <2>3. UNCHANGED dirs \/ dirs' = SetHash(dirs, d, h)
    BY <1>3, <2>1 DEF HashDirDone, SetHash
  <2>4. ASSUME dirs' = SetHash(dirs, d, h)
        PROVE  SameEntries
    <3>1. OnlyAt(dirs, dirs', d) /\ dirs'[d].entries = dirs[d].entries
      BY <2>2, <2>4, DirIsRecord, SetHashFacts
    <3> QED
      BY <3>1 DEF OnlyAt, SameEntries, Entries
  <2> QED
    BY <2>3, <2>4, UnchangedSame, SamePlain
<1>4. CASE Hashed(p)
  <2>1. PICK f, d, n, id : f = Top(p) /\ d = f.par /\ n = f.name /\ id = f.id
    OBVIOUS
  <2>2. PICK e : e = Entries(d)[n]
    OBVIOUS
  <2>3. PICK y : y = [e EXCEPT !.hash = dirs[e.dir].hash]
    OBVIOUS
  <2>4. UNCHANGED dirs \/ (d # 0 /\ dirs' = Update(d, n, id, y))
    BY <1>4, <2>1, <2>2, <2>3, Zenon DEF Hashed
  <2>5. CASE d # 0 /\ dirs' = Update(d, n, id, y)
    <3>1. FrameOK(f)
      BY <1>4, <2>1, AtTop DEF Hashed, Hashing
    <3>2. d \in DOMAIN dirs /\ n \in Names(d)
      BY <2>1, <2>5, <3>1, HeapSizes DEF FrameOK
    <3>3. e \in EntrySet
      BY <2>2, <3>2, EntryFacts
    <3>4. y.kind = e.kind /\ y.file = e.file
      BY <2>3, <3>3 DEF EntrySet
    <3>5. Plain(y)
      BY <2>2, <3>2, <3>4, EntryPlain
    <3> QED
      BY <2>5, <3>2, <3>5, UpdatePlain
  <2> QED
    BY <2>4, <2>5, UnchangedSame, SamePlain
<1> QED
  BY <1>1, <1>2, <1>3, <1>4

LEMMA DiffNextPlain ==
  ASSUME IInv, PlainDirs, NEW p \in Procs, DiffNext(p)
  PROVE  PlainDirs'
<1>1. PICK d, n, e, k, h, y :
        /\ d = Top(p).d /\ n \in Top(p).todo \ Top(p).seen /\ n \in Names(d)
        /\ e = Entries(d)[n] /\ k = Len(dirs) + 1 /\ h = e.hash
        /\ DiffVisit(p, d, n, e, k, h, y)
  BY DiffNextDoes, Zenon
<1>2. d \in DOMAIN dirs
  BY <1>1, AtTop DEF DiffNext, Hashing
<1>3. ASSUME e.kind = "dir", y.kind = "dir", y.file = e.file
      PROVE  Plain(y)
  BY <1>1, <1>2, <1>3, EntryPlain
<1>4. CASE SetsEntry(d, n, y) /\ e.kind = "dir" /\ y.kind = "dir" /\ y.file = e.file
  BY <1>3, <1>4, SetPlain
<1>5. CASE /\ e.kind = "dir" /\ LoadsDir(k, h)
           /\ \A c \in DOMAIN dirs : c # d => Entries(c)' = Entries(c)
           /\ Names(d)' = Names(d) /\ Entries(d)'[n] = y
           /\ \A m \in Names(d) : m # n => Entries(d)'[m] = Entries(d)[m]
           /\ y.kind = "dir" /\ y.file = e.file
  <2>1. Plain(y)
    BY <1>3, <1>5
  <2>2. \A c \in DOMAIN dirs : \A m \in Names(c)' :
          (m \in Names(c) /\ Entries(c)'[m] = Entries(c)[m]) \/ Plain(Entries(c)'[m])
    BY <1>5, <2>1 DEF Names
  <2> QED
    BY <1>5, <2>2, LoadPlain
<1> QED
  BY <1>1, <1>4, <1>5, SamePlain, Zenon DEF DiffVisit

LEMMA PlainNext ==
  ASSUME IInv, Honest, PlainDirs, [Next]_vars
  PROVE  PlainDirs'
<1>1. PICK loc, fit : Placed(loc, fit)
  BY DEF Honest
<1>2. ASSUME UNCHANGED dirs
      PROVE  PlainDirs'
  BY <1>2, UnchangedSame, SamePlain
<1>3. ASSUME NEW p \in Procs, NEW r \in Requests, Begin(p, r)
      PROVE  UNCHANGED dirs
  BY <1>3 DEF Begin, heap
<1>4. ASSUME NEW w \in DOMAIN wr, CloseWriter(w) \/ PublishBlob(w)
      PROVE  UNCHANGED dirs
  BY <1>4 DEF CloseWriter, PublishBlob
<1>5. ASSUME NEW p \in Procs, Step(p)
      PROVE  PlainDirs'
  <2>1. CASE GetDir(p)
    <3>1. UNCHANGED dirs \/ (Loadable(rt.hash) /\ dirs' = Append(dirs, LoadDir(rt.hash)))
      BY <2>1, Zenon DEF GetDir
    <3>2. CASE Loadable(rt.hash) /\ dirs' = Append(dirs, LoadDir(rt.hash))
      <4>1. PICK k, h : k = Len(dirs) + 1 /\ h = rt.hash
        OBVIOUS
      <4>2. dirs \in Seq(ToSet(dirs)) /\ dirs' = Append(dirs, LoadDir(h)) /\ Loadable(h)
        BY <3>2, <4>1 DEF IInv, TypeOK, DirsOK
      <4>3. LoadsDir(k, h) /\ \A c \in DOMAIN dirs : dirs'[c] = dirs[c]
        BY <4>1, <4>2, AppendLoads
      <4> QED
        BY <4>3, LoadPlain DEF Names, Entries
    <3> QED
      BY <1>2, <3>1, <3>2
  <2>2. CASE Arrive(p)
    <3>1. PICK d : d = g[p].d
      OBVIOUS
    <3>2. dirs' = DirPassed(p, d)
      BY <2>2, <3>1 DEF Arrive
    <3>3. d \in DOMAIN dirs
      BY <2>2, <3>1, LocalFacts, HeapSizes DEF Arrive, IInv, TypeOK, LocalOK, Walking
    <3> QED
      BY <3>2, <3>3, PassedSame, SamePlain
  <2>3. CASE SetRootDir(p) \/ List(p) \/ SaveDone(p) \/ DiffStart(p) \/ NewDiffIter(p) \/ DiffUp(p)
    <3>1. UNCHANGED dirs
      BY <2>3 DEF SetRootDir, List, SaveDone, DiffStart, NewDiffIter, DiffUp, heap
    <3> QED
      BY <1>2, <3>1
  <2>4. Walk(p) => PlainDirs'
    BY <1>1, WalkPlain
  <2>5. SetDir(p) \/ Mkdir(p) \/ DiffNext(p) => PlainDirs'
    BY SetDirPlain, MkdirPlain, DiffNextPlain
  <2>6. Write(p) \/ Link(p) \/ Read(p) => PlainDirs'
    BY <1>1, FilesPlain
  <2>7. EntryHash(p) \/ HashNext(p) \/ HashDirDone(p) \/ Hashed(p) => PlainDirs'
    BY <1>1, HashPlain
  <2> QED
    BY <1>5, <2>1, <2>2, <2>3, <2>4, <2>5, <2>6, <2>7 DEF Step
<1>6. UNCHANGED vars => UNCHANGED dirs
  BY DEF vars, heap
<1> QED
  BY <1>2, <1>3, <1>4, <1>5, <1>6 DEF Next, Finished

LEMMA PlainInit ==
  ASSUME Init
  PROVE  PlainDirs
<1>1. dirs \in {<<EmptyDir>>, <<>>}
  BY DEF Init
<1> QED
  BY <1>1 DEF PlainDirs, EmptyDir, Names, Entries

-----------------------------------------------------------------------------
(* Where a path leads, through what is in memory and then through blobs *)

\* The entry that LiveHash goes to from one that it reached, by name n.
LiveNext(from, n) ==
  IF from.dir = 0 THEN [dir |-> 0, hash |-> Child(from.hash, n)]
  ELSE IF n \notin Names(from.dir) THEN [dir |-> 0, hash |-> NoHash]
  ELSE LET e == Entries(from.dir)[n]
       IN [dir |-> e.dir, hash |-> IF e.file THEN FileHashOf(e) ELSE e.hash]

Lives(at, path, k) ==
  at = [i \in 0..k |-> IF i = 0 THEN [dir |-> rt.dir, hash |-> rt.hash]
                       ELSE LiveNext(at[i-1], path[i])]

Live(path) == CHOOSE at : Lives(at, path, Len(path))

LEMMA LiveFold ==
  ASSUME NEW path
  PROVE  LiveHash(path) = Live(path)[Len(path)].hash
BY DEF LiveHash, Live, Lives, LiveNext

LEMMA LivesExist ==
  ASSUME NEW path
  PROVE  \A k \in Nat : \E at : Lives(at, path, k)
<1> DEFINE S == {k \in Nat : \E at : Lives(at, path, k)}
<1>1. PICK r : r = [dir |-> rt.dir, hash |-> rt.hash]
  OBVIOUS
<1>2. 0 \in S
  <2>1. PICK at : at = [i \in 0..0 |-> r]
    OBVIOUS
  <2>2. at = [i \in 0..0 |-> at[i]] /\ \A i \in 0..0 : i = 0 /\ at[i] = r
    BY <2>1
  <2>3. at = [i \in 0..0 |-> IF i = 0 THEN r ELSE LiveNext(at[i-1], path[i])]
    BY <2>2
  <2> QED
    BY <1>1, <2>3 DEF Lives
<1>3. ASSUME NEW k \in Nat, k \in S
      PROVE  k + 1 \in S
  <2>1. PICK at : Lives(at, path, k)
    BY <1>3
  <2>2. \A i \in 0..k : at[i] = IF i = 0 THEN r ELSE LiveNext(at[i-1], path[i])
    <3>1. at = [i \in 0..k |-> IF i = 0 THEN r ELSE LiveNext(at[i-1], path[i])]
      BY <1>1, <2>1 DEF Lives
    <3> QED
      BY <3>1
  <2>3. PICK z : z = LiveNext(at[k], path[k + 1])
    OBVIOUS
  <2>4. PICK bt : bt = [i \in 0..(k + 1) |-> IF i = k + 1 THEN z ELSE at[i]]
    OBVIOUS
  <2>5. /\ bt = [i \in 0..(k + 1) |-> bt[i]] /\ bt[k + 1] = z
        /\ \A i \in 0..k : bt[i] = at[i]
    BY <2>4
  <2>6. ASSUME NEW i \in 0..(k + 1)
        PROVE  bt[i] = IF i = 0 THEN r ELSE LiveNext(bt[i-1], path[i])
    <3>1. CASE i = k + 1
      <4>1. i # 0 /\ i - 1 = k /\ k \in 0..k
        BY <3>1
      <4>2. bt[k] = at[k]
        BY <2>5, <4>1
      <4> QED
        BY <2>3, <2>5, <3>1, <4>1, <4>2
    <3>2. CASE i # k + 1
      <4>1. i \in 0..k /\ (i # 0 => i - 1 \in 0..k)
        BY <3>2
      <4>2. bt[i] = at[i] /\ (i # 0 => bt[i - 1] = at[i - 1])
        BY <2>5, <4>1
      <4> QED
        BY <2>2, <4>1, <4>2
    <3> QED
      BY <3>1, <3>2
  <2>7. bt = [i \in 0..(k + 1) |-> IF i = 0 THEN r ELSE LiveNext(bt[i-1], path[i])]
    BY <2>5, <2>6
  <2> QED
    BY <1>1, <2>7 DEF Lives
<1>4. Nat \subseteq S
  <2> HIDE DEF S
  <2> QED
    BY <1>2, <1>3, NatSteps
<1> QED
  BY <1>4

LEMMA LiveSteps ==
  ASSUME NEW path, Len(path) \in Nat
  PROVE  /\ Live(path)[0] = [dir |-> rt.dir, hash |-> rt.hash]
         /\ \A i \in 1..Len(path) : Live(path)[i] = LiveNext(Live(path)[i-1], path[i])
<1>1. PICK at : at = Live(path)
  OBVIOUS
<1>2. Lives(at, path, Len(path))
  BY <1>1, LivesExist DEF Live
<1>3. \A i \in 0..Len(path) : at[i] = IF i = 0 THEN [dir |-> rt.dir, hash |-> rt.hash]
                                     ELSE LiveNext(at[i-1], path[i])
  BY <1>2 DEF Lives
<1> QED
  BY <1>1, <1>3
LEMMA NextInBlob ==
  ASSUME NEW r, r.dir = 0, NEW n
  PROVE  LiveNext(r, n).dir = 0 /\ LiveNext(r, n).hash = Child(r.hash, n)
BY DEF LiveNext

LEMMA NextInDir ==
  ASSUME NEW r, NEW d, r.dir = d, d # 0, NEW n \in Names(d), NEW e, e = Entries(d)[n]
  PROVE  /\ LiveNext(r, n).dir = e.dir
         /\ LiveNext(r, n).hash = IF e.file THEN FileHashOf(e) ELSE e.hash
BY DEF LiveNext

\* A path with the directories c on its way leads to its content.
LEMMA LiveChain ==
  ASSUME IInv, OneContent, ContentsOnly, PlainDirs, NEW loc, NEW fit, Placed(loc, fit),
         NEW f \in Paths, NEW c, c[0] = rt.dir, ChainIn(dirs, wr, f, c),
         rt.dir = 0 => HoldsAt(rt.hash, f, 0)
  PROVE  LiveHash(f) = Content(f)
<1>1. Len(f) \in Nat /\ Len(f) # 0
  BY PrefixFacts
<1>2. PICK at : at = Live(f)
  OBVIOUS
<1>3. /\ at[0] = [dir |-> rt.dir, hash |-> rt.hash]
      /\ \A i \in 1..Len(f) : at[i] = LiveNext(at[i-1], f[i])
  BY <1>1, <1>2, LiveSteps
<1>4. \A i \in 0..(Len(f) - 1) : at[i + 1] = LiveNext(at[i], f[i + 1])
  <2> SUFFICES ASSUME NEW i \in 0..(Len(f) - 1)
               PROVE  at[i + 1] = LiveNext(at[i], f[i + 1])
    OBVIOUS
  <2>1. i + 1 \in 1..Len(f) /\ (i + 1) - 1 = i
    BY <1>1
  <2> QED
    BY <1>3, <2>1
<1> DEFINE S == {k \in Nat : k < Len(f) =>
                   at[k].dir = c[k] /\ (c[k] = 0 => HoldsAt(at[k].hash, f, k))}
<1>5. 0 \in S
  BY <1>3
<1>6. ASSUME NEW k \in 0..(Len(f) - 1), at[k].dir = c[k], c[k] = 0
      PROVE  at[k + 1].dir = 0 /\ at[k + 1].hash = Child(at[k].hash, f[k + 1])
  <2>1. PICK r : r = at[k]
    OBVIOUS
  <2>2. r.dir = 0 /\ at[k + 1] = LiveNext(r, f[k + 1])
    BY <1>4, <1>6, <2>1
  <2> QED
    BY <2>1, <2>2, NextInBlob
<1>7. ASSUME NEW k \in 0..(Len(f) - 1), at[k].dir = c[k], c[k] # 0,
             NEW e, e = Entries(c[k])[f[k + 1]]
      PROVE  /\ c[k] \in DOMAIN dirs /\ f[k + 1] \in Names(c[k])
             /\ EntryHolds(wr, f, k, e, c[k + 1])
             /\ at[k + 1].dir = e.dir
             /\ at[k + 1].hash = IF e.file THEN FileHashOf(e) ELSE e.hash
  <2>1. /\ c[k] \in DOMAIN dirs /\ f[k + 1] \in Names(c[k])
        /\ EntryHolds(wr, f, k, e, c[k + 1])
    BY <1>7 DEF ChainIn, Names, Entries
  <2>2. PICK r, d, n : r = at[k] /\ d = c[k] /\ n = f[k + 1]
    OBVIOUS
  <2>3. /\ r.dir = d /\ d # 0 /\ n \in Names(d) /\ e = Entries(d)[n]
        /\ at[k + 1] = LiveNext(r, n)
    BY <1>4, <1>7, <2>1, <2>2
  <2>4. /\ LiveNext(r, n).dir = e.dir
        /\ LiveNext(r, n).hash = IF e.file THEN FileHashOf(e) ELSE e.hash
    BY <2>3, NextInDir
  <2> QED
    BY <2>1, <2>3, <2>4
<1>8. ASSUME NEW k \in Nat, k \in S
      PROVE  k + 1 \in S
  <2> SUFFICES ASSUME k + 1 < Len(f)
               PROVE  /\ at[k + 1].dir = c[k + 1]
                      /\ c[k + 1] = 0 => HoldsAt(at[k + 1].hash, f, k + 1)
    OBVIOUS
  <2>1. k \in 0..(Len(f) - 1) /\ at[k].dir = c[k] /\ (c[k] = 0 => HoldsAt(at[k].hash, f, k))
    BY <1>1, <1>8
  <2>2. CASE c[k] = 0
    <3>1. c[k + 1] = 0
      BY <2>1, <2>2 DEF ChainIn
    <3>2. at[k + 1].dir = 0 /\ at[k + 1].hash = Child(at[k].hash, f[k + 1])
      BY <1>6, <2>1, <2>2
    <3>3. PICK h : h = at[k].hash
      OBVIOUS
    <3>4. HoldsAt(h, f, k)
      BY <2>1, <2>2, <3>3
    <3>5. /\ IsDirHash(h) /\ f[k + 1] \in DOMAIN Listing(h)
          /\ HoldsAt(Listing(h)[f[k + 1]].hash, f, k + 1)
      BY <1>1, <2>1, <3>4, HoldsStep
    <3>6. Child(h, f[k + 1]) = Listing(h)[f[k + 1]].hash
      BY <3>5 DEF Child
    <3> QED
      BY <3>1, <3>2, <3>3, <3>5, <3>6
  <2>3. CASE c[k] # 0
    <3>1. PICK e : e = Entries(c[k])[f[k + 1]]
      OBVIOUS
    <3>2. /\ c[k] \in DOMAIN dirs /\ f[k + 1] \in Names(c[k])
          /\ EntryHolds(wr, f, k, e, c[k + 1])
          /\ at[k + 1].dir = e.dir
          /\ at[k + 1].hash = IF e.file THEN FileHashOf(e) ELSE e.hash
      BY <1>7, <2>1, <2>3, <3>1
    <3>3. e.kind = "dir" /\ e.dir = c[k + 1] /\ (c[k + 1] = 0 => HoldsAt(e.hash, f, k + 1))
      BY <3>2 DEF EntryHolds
    <3>4. ~e.file
      BY <3>1, <3>2, <3>3 DEF PlainDirs, Plain
    <3> QED
      BY <3>2, <3>3, <3>4
  <2> QED
    BY <2>2, <2>3
<1>9. Nat \subseteq S
  <2> HIDE DEF S
  <2> QED
    BY <1>5, <1>8, NatSteps
<1>10. PICK k : k = Len(f) - 1
  OBVIOUS
<1>11. k \in Nat /\ k + 1 = Len(f) /\ k \in 0..(Len(f) - 1) /\ k < Len(f)
  BY <1>1, <1>10
<1>12. at[k].dir = c[k] /\ (c[k] = 0 => HoldsAt(at[k].hash, f, k))
  BY <1>9, <1>11
<1>13. at[k + 1].hash = Content(f)
  <2>1. CASE c[k] = 0
    <3>1. PICK h : h = at[k].hash
      OBVIOUS
    <3>2. at[k + 1].hash = Child(h, f[k + 1])
      BY <1>6, <1>11, <1>12, <2>1, <3>1
    <3>3. HoldsAt(h, f, k)
      BY <1>12, <2>1, <3>1
    <3>4. /\ IsDirHash(h) /\ f[k + 1] \in DOMAIN Listing(h)
          /\ Listing(h)[f[k + 1]].hash = Content(f)
      BY <1>1, <1>11, <3>3, HoldsStep
    <3> QED
      BY <3>2, <3>4 DEF Child
  <2>2. CASE c[k] # 0
    <3>1. PICK e : e = Entries(c[k])[f[k + 1]]
      OBVIOUS
    <3>2. /\ EntryHolds(wr, f, k, e, c[k + 1])
          /\ at[k + 1].hash = IF e.file THEN FileHashOf(e) ELSE e.hash
      BY <1>7, <1>11, <1>12, <2>2, <3>1
    <3>3. HashIn(wr, e) = Content(f)
      BY <1>11, <2>2, <3>1, ChainFile
    <3> QED
      BY <3>2, <3>3 DEF HashIn, FileHashOf
  <2> QED
    BY <2>1, <2>2
<1> QED
  BY <1>2, <1>11, <1>13, LiveFold

LEMMA KeepLive ==
  ASSUME IInv, OneContent, Honest, ContentsOnly, KeepInv, PlainDirs
  PROVE  LiveKeeps
<1> SUFFICES ASSUME NEW f \in Paths, sealed[f].now # NoHash
             PROVE  LiveHash(f) = sealed[f].now
  BY DEF LiveKeeps
<1>1. PICK loc, fit : Placed(loc, fit)
  BY DEF Honest
<1>2. f \in Held /\ Len(f) \in Nat
  BY PrefixFacts DEF Held
<1>3. sealed[f].now = Content(f)
  BY <1>2, HeldContent
<1>4. Chain(f)
  BY <1>2 DEF KeepInv
<1>5. CASE rt.dir = 0
  <2>1. PICK c : c = [i \in 0..Len(f) |-> 0]
    OBVIOUS
  <2>2. \A i \in 0..Len(f) : c[i] = 0
    BY <2>1
  <2>3. c[0] = rt.dir /\ ChainIn(dirs, wr, f, c)
    BY <1>2, <1>5, <2>2 DEF ChainIn
  <2>4. HoldsAt(rt.hash, f, 0)
    BY <1>4, <1>5 DEF Chain
  <2> QED
    BY <1>1, <1>3, <2>3, <2>4, LiveChain
<1>6. CASE rt.dir # 0
  <2>1. PICK c : c[0] = rt.dir /\ ChainIn(dirs, wr, f, c)
    BY <1>4, <1>6 DEF Chain
  <2> QED
    BY <1>1, <1>3, <1>6, <2>1, LiveChain
<1> QED
  BY <1>5, <1>6

-----------------------------------------------------------------------------
(* The theorems *)

Kept == /\ IInv /\ Honest /\ Replay /\ ContentsOnly
        /\ CacheInv /\ KeepInv /\ PlainDirs

LEMMA KeptAlways ==
  ASSUME OneGoroutine, OneContent, FilesOnly
  PROVE  (Init => Kept) /\ (Kept /\ [Next]_vars => Kept')
<1>1. Init => Kept
  BY InitOK, HonestInit, ReplayInit, ContentsInit, CacheInit, KeepInit, PlainInit DEF Kept
<1>2. ASSUME Kept, [Next]_vars
      PROVE  Kept'
  <2>1. IInv /\ Honest /\ Replay /\ ContentsOnly /\ CacheInv /\ KeepInv /\ PlainDirs
    BY <1>2 DEF Kept
  <2>2. IInv'
    BY <1>2, <2>1, StepOK
  <2>3. Honest' /\ Replay' /\ ContentsOnly'
    BY <1>2, <2>1, <2>2, HonestNext, ReplayNext, ContentsNext
  <2>4. CacheInv'
    BY <1>2, <2>1, CacheNext
  <2>5. KeepInv'
    BY <1>2, <2>1, KeepNext
  <2>6. PlainDirs'
    BY <1>2, <2>1, PlainNext
  <2> QED
    BY <2>2, <2>3, <2>4, <2>5, <2>6 DEF Kept
<1> QED
  BY <1>1, <1>2

\* With one goroutine, and one content for each path, the tree that Save returns has, for
\* each path, what was completely written there before the Save began.
THEOREM SaveKeeps ==
  ASSUME OneGoroutine, OneContent, FilesOnly
  PROVE  Spec => []SaveCaptures
<1>1. Kept => SaveCaptures
  BY DEF Kept, KeepInv
<1> QED
  BY <1>1, KeptAlways, PTL DEF Spec

\* With one goroutine, and one content for each path, whenever nothing is going on each
\* path of the Root in memory leads to what was last written there: no step of Save, of a
\* diff or of a read loses a file from the tree.
THEOREM NothingLost ==
  ASSUME OneGoroutine, OneContent, FilesOnly
  PROVE  Spec => []LiveKeeps
<1>1. Kept => LiveKeeps
  BY KeepLive DEF Kept
<1> QED
  BY <1>1, KeptAlways, PTL DEF Spec
=============================================================================
