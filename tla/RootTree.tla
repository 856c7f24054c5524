------------------------------ MODULE RootTree ------------------------------
(***************************************************************************)
(* One Root of internal/storage/root.go as the goroutines that serve HTTP  *)
(* requests share it: a tree of Dir and DirEntry objects, loaded lazily    *)
(* from content-addressed blobs, written by Write and Link, and hashed     *)
(* bottom-up into new directory blobs by Save, DiffRoots and EntryHash.    *)
(* The only lock in the code is Dir.mu, taken around the insertion of an   *)
(* entry; every other access interleaves freely, and so does this model.   *)
(*                                                                         *)
(* A pointer to a Dir is its index in dirs, 0 is nil.  A DirEntry lives in *)
(* the Entries map of its Dir; id tells two entries apart that were stored *)
(* under one name one after the other.  A File belongs to one DirEntry and *)
(* is kept inside it: file says that the pointer is not nil.               *)
(***************************************************************************)
EXTENDS Merkle

CONSTANTS
  Procs,      \* goroutines
  Paths,      \* file paths, non-empty sequences of names
  Puts,       \* <<path, content>> pairs that Write may store
  Links,      \* <<path, hash>> pairs that Link may store
  DirPaths,   \* paths that List and EntryHash are asked for
  Starts,     \* [base, readonly] records: how the Root was opened
  BaseBlobs,  \* blobs in the store when the Root is opened
  Quota       \* per start: how many operations of each kind may begin, and faults

Ops == {"write", "link", "read", "list", "entryHash", "save", "diff"}

\* The blobs a new Root finds form complete trees: they are what earlier Saves
\* and closed writers stored.
ASSUME BaseAssumption ==
  /\ NoHash \notin BaseBlobs
  /\ \A h \in BaseBlobs : WellFormed(h) /\ KindsAgree(h) /\ Children(h) \subseteq BaseBlobs

\* Only a Root made of a hash is readonly.
ASSUME StartAssumption ==
  /\ Starts \subseteq [base : BaseBlobs \union {NoHash}, readonly : BOOLEAN]
  /\ \A s \in Starts : s.readonly => s.base # NoHash

ASSUME PathAssumption ==
  /\ \A path \in Paths \union DirPaths : path \in Seq(STRING) /\ path # <<>>
  /\ \A put \in Puts : put[1] \in Paths
  /\ \A link \in Links : link[1] \in Paths /\ link[2] \in BaseBlobs

ASSUME QuotaAssumption == Quota \in [Starts -> [Ops \union {"fault"} -> Nat]]

VARIABLES
  rt,        \* the Root: [hash, dir, readonly]
  dirs,      \* Dir objects: [hash, entries]
  wr,        \* blobWrite objects handed out by Write: [path, hash, st]
  blobs,     \* hashes of the blobs in the store
  lost,      \* hashes of the blobs whose closeFn failed
  g,         \* per goroutine: where it is, its request, its locals, its stack
  left       \* remaining quota

\* Observations: only to state properties, no guard reads them.
VARIABLES
  sealed,    \* path -> [now: hash of its stored content, ever: all closed contents]
  saved,     \* the last successful Save: [hash, must]
  got,       \* the last Read: [path, want, hash]
  panicked   \* some goroutine dereferenced a nil pointer

heap == <<rt, dirs, wr, blobs, lost>>
obs  == <<sealed, saved, got, panicked>>
vars == <<heap, g, left, obs>>

-----------------------------------------------------------------------------
(* Objects *)

\* Definitions marked "Mutant" are changed forms of the one that follows, which a
\* bug in the code could have; nothing uses them.

\* Mutant: Write forgets the File of a new entry.
NewFileEntryNil(h) == [kind |-> "file", hash |-> NoHash, dir |-> 0, id |-> 0,
                       file |-> FALSE, fhash |-> h, blobW |-> 0]

\* Mutant: a file's File is made with the directory, without its hash.
LoadedEntryEager(c) == [kind |-> c.kind, hash |-> c.hash, dir |-> 0, id |-> 0,
                        file |-> c.kind = "file", fhash |-> NoHash, blobW |-> 0]

NewDirEntry(d)  == [kind |-> "dir", hash |-> NoHash, dir |-> d, id |-> d,
                    file |-> FALSE, fhash |-> NoHash, blobW |-> 0]
NewFileEntry(h) == [kind |-> "file", hash |-> NoHash, dir |-> 0, id |-> 0,
                    file |-> TRUE, fhash |-> h, blobW |-> 0]
LoadedEntry(c)  == [kind |-> c.kind, hash |-> c.hash, dir |-> 0, id |-> 0,
                    file |-> FALSE, fhash |-> NoHash, blobW |-> 0]

EmptyDir == [hash |-> NoHash, entries |-> <<>>]

\* loadDir: the Dir built from a directory blob.  It fails when the blob is not
\* in the store or is not a directory.
Loadable(h) == h \in blobs /\ IsDirHash(h)
LoadDir(h)  == [hash    |-> NoHash,
                entries |-> [n \in DOMAIN Listing(h) |-> LoadedEntry(Listing(h)[n])]]

Entries(d) == dirs[d].entries
Names(d)   == DOMAIN Entries(d)

\* json.Marshal of a Dir: kinds and hashes, no pointers.
Marshal(d) == [n \in Names(d) |-> [kind |-> Entries(d)[n].kind,
                                   hash |-> Entries(d)[n].hash]]

\* Mutants: the hash of an open writer is taken; it is not kept in the File.
HashFileUnchecked(e) == e.blobW = 0 /\ e.fhash = NoHash
HashFileForgets(e)   == [e EXCEPT !.hash = IF e.blobW # 0 THEN wr[e.blobW].hash ELSE e.fhash,
                                  !.blobW = 0]

\* hashFile, on the File of entry e: an open writer or an empty hash is an error.
HashFileFails(e) == IF e.blobW # 0 THEN wr[e.blobW].st = "open"
                                   ELSE e.fhash = NoHash
FileHashOf(e)    == IF e.blobW # 0 THEN wr[e.blobW].hash ELSE e.fhash
HashFile(e)      == [e EXCEPT !.hash = FileHashOf(e), !.fhash = FileHashOf(e),
                              !.blobW = 0]

-----------------------------------------------------------------------------
(* Requests and the locals of a goroutine *)

NoReq == [op |-> "none", path |-> <<>>, arg |-> NoHash]

Requests ==
       {[op |-> "write", path |-> w[1], arg |-> FileHash(w[2])] : w \in Puts}
  \cup {[op |-> "link",  path |-> l[1], arg |-> l[2]] : l \in Links}
  \cup {[op |-> "read",  path |-> f, arg |-> NoHash] : f \in Paths}
  \cup {[op |-> o, path |-> d, arg |-> NoHash] : o \in {"list", "entryHash"},
                                                 d \in DirPaths}
  \cup {[op |-> o, path |-> <<>>, arg |-> NoHash] : o \in {"save", "diff"}}

Idle == [at |-> "idle", req |-> NoReq, must |-> <<>>,
         i |-> 1, d |-> 0, new |-> 0, id |-> 0, stk |-> <<>>]

IsWrite(p) == g[p].req.op \in {"write", "link"}

\* The directories getDir walks through: path[:len(path)-1], or all of path.
DirPart(p) == IF g[p].req.op \in {"list", "diff"} THEN g[p].req.path
                                                  ELSE Front(g[p].req.path)
FileName(p) == Last(g[p].req.path)

Goto(p, l)    == g' = [g EXCEPT ![p].at = l]
Advance(p, d) == g' = [g EXCEPT ![p].at = "walk", ![p].d = d, ![p].i = @ + 1]

\* The operation ends, with a result, an error or (flagged) a panic.
Return(p) == g' = [g EXCEPT ![p] = Idle]
Panic(p)  == Return(p) /\ panicked' = TRUE

Fault == left["fault"] > 0 /\ left' = [left EXCEPT !["fault"] = @ - 1]

\* Mutants: the hash of the entry is never cleared, or whatever the operation.
EntryKept(p, e)    == e
EntryCleared(p, e) == [e EXCEPT !.hash = NoHash]

\* On the way of a write the hashes of the root, of each directory and of each
\* entry passed are cleared.
RootPassed(p)   == IF IsWrite(p) THEN [rt EXCEPT !.hash = NoHash] ELSE rt
DirPassed(p, d) == IF IsWrite(p) THEN [dirs EXCEPT ![d].hash = NoHash] ELSE dirs
EntryPassed(p, e) == IF IsWrite(p) THEN [e EXCEPT !.hash = NoHash] ELSE e

\* Entries[n] = e in directory d, whether or not the name was there.
With(m, n, e)  == [k \in DOMAIN m \union {n} |-> IF k = n THEN e ELSE m[k]]
Store(d, n, e) == [dirs EXCEPT ![d].entries = With(@, n, e)]

\* A change of the entry object id, seen in directory d if it is still there.
Update(d, n, id, e) ==
  IF Entries(d)[n].id = id THEN [dirs EXCEPT ![d].entries[n] = e] ELSE dirs

\* A frame of hashDir or of diffIter: the directory d it ranges over, the entry
\* (parent, name, id) that d was reached through, the names that were present
\* when the range began and those already visited.
Frame(d, names, par, n, id) ==
  [d |-> d, par |-> par, name |-> n, id |-> id, todo |-> names, seen |-> {}]
\* Mutant: the range does not advance.
SeenByNone(p, n) == g[p].stk

RootFrame(d)  == Frame(d, Names(d), 0, "", 0)
Top(p)        == g[p].stk[Len(g[p].stk)]
SeenBy(p, n)  == [g[p].stk EXCEPT ![Len(g[p].stk)].seen = @ \union {n}]
RangeDone(p)  == Top(p).todo \subseteq Top(p).seen
SetStk(p, s)  == g' = [g EXCEPT ![p].stk = s]

-----------------------------------------------------------------------------
(* Starting an operation.  Save and DiffRoots hash the tree first unless     *)
(* there is nothing to hash.                                                 *)

Begin(p, r) ==
  /\ g[p].at = "idle"
  /\ left[r.op] > 0
  /\ left' = [left EXCEPT ![r.op] = @ - 1]
  /\ LET hashes == r.op \in {"save", "diff"}
         dirty  == ~rt.readonly /\ rt.dir # 0
     IN g' = [g EXCEPT ![p] =
          [Idle EXCEPT
             !.req  = r,
             !.must = IF r.op \in {"save", "read"} THEN [f \in Paths |-> sealed[f].now] ELSE @,
             !.stk  = IF hashes /\ dirty THEN <<RootFrame(rt.dir)>> ELSE @,
             !.at   = IF ~hashes THEN "getDir" ELSE IF dirty THEN "hash" ELSE "rootReady"]]
  /\ UNCHANGED <<heap, obs>>

-----------------------------------------------------------------------------
(* getDir and the lazy loads *)

\* A readonly Root refuses writes; loadRoot reads a missing directory from its
\* blob, which SetRootDir assigns.
GetDir(p) ==
  /\ g[p].at = "getDir"
  /\ LET fails == \/ rt.readonly /\ IsWrite(p)
                  \/ rt.dir = 0 /\ ~Loadable(rt.hash)
     IN \/ /\ fails
           /\ Return(p)
           /\ UNCHANGED <<rt, dirs>>
        \/ /\ ~fails /\ rt.dir # 0
           /\ rt' = RootPassed(p)
           /\ g' = [g EXCEPT ![p].at = "walk", ![p].d = rt.dir]
           /\ UNCHANGED dirs
        \/ /\ ~fails /\ rt.dir = 0
           /\ dirs' = Append(dirs, LoadDir(rt.hash))
           /\ g' = [g EXCEPT ![p].at = "setRootDir", ![p].new = Len(dirs) + 1]
           /\ UNCHANGED rt
  /\ UNCHANGED <<wr, blobs, lost, left, obs>>

SetRootDir(p) ==
  /\ g[p].at = "setRootDir"
  /\ rt' = [RootPassed(p) EXCEPT !.dir = g[p].new]
  /\ g' = [g EXCEPT ![p].at = "walk", ![p].d = g[p].new]
  /\ UNCHANGED <<dirs, wr, blobs, lost, left, obs>>

\* One iteration of the loop over path: the entry is missing, in the way, there
\* with its directory, or there with a directory still to be loaded.
Walk(p) ==
  /\ g[p].at = "walk" /\ g[p].i <= Len(DirPart(p))
  /\ LET d == g[p].d
         n == DirPart(p)[g[p].i]
         e == Entries(d)[n]
         found == n \in Names(d)
         fails == IF found THEN e.kind # "dir" \/ (e.dir = 0 /\ ~Loadable(e.hash))
                           ELSE ~IsWrite(p)
     IN \/ /\ fails
           /\ dirs' = DirPassed(p, d)
           /\ Return(p)
        \/ /\ ~fails /\ ~found
           /\ dirs' = DirPassed(p, d)
           /\ Goto(p, "mkdir")
        \/ /\ ~fails /\ found /\ e.dir # 0
           /\ dirs' = [DirPassed(p, d) EXCEPT ![d].entries[n] = EntryPassed(p, e)]
           /\ Advance(p, e.dir)
        \/ /\ ~fails /\ found /\ e.dir = 0
           /\ dirs' = Append(DirPassed(p, d), LoadDir(e.hash))
           /\ g' = [g EXCEPT ![p].at = "setDir", ![p].new = Len(dirs) + 1, ![p].id = e.id]
  /\ UNCHANGED <<rt, wr, blobs, lost, left, obs>>

\* entry.dir = dir, after a load that does not look again.
SetDir(p) ==
  /\ g[p].at = "setDir"
  /\ LET d == g[p].d
         n == DirPart(p)[g[p].i]
     IN dirs' = Update(d, n, g[p].id,
                       [EntryPassed(p, Entries(d)[n]) EXCEPT !.dir = g[p].new])
  /\ Advance(p, g[p].new)
  /\ UNCHANGED <<rt, wr, blobs, lost, left, obs>>

\* The new directory goes into the map under Dir.mu, without looking again.
Mkdir(p) ==
  /\ g[p].at = "mkdir"
  /\ LET new == Len(dirs) + 1
     IN /\ dirs' = Append(Store(g[p].d, DirPart(p)[g[p].i], NewDirEntry(new)), EmptyDir)
        /\ Advance(p, new)
  /\ UNCHANGED <<rt, wr, blobs, lost, left, obs>>

\* getDir returns, and the operation goes on with the directory.
Arrive(p) ==
  /\ g[p].at = "walk" /\ g[p].i > Len(DirPart(p))
  /\ dirs' = DirPassed(p, g[p].d)
  /\ Goto(p, g[p].req.op)
  /\ UNCHANGED <<rt, wr, blobs, lost, left, obs>>

-----------------------------------------------------------------------------
(* The operations, once getDir has found the directory *)

\* Write: under Dir.mu the entry is created (or its File loaded) and given a
\* new blob writer.  The entry stays behind when BlobCreate fails.
Write(p) ==
  /\ g[p].at = "write"
  /\ LET d    == g[p].d
         n    == FileName(p)
         path == g[p].req.path
         blocked == n \in Names(d) /\ Entries(d)[n].kind # "file"
         e    == IF n \notin Names(d) THEN NewFileEntry(NoHash)
                 ELSE IF Entries(d)[n].file THEN Entries(d)[n]
                 ELSE [Entries(d)[n] EXCEPT !.file = TRUE, !.fhash = Entries(d)[n].hash]
     IN \/ /\ blocked
           /\ UNCHANGED <<dirs, wr, left, sealed>>
        \/ /\ ~blocked
           /\ dirs' = Store(d, n, [e EXCEPT !.blobW = Len(wr) + 1])
           /\ wr' = Append(wr, [path |-> path, hash |-> g[p].req.arg, st |-> "open"])
           /\ sealed' = [sealed EXCEPT ![path].now = NoHash]
           /\ UNCHANGED left
        \/ /\ ~blocked /\ Fault
           /\ dirs' = Store(d, n, e)
           /\ UNCHANGED <<wr, sealed>>
  /\ Return(p)
  /\ UNCHANGED <<rt, blobs, lost, saved, got, panicked>>

\* Link puts a new file entry in place of whatever file has the name.
Link(p) ==
  /\ g[p].at = "link"
  /\ LET d    == g[p].d
         n    == FileName(p)
         blob == g[p].req.arg
     IN IF n \in Names(d) /\ Entries(d)[n].kind # "file"
          THEN UNCHANGED <<dirs, sealed>>
          ELSE /\ dirs' = Store(d, n, NewFileEntry(blob))
               /\ sealed' = [sealed EXCEPT ![g[p].req.path] =
                               [now |-> blob, ever |-> @.ever \union {blob}]]
  /\ Return(p)
  /\ UNCHANGED <<rt, wr, blobs, lost, left, saved, got, panicked>>

\* Read: a File in memory gives the hash, otherwise the entry does.
Read(p) ==
  /\ g[p].at = "read"
  /\ LET d == g[p].d
         n == FileName(p)
         e == Entries(d)[n]
         fails == n \notin Names(d) \/ e.kind # "file" \/ (e.file /\ HashFileFails(e))
         hash  == IF fails THEN NoHash ELSE IF e.file THEN FileHashOf(e) ELSE e.hash
     IN /\ dirs' = IF ~fails /\ e.file
                     THEN [dirs EXCEPT ![d].entries[n] = HashFile(e)] ELSE dirs
        /\ got' = [path |-> g[p].req.path,
                   want |-> g[p].must[g[p].req.path],
                   hash |-> IF hash \in blobs THEN hash ELSE NoHash]
  /\ Return(p)
  /\ UNCHANGED <<rt, wr, blobs, lost, left, sealed, saved, panicked>>

List(p) ==
  /\ g[p].at = "list"
  /\ Return(p)
  /\ UNCHANGED <<heap, left, obs>>

-----------------------------------------------------------------------------
(* hashDir and hashFile *)

\* The caller of hashEntry goes on with its range; EntryHash, with no range under
\* it, returns.
Resume(p, stk) ==
  IF stk = <<>> THEN Return(p) ELSE g' = [g EXCEPT ![p].at = "hash", ![p].stk = stk]

\* What becomes of entry n of directory d when its hash is asked for: it is
\* there, it comes from the File, or hashDir is called on the directory.
HashEntry(p, d, n, stk) ==
  LET e      == Entries(d)[n]
      empty  == e.hash = NoHash
      isNil  == IF e.kind = "dir" THEN e.dir = 0 ELSE ~e.file
      isFile == empty /\ ~isNil /\ e.kind = "file"
  IN \/ /\ ~empty
        /\ Resume(p, stk)
        /\ UNCHANGED <<dirs, panicked>>
     \/ /\ empty /\ isNil
        /\ Panic(p)
        /\ UNCHANGED dirs
     \/ /\ empty /\ ~isNil /\ e.kind = "dir"
        /\ g' = [g EXCEPT ![p].at = "hash",
                          ![p].stk = Append(stk, Frame(e.dir, Names(e.dir), d, n, e.id))]
        /\ UNCHANGED <<dirs, panicked>>
     \/ /\ isFile /\ HashFileFails(e)
        /\ Return(p)
        /\ UNCHANGED <<dirs, panicked>>
     \/ /\ isFile /\ ~HashFileFails(e)
        /\ dirs' = [dirs EXCEPT ![d].entries[n] = HashFile(e)]
        /\ Resume(p, stk)
        /\ UNCHANGED panicked

EntryHash(p) ==
  /\ g[p].at = "entryHash"
  /\ IF FileName(p) \in Names(g[p].d)
       THEN HashEntry(p, g[p].d, FileName(p), <<>>)
       ELSE Return(p) /\ UNCHANGED <<dirs, panicked>>
  /\ UNCHANGED <<rt, wr, blobs, lost, left, sealed, saved, got>>

\* The range over d.Entries reaches name n.  One inserted since it began may or
\* may not be reached.
HashNext(p) ==
  /\ g[p].at = "hash"
  /\ \E n \in Names(Top(p).d) \ Top(p).seen : HashEntry(p, Top(p).d, n, SeenBy(p, n))
  /\ UNCHANGED <<rt, wr, blobs, lost, left, sealed, saved, got>>

\* Every name the range owed a visit is done: marshal, store the blob, keep its
\* hash.  The error of bw.Close is ignored, so a blob that could not be put in
\* place leaves its hash behind; a failing BlobCreate ends the operation.
HashDirDone(p) ==
  /\ g[p].at = "hash" /\ RangeDone(p)
  /\ LET d == Top(p).d
         h == DirHash(Marshal(d))
         keep == dirs' = [dirs EXCEPT ![d].hash = h] /\ Goto(p, "hashed")
     IN \/ /\ keep
           /\ blobs' = blobs \union {h}
           /\ UNCHANGED <<lost, left>>
        \/ /\ Fault /\ keep
           /\ lost' = lost \union {h}
           /\ UNCHANGED blobs
        \/ /\ Fault /\ Return(p)
           /\ UNCHANGED <<dirs, blobs, lost>>
  /\ UNCHANGED <<rt, wr, obs>>

\* The caller of hashDir goes on: r.hash = r.dir.hash at the root, elsewhere
\* entry.Hash = entry.dir.hash, with entry.dir read anew.
Hashed(p) ==
  /\ g[p].at = "hashed"
  /\ LET f == Top(p)
         e == Entries(f.par)[f.name]
         isNil == e.id = f.id /\ e.dir = 0
     IN \/ /\ f.par = 0
           /\ rt' = [rt EXCEPT !.hash = dirs[rt.dir].hash]
           /\ g' = [g EXCEPT ![p].at = "rootReady", ![p].stk = <<>>]
           /\ UNCHANGED <<dirs, panicked>>
        \/ /\ f.par # 0 /\ isNil
           /\ Panic(p)
           /\ UNCHANGED <<rt, dirs>>
        \/ /\ f.par # 0 /\ ~isNil
           /\ dirs' = Update(f.par, f.name, f.id, [e EXCEPT !.hash = dirs[e.dir].hash])
           /\ Resume(p, Front(g[p].stk))
           /\ UNCHANGED <<rt, panicked>>
  /\ UNCHANGED <<wr, blobs, lost, left, sealed, saved, got>>

\* The end of Save.
SaveDone(p) ==
  /\ g[p].at = "rootReady" /\ g[p].req.op = "save"
  /\ saved' = IF rt.hash = NoHash THEN saved
                                  ELSE [hash |-> rt.hash, must |-> g[p].must]
  /\ Return(p)
  /\ UNCHANGED <<heap, left, sealed, got, panicked>>

-----------------------------------------------------------------------------
(* DiffRoots, seen from one of its two roots: once hashed it is loaded and   *)
(* iterated over.  The other Root is another instance of this module.        *)

DiffStart(p) ==
  /\ g[p].at = "rootReady" /\ g[p].req.op = "diff"
  /\ IF rt.hash = NoHash THEN Return(p) ELSE Goto(p, "getDir")
  /\ UNCHANGED <<heap, left, obs>>

NewDiffIter(p) ==
  /\ g[p].at = "diff"
  /\ g' = [g EXCEPT ![p].at = "next", ![p].stk = <<RootFrame(g[p].d)>>]
  /\ UNCHANGED <<heap, left, obs>>

\* next: a file entry is reported, a directory entry is loaded from the blob its
\* hash names, and entry.dir is assigned whether or not the load succeeded.
DiffNext(p) ==
  /\ g[p].at = "next"
  /\ \E n \in Top(p).todo \ Top(p).seen :
       LET d   == Top(p).d
           e   == Entries(d)[n]
           new == Len(dirs) + 1
           SetTo(k) == [dirs EXCEPT ![d].entries[n].dir = k]
       IN \/ /\ e.kind = "file"
             /\ SetStk(p, SeenBy(p, n))
             /\ UNCHANGED dirs
          \/ /\ e.kind = "dir" /\ Loadable(e.hash)
             /\ dirs' = Append(SetTo(new), LoadDir(e.hash))
             /\ SetStk(p, Append(SeenBy(p, n), Frame(new, DOMAIN Listing(e.hash), d, n, e.id)))
          \/ /\ e.kind = "dir" /\ ~Loadable(e.hash)
             /\ dirs' = SetTo(0)
             /\ Return(p)
  /\ UNCHANGED <<rt, wr, blobs, lost, left, obs>>

\* A directory without remaining entries is left; after the last one comes EOF.
DiffUp(p) ==
  /\ g[p].at = "next" /\ RangeDone(p)
  /\ IF Len(g[p].stk) = 1 THEN Return(p) ELSE SetStk(p, Front(g[p].stk))
  /\ UNCHANGED <<heap, left, obs>>

-----------------------------------------------------------------------------
(* The writers that Write handed out: their owners close them at any time    *)

\* Close first marks the writer closed ...
CloseWriter(w) ==
  /\ wr[w].st = "open"
  /\ wr' = [wr EXCEPT ![w].st = "closed"]
  /\ sealed' = [sealed EXCEPT ![wr[w].path].ever = @ \union {wr[w].hash}]
  /\ UNCHANGED <<rt, dirs, blobs, lost, g, left, saved, got, panicked>>

\* Mutant: the writer is done without its closeFn.
PublishBlobUnplaced(w) ==
  /\ wr[w].st = "closed"
  /\ wr' = [wr EXCEPT ![w].st = "stored"]
  /\ UNCHANGED <<rt, dirs, blobs, lost, g, left, obs>>

\* ... and then closeFn puts the blob in place, or fails to.
PublishBlob(w) ==
  /\ wr[w].st = "closed"
  /\ LET path   == wr[w].path
         hash   == wr[w].hash
         newest == \A v \in DOMAIN wr : wr[v].path = path => v <= w
     IN \/ /\ wr' = [wr EXCEPT ![w].st = "stored"]
           /\ blobs' = blobs \union {hash}
           /\ sealed' = [sealed EXCEPT ![path].now = IF newest THEN hash ELSE @]
           /\ UNCHANGED <<lost, left>>
        \/ /\ Fault
           /\ wr' = [wr EXCEPT ![w].st = "failed"]
           /\ lost' = lost \union {hash}
           /\ UNCHANGED <<blobs, sealed>>
  /\ UNCHANGED <<rt, dirs, g, saved, got, panicked>>

-----------------------------------------------------------------------------
(* newRoot, or newRootHash for a Root opened by its hash or created from one *)

Init ==
  /\ \E s \in Starts :
       /\ rt = [hash |-> s.base, dir |-> IF s.base = NoHash THEN 1 ELSE 0,
                readonly |-> s.readonly]
       /\ dirs = IF s.base = NoHash THEN <<EmptyDir>> ELSE <<>>
       /\ sealed = [f \in Paths |-> [now  |-> Resolve(s.base, f),
                                     ever |-> {Resolve(s.base, f)} \ {NoHash}]]
       /\ left = Quota[s]
  /\ wr = <<>>
  /\ blobs = BaseBlobs
  /\ lost = {}
  /\ g = [p \in Procs |-> Idle]
  /\ saved = [hash |-> NoHash, must |-> [f \in Paths |-> NoHash]]
  /\ got = [path |-> <<>>, want |-> NoHash, hash |-> NoHash]
  /\ panicked = FALSE

\* What a goroutine does inside an operation.
Step(p) ==
  \/ GetDir(p) \/ SetRootDir(p) \/ Walk(p) \/ SetDir(p) \/ Mkdir(p) \/ Arrive(p)
  \/ Write(p) \/ Link(p) \/ Read(p) \/ List(p) \/ EntryHash(p)
  \/ HashNext(p) \/ HashDirDone(p) \/ Hashed(p) \/ SaveDone(p)
  \/ DiffStart(p) \/ NewDiffIter(p) \/ DiffNext(p) \/ DiffUp(p)

\* Every operation has returned and every writer is done.
Quiet == /\ \A p \in Procs : g[p].at = "idle"
         /\ \A w \in DOMAIN wr : wr[w].st \in {"stored", "failed"}

\* The quota of operations is used up: nothing is left to do.
Finished == /\ Quiet
            /\ \A r \in Requests : left[r.op] = 0
            /\ UNCHANGED vars

Next ==
  \/ \E p \in Procs : (\E r \in Requests : Begin(p, r)) \/ Step(p)
  \/ \E w \in DOMAIN wr : CloseWriter(w) \/ PublishBlob(w)
  \/ Finished

Spec == Init /\ [][Next]_vars

\* A goroutine inside an operation keeps running: nothing in it waits.
FairSpec == Spec /\ \A p \in Procs : WF_vars(Step(p))

-----------------------------------------------------------------------------
(* Properties *)

\* Every hash the program has reason to believe in: the blob is stored, is being
\* put in place by a closed writer, or was closed and could not be put in place.
Unpublished == {wr[w].hash : w \in {v \in DOMAIN wr : wr[v].st # "open"}}
Ref         == {NoHash} \union blobs \union Unpublished \union lost

EntrySet == [kind : {"dir", "file"}, hash : Ref, dir : 0..Len(dirs), id : Nat,
             file : BOOLEAN, fhash : Ref, blobW : 0..Len(wr)]

DirOK(x) == /\ x \in [hash : Ref, entries : {x.entries}]
            /\ x.entries \in [DOMAIN x.entries -> EntrySet]

DirsOK == dirs \in Seq(ToSet(dirs)) /\ \A d \in DOMAIN dirs : DirOK(dirs[d])

RtOK == rt \in [hash : Ref, dir : 0..Len(dirs), readonly : BOOLEAN]

Writers == [path : Paths, hash : {FileHash(put[2]) : put \in Puts},
            st : {"open", "closed", "stored", "failed"}]

WrOK == /\ wr \in Seq(Writers)
        /\ \A w \in DOMAIN wr : wr[w].st = "stored" => wr[w].hash \in blobs

Finding == {"getDir", "setRootDir", "walk", "setDir", "mkdir"}
Walking == {"walk", "setDir", "mkdir"} \union (Ops \ {"save"})
Hashing == {"hash", "hashed", "next"}
Labels  == {"idle", "rootReady"} \union Finding \union Walking \union Hashing

FrameOK(f) ==
  /\ f \in [d : DOMAIN dirs, par : 0..Len(dirs), name : {f.name}, id : Nat,
            todo : SUBSET Names(f.d), seen : {f.seen}]
  /\ IF f.par = 0 THEN rt.dir # 0 ELSE f.name \in Names(f.par)

\* The locals of a goroutine fit the place it is at.
LocalOK(p) ==
  /\ g[p] \in [at : Labels, req : Requests \union {NoReq}, must : {g[p].must},
               i : Nat, d : 0..Len(dirs), new : 0..Len(dirs), id : Nat,
               stk : Seq(ToSet(g[p].stk))]
  /\ \A k \in DOMAIN g[p].stk : FrameOK(g[p].stk[k])
  /\ g[p].at # "idle" => g[p].req \in Requests
  /\ g[p].at \in Finding => g[p].req.op # "save"
  /\ g[p].at \in Ops => g[p].req.op = g[p].at
  /\ g[p].at \in Walking => g[p].d # 0 /\ rt.dir # 0
  /\ g[p].at \in {"setDir", "setRootDir"} => g[p].new # 0
  /\ g[p].at = "setDir" => DirPart(p)[g[p].i] \in Names(g[p].d)
  /\ g[p].at \in Hashing => g[p].stk # <<>>

\* Type invariant: every pointer is nil or leads to an object, the locals of each
\* goroutine fit the place it is at, directory blobs are listings, and no hash
\* kept in the Root, a Dir, a DirEntry or a File is that of a writer still open.
TypeOK ==
  /\ RtOK /\ DirsOK /\ WrOK
  /\ g \in [Procs -> {g[p] : p \in Procs}] /\ \A p \in Procs : LocalOK(p)
  /\ left \in [Ops \union {"fault"} -> Nat]
  /\ BaseBlobs \subseteq blobs /\ \A h \in blobs : WellFormed(h)

\* A directory blob is never stored before what it names: each hash in it is
\* stored, in the hands of a closed writer, or one whose store failed (a hash
\* may also be missing altogether, see SaveCaptures).  This is what hashFile's
\* error on an open writer and the order of hashDir are for.
StoreClosed == \A h \in blobs : Children(h) \subseteq Ref

\* Without failures and once all writers are done, nothing in the store dangles.
StoreComplete ==
  lost = {} /\ Quiet => \A h \in blobs : Children(h) \subseteq blobs \union {NoHash}

\* Save returns the hash of a tree that holds, unchanged, every file that was
\* complete (written, closed and stored) when Save began.
SaveCaptures ==
  \A f \in DOMAIN saved.must :
    saved.must[f] # NoHash => Resolve(saved.hash, f) = saved.must[f]

\* What a Read of the path would open, following the objects in memory and, past
\* a directory not loaded, the blobs.
LiveHash(path) ==
  LET at[i \in 0..Len(path)] ==     \* [dir, hash] reached after i names
        IF i = 0 THEN [dir |-> rt.dir, hash |-> rt.hash]
        ELSE LET from == at[i-1]
             IN IF from.dir = 0 THEN [dir |-> 0, hash |-> Child(from.hash, path[i])]
                ELSE IF path[i] \notin Names(from.dir) THEN [dir |-> 0, hash |-> NoHash]
                ELSE LET e == Entries(from.dir)[path[i]]
                     IN [dir |-> e.dir, hash |-> IF e.file THEN FileHashOf(e) ELSE e.hash]
  IN at[Len(path)].hash

\* Whenever nothing is going on, each path leads to the last content that was
\* written to it: no completed write is lost from the tree.
LiveKeeps ==
  Quiet => \A f \in Paths : sealed[f].now # NoHash => LiveHash(f) = sealed[f].now

\* A hash kept for a directory in memory is the hash of what the directory holds
\* now: the invalidation along the path of a write reaches every cached hash.
\* It is about a Root between operations, when hashDir trusts these hashes.
DirCacheCoherent ==
  Quiet => \A d \in DOMAIN dirs : \A n \in Names(d) :
    LET e == Entries(d)[n]
    IN e.kind = "dir" /\ e.dir # 0 /\ e.hash # NoHash => e.hash = DirHash(Marshal(e.dir))

\* Read returns only content that was completely written to that very path.
ReadHonest == got.hash # NoHash => got.hash \in sealed[got.path].ever

\* In a replay, a Read of a path where the saved tree holds a file ends by returning
\* that content, and in no other way.
ReadBack ==
  [][\A p \in Procs :
       LET want == g[p].must[g[p].req.path]
       IN /\ rt.readonly /\ g[p].req.op = "read" /\ g'[p].at = "idle"
          /\ want # NoHash /\ ~IsDirHash(want)
          => g[p].at = "read" /\ got'.hash = want]_vars

\* No interleaving makes an operation dereference a nil Dir or File.
NoPanic == ~panicked

\* A Root opened by its hash never changes: not its hash, and not the listing of
\* any directory once loaded, whatever operations run on it together.
ReplayImmutable ==
  [][rt.readonly =>
       /\ rt'.readonly /\ rt'.hash = rt.hash
       /\ \A d \in DOMAIN dirs : Marshal(d)' = Marshal(d)]_vars

\* ... and each directory loaded for it is the one its parent's entry names.
Frozen ==
  rt.readonly =>
    /\ rt.dir # 0 => rt.hash = DirHash(Marshal(rt.dir))
    /\ \A d \in DOMAIN dirs : \A n \in Names(d) :
         Entries(d)[n].dir # 0 => Entries(d)[n].hash = DirHash(Marshal(Entries(d)[n].dir))

\* Every operation returns: hashDir and the diff iterator terminate although
\* other goroutines keep inserting into the maps they range over.
OpsFinish == \A p \in Procs : g[p].at # "idle" ~> g[p].at = "idle"
=============================================================================
