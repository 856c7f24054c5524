------------------------------ MODULE RootIndex -----------------------------
(***************************************************************************)
(* Storage as the holder of Roots (internal/storage filesystem.go and      *)
(* memory.go): tokens that name Root objects in memory, the index of saved *)
(* hashes, and the index file that a restarted process reads.  Goroutines  *)
(* create tokens, record under them, save them, export hashes and import   *)
(* archives; mu is taken where the code takes it, and lookups that the     *)
(* code makes without it are steps of their own.  Map accesses that race   *)
(* may also stop a Go program, which is a Restart.                         *)
(*                                                                         *)
(* What one Root does is RootTree's subject: a Root is here the set of the *)
(* files recorded in it, the hash of its tree is that set, and trees and   *)
(* files are the blobs that are in place.                                  *)
(***************************************************************************)
EXTENDS Integers, Sequences

CONSTANTS
  Procs,     \* goroutines serving the API and the proxy
  Files,     \* what can be recorded
  Kinds,     \* backends the storage may be configured with
  None,
  Quota      \* bounds: operations of each kind, faults, restarts

Bounded == {"create", "from", "record", "save", "export", "import",
            "blobFault", "indexFault", "restart"}

ASSUME IndexAssumption ==
  /\ Kinds \subseteq {"filesystem", "memory"}
  /\ None \notin Procs /\ None \notin Files
  /\ Quota \in [Bounded -> Nat]

Hashes == SUBSET Files

\* An archive as Export writes it, breaks it off (its tar and gzip writers are closed
\* also after an error), or as it was damaged since: it has the root in its index, that
\* root's directory blob (without it an import ends at once), and under the name of
\* each file its content, that of another, or nothing.
Archives == UNION {[root : {h}, blob : [h -> Files \union {None}]] : h \in Hashes}

VARIABLES
  kind,          \* the backend
  files, trees,  \* blobs in place: of files, and of whole trees by their hash
  indexFile,     \* index.json: [whole, roots]
  index,         \* Index.Roots in memory
  roots,         \* token -> its Root, an index of objs
  objs,          \* Root objects: [held, loaded, readonly]
  uuids,         \* number of uuid tokens made so far
  mu,            \* goroutine that holds the mutex, or None
  g,             \* per goroutine: [at, op, arg, name, obj, hash]
  left           \* remaining quota

\* Observations: hashes that RootSave returned, and whether a process ever started
\* from an index file that was not whole.
VARIABLES acked, amnesia

disk  == <<kind, files, trees, indexFile>>
names == <<index, roots, objs, uuids>>
obs   == <<acked, amnesia>>
vars  == <<disk, names, mu, g, left, obs>>

UUID(i) == <<"uuid", i>>
Hash(h) == <<"hash", h>>

\* newRoot, and newRootHash: the tree of a hash is loaded when it is first used.
NewRoot       == [held |-> {}, loaded |-> TRUE, readonly |-> FALSE]
NewRootHash(h) == [held |-> h, loaded |-> FALSE, readonly |-> TRUE]

Idle == [at |-> "idle", op |-> "none", arg |-> None, name |-> None, obj |-> 0, hash |-> {}]

Spend(k) == left[k] > 0 /\ left' = [left EXCEPT ![k] = @ - 1]

\* The writer of a blob is closed, and its hash used whether or not the blob could
\* be put in place.
PutFile(f) == \/ files' = files \union {f} /\ UNCHANGED left
              \/ UNCHANGED files /\ Spend("blobFault")
PutTree(h) == \/ trees' = trees \union {h} /\ UNCHANGED left
              \/ UNCHANGED trees /\ Spend("blobFault")

Goto(p, l) == g' = [g EXCEPT ![p].at = l]
Return(p)  == g' = [g EXCEPT ![p] = Idle]

\* roots[name] = a new object
Enter(name, root) ==
  /\ objs' = Append(objs, root)
  /\ roots' = [n \in DOMAIN roots \union {name} |->
                 IF n = name THEN Len(objs) + 1 ELSE roots[n]]

-----------------------------------------------------------------------------
(* Tokens *)

\* RootCreate, whole under the mutex.
RootCreate ==
  /\ mu = None /\ Spend("create")
  /\ Enter(UUID(uuids + 1), NewRoot) /\ uuids' = uuids + 1
  /\ UNCHANGED <<disk, index, mu, g, obs>>

\* RootCreateFrom a hash of the index: the Root it makes may be written.
RootCreateFrom(h) ==
  /\ mu = None /\ h \in index /\ Spend("from")
  /\ Enter(UUID(uuids + 1), [NewRootHash(h) EXCEPT !.readonly = FALSE])
  /\ uuids' = uuids + 1
  /\ UNCHANGED <<disk, index, mu, g, obs>>

\* A request comes with a token, to record a file under it or to save it.
Begin(p, op, name, file) ==
  /\ g[p].at = "idle" /\ Spend(op)
  /\ g' = [g EXCEPT ![p] = [Idle EXCEPT !.at = "open", !.op = op, !.arg = file, !.name = name]]
  /\ UNCHANGED <<disk, names, mu, obs>>

\* RootOpen looks the name up without the mutex, first in roots, then in the index.
RootOpen(p) ==
  /\ g[p].at = "open"
  /\ LET name    == g[p].name
         indexed == name[1] = "hash" /\ name[2] \in index
     IN \/ /\ name \in DOMAIN roots
           /\ g' = [g EXCEPT ![p].at = g[p].op, ![p].obj = roots[name]]
        \/ /\ name \notin DOMAIN roots /\ indexed
           /\ Goto(p, "openHash")
        \/ /\ name \notin DOMAIN roots /\ ~indexed
           /\ Return(p)
  /\ UNCHANGED <<disk, names, mu, left, obs>>

\* ... and makes a Root for the hash under it, without looking again.
RootOpenHash(p) ==
  /\ g[p].at = "openHash" /\ mu = None
  /\ Enter(g[p].name, NewRootHash(g[p].name[2]))
  /\ g' = [g EXCEPT ![p].at = g[p].op, ![p].obj = Len(objs) + 1]
  /\ UNCHANGED <<disk, index, uuids, mu, left, obs>>

-----------------------------------------------------------------------------
(* What is done with a Root *)

\* A file is recorded: its blob is put in place, and the Root (loaded for it) gets
\* an entry.  A readonly Root refuses, and so does one whose tree is missing.  The
\* hash of the file is known even when its blob could not be put in place.
Record(p) ==
  /\ g[p].at = "record"
  /\ LET r == objs[g[p].obj]
         refused == r.readonly \/ (~r.loaded /\ r.held \notin trees)
     IN \/ /\ refused
           /\ UNCHANGED <<files, objs, left>>
        \/ /\ ~refused
           /\ objs' = [objs EXCEPT ![g[p].obj].held = @ \union {g[p].arg},
                                   ![g[p].obj].loaded = TRUE]
           /\ PutFile(g[p].arg)
  /\ Return(p)
  /\ UNCHANGED <<kind, trees, indexFile, index, roots, uuids, mu, obs>>

\* Root.Save: the tree of a loaded recording is stored, and its hash returned also
\* when the blob could not be put in place.
RootHash(p) ==
  /\ g[p].at = "save"
  /\ LET r == objs[g[p].obj]
     IN /\ \/ ~r.readonly /\ r.loaded /\ PutTree(r.held)
           \/ /\ r.readonly \/ ~r.loaded
              /\ UNCHANGED <<trees, left>>
        /\ g' = [g EXCEPT ![p].at = "register", ![p].hash = r.held]
  /\ UNCHANGED <<kind, files, indexFile, names, mu, obs>>

\* Definitions marked "Mutant" are changed forms of the one that follows, which a
\* bug in the code could have; nothing uses them.

\* The memory backend is done; the other writes the index file with the mutex held.
MemoryDone(p) ==
  kind = "memory" /\ Return(p) /\ acked' = acked \union {g[p].hash} /\ UNCHANGED mu
IndexNext(p) ==
  kind = "filesystem" /\ Goto(p, "create") /\ mu' = p /\ UNCHANGED acked

\* Mutant: the hash names the Root that was saved.
RegisterSame(p) ==
  /\ g[p].at = "register" /\ mu = None
  /\ roots' = [n \in DOMAIN roots \union {Hash(g[p].hash)} |->
                 IF n = Hash(g[p].hash) THEN g[p].obj ELSE roots[n]]
  /\ index' = index \union {g[p].hash}
  /\ UNCHANGED <<disk, objs, uuids, left, amnesia>>
  /\ MemoryDone(p) \/ IndexNext(p)

\* RootSave goes on under the mutex: the hash names a new Root and enters the index.
Register(p) ==
  /\ g[p].at = "register" /\ mu = None
  /\ Enter(Hash(g[p].hash), NewRootHash(g[p].hash))
  /\ index' = index \union {g[p].hash}
  /\ UNCHANGED <<disk, uuids, left, amnesia>>
  /\ MemoryDone(p) \/ IndexNext(p)

\* Mutant: the error path leaves the mutex locked.
CreateIndexLocked(p) ==
  /\ g[p].at = "create"
  /\ \/ /\ indexFile' = [whole |-> FALSE, roots |-> {}]
        /\ Goto(p, "write")
        /\ UNCHANGED <<mu, left>>
     \/ /\ Spend("indexFault")
        /\ Return(p)
        /\ UNCHANGED <<mu, indexFile>>
  /\ UNCHANGED <<kind, files, trees, names, obs>>

\* writeIndex: os.Create empties the file ...
CreateIndex(p) ==
  /\ g[p].at = "create"
  /\ \/ /\ indexFile' = [whole |-> FALSE, roots |-> {}]
        /\ Goto(p, "write")
        /\ UNCHANGED <<mu, left>>
     \/ /\ Spend("indexFault")
        /\ Return(p) /\ mu' = None
        /\ UNCHANGED indexFile
  /\ UNCHANGED <<kind, files, trees, names, obs>>

\* Mutant: the index was marshalled before the hash entered it.
WriteIndexStale(p) ==
  /\ g[p].at = "write"
  /\ indexFile' = [whole |-> TRUE, roots |-> index \ {g[p].hash}]
  /\ acked' = acked \union {g[p].hash}
  /\ Return(p) /\ mu' = None
  /\ UNCHANGED <<kind, files, trees, names, left, amnesia>>

\* ... and Write fills it, or fails part of the way.
WriteIndex(p) ==
  /\ g[p].at = "write"
  /\ \/ /\ indexFile' = [whole |-> TRUE, roots |-> index]
        /\ acked' = acked \union {g[p].hash}
        /\ UNCHANGED left
     \/ /\ Spend("indexFault")
        /\ UNCHANGED <<indexFile, acked>>
  /\ Return(p) /\ mu' = None
  /\ UNCHANGED <<kind, files, trees, names, amnesia>>

-----------------------------------------------------------------------------
(* Archives *)

\* Export walks the Root, hashes each directory again (which stores it again) and
\* copies every blob.
Export(p) ==
  /\ g[p].at = "export"
  /\ LET h == objs[g[p].obj].held
     IN IF h \in trees THEN PutTree(h) ELSE UNCHANGED <<trees, left>>
  /\ Return(p)
  /\ UNCHANGED <<kind, files, indexFile, names, mu, obs>>

\* Import of a hash that the archive lists.  (One that it does not list is reported
\* as imported, but nothing is done.)
ImportBegin(p, a) ==
  /\ g[p].at = "idle" /\ Spend("import")
  /\ g' = [g EXCEPT ![p] = [Idle EXCEPT !.at = "importDir", !.op = "import", !.arg = a]]
  /\ UNCHANGED <<disk, names, mu, obs>>

\* importDir stores the directory, then descends into its entries ...
ImportDir(p) ==
  /\ g[p].at = "importDir"
  /\ PutTree(g[p].arg.root)
  /\ Goto(p, "importFile")
  /\ UNCHANGED <<kind, files, indexFile, names, mu, obs>>

\* Mutant: the hash of the blob is not compared with its name.
ImportFileUnchecked(p) ==
  /\ g[p].at = "importFile"
  /\ \E f \in g[p].arg.root \ g[p].hash :
       LET content == g[p].arg.blob[f]
       IN \/ content = None /\ Return(p) /\ UNCHANGED <<files, left>>
          \/ /\ content # None /\ PutFile(content)
             /\ g' = [g EXCEPT ![p].hash = @ \union {f}]
  /\ UNCHANGED <<kind, trees, indexFile, names, mu, obs>>

\* ... where a blob that the archive lacks ends the import.  One that has not the hash
\* it is named by ends it too, stored under the hash that it has.
ImportFile(p) ==
  /\ g[p].at = "importFile"
  /\ \E f \in g[p].arg.root \ g[p].hash :
       LET content == g[p].arg.blob[f]
       IN \/ content = None /\ Return(p) /\ UNCHANGED <<files, left>>
          \/ content = f /\ PutFile(f) /\ g' = [g EXCEPT ![p].hash = @ \union {f}]
          \/ content \in Files \ {f} /\ PutFile(content) /\ Return(p)
  /\ UNCHANGED <<kind, trees, indexFile, names, mu, obs>>

\* The Root made of what was read is saved like any other.
ImportRoot(p) ==
  /\ g[p].at = "importFile" /\ g[p].hash = g[p].arg.root
  /\ objs' = Append(objs, [NewRoot EXCEPT !.held = g[p].hash])
  /\ g' = [g EXCEPT ![p].at = "save", ![p].obj = Len(objs) + 1]
  /\ UNCHANGED <<disk, index, roots, uuids, mu, left, obs>>

-----------------------------------------------------------------------------
(* The process stops at any point and is started again *)

\* readIndex: an index file that is not whole does not parse and gives an empty
\* index, without an error.
Restart ==
  /\ kind = "filesystem" /\ Spend("restart")
  /\ index' = IF indexFile.whole THEN indexFile.roots ELSE {}
  /\ amnesia' = (amnesia \/ ~indexFile.whole)
  /\ roots' = <<>> /\ objs' = <<>> /\ mu' = None
  /\ g' = [p \in Procs |-> Idle]
  /\ UNCHANGED <<disk, uuids, acked>>

Init ==
  /\ kind \in Kinds
  /\ files = {} /\ trees = {}
  /\ indexFile = [whole |-> TRUE, roots |-> {}]     \* no file reads as an empty index
  /\ index = {} /\ roots = <<>> /\ objs = <<>> /\ uuids = 0
  /\ mu = None /\ g = [p \in Procs |-> Idle] /\ left = Quota
  /\ acked = {} /\ amnesia = FALSE

\* Hashes a client may know: those that a save returned, also by an earlier process, and
\* those that rootList finds in the index, with a save still under way or failed.
Known == acked \union index

Tokens == {UUID(i) : i \in 1..uuids} \union {Hash(h) : h \in Known}

Step(p) ==
  \/ RootOpen(p) \/ RootOpenHash(p) \/ Record(p) \/ RootHash(p)
  \/ Register(p) \/ CreateIndex(p) \/ WriteIndex(p)
  \/ Export(p) \/ ImportDir(p) \/ ImportFile(p) \/ ImportRoot(p)

Next ==
  \/ RootCreate \/ \E h \in Known : RootCreateFrom(h)
  \/ \E p \in Procs :
       \/ \E name \in Tokens : \/ \E f \in Files : Begin(p, "record", name, f)
                               \/ Begin(p, "save", name, None)
       \/ \E h \in Known : Begin(p, "export", Hash(h), None)
       \/ \E a \in Archives : ImportBegin(p, a)
       \/ Step(p)
  \/ Restart

Spec == Init /\ [][Next]_vars

-----------------------------------------------------------------------------
(* Properties *)

Names  == {UUID(i) : i \in 1..uuids} \union {Hash(h) : h \in Hashes}
Labels == {"idle", "open", "openHash", "record", "save", "register", "create", "write",
           "export", "importDir", "importFile"}

\* Type invariant; the mutex is held exactly by the goroutine inside writeIndex.
TypeOK ==
  /\ kind \in Kinds /\ files \subseteq Files /\ trees \subseteq Hashes
  /\ indexFile \in [whole : BOOLEAN, roots : SUBSET Hashes]
  /\ index \subseteq Hashes /\ acked \subseteq Hashes /\ amnesia \in BOOLEAN
  /\ objs \in Seq([held : Hashes, loaded : BOOLEAN, readonly : BOOLEAN])
  /\ DOMAIN roots \subseteq Names /\ \A n \in DOMAIN roots : roots[n] \in DOMAIN objs
  /\ uuids \in Nat /\ left \in [Bounded -> Nat]
  /\ g \in [Procs -> [at : Labels, op : {"none", "record", "save", "export", "import"},
                      arg : Files \union Archives \union {None}, name : Names \union {None}, obj : 0..Len(objs), hash : Hashes]]
  /\ \A p \in Procs : g[p].at \in {"create", "write"} <=> mu = p

\* A hash stands for its content for ever: every hash token leads to a readonly Root
\* of that very content, every uuid token to a writable one, and no two tokens share
\* a Root, so that recording under a token is not seen under another.
NamesApart ==
  /\ \A h \in Hashes : Hash(h) \in DOMAIN roots =>
       objs[roots[Hash(h)]].readonly /\ objs[roots[Hash(h)]].held = h
  /\ \A i \in 1..uuids : UUID(i) \in DOMAIN roots => ~objs[roots[UUID(i)]].readonly
  /\ \A m, n \in DOMAIN roots : roots[m] = roots[n] => m = n

\* Every hash in the index, in memory or on disk, names a tree that is in place with
\* all its files: blobs are stored before their hash is mentioned, also by an import
\* of an archive where some are missing or damaged, and a restart finds no entry without its blobs.
IndexComplete ==
  \A h \in index \union indexFile.roots : h \in trees /\ h \subseteq files

\* An export of a hash finds the Root as it was saved, and all its blobs: whatever
\* was recorded, saved or imported since the hash was looked up.
ExportFinds ==
  \A p \in Procs : g[p].at = "export" =>
    LET r == objs[g[p].obj]
    IN Hash(r.held) = g[p].name /\ r.held \in trees /\ r.held \subseteq files

\* A hash that RootSave returned is in the index file whenever that is whole, be
\* there other saves, failed ones or restarts since, as long as no process started
\* from a file that was not whole.
AckedOnDisk ==
  kind = "filesystem" /\ indexFile.whole /\ ~amnesia => acked \subseteq indexFile.roots

\* A hash that RootSave returned can be opened from then on, also by a process
\* started later: "hashes are written to disk on Save".
AckedOpens == acked \subseteq index
=============================================================================
