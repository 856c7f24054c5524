------------------------------- MODULE Archive ------------------------------
(***************************************************************************)
(* Export and Import of internal/storage (export.go, import.go), with Walk *)
(* and report of root.go: a saved tree is written to an archive, brought   *)
(* to another storage and imported there.  An archive may be short or      *)
(* damaged when it arrives, or was not made by Export at all.              *)
(*                                                                         *)
(* Both ends hold a tree as nested directories; how what they store and    *)
(* register meets other goroutines is RootIndex's subject.  A blob and its *)
(* name are both modelled by its content, see Merkle.                      *)
(***************************************************************************)
EXTENDS Merkle, Integers

CONSTANTS
  Trees,     \* the hashes that may be exported
  AllPaths,  \* the paths of all files and directories in a tree
  Missing,   \* sets of blobs that the exporting storage may lack
  Foreign,   \* archives from elsewhere, [root, blob]
  Contents,  \* what a damaged archive may have in place of a blob
  Quota      \* bounds: imports, BlobCreates that fail, blobs that cannot be put in place,
             \* index files that cannot be written

Bounded == {"import", "fault", "lost", "index"}

\* Everything a tree consists of.
Tree(h) == {Resolve(h, p) : p \in AllPaths} \ {NoHash}

\* What is exported is a complete tree as Save stores it, and AllPaths has all its paths.
\* What arrives in its place may be anything, where only directories read as directories.
ASSUME ArchiveAssumption ==
  /\ Quota \in [Bounded -> Nat] /\ \A p \in AllPaths : p \in Seq(ToSet(p))
  /\ \A h \in Trees : IsDirHash(h) /\ h \in Tree(h)
  /\ \A h \in Trees : \A b \in Tree(h) :
       WellFormed(b) /\ KindsAgree(b) /\ Children(b) \subseteq Tree(h)
  /\ \A a \in Foreign : \A n \in DOMAIN a.blob : KindsAgree(a.blob[n])
  /\ \A x \in Contents : KindsAgree(x)

VARIABLES
  root,    \* the hash that is exported
  gone,    \* blobs that are not in its storage
  ex,      \* Export: [at, stack]
  tar,     \* the blobs in the archive, by name
  arc,     \* the archive as it arrived: [root, blob]
  im,      \* Import: [at, id, stack]
  dst,     \* blobs in the storage imported to
  index,   \* the hashes in its index
  left     \* remaining quota

\* Observations: blobs whose writer could not put them in place, and whether the last
\* import met with an archive that was altered or with a fault.
VARIABLES lost, harmed

source == <<root, gone>>
vars   == <<source, ex, tar, arc, im, dst, index, left, lost, harmed>>

Empty == [n \in {} |-> n]

\* walkDir and importDir, with the names that each directory on the way still has to go.
Frame(h)      == [dir |-> h, rest |-> DOMAIN Listing(h)]
Top(s)        == s[Len(s)]
EntryOf(s, n) == Listing(Top(s).dir)[n]
Taken(s, n)   == [s EXCEPT ![Len(s)].rest = @ \ {n}]

\* A directory as json.Marshal writes it, which need not be how it was read.
Marshalled(h) ==
  DirHash([n \in DOMAIN Listing(h) |-> [kind |-> Listing(h)[n].kind,
                                       hash |-> Listing(h)[n].hash]])

Spend(k) == left[k] > 0 /\ left' = [left EXCEPT ![k] = @ - 1]

\* Definitions marked "Mutant" are changed forms of the one that follows, which a
\* bug in the code could have; nothing uses them.

-----------------------------------------------------------------------------
(* Export.  Its error comes after the headers of the response: the archive   *)
(* is closed properly and only short.                                        *)

ExportFails == ex' = [at |-> "failed", stack |-> <<>>] /\ UNCHANGED tar

\* The index, then the report, which loads every directory.
Report ==
  /\ ex.at = "report"
  /\ \/ /\ \A h \in Tree(root) : IsDirHash(h) => h \notin gone
        /\ ex' = [ex EXCEPT !.at = "root"]
        /\ UNCHANGED tar
     \/ /\ \E h \in Tree(root) : IsDirHash(h) /\ h \in gone
        /\ ExportFails
  /\ UNCHANGED <<source, arc, im, dst, index, left, lost, harmed>>

\* fnDir hashes a directory, which stores it where it is already, and copies the blob of
\* that hash.
WalkDir(h, s) ==
  /\ \/ /\ tar' = [n \in DOMAIN tar \union {Marshalled(h)} |-> n]
        /\ ex' = [at |-> "walk", stack |-> Append(s, Frame(h))]
        /\ UNCHANGED left
     \/ Spend("fault") /\ ExportFails
  /\ UNCHANGED <<source, arc, im, dst, index, lost, harmed>>

\* fnFile copies the blob of a file.
WalkFile(h, s) ==
  /\ \/ /\ h \notin gone
        /\ tar' = [n \in DOMAIN tar \union {h} |-> n]
        /\ ex' = [ex EXCEPT !.stack = s]
     \/ h \in gone /\ ExportFails
  /\ UNCHANGED <<source, arc, im, dst, index, left, lost, harmed>>

WalkRoot == ex.at = "root" /\ WalkDir(root, <<>>)

\* Mutant: only the root's directory is copied, the others are walked through.
WalkEntryFiles ==
  /\ ex.at = "walk" /\ ex.stack # <<>>
  /\ \E n \in Top(ex.stack).rest :
       LET e == EntryOf(ex.stack, n)
       IN IF e.kind = "file" THEN WalkFile(e.hash, Taken(ex.stack, n))
          ELSE /\ ex' = [ex EXCEPT !.stack = Append(Taken(@, n), Frame(e.hash))]
               /\ UNCHANGED <<source, tar, arc, im, dst, index, left, lost, harmed>>

\* The entries of a directory come in any order.
WalkEntry ==
  /\ ex.at = "walk" /\ ex.stack # <<>>
  /\ \E n \in Top(ex.stack).rest :
       LET e == EntryOf(ex.stack, n)
       IN IF e.kind = "dir" THEN WalkDir(e.hash, Taken(ex.stack, n))
                            ELSE WalkFile(e.hash, Taken(ex.stack, n))

WalkUp ==
  /\ ex.at = "walk"
  /\ \/ ex.stack # <<>> /\ Top(ex.stack).rest = {} /\ ex' = [ex EXCEPT !.stack = Front(@)]
     \/ ex.stack = <<>> /\ ex' = [ex EXCEPT !.at = "sent"]
  /\ UNCHANGED <<source, tar, arc, im, dst, index, left, lost, harmed>>

-----------------------------------------------------------------------------
(* The archive is brought to the other storage                               *)

Without(f, n) == [m \in DOMAIN f \ {n} |-> f[m]]

Damaged(f) ==
  {Without(f, n) : n \in DOMAIN f} \union {[f EXCEPT ![n] = x] : n \in DOMAIN f, x \in Contents}

\* Import of a hash.  One that the archive does not list is reported as imported.
Import(id, a) ==
  /\ arc' = a
  /\ im' = [at |-> IF id = a.root THEN "root" ELSE "done", id |-> id, stack |-> <<>>]

Requested(id) ==
  /\ im.at \in {"none", "done", "error"} /\ Spend("import")
  /\ UNCHANGED <<source, ex, tar, dst, index, lost>>

\* The archive of Export, finished or short, as it was or damaged since.
Arrive(id) ==
  /\ Requested(id) /\ ex.at \in {"sent", "failed"}
  /\ \/ Import(id, [root |-> root, blob |-> tar]) /\ harmed' = FALSE
     \/ /\ \E b \in Damaged(tar) : Import(id, [root |-> root, blob |-> b])
        /\ harmed' = TRUE

Bring(id) ==
  /\ Requested(id)
  /\ \E a \in Foreign : Import(id, a)
  /\ harmed' = TRUE

\* A transfer that breaks off, of the archive here or there, leaves no readable gzip.
ArriveCut(id) ==
  /\ Requested(id)
  /\ im' = [at |-> "error", id |-> id, stack |-> <<>>] /\ harmed' = TRUE
  /\ UNCHANGED arc

-----------------------------------------------------------------------------
(* Import, once the archive is extracted and lists the hash                  *)

ImportFails == im' = [im EXCEPT !.at = "error", !.stack = <<>>]

\* A blob is pushed to the storage.  That its writer could not put it in place is not
\* noticed.
Push(content) ==
  \/ dst' = dst \union {content} /\ UNCHANGED <<left, lost, harmed>>
  \/ Spend("lost") /\ lost' = lost \union {content} /\ harmed' = TRUE /\ UNCHANGED dst

\* There is no such file in the archive, it is no directory where one is due, or there
\* is no writer for it.
Unreadable(h, kind) ==
  /\ ImportFails /\ UNCHANGED <<dst, lost>>
  /\ \/ /\ \/ h \notin DOMAIN arc.blob
           \/ kind = "dir" /\ h \in DOMAIN arc.blob /\ ~IsDirHash(arc.blob[h])
        /\ UNCHANGED <<left, harmed>>
     \/ Spend("fault") /\ harmed' = TRUE

\* Mutant: the hash of what was stored is not compared with its name.
ReadUnchecked(h, kind, next) ==
  \/ Unreadable(h, kind)
  \/ /\ h \in DOMAIN arc.blob /\ (kind = "dir" => IsDirHash(arc.blob[h]))
     /\ Push(arc.blob[h]) /\ im' = next

\* importDir and importFile: the blob is stored under the hash that it has, and the
\* import goes on if that is its name.
ReadBlob(h, kind, next) ==
  \/ Unreadable(h, kind)
  \/ /\ h \in DOMAIN arc.blob /\ (kind = "dir" => IsDirHash(arc.blob[h]))
     /\ Push(arc.blob[h])
     /\ IF arc.blob[h] = h THEN im' = next ELSE ImportFails

Into(h, s) == [im EXCEPT !.at = "walk", !.stack = Append(s, Frame(h))]

ImportRoot ==
  /\ im.at = "root" /\ ReadBlob(im.id, "dir", Into(im.id, <<>>))
  /\ UNCHANGED <<source, ex, tar, arc, index>>

\* Mutant: the entry is not marked as done.
ImportEntryAgain ==
  /\ im.at = "walk" /\ im.stack # <<>>
  /\ \E n \in Top(im.stack).rest :
       LET e == EntryOf(im.stack, n)
       IN ReadBlob(e.hash, e.kind, IF e.kind = "dir" THEN Into(e.hash, im.stack)
                                   ELSE [im EXCEPT !.stack = Taken(@, n)])
  /\ UNCHANGED <<source, ex, tar, arc, index>>

ImportEntry ==
  /\ im.at = "walk" /\ im.stack # <<>>
  /\ \E n \in Top(im.stack).rest :
       LET e    == EntryOf(im.stack, n)
           rest == Taken(im.stack, n)
       IN ReadBlob(e.hash, e.kind,
                   IF e.kind = "dir" THEN Into(e.hash, rest) ELSE [im EXCEPT !.stack = rest])
  /\ UNCHANGED <<source, ex, tar, arc, index>>

ImportUp ==
  /\ im.at = "walk" /\ im.stack # <<>> /\ Top(im.stack).rest = {}
  /\ im' = [im EXCEPT !.stack = Front(@)]
  /\ UNCHANGED <<source, ex, tar, arc, dst, index, left, lost, harmed>>

\* RootSave stores the root's directory again.
ImportSave ==
  /\ im.at = "walk" /\ im.stack = <<>>
  /\ \/ Push(Marshalled(im.id)) /\ im' = [im EXCEPT !.at = "index"]
     \/ Spend("fault") /\ ImportFails /\ harmed' = TRUE /\ UNCHANGED <<dst, lost>>
  /\ UNCHANGED <<source, ex, tar, arc, index>>

\* Mutant: the hash is registered while the tree is still read.
ImportIndexEarly ==
  /\ im.at \in {"walk", "index"}
  /\ index' = index \union {Marshalled(im.id)}
  /\ IF im.at = "index" THEN im' = [im EXCEPT !.at = "done"] ELSE UNCHANGED im
  /\ UNCHANGED <<source, ex, tar, arc, dst, left, lost, harmed>>

\* It registers the hash that this directory has; only after that the index is written,
\* which may fail, and the hash compared with the one asked for.
ImportIndex ==
  /\ im.at = "index"
  /\ index' = index \union {Marshalled(im.id)}
  /\ \/ /\ im' = [im EXCEPT !.at = IF Marshalled(im.id) = im.id THEN "done" ELSE "error"]
        /\ UNCHANGED <<left, harmed>>
     \/ Spend("index") /\ ImportFails /\ harmed' = TRUE
  /\ UNCHANGED <<source, ex, tar, arc, dst, lost>>

-----------------------------------------------------------------------------
Init ==
  /\ root \in Trees /\ gone \in Missing
  /\ ex = [at |-> "report", stack |-> <<>>] /\ tar = Empty
  /\ arc = [root |-> NoHash, blob |-> Empty]
  /\ im = [at |-> "none", id |-> NoHash, stack |-> <<>>]
  /\ dst = {} /\ index = {} /\ left = Quota /\ lost = {} /\ harmed = FALSE

Export == Report \/ WalkRoot \/ WalkEntry \/ WalkUp

ImportStep == ImportRoot \/ ImportEntry \/ ImportUp \/ ImportSave \/ ImportIndex

Next ==
  \/ Export \/ ImportStep
  \/ \E id \in Trees : Arrive(id) \/ ArriveCut(id)
  \/ \E a \in Foreign : Bring(a.root)

\* An import waits for nothing once its archive is there; an export for its client.
Spec == Init /\ [][Next]_vars /\ WF_vars(ImportStep)

-----------------------------------------------------------------------------
(* Properties *)

Frames(s) ==
  \A i \in DOMAIN s : IsDirHash(s[i].dir) /\ s[i].rest \subseteq DOMAIN Listing(s[i].dir)

\* Type invariant; a blob in the archive of Export has its name, whether Export ends well
\* or not, and an import goes into a directory only when its blob has been stored.
TypeOK ==
  /\ root \in Trees /\ gone \in Missing /\ left \in [Bounded -> Nat]
  /\ ex.at \in {"report", "root", "walk", "sent", "failed"} /\ Frames(ex.stack)
  /\ ex.at = "walk" \/ ex.stack = <<>>
  /\ \A n \in DOMAIN tar : tar[n] = n
  /\ im.at \in {"none", "root", "walk", "index", "done", "error"} /\ Frames(im.stack)
  /\ \A i \in DOMAIN im.stack : im.stack[i].dir \in dst \union lost

\* A hash in the index has its whole tree in the storage, but for blobs that could not
\* be put in place: whatever the archive lacked, had damaged or brought from elsewhere,
\* and whichever imports failed half way before.
IndexWhole == \A h \in index : Tree(h) \subseteq dst \union lost

\* An export that went through and arrives unharmed is imported under the hash that it
\* was exported under; and one that was short is not.
RoundTrip ==
  /\ im.at = "error" => harmed \/ ex.at = "failed"
  /\ im.at = "done" /\ im.id = arc.root => im.id \in index /\ Tree(im.id) \subseteq DOMAIN arc.blob

\* An import registers nothing but the hash it was asked for, unless what it read is not
\* as httplock writes it, and nothing at all when it fails, unless only the index could
\* not be written.
RegistersAsked ==
  [][index' # index =>
       \/ ~WellFormed(im.id)
       \/ /\ index' = index \union {im.id}
          /\ im'.at = "done" \/ left'["index"] # left["index"]]_vars

\* An import ends.
ImportEnds == im.at = "root" ~> im.at \in {"done", "error"}
=============================================================================
