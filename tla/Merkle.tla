------------------------------- MODULE Merkle -------------------------------
(***************************************************************************)
(* Content addresses.  httplock names every blob by the hash of its bytes  *)
(* (hasher/hasher.go) and a directory blob is the JSON of its entries, each *)
(* a name with a kind and a hash (DirEntry and EntryKind, root.go).  Hash   *)
(* collisions are ignored: a hash is modelled by the content it stands for, *)
(* so two blobs have one hash exactly when they have one content.           *)
(***************************************************************************)
EXTENDS SequencesExt

\* The empty Go string: "no hash computed yet".
NoHash == <<>>

\* The hash of a blob of file content, and of a directory blob.  listing maps
\* each name to a record [kind |-> "dir" or "file", hash |-> its hash].
FileHash(content) == <<"file", content>>
DirHash(listing)  == <<"dir", listing>>

IsDirHash(h) == h # NoHash /\ h[1] = "dir"
Listing(h)   == h[2]

\* What json.Marshal makes of a Dir, and no more: kinds and hashes by name.
WellFormed(h) ==
  IsDirHash(h) =>
    /\ h = DirHash(Listing(h))
    /\ Listing(h) = [n \in DOMAIN Listing(h) |-> [kind |-> Listing(h)[n].kind,
                                                 hash |-> Listing(h)[n].hash]]
    /\ \A n \in DOMAIN Listing(h) : Listing(h)[n].kind \in {"dir", "file"}

\* No file content reads as a directory: an entry is one if its hash is that of one.
KindsAgree(h) ==
  IsDirHash(h) =>
    \A n \in DOMAIN Listing(h) : Listing(h)[n].kind = "dir" <=> IsDirHash(Listing(h)[n].hash)

\* The hash a directory blob records for a name (NoHash when there is none).
Child(h, name) ==
  IF IsDirHash(h) /\ name \in DOMAIN Listing(h)
    THEN Listing(h)[name].hash
    ELSE NoHash

\* What a path leads to, starting at the directory blob h.
Resolve(h, path) == FoldLeft(Child, h, path)

\* The hashes a directory blob refers to.
Children(h) ==
  IF IsDirHash(h) THEN {Listing(h)[n].hash : n \in DOMAIN Listing(h)} ELSE {}
=============================================================================
