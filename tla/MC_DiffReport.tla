---------------------------- MODULE MC_DiffReport ---------------------------
(* Instances of DiffReport: names 1 and 2, two contents, directories below   *)
(* the root, empty ones among them, and a file and a directory of one name.  *)
EXTENDS DiffReport

Names == 1..2
X == FileHash("x")
Y == FileHash("y")

File(h) == [kind |-> "file", hash |-> h]
Dir(h)  == [kind |-> "dir", hash |-> h]

\* The directory blobs over some names, with some entries.
Listings(entries) ==
  {DirHash(l) : l \in UNION {[ns -> entries] : ns \in SUBSET Names}}

Leaf    == DirHash([n \in {2} |-> File(X)])
Few     == {DirHash(<<>>), Leaf}
Deep    == {DirHash([n \in {2} |-> Dir(l)]) : l \in Few}
             \union {DirHash([n \in Names |-> IF n = 1 THEN Dir(Leaf) ELSE File(Y)])}
Subdirs == Listings({File(X), File(Y)}) \union Deep

\* Any subdirectory or a file under the first name, a file or few under the second.
MCTrees ==
  {h \in Listings({File(X), File(Y)} \union {Dir(s) : s \in Subdirs}) :
     /\ Child(h, 1) # Y
     /\ Child(h, 2) \in Few \union {NoHash, X, Y}}

MCMissing  == {{}, {Leaf}}
MCAllPaths == UNION {[1..l -> Names] : l \in 1..3}
=============================================================================
