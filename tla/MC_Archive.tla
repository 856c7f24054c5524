----------------------------- MODULE MC_Archive -----------------------------
(* Instances of Archive: an empty tree, one where two names share a           *)
(* directory, and one with three levels.                                      *)
EXTENDS Archive

X == FileHash("x")
Y == FileHash("y")

File(h) == [kind |-> "file", hash |-> h]
Dir(h)  == [kind |-> "dir", hash |-> h]

Leaf   == DirHash([n \in {1} |-> File(X)])
Middle == DirHash([n \in {1, 2} |-> IF n = 1 THEN Dir(Leaf) ELSE File(Y)])
Shared == DirHash([n \in {1, 2} |-> Dir(Leaf)])
Deep   == DirHash([n \in {1, 2} |-> IF n = 1 THEN File(X) ELSE Dir(Middle)])

MCTrees    == {DirHash(Empty), Shared, Deep}
MCAllPaths == UNION {[1..l -> 1..2] : l \in 0..3}
MCMissing  == {{}, {X}, {Leaf}}
MCContents == {X, Leaf}

\* Directories with a field that httplock does not know.
Marked(e) == [kind |-> e.kind, hash |-> e.hash, size |-> 0]
Odd    == DirHash([n \in {1} |-> Marked(File(X))])
OddSub == DirHash([n \in {1} |-> Dir(Odd)])

Whole(h) == [root |-> h, blob |-> [b \in Tree(h) |-> b]]
MCForeign == {Whole(Odd), Whole(OddSub)}

MCQuota == [k \in Bounded |-> IF k = "import" THEN 2 ELSE 1]
=============================================================================
