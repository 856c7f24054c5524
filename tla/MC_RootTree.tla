----------------------------- MODULE MC_RootTree ----------------------------
(* Instances of RootTree: one host directory "h" with files "a" and "b". *)
EXTENDS RootTree

A == <<"h", "a">>
B == <<"h", "b">>

\* The tree an earlier Save stored, with file a only, and its blobs.
BaseA    == FileHash("x")
BaseH    == DirHash([n \in {"a"} |-> [kind |-> "file", hash |-> BaseA]])
BaseRoot == DirHash([n \in {"h"} |-> [kind |-> "dir", hash |-> BaseH]])

MCPaths     == {A, B}
MCDirPaths  == {<<"h">>}
MCBaseBlobs == {BaseA, BaseH, BaseRoot}

NewRoot  == [base |-> NoHash, readonly |-> FALSE]
FromRoot == [base |-> BaseRoot, readonly |-> FALSE]
HashRoot == [base |-> BaseRoot, readonly |-> TRUE]

Recorders  == {NewRoot, FromRoot}
OnlyNew    == {NewRoot}
AllStarts  == Recorders \union {HashRoot}

\* One content per path, for a the one in the tree above; and two for the path a.
OnePut  == {<<A, "x">>, <<B, "y">>}
TwoPuts == {<<A, "x">>, <<A, "y">>}
LinkB   == {<<B, BaseA>>}

Budget(w, l, r, ls, e, s, d, f) ==
  [o \in Ops \union {"fault"} |->
     CASE o = "write" -> w [] o = "link" -> l [] o = "read" -> r [] o = "list" -> ls
       [] o = "entryHash" -> e [] o = "save" -> s [] o = "diff" -> d [] o = "fault" -> f]

\*                     write link read list entryHash save diff fault
SeqBudget    == Budget(2,    0,   1,   0,   1,        2,   1,   0)
ReplayBudget == Budget(1,    0,   1,   1,   0,        1,   1,   0)
NewBudget    == Budget(1,    1,   1,   0,   0,        1,   0,   0)
FromBudget   == Budget(2,    0,   0,   0,   0,        1,   0,   1)
SaveBudget   == Budget(2,    0,   0,   0,   0,        2,   0,   0)
WriteBudget  == Budget(2,    0,   0,   0,   0,        0,   0,   0)

SeqQuota   == [s \in Recorders |-> SeqBudget]
ConcQuota  == [s \in AllStarts |->
                 IF s.readonly THEN ReplayBudget ELSE IF s.base = NoHash THEN NewBudget ELSE FromBudget]
SaveQuota  == [s \in Recorders |-> SaveBudget]
WriteQuota == [s \in OnlyNew |-> WriteBudget]

Perms == Permutations(Procs)
=============================================================================
