------------------------------ MODULE DiffReport ----------------------------
(***************************************************************************)
(* DiffRoots of internal/storage/root.go, once both Roots have their hash: *)
(* an iterator on each Root goes down the tree with a stack of directories, *)
(* which it loads from their blobs, and the loop compares where the two    *)
(* are.  It is one goroutine; what it does to the Roots that other         *)
(* goroutines use is in RootTree.                                          *)
(***************************************************************************)
EXTENDS Merkle, PathOrder, FiniteSets

CONSTANTS
  Trees,      \* root hashes that may be compared
  Missing,    \* sets of blobs that the store may lack
  AllPaths    \* paths, those of every file and directory of Trees among them

\* Trees as httplock writes them: an entry is a directory if its hash is that of one,
\* and has a name and a hash.
ASSUME TreeAssumption ==
  \A h \in Trees : IsDirHash(h) /\ \A p \in AllPaths \union {<<>>} :
    LET b == Resolve(h, p)
    IN IsDirHash(b) => /\ WellFormed(b) /\ KindsAgree(b) /\ NoHash \notin Children(b)
                       /\ \A n \in DOMAIN Listing(b) : n # 0 /\ Append(p, n) \in AllPaths

ASSUME PathAssumption == AllPaths \subseteq Seq(Nat)

VARIABLES
  roots,    \* the two hashes compared
  gone,     \* blobs that are not in the store
  it,       \* per Root its diffIter: [dirs, rest, path, hash]
  at,       \* "open", "compare", "next", "done" or "failed"
  todo,     \* the iterators still to be opened or moved in this round
  eof,      \* those that found no next file in this round
  report    \* DiffReport.Entries

\* Observation: per Root, how often next was called before its iterator had ended.
VARIABLE calls

vars == <<roots, gone, it, at, todo, eof, report, calls>>

\* Definitions marked "Mutant" are changed forms of the one that follows, which a
\* bug in the code could have; nothing uses them.

\* Mutant: the names are not sorted.
LeastUnsorted(S) == CHOOSE n \in S : \A m \in S : n >= m

\* The first of the remaining names, which Dir.keys sorted.
Least(S) == CHOOSE n \in S : \A m \in S : n <= m

Entry(action, p, h1, h2) == [action |-> action, path |-> p, hash1 |-> h1, hash2 |-> h2]

Loadable(h) == h \notin gone /\ IsDirHash(h)
Keys(h)     == DOMAIN Listing(h)

NoIter == [dirs |-> <<>>, rest |-> <<>>, path |-> <<>>, hash |-> NoHash]

Fail == at' = "failed" /\ UNCHANGED <<it, todo, eof>>

\* newDiffIter: the path starts with one empty name, so that the first comparison
\* finds both iterators at the same place.
NewDiffIter(k) ==
  /\ at = "open" /\ todo # <<>> /\ k = Head(todo)
  /\ \/ /\ Loadable(roots[k])
        /\ it' = [it EXCEPT ![k] = [dirs |-> <<roots[k]>>, rest |-> <<Keys(roots[k])>>,
                                    path |-> <<0>>, hash |-> NoHash]]
        /\ todo' = Tail(todo)
        /\ at' = IF Tail(todo) = <<>> THEN "compare" ELSE at
        /\ UNCHANGED eof
     \/ ~Loadable(roots[k]) /\ Fail
  /\ UNCHANGED <<roots, gone, report, calls>>

-----------------------------------------------------------------------------
(* The loop of DiffRoots *)

\* The entries of this round go into the report and the iterators ks are to move.
Round(entries, ks) ==
  /\ at = "compare"
  /\ report' = report \o entries
  /\ at' = "next" /\ todo' = ks /\ eof' = {}
  /\ calls' = [k \in 1..2 |-> IF Contains(ks, k) /\ it[k].path # <<>>
                               THEN calls[k] + 1 ELSE calls[k]]
  /\ UNCHANGED <<roots, gone, it>>

\* Mutant: the other's end is not looked at.
OnlyInNoEnd(k) ==
  it[k].path # <<>> /\ Before(it[k].path, it[3 - k].path)

\* Iterator k is at a path that comes before the other's, or the other has ended.
OnlyIn(k) ==
  it[k].path # <<>> /\ (it[3 - k].path = <<>> \/ Before(it[k].path, it[3 - k].path))

Deleted == OnlyIn(1) /\ Round(<<Entry("deleted", it[1].path, it[1].hash, NoHash)>>, <<1>>)

Added == OnlyIn(2) /\ Round(<<Entry("added", it[2].path, NoHash, it[2].hash)>>, <<2>>)

\* Both are at the same path, or at their end.
Same ==
  /\ ~OnlyIn(1) /\ ~OnlyIn(2)
  /\ LET changed == it[1].path # <<>> /\ it[1].hash # it[2].hash
         entry   == Entry("changed", it[1].path, it[1].hash, it[2].hash)
     IN Round(IF changed THEN <<entry>> ELSE <<>>, <<1, 2>>)

-----------------------------------------------------------------------------
(* next *)

\* next returns: the round goes on with the other iterator, or the loop with a new
\* round, unless both iterators ended in this one.
Returned(k, ends) ==
  LET ended == eof \union ends
  IN /\ todo' = Tail(todo) /\ eof' = ended
     /\ at' = IF Tail(todo) # <<>> THEN at ELSE IF ended = {1, 2} THEN "done" ELSE "compare"

Moving(k) == at = "next" /\ k = Head(todo)
Depth(k)  == Len(it[k].rest)

\* Mutant: the end is not reported to the caller.
NextEOFSilent(k) ==
  /\ Moving(k) /\ Depth(k) = 0
  /\ Returned(k, {})
  /\ UNCHANGED <<roots, gone, it, report, calls>>

NextEOF(k) ==
  /\ Moving(k) /\ Depth(k) = 0
  /\ Returned(k, {k})
  /\ UNCHANGED <<roots, gone, it, report, calls>>

\* A directory without remaining entries is left, and its name in the path with it.
NextUp(k) ==
  /\ Moving(k) /\ Depth(k) > 0 /\ Last(it[k].rest) = {}
  /\ it' = [it EXCEPT ![k] = [dirs |-> Front(@.dirs), rest |-> Front(@.rest),
                              path |-> Front(@.path), hash |-> NoHash]]
  /\ UNCHANGED <<roots, gone, at, todo, eof, report, calls>>

\* The next entry in order: next stops at a file, and goes into a directory, which
\* adds a name still to be filled in to the path.
NextEntry(k) ==
  /\ Moving(k) /\ Depth(k) > 0 /\ Last(it[k].rest) # {}
  /\ LET n    == Least(Last(it[k].rest))
         d    == Depth(k)
         e    == Listing(it[k].dirs[d])[n]
         path == [it[k].path EXCEPT ![d] = n]
         rest == [it[k].rest EXCEPT ![d] = @ \ {n}]
     IN \/ /\ e.kind = "file"
           /\ it' = [it EXCEPT ![k] = [dirs |-> @.dirs, rest |-> rest,
                                       path |-> path, hash |-> e.hash]]
           /\ Returned(k, {})
        \/ /\ e.kind = "dir" /\ Loadable(e.hash)
           /\ it' = [it EXCEPT ![k] = [dirs |-> Append(@.dirs, e.hash),
                                       rest |-> Append(rest, Keys(e.hash)),
                                       path |-> Append(path, 0), hash |-> NoHash]]
           /\ UNCHANGED <<at, todo, eof>>
        \/ e.kind = "dir" /\ ~Loadable(e.hash) /\ Fail
  /\ UNCHANGED <<roots, gone, report, calls>>

-----------------------------------------------------------------------------
Init ==
  /\ roots \in [1..2 -> Trees] /\ gone \in Missing
  /\ it = [k \in 1..2 |-> NoIter]
  /\ at = "open" /\ todo = <<1, 2>> /\ eof = {} /\ report = <<>>
  /\ calls = [k \in 1..2 |-> 0]

Step ==
  \/ Deleted \/ Added \/ Same
  \/ \E k \in 1..2 : NewDiffIter(k) \/ NextEOF(k) \/ NextUp(k) \/ NextEntry(k)

Returns == at \in {"done", "failed"} /\ UNCHANGED vars

Next == Step \/ Returns

\* The goroutine that runs DiffRoots keeps running.
Spec == Init /\ [][Next]_vars /\ WF_vars(Step)

-----------------------------------------------------------------------------
(* Properties *)

\* The hash of the file p in the tree h, NoHash when there is none.
FileAt(h, p) == IF IsDirHash(Resolve(h, p)) THEN NoHash ELSE Resolve(h, p)

\* What the report should say of the path p.
Difference(p) ==
  LET h1 == FileAt(roots[1], p)
      h2 == FileAt(roots[2], p)
  IN Entry(IF h1 = NoHash THEN "added" ELSE IF h2 = NoHash THEN "deleted" ELSE "changed",
           p, h1, h2)

\* The report names every path where the two trees differ, no other, each once and in
\* order.  A report that DiffRoots breaks off for a missing blob is right as far as it
\* goes, and two trees that are both in the store are never refused.
ReportExact ==
  LET differ == {p \in AllPaths : FileAt(roots[1], p) # FileAt(roots[2], p)}
      due    == {Difference(p) : p \in differ}
  IN /\ ToSet(report) \subseteq due
     /\ at = "done" => ToSet(report) = due
     /\ \A i, j \in DOMAIN report : i < j => Before(report[i].path, report[j].path)
     /\ at = "failed" => gone # {}

\* DiffRoots always returns.
DiffEnds == <>(at \in {"done", "failed"})

\* Refinement: the files of each tree in order; the iterator is at, or on its way to,
\* the one that its calls of next count.
Walk == [h \in Trees |->
  LET files == {p \in AllPaths : FileAt(h, p) # NoHash}
      Rank(p) == Cardinality({q \in files : Before(q, p)}) + 1
      place == [i \in 1..Cardinality(files) |-> CHOOSE p \in files : Rank(p) = i]
  IN [i \in DOMAIN place |-> [path |-> place[i], hash |-> FileAt(h, place[i])]]]

FileHashes == UNION {{Walk[h][i].hash : i \in DOMAIN Walk[h]} : h \in Trees}

Merge == INSTANCE DiffMerge WITH
  Hashes <- FileHashes, None <- NoHash,
  w <- [k \in 1..2 |-> Walk[roots[k]]], at <- calls,
  done <- at = "done"

\* DiffRoots on trees is the merge of two sorted walks.
MergesWalks == Merge!Spec
=============================================================================
