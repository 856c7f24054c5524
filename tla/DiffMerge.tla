------------------------------ MODULE DiffMerge -----------------------------
(***************************************************************************)
(* What DiffRoots (internal/storage/root.go) promises, without trees: the  *)
(* files of two Roots, each listed once and in the order of their paths,   *)
(* are merged into a report of the paths whose content differs.            *)
(* DiffReport is shown to implement it.                                    *)
(***************************************************************************)
EXTENDS PathOrder, SequencesExt

CONSTANTS Hashes, None

VARIABLES
  w,        \* per Root: its files in order, [path, hash]
  at,       \* per Root: the place in w, 0 before the first
  report,   \* the entries reported so far
  done      \* the report is complete

vars == <<w, at, report, done>>

Roots == 1..2
Files == [path : Seq(Nat), hash : Hashes]

Sorted(s) == \A a, b \in DOMAIN s : a < b => Before(s[a].path, s[b].path)

Entry(action, p, h1, h2) == [action |-> action, path |-> p, hash1 |-> h1, hash2 |-> h2]

Present(k) == at[k] \in DOMAIN w[k]
Ended(k)   == at[k] > Len(w[k])
Cur(k)     == w[k][at[k]]

\* Root k is at a file that the other no longer can have.
First(k) == /\ Present(k)
            /\ \/ Ended(3 - k)
               \/ Present(3 - k) /\ Before(Cur(k).path, Cur(3 - k).path)

Init ==
  /\ w \in [Roots -> {s \in Seq(Files) : Sorted(s)}]
  /\ at = [k \in Roots |-> 0] /\ report = <<>> /\ done = FALSE

Start ==
  /\ at = [k \in Roots |-> 0]
  /\ at' = [k \in Roots |-> 1]
  /\ UNCHANGED <<w, report, done>>

Deleted ==
  /\ First(1)
  /\ report' = Append(report, Entry("deleted", Cur(1).path, Cur(1).hash, None))
  /\ at' = [at EXCEPT ![1] = @ + 1]
  /\ UNCHANGED <<w, done>>

Added ==
  /\ First(2)
  /\ report' = Append(report, Entry("added", Cur(2).path, None, Cur(2).hash))
  /\ at' = [at EXCEPT ![2] = @ + 1]
  /\ UNCHANGED <<w, done>>

Both ==
  /\ Present(1) /\ Present(2) /\ Cur(1).path = Cur(2).path
  /\ report' = IF Cur(1).hash = Cur(2).hash THEN report
                 ELSE Append(report, Entry("changed", Cur(1).path, Cur(1).hash, Cur(2).hash))
  /\ at' = [k \in Roots |-> at[k] + 1]
  /\ UNCHANGED <<w, done>>

Finish ==
  /\ Ended(1) /\ Ended(2) /\ done' = TRUE
  /\ UNCHANGED <<w, at, report>>

Next == Start \/ Deleted \/ Added \/ Both \/ Finish

Spec == Init /\ [][Next]_vars

-----------------------------------------------------------------------------
(* Properties *)

\* Root k has the file p with the hash h.
Has(k, p, h) == \E j \in DOMAIN w[k] : w[k][j].path = p /\ w[k][j].hash = h
Lacks(k, p)  == \A j \in DOMAIN w[k] : w[k][j].path # p

\* The entry e says of its path what is true of the two Roots, and that they differ.
True(e) ==
  \/ /\ e.action = "deleted" /\ Has(1, e.path, e.hash1) /\ Lacks(2, e.path)
     /\ e.hash2 = None
  \/ /\ e.action = "added" /\ Lacks(1, e.path) /\ Has(2, e.path, e.hash2)
     /\ e.hash1 = None
  \/ /\ e.action = "changed" /\ Has(1, e.path, e.hash1) /\ Has(2, e.path, e.hash2)
     /\ e.hash1 # e.hash2

\* A complete report says only what is true, in the order of the paths and hence of
\* each path once ...
Sound == \A i \in DOMAIN report : True(report[i])
InOrder == \A i, j \in DOMAIN report : i < j => Before(report[i].path, report[j].path)

\* ... and leaves nothing out: a file that one Root has and the other lacks, or has
\* with another hash, is in it.
Complete ==
  \A k \in Roots : \A j \in DOMAIN w[k] :
    \/ Has(3 - k, w[k][j].path, w[k][j].hash)
    \/ \E i \in DOMAIN report : report[i].path = w[k][j].path

\* DiffRoots reports exactly the differences: none is skipped or repeated, also when
\* one walk ends before the other.
Exact == Sound /\ InOrder /\ (done => Complete)
=============================================================================
