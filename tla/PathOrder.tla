------------------------------ MODULE PathOrder -----------------------------
(***************************************************************************)
(* The order of paths in internal/storage/root.go: Dir.keys sorts the names *)
(* of a directory, and cmpPaths compares two paths name by name.  A name is *)
(* a number here, its place in the byte order of all names.                *)
(***************************************************************************)
EXTENDS Integers, Sequences

\* cmpPaths(p, q) < 0: up to some place the paths agree, and there p has ended or
\* has the smaller name.  cmpPaths is 0 when neither is before the other.
Before(p, q) ==
  \E i \in 1..Len(q) : /\ i <= Len(p) + 1
                       /\ \A j \in 1..(i-1) : p[j] = q[j]
                       /\ i <= Len(p) => p[i] < q[i]
=============================================================================
