---------------------------- MODULE MC_RootIndex ----------------------------
(* Instances of RootIndex: two goroutines, two files, four hashes. *)
EXTENDS RootIndex, TLC

Budget(cr, fr, rec, sv, ex, im, bf, xf, rs) ==
  [k \in Bounded |->
     CASE k = "create" -> cr [] k = "from" -> fr [] k = "record" -> rec [] k = "save" -> sv
       [] k = "export" -> ex [] k = "import" -> im
       [] k = "blobFault" -> bf [] k = "indexFault" -> xf [] k = "restart" -> rs]

\*                   create from record save export import blobFault indexFault restart
CrashQuota  == Budget(1,     1,   1,     2,   1,     1,     0,        1,         1)
LossQuota   == Budget(1,     0,   0,     2,   0,     0,     0,        0,         1)

Perms == Permutations(Procs) \union Permutations(Files)
=============================================================================
