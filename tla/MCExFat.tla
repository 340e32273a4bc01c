------------------------------ MODULE MCExFat ------------------------------
(* ExFat on a small volume with a file and sub-directories, for TLC.       *)
EXTENDS ExFat, TLC

NamesAlike == Permutations(Subdirs)
ReservedClusters == {2}
(* A stack that holds zeros, or what is left of an object: an empty one,   *)
(* one of a cluster, one that ends with the cluster of Home, and one that  *)
(* goes on to the end of the volume.                                       *)
Stack == [sclust : {0, 3}, objsize : {0, 1, 3, 5}]
(* State constraint: nothing is explored behind an f_mkdir that gave back  *)
(* more than its own cluster.  No property says anything of what follows:  *)
(* each of them can be violated there a call or two later.                 *)
WithoutStray == ~stray
=============================================================================
