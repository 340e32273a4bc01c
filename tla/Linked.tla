------------------------------- MODULE Linked -------------------------------
(***************************************************************************)
(* The clusters of a chain: where get_fat leads from the first one on.     *)
(* t is the FAT, C the clusters of the volume; every other value of an     *)
(* entry ends the chain.                                                   *)
(***************************************************************************)
EXTENDS Integers, Sequences, FiniteSets

(* What follows the clusters s at the beginning of the chain from c.       *)
After(s, c, t) == IF s = <<>> THEN c ELSE t[s[Len(s)]]

(* The chain from c; a circular one is cut when there could be no more.    *)
Follow(c, t, C) ==
    LET longer[s \in Seq(C)] ==
            IF After(s, c, t) \in C THEN Append(s, After(s, c, t)) ELSE s
        walk[n \in Nat] == IF n = 0 THEN <<>> ELSE longer[walk[n - 1]]
    IN walk[Cardinality(C)]
=============================================================================
