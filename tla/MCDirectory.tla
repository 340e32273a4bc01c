---------------------------- MODULE MCDirectory ----------------------------
(* Directory on small tables; names are interchangeable.                   *)
(*                                                                         *)
(* The view leaves out what no step and no property reads: the offset of a *)
(* DIR that is disabled, why it is, what came after an error, and results  *)
(* that no property is about.                                              *)
EXTENDS Directory, TLC

Symmetric == Permutations(Name)

View == <<sclust, slot, fat, job, must, seen, twice, garbled,
          IF rd.sect = 0 THEN Disabled(Top) ELSE rd,
          CASE scan = "ended" -> "off" [] scan = "wild" -> "failed" [] OTHER -> scan,
          IF last.res \in {"no_file", "exist", "full"} THEN last ELSE NoAnswer>>
=============================================================================
