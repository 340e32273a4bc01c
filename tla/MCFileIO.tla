------------------------------ MODULE MCFileIO ------------------------------
(* FileIO on small volumes; clusters are interchangeable.                  *)
(*                                                                         *)
(* The view leaves out what no step and no property reads: the position of *)
(* an object that has an error, and whether it is the stream's, the        *)
(* contents of its clean buffer, clust at offset 0, tags of bytes in       *)
(* places where they are not the defined bytes of a file, and cached,      *)
(* which only WindowMoves reads.                                           *)
EXTENDS FileIO, TLC

Defined(x, s) ==
    [b \in 0 .. SS - 1 |->
        IF /\ x[b] # Old
           /\ x[b][2] < Size(x[b][1]) /\ x[b][2] \notin undef[x[b][1]]
           /\ x[b][2] \div BCS < Len(OwnChain(x[b][1]))
           /\ SectorAt(OwnChain(x[b][1]), x[b][2]) = s
        THEN x[b] ELSE Old]

FilView(r) ==
    LET x == [r EXCEPT !.buf = Defined(@, r.sect),
                       !.err = IF @ = "stream" THEN "disk" ELSE @]
    IN IF r.err = "none" THEN [x EXCEPT !.clust = IF call = NoCall /\ r.fptr = 0 THEN None ELSE @]
       ELSE IF r.dirty THEN [x EXCEPT !.fptr = 0, !.clust = None, !.wr = TRUE]
       ELSE [x EXCEPT !.fptr = 0, !.clust = None, !.wr = TRUE, !.buf = All(Old), !.sect = None]

View == <<[s \in Sector |-> Defined(disk[s], s)], fat, entry,
          [f \in File |-> IF fil[f].open THEN FilView(fil[f]) ELSE Closed],
          call, undef, misread, stray>>

Symmetry == Permutations(Cluster)
=============================================================================
