---------------------------- MODULE MCNameSpace ----------------------------
(* NameSpace with interchangeable names and clusters.                      *)
(*                                                                         *)
(* The view leaves out what the next step does not see: which sector is in *)
(* a clean window that it moves, or that the next call will; and between   *)
(* calls, what a cluster holds that no entry and no open file has.         *)
EXTENDS NameSpace, TLC

Symmetric == Permutations(Name) \cup Permutations(Cluster)

Clusters(d, c) == {ChainFrom(d, c)[i] : i \in DOMAIN ChainFrom(d, c)}
Held ==
    {Root} \cup UNION {Used(disk, p) : p \in Entries(disk)}
    \cup UNION {Used(Seen, p) : p \in Entries(Seen)}
    \cup {Upward(Seen, cdir)[i] : i \in DOMAIN Upward(Seen, cdir)}
    \cup Clusters(Seen, fp.clust)
Moves == /\ ~win.dirty
         /\ \/ job = Idle
            \/ job.plan[1].do \notin {"write", "sync", "fp"} /\ job.plan[1].at # win.sect

View ==
    <<IF job # Idle THEN disk
      ELSE LET held == Held
           IN [disk EXCEPT !.body = [c \in DOMAIN @ |-> IF c \in held THEN @[c] ELSE Junk]],
      IF Moves THEN NoWindow ELSE win,
      fp, cdir, job, faults, cut, moved, safe>>
=============================================================================
