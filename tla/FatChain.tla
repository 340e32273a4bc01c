------------------------------ MODULE FatChain ------------------------------
(***************************************************************************)
(* Cluster allocation on a FAT volume: get_fat and put_fat (as reads and   *)
(* writes of the function fat, each of which may fail), create_chain,      *)
(* remove_chain, and the callers that change which chain an object owns    *)
(* (f_write, f_lseek, dir_next, f_mkdir; f_unlink, f_open, f_truncate) or  *)
(* the free cluster count (f_getfree).                                     *)
(*                                                                         *)
(* remove_chain is a step per cluster, so that it may fail between any     *)
(* two; create_chain, whose only writes are its last two put_fat, is one   *)
(* step per way it can end.  The driver is single-threaded: nothing else   *)
(* runs while a removal is under way.                                      *)
(***************************************************************************)
EXTENDS Integers, FiniteSets, Sequences, Linked

CONSTANTS NFatEnt,   \* FATFS.n_fatent
          Obj        \* files and directories (FFOBJID)

ASSUME NFatEntAssumption == NFatEnt \in Nat /\ NFatEnt > 2

VARIABLES fat,         \* value of each FAT entry, as get_fat returns it
          free_clst, last_clst,  \* the fields of FATFS
          head,        \* FFOBJID.sclust of each object, 0 if it has no cluster
          job,         \* remove_chain under way
          ret,         \* ghost: how the last call ended
          leaked,      \* ghost: chains that lost their owner to a disk error
          understated  \* ghost: FSINFO gave fewer free clusters than there are

vars == <<fat, free_clst, last_clst, head, job, ret, leaked, understated>>

Clusters == 2 .. NFatEnt - 1
NClusters == NFatEnt - 2
EOC == NFatEnt                  \* any value >= n_fatent ends a chain
Entry == {0, 1, EOC} \cup Clusters   \* 1 is found on damaged volumes only
Unknown == NFatEnt              \* 0xFFFFFFFF, not a count of clusters
Free == {c \in Clusters : fat[c] = 0}
Owned == {head[o] : o \in Obj} \ {0}

Idle == [cur |-> 0, hint |-> 0]
Results == {"ok", "full", "int_err", "disk_err", "busy"}

(* The clusters of the chain that starts at c, in order.                   *)
Chain(c) == Follow(c, fat, Clusters)
Reached(c, f) == {Follow(c, f, Clusters)[i] : i \in DOMAIN Follow(c, f, Clusters)}
OnChain(o) == Reached(head[o], fat)

-----------------------------------------------------------------------------
(* create_chain(obj, clst)                                                 *)

Least(S) == CHOOSE c \in S : \A d \in S : c <= d

(* The linear search: from the cluster after scl to the end of the FAT,    *)
(* then from cluster 2; it stops at a free cluster or at a bad value, 0 if *)
(* there is neither.                                                       *)
Search(scl) ==
    LET Stops == {c \in Clusters : fat[c] < 2}
        Above == {c \in Stops : c > scl}
    IN IF Above # {} THEN Least(Above)
       ELSE IF Stops # {} THEN Least(Stops) ELSE 0

Valid(scl) == scl >= 2 /\ scl < NFatEnt

(* The cluster a new chain starts with.                                    *)
NewCluster ==
    Search(IF last_clst = 0 \/ last_clst >= NFatEnt THEN 1 ELSE last_clst)

(* The cluster that follows clst: the next one if it is free.              *)
NextCluster(clst) ==
    LET ncl == IF clst + 1 >= NFatEnt THEN 2 ELSE clst + 1
    IN IF fat[ncl] < 2 THEN ncl
       ELSE Search(IF Valid(last_clst) THEN last_clst ELSE clst)

Unchanged(r) == /\ ret' = r
                /\ UNCHANGED <<fat, free_clst, last_clst, head, job, leaked, understated>>

(* The counters once ncl is allocated.                                     *)
Allocated(ncl) ==
    /\ last_clst' = ncl
    /\ free_clst' = IF free_clst <= NClusters THEN free_clst - 1 ELSE free_clst

(* What allocating comes to before anything is written.                    *)
NoSpace(ncl) == free_clst = 0 \/ ncl = 0
Found_Reserved(ncl) == ~NoSpace(ncl) /\ fat[ncl] < 2
Found(ncl) == ~NoSpace(ncl) /\ fat[ncl] = 0
CannotAllocate(ncl) ==
    \/ NoSpace(ncl) /\ Unchanged("full")
    \/ ~NoSpace(ncl) /\ fat[ncl] = 1 /\ Unchanged("int_err")
    \/ Unchanged("disk_err")

(* The object takes ncl for its first cluster.                             *)
Adopted_Forgotten(o, ncl) == UNCHANGED head
Adopted(o, ncl) == head' = [head EXCEPT ![o] = ncl]

(* A first cluster for an object without one.                              *)
CreateChain(o) ==
    LET ncl == NewCluster
    IN /\ job = Idle
       /\ head[o] = 0
       /\ \/ CannotAllocate(ncl)
          \/ /\ Found(ncl)
             /\ fat' = [fat EXCEPT ![ncl] = EOC]
             /\ Adopted(o, ncl)
             /\ Allocated(ncl)
             /\ ret' = "ok"
             /\ UNCHANGED <<job, leaked, understated>>

(* Go to the cluster after clst, stretching the chain if clst is its last. *)
StretchChain(clst) ==
    LET ncl == NextCluster(clst)
        AtEnd == fat[clst] >= NFatEnt
    IN /\ job = Idle
       /\ \/ Unchanged("disk_err")
          \/ fat[clst] < 2 /\ Unchanged("int_err")
          \/ fat[clst] \in Clusters /\ Unchanged("ok")    \* already followed
          \/ AtEnd /\ CannotAllocate(ncl)
          \/ /\ AtEnd /\ Found(ncl)
             /\ fat' = [fat EXCEPT ![ncl] = EOC, ![clst] = ncl]
             /\ Allocated(ncl)
             /\ ret' = "ok"
             /\ UNCHANGED <<head, job, leaked, understated>>
          \/ /\ AtEnd /\ Found(ncl)             \* the link cannot be written
             /\ fat' = [fat EXCEPT ![ncl] = EOC]
             /\ leaked' = leaked \cup {ncl}
             /\ ret' = "disk_err"
             /\ UNCHANGED <<free_clst, last_clst, head, job, understated>>

-----------------------------------------------------------------------------
(* remove_chain(obj, clst, pclst)                                          *)

(* Sets the owner's first cluster to 0.                                    *)
Disowned(o) == head' = [head EXCEPT ![o] = 0]

(* f_unlink, f_open of an existing file for overwriting and f_truncate at  *)
(* offset 0: the owner gives up its chain whether or not the removal       *)
(* succeeds.  f_open then hints at the hole: last_clst = sclust - 1.       *)
RemoveAll(o) ==
    /\ job = Idle
    /\ head[o] # 0
    /\ job' \in {[cur |-> head[o], hint |-> h] : h \in {0, head[o] - 1}}
    /\ Disowned(o)
    /\ ret' = "busy"
    /\ UNCHANGED <<fat, free_clst, last_clst, leaked, understated>>

(* Marks the cluster before the chain as the last one.                     *)
CutAfter_Forgotten(pclst) == UNCHANGED fat
CutAfter(pclst) == fat' = [fat EXCEPT ![pclst] = EOC]

(* f_truncate after cluster pclst: the rest of the chain is cut off first. *)
RemoveRest(pclst) ==
    /\ job = Idle
    /\ fat[pclst] \in Clusters
    /\ \/ Unchanged("disk_err")
       \/ /\ CutAfter(pclst)
          /\ job' = [cur |-> fat[pclst], hint |-> 0]
          /\ ret' = "busy"
          /\ UNCHANGED <<free_clst, last_clst, head, leaked, understated>>

(* remove_chain is over; f_open then goes back to the directory, and hints *)
(* at the hole whether or not that works.                                  *)
Finish ==
    /\ job' = Idle
    /\ \/ job.hint = 0 /\ ret' = "ok" /\ UNCHANGED last_clst
       \/ job.hint # 0 /\ ret' \in {"ok", "disk_err"} /\ last_clst' = job.hint

(* A cluster is freed and counted.                                         *)
Freed_NotWritten(c) ==
    /\ UNCHANGED fat
    /\ free_clst' = IF free_clst < NClusters THEN free_clst + 1 ELSE free_clst
Freed_LastNotCounted(c) ==
    /\ fat' = [fat EXCEPT ![c] = 0]
    /\ free_clst' = IF free_clst < NClusters - 1 THEN free_clst + 1 ELSE free_clst
Freed(c) ==
    /\ fat' = [fat EXCEPT ![c] = 0]
    /\ free_clst' = IF free_clst < NClusters THEN free_clst + 1 ELSE free_clst

(* One turn of the loop: free a cluster and go to the next.                *)
RemoveStep ==
    LET nxt == fat[job.cur]
    IN /\ job.cur # 0
       /\ nxt >= 2
       /\ Freed(job.cur)
       /\ \/ /\ nxt < NFatEnt
             /\ job' = [job EXCEPT !.cur = nxt]
             /\ UNCHANGED <<last_clst, ret>>
          \/ nxt >= NFatEnt /\ Finish
       /\ UNCHANGED <<head, leaked, understated>>

(* The loop ends early on a free cluster: there is nothing left to free.   *)
RemoveStop ==
    /\ job.cur # 0
    /\ fat[job.cur] = 0
    /\ Finish
    /\ UNCHANGED <<fat, free_clst, head, leaked, understated>>

(* A get_fat or put_fat fails, or the entry is bad: what remains of the    *)
(* chain has no owner.                                                     *)
RemoveFail ==
    /\ job.cur # 0
    /\ job' = Idle
    /\ leaked' = leaked \cup {job.cur}
    /\ ret' \in IF fat[job.cur] = 1 THEN {"int_err", "disk_err"} ELSE {"disk_err"}
    /\ UNCHANGED <<fat, free_clst, last_clst, head, understated>>

(* f_getfree counts the free entries only if the count is not known.       *)
f_getfree ==
    /\ job = Idle
    /\ free_clst > NClusters
    /\ \/ Unchanged("disk_err")
       \/ (\E c \in Clusters : fat[c] = 1) /\ Unchanged("int_err")  \* on FAT12
       \/ /\ free_clst' = Cardinality(Free)
          /\ ret' = "ok"
          /\ UNCHANGED <<fat, last_clst, head, job, leaked, understated>>

-----------------------------------------------------------------------------
(* A sound volume: objects with chains of their own, and perhaps chains    *)
(* that earlier errors left without owner (lost, by their first clusters). *)
Sound(f, h, lost) ==
    /\ \A c, d \in Clusters : f[c] \in Clusters /\ f[c] = f[d] => c = d
    /\ \A c \in Clusters, o \in Obj : f[c] \in Clusters => f[c] # h[o]
    /\ \A o, p \in Obj : h[o] # 0 /\ h[o] = h[p] => o = p
    /\ \A c \in Clusters : f[c] \in Clusters => f[f[c]] # 0
    /\ \A o \in Obj : h[o] # 0 => f[h[o]] # 0
    /\ lost = {c \in Clusters : /\ f[c] # 0
                                /\ \A o \in Obj : h[o] # c
                                /\ \A d \in Clusters : f[d] # c}
    /\ \A c \in Clusters : f[c] # 0 =>             \* no loops off the chains
          \E d \in lost \cup {h[o] : o \in Obj} : c \in Reached(d, f)

(* What FSINFO says of free clusters and of the last one allocated is not  *)
(* checked when the volume is mounted.                                     *)
InitCounters ==
    /\ free_clst \in 0 .. NClusters \cup {Unknown}
    /\ last_clst \in 0 .. NFatEnt
    /\ job = Idle
    /\ ret = "ok"
    /\ understated = (free_clst < Cardinality(Free))

Init ==
    /\ fat \in [Clusters -> {0, EOC} \cup Clusters]
    /\ head \in [Obj -> {0} \cup Clusters]
    /\ leaked \in SUBSET Clusters
    /\ Sound(fat, head, leaked)
    /\ InitCounters

(* Any FAT at all: crossed and circular chains, bad values.                *)
DamagedInit ==
    /\ fat \in [Clusters -> Entry]
    /\ head \in [Obj -> {0} \cup Clusters]
    /\ leaked = {}
    /\ InitCounters

Next ==
    \/ \E o \in Obj : CreateChain(o) \/ RemoveAll(o)
    \/ \E o \in Obj, c \in Clusters :
          c \in OnChain(o) /\ (StretchChain(c) \/ RemoveRest(c))
    \/ RemoveStep
    \/ RemoveStop
    \/ RemoveFail
    \/ f_getfree

Spec == Init /\ [][Next]_vars
DamagedSpec == DamagedInit /\ [][Next]_vars

(* A call of remove_chain runs to its end.                                 *)
Fairness == WF_vars(RemoveStep \/ RemoveStop \/ RemoveFail)
FairSpec == Spec /\ Fairness
FairDamagedSpec == DamagedSpec /\ Fairness

-----------------------------------------------------------------------------
(* Every variable keeps its type.                                          *)
TypeOK ==
    /\ fat \in [Clusters -> Entry]
    /\ head \in [Obj -> {0} \cup Clusters]
    /\ free_clst \in 0 .. NClusters \cup {Unknown}
    /\ last_clst \in 0 .. NFatEnt
    /\ job \in [cur : {0} \cup Clusters, hint : 0 .. NFatEnt]
    /\ ret \in Results
    /\ leaked \subseteq Clusters
    /\ understated \in BOOLEAN

(* Clusters that a FAT entry, an object or a removal refers to are in use: *)
(* no chain runs into a free cluster.                                      *)
NoDangling ==
    /\ \A c \in Clusters : fat[c] \in Clusters => fat[fat[c]] # 0
    /\ \A o \in Obj : head[o] # 0 => fat[head[o]] # 0
    /\ job.cur # 0 => fat[job.cur] # 0

(* No two chains share a cluster and no chain runs back into itself: a     *)
(* cluster is referred to once, by an entry, an object or the removal.     *)
NoCrossLink ==
    /\ \A c, d \in Clusters : fat[c] \in Clusters /\ fat[c] = fat[d] => c = d
    /\ \A o, p \in Obj : head[o] # 0 /\ head[o] = head[p] => o = p
    /\ \A c \in Clusters, o \in Obj : fat[c] \in Clusters => fat[c] # head[o]
    /\ job.cur # 0 => /\ \A c \in Clusters : fat[c] # job.cur
                      /\ \A o \in Obj : head[o] # job.cur

(* The chains of all objects, and of a removal under way, are disjoint     *)
(* lists of clusters in use, whichever write failed on the way.            *)
ChainsApart == NoDangling /\ NoCrossLink

(* Every cluster in use belongs to something, but for what a disk error    *)
(* cut loose.                                                              *)
NoLeak ==
    \A c \in Clusters : fat[c] # 0 =>
        \/ \E d \in Clusters : fat[d] = c
        \/ c \in Owned \cup leaked
        \/ c = job.cur

(* The free count never falls below the truth by what the driver does, so  *)
(* that the volume is reported full only when it is.                       *)
CountCovers ==
    ~understated /\ free_clst <= NClusters => free_clst >= Cardinality(Free)
FullIsFull ==
    ret = "full" /\ ~understated => Free = {}

(* free_clst, once right, never makes a volume full that is not: neither   *)
(* through the count that create_chain trusts nor through the search that  *)
(* ends where it began.                                                    *)
CountHonest == CountCovers /\ FullIsFull

(* Even on a damaged volume an entry in use changes only when the end of a *)
(* chain is linked to a cluster that was free, or in a removal.            *)
UsedEntriesKept ==
    [][\A c \in Clusters : fat[c] # 0 /\ fat'[c] # fat[c] =>
          \/ job # Idle \/ job' # Idle
          \/ fat[c] = EOC /\ fat'[c] \in Clusters /\ fat[fat'[c]] = 0]_vars

(* The linked lists of the FAT implement sequences of clusters that objects*)
(* own: an allocation or a removal never touches another object's chain.   *)
Chains == INSTANCE ChainStore WITH
             chain <- [o \in Obj |-> Chain(head[o])],
             dying <- Chain(job.cur),
             lost  <- {c \in Clusters : /\ fat[c] # 0
                                        /\ c \notin UNION {OnChain(o) : o \in Obj}
                                        /\ c \notin Reached(job.cur, fat)}
ImplementsChains == Chains!Spec

(* Every removal comes to an end, on circular and crossed chains too.      *)
RemovalEnds == job # Idle ~> job = Idle
=============================================================================
