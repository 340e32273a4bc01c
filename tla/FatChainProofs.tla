--------------------------- MODULE FatChainProofs ---------------------------
(***************************************************************************)
(* The safety of cluster allocation, for any number of clusters and any    *)
(* set of files and directories.  The inductive invariant IInv is the      *)
(* conjunction of the invariants of FatChain, plus the fact that the       *)
(* verdict "full" is not left standing while remove_chain runs.            *)
(*                                                                         *)
(* NoDangling carries the argument: a cluster that the search finds free   *)
(* has fat = 0, so nothing refers to it, and handing it to one object      *)
(* cannot cross two chains.                                                *)
(***************************************************************************)
EXTENDS FatChain, BasicLemmas

BusyWhileRemoving == ret = "full" => job.cur = 0

IInv == /\ TypeOK
        /\ NoDangling
        /\ NoCrossLink
        /\ NoLeak
        /\ CountCovers
        /\ FullIsFull
        /\ BusyWhileRemoving

-----------------------------------------------------------------------------
(* The free clusters, counted.                                             *)

LEMMA ClustersFinite ==
    /\ IsFiniteSet(Clusters)
    /\ Cardinality(Clusters) = NClusters
    /\ \A S \in SUBSET Clusters :
          IsFiniteSet(S) /\ Cardinality(S) \in 0 .. NClusters
<1>1. 2 \in Int /\ NFatEnt - 1 \in Int /\ NFatEnt > 2
  BY NFatEntAssumption
<1>2. /\ IsFiniteSet(Clusters)
      /\ Cardinality(Clusters) = NClusters
  <2>1. /\ IsFiniteSet(2 .. NFatEnt - 1)
        /\ Cardinality(2 .. NFatEnt - 1)
              = IF 2 > NFatEnt - 1 THEN 0 ELSE NFatEnt - 1 - 2 + 1
    BY <1>1, FS_Interval
  <2> QED BY <1>1, <2>1, NFatEntAssumption DEF Clusters, NClusters
<1>3. ASSUME NEW S \in SUBSET Clusters
      PROVE  IsFiniteSet(S) /\ Cardinality(S) \in 0 .. NClusters
  <2>1. IsFiniteSet(S) /\ Cardinality(S) <= NClusters
    BY <1>2, FS_Subset
  <2>2. Cardinality(S) \in Nat
    BY <2>1, FS_CardinalityType
  <2> QED BY <2>1, <2>2, NFatEntAssumption DEF NClusters
<1> QED BY <1>2, <1>3

LEMMA FreeFinite ==
    IsFiniteSet(Free) /\ Cardinality(Free) \in 0 .. NClusters
BY ClustersFinite DEF Free

(* The search of create_chain returns a cluster at which it may stop, or 0 *)
(* when there is none.                                                     *)
LEMMA LeastIsMember ==
    ASSUME NEW S \in SUBSET Clusters, S # {}
    PROVE  Least(S) \in S
<1> DEFINE Less == {ss \in Nat \X Nat : ss[1] < ss[2]}
<1>1. S \subseteq Nat
  BY NFatEntAssumption DEF Clusters
<1>2. IsWellFoundedOn(Less, Nat)
  BY NatLessThanWellFounded DEF OpToRel
<1>3. \A x, y \in Nat : y < x => <<y, x>> \in Less
  OBVIOUS
<1> HIDE DEF Less
<1>4. \E x \in S : \A y \in S : ~(<<y, x>> \in Less)
  BY <1>1, <1>2, WFMin
<1>5. PICK x \in S : \A y \in S : ~(<<y, x>> \in Less)
  BY <1>4
<1>6. ASSUME NEW y \in S PROVE x <= y
  <2>1. x \in Nat /\ y \in Nat
    BY <1>1
  <2>2. ~(y < x)
    BY <1>3, <1>5, <2>1
  <2> QED BY <2>1, <2>2
<1> QED BY <1>6 DEF Least

LEMMA SearchResult ==
    ASSUME TypeOK, NEW scl
    PROVE  \/ Search(scl) \in Clusters /\ fat[Search(scl)] < 2
           \/ Search(scl) = 0 /\ Free = {}
<1> DEFINE Stops == {c \in Clusters : fat[c] < 2}
           Above == {c \in Stops : c > scl}
<1>1. Stops \in SUBSET Clusters /\ Above \in SUBSET Clusters
  OBVIOUS
<1>2. Free \subseteq Stops
  BY DEF Free
<1>3. CASE Above # {}
  <2>1. Search(scl) = Least(Above)
    BY <1>3 DEF Search
  <2>2. Least(Above) \in Above
    BY <1>1, <1>3, LeastIsMember
  <2> QED BY <2>1, <2>2
<1>4. CASE Above = {} /\ Stops # {}
  <2>1. Search(scl) = Least(Stops)
    BY <1>4 DEF Search
  <2>2. Least(Stops) \in Stops
    BY <1>1, <1>4, LeastIsMember
  <2> QED BY <2>1, <2>2
<1>5. CASE Above = {} /\ Stops = {}
  <2>1. Search(scl) = 0
    BY <1>5 DEF Search
  <2> QED BY <1>2, <1>5, <2>1
<1> QED BY <1>3, <1>4, <1>5

LEMMA NewClusterResult ==
    ASSUME TypeOK
    PROVE  NewCluster \in Clusters \/ (NewCluster = 0 /\ Free = {})
<1> DEFINE scl == IF last_clst = 0 \/ last_clst >= NFatEnt THEN 1 ELSE last_clst
<1>1. NewCluster = Search(scl)
  BY DEF NewCluster
<1> HIDE DEF scl
<1> QED BY <1>1, SearchResult

LEMMA NextClusterResult ==
    ASSUME TypeOK, NEW clst \in Clusters
    PROVE  \/ NextCluster(clst) \in Clusters
           \/ NextCluster(clst) = 0 /\ Free = {}
<1> DEFINE ncl == IF clst + 1 >= NFatEnt THEN 2 ELSE clst + 1
           scl == IF Valid(last_clst) THEN last_clst ELSE clst
<1>1. NextCluster(clst) = IF fat[ncl] < 2 THEN ncl ELSE Search(scl)
  BY DEF NextCluster
<1>2. ncl \in Clusters
  BY NFatEntAssumption DEF Clusters
<1> HIDE DEF ncl, scl
<1> QED BY <1>1, <1>2, SearchResult

-----------------------------------------------------------------------------
(* The invariant holds initially and under every step.                     *)

LEMMA InitInv == Init => IInv
<1> SUFFICES ASSUME Init PROVE IInv
  OBVIOUS
<1>1. /\ fat \in [Clusters -> {0, EOC} \cup Clusters]
      /\ head \in [Obj -> {0} \cup Clusters]
      /\ leaked \in SUBSET Clusters
      /\ free_clst \in 0 .. NClusters \cup {Unknown}
      /\ last_clst \in 0 .. NFatEnt
      /\ job = Idle /\ job.cur = 0 /\ ret = "ok"
      /\ understated = (free_clst < Cardinality(Free))
  BY DEF Init, InitCounters, Idle
<1>2. /\ \A c, d \in Clusters : fat[c] \in Clusters /\ fat[c] = fat[d] => c = d
      /\ \A c \in Clusters, o \in Obj : fat[c] \in Clusters => fat[c] # head[o]
      /\ \A o, p \in Obj : head[o] # 0 /\ head[o] = head[p] => o = p
      /\ \A c \in Clusters : fat[c] \in Clusters => fat[fat[c]] # 0
      /\ \A o \in Obj : head[o] # 0 => fat[head[o]] # 0
      /\ leaked = {c \in Clusters : /\ fat[c] # 0
                                    /\ \A o \in Obj : head[o] # c
                                    /\ \A d \in Clusters : fat[d] # c}
  <2>1. Sound(fat, head, leaked)
    BY DEF Init
  <2> QED BY <2>1, Zenon DEF Sound
<1>3. TypeOK
  <2>1. job \in [cur : {0} \cup Clusters, hint : 0 .. NFatEnt]
    BY <1>1, NFatEntAssumption DEF Idle
  <2>2. understated \in BOOLEAN
    BY <1>1
  <2> QED BY <1>1, <2>1, <2>2 DEF TypeOK, Entry, Results
<1>4. NoDangling /\ NoCrossLink
  BY <1>1, <1>2 DEF NoDangling, NoCrossLink
<1>5. NoLeak
  <2> SUFFICES ASSUME NEW c \in Clusters, fat[c] # 0,
                      ~ \E d \in Clusters : fat[d] = c,
                      c \notin leaked
               PROVE  c \in Owned
    BY DEF NoLeak
  <2>1. \E o \in Obj : head[o] = c
    BY <1>2
  <2> QED BY <2>1, NFatEntAssumption DEF Owned, Clusters
<1>6. CountCovers
  <2> SUFFICES ASSUME ~understated, free_clst <= NClusters
               PROVE  free_clst >= Cardinality(Free)
    BY DEF CountCovers
  <2>1. ~(free_clst < Cardinality(Free))
    BY <1>1
  <2>2. free_clst \in Int /\ Cardinality(Free) \in Int
    BY <1>1, FreeFinite, NFatEntAssumption DEF NClusters, Unknown
  <2> QED BY <2>1, <2>2
<1>7. FullIsFull /\ BusyWhileRemoving
  BY <1>1 DEF FullIsFull, BusyWhileRemoving
<1> QED BY <1>3, <1>4, <1>5, <1>6, <1>7 DEF IInv

(* A call that changes nothing but its verdict.                            *)
LEMMA UnchangedInv ==
    ASSUME IInv, job = Idle, NEW r \in Results, Unchanged(r),
           r = "full" => (~understated => Free = {})
    PROVE  IInv'
<1>1. /\ ret' = r
      /\ UNCHANGED <<fat, free_clst, last_clst, head, job, leaked, understated>>
  BY DEF Unchanged
<1>2. TypeOK'
  BY <1>1 DEF IInv, TypeOK
<1>3. NoDangling' /\ NoCrossLink' /\ NoLeak'
  BY <1>1 DEF IInv, NoDangling, NoCrossLink, NoLeak, Owned
<1>4. CountCovers' /\ FullIsFull'
  BY <1>1 DEF IInv, CountCovers, FullIsFull, Free
<1>5. BusyWhileRemoving'
  BY <1>1 DEF BusyWhileRemoving, Idle
<1> QED BY <1>2, <1>3, <1>4, <1>5 DEF IInv

(* When no space is found there is none, unless the count was understated. *)
LEMMA NoSpaceIsFull ==
    ASSUME IInv, NEW ncl, NoSpace(ncl), ncl = 0 => Free = {}, ~understated
    PROVE  Free = {}
<1>1. CASE ncl = 0
  BY <1>1
<1>2. CASE free_clst = 0
  <2>1. Cardinality(Free) <= 0
    BY <1>2, NFatEntAssumption DEF IInv, CountCovers, NClusters
  <2>2. Cardinality(Free) = 0
    BY <2>1, FreeFinite
  <2> QED BY <2>2, FreeFinite, FS_EmptySet
<1> QED BY <1>1, <1>2 DEF NoSpace

LEMMA CannotAllocateInv ==
    ASSUME IInv, job = Idle, NEW ncl, CannotAllocate(ncl),
           ncl = 0 => Free = {}
    PROVE  IInv'
<1>1. CASE NoSpace(ncl) /\ Unchanged("full")
  BY <1>1, NoSpaceIsFull, UnchangedInv DEF Results
<1>2. CASE Unchanged("int_err") \/ Unchanged("disk_err")
  BY <1>2, UnchangedInv DEF Results
<1> QED BY <1>1, <1>2 DEF CannotAllocate

(* Taking a free cluster, accounted for or not, keeps the count covering.  *)
LEMMA TakeInv ==
    ASSUME IInv, TypeOK', NEW ncl \in Clusters, fat[ncl] = 0,
           free_clst # 0, Free' = Free \ {ncl}, understated' = understated,
           \/ free_clst' = free_clst
           \/ free_clst' = IF free_clst <= NClusters THEN free_clst - 1 ELSE free_clst
    PROVE  CountCovers'
<1>1. ncl \in Free
  BY DEF Free
<1>2. Cardinality(Free') = Cardinality(Free) - 1
  BY <1>1, FreeFinite, FS_RemoveElement
<1>3. Cardinality(Free) \in Int /\ free_clst \in Int /\ NClusters \in Int
  BY FreeFinite, NFatEntAssumption DEF IInv, TypeOK, NClusters, Unknown
<1>4. SUFFICES ASSUME ~understated, free_clst' <= NClusters
               PROVE  free_clst' >= Cardinality(Free) - 1
  BY <1>2 DEF CountCovers
<1>5. free_clst <= NClusters
  BY <1>3, <1>4
<1>6. free_clst >= Cardinality(Free)
  BY <1>4, <1>5 DEF IInv, CountCovers
<1> QED BY <1>3, <1>5, <1>6

LEMMA AllocatedType ==
    ASSUME TypeOK, NEW ncl \in Clusters, Allocated(ncl), free_clst # 0
    PROVE  /\ last_clst' \in 0 .. NFatEnt
           /\ free_clst' \in 0 .. NClusters \cup {Unknown}
BY NFatEntAssumption DEF TypeOK, Allocated, Clusters, NClusters, Unknown

LEMMA CreateChainInv ==
    ASSUME IInv, NEW o \in Obj, CreateChain(o)
    PROVE  IInv'
<1> DEFINE ncl == NewCluster
<1>1. job = Idle /\ job.cur = 0 /\ head[o] = 0
  BY DEF CreateChain, Idle
<1>2. ncl \in Clusters \/ (ncl = 0 /\ Free = {})
  BY NewClusterResult DEF IInv
<1>3. CASE CannotAllocate(ncl)
  <2>1. 0 \notin Clusters
    BY NFatEntAssumption DEF Clusters
  <2> HIDE DEF ncl
  <2> QED BY <1>1, <1>2, <1>3, <2>1, CannotAllocateInv
<1>4. CASE ~CannotAllocate(ncl)
  <2>1. /\ Found(ncl)
        /\ fat' = [fat EXCEPT ![ncl] = EOC]
        /\ head' = [head EXCEPT ![o] = ncl]
        /\ Allocated(ncl)
        /\ ret' = "ok"
        /\ UNCHANGED <<job, leaked, understated>>
    BY <1>4 DEF CreateChain, Adopted
  <2>2. ncl \in Clusters /\ fat[ncl] = 0 /\ free_clst # 0 /\ ncl # 0
    BY <1>2, <2>1 DEF Found, NoSpace
  <2>3. /\ 0 \notin Clusters /\ EOC \notin Clusters /\ EOC # 0
    BY NFatEntAssumption DEF Clusters, EOC
  <2>4. /\ free_clst' = IF free_clst <= NClusters THEN free_clst - 1 ELSE free_clst
        /\ last_clst' \in 0 .. NFatEnt
        /\ free_clst' \in 0 .. NClusters \cup {Unknown}
    BY <2>1, <2>2, AllocatedType DEF IInv, Allocated
  <2> HIDE DEF ncl
  <2>5. TypeOK'
    BY <2>1, <2>2, <2>4 DEF IInv, TypeOK, Entry, Results
  <2> USE DEF IInv, TypeOK
  <2>6. /\ \A c \in Clusters : fat[c] \in Clusters => fat[c] # ncl
        /\ \A p \in Obj : head[p] # ncl
    BY <2>2 DEF NoDangling
  <2>7. NoDangling'
    BY <1>1, <2>1, <2>2, <2>3 DEF NoDangling
  <2>8. NoCrossLink'
    BY <1>1, <2>1, <2>2, <2>3, <2>6 DEF NoCrossLink
  <2>9. NoLeak'
    <3> SUFFICES ASSUME NEW c \in Clusters, fat'[c] # 0
                 PROVE  (\E d \in Clusters : fat'[d] = c) \/ c \in Owned' \cup leaked'
      BY DEF NoLeak
    <3>1. CASE c = ncl
      BY <2>1, <2>2, <3>1 DEF Owned
    <3>2. CASE c # ncl
      <4>1. fat[c] # 0
        BY <2>1, <2>2, <3>2
      <4>2. CASE \E d \in Clusters : fat[d] = c
        BY <2>1, <2>2, <2>3, <4>2
      <4>3. CASE c \in Owned \cup leaked
        BY <1>1, <2>1, <2>2, <4>3 DEF Owned
      <4>4. (\E d \in Clusters : fat[d] = c) \/ c \in Owned \cup leaked
        BY <1>1, <2>3, <4>1 DEF NoLeak
      <4> QED BY <4>2, <4>3, <4>4
    <3> QED BY <3>1, <3>2
  <2>10. Free' = Free \ {ncl}
    BY <2>1, <2>2, <2>3 DEF Free
  <2>11. CountCovers'
    BY <2>1, <2>2, <2>4, <2>5, <2>10, TakeInv
  <2>12. FullIsFull' /\ BusyWhileRemoving'
    BY <2>1 DEF FullIsFull, BusyWhileRemoving
  <2> QED BY <2>5, <2>7, <2>8, <2>9, <2>11, <2>12
<1> QED BY <1>3, <1>4

LEMMA StretchChainInv ==
    ASSUME IInv, NEW clst \in Clusters, StretchChain(clst)
    PROVE  IInv'
<1> DEFINE ncl == NextCluster(clst)
<1>1. job = Idle /\ job.cur = 0
  BY DEF StretchChain, Idle
<1>2. ncl \in Clusters \/ (ncl = 0 /\ Free = {})
  BY NextClusterResult DEF IInv
<1>3. 0 \notin Clusters /\ EOC \notin Clusters /\ EOC # 0
  BY NFatEntAssumption DEF Clusters, EOC
<1>4. CASE \E r \in {"ok", "int_err", "disk_err"} : Unchanged(r)
  BY <1>1, <1>4, UnchangedInv DEF Results
<1>5. CASE CannotAllocate(ncl)
  <2> HIDE DEF ncl
  <2> QED BY <1>1, <1>2, <1>3, <1>5, CannotAllocateInv
<1>6. CASE /\ ~CannotAllocate(ncl)
           /\ ~ \E r \in {"ok", "int_err", "disk_err"} : Unchanged(r)
  <2>1. /\ fat[clst] >= NFatEnt /\ Found(ncl)
        /\ \/ /\ fat' = [fat EXCEPT ![ncl] = EOC, ![clst] = ncl]
              /\ Allocated(ncl)
              /\ ret' = "ok"
              /\ UNCHANGED <<head, job, leaked, understated>>
           \/ /\ fat' = [fat EXCEPT ![ncl] = EOC]
              /\ leaked' = leaked \cup {ncl}
              /\ ret' = "disk_err"
              /\ UNCHANGED <<free_clst, last_clst, head, job, understated>>
    BY <1>6, Zenon DEF StretchChain
  <2>2. ncl \in Clusters /\ fat[ncl] = 0 /\ free_clst # 0
    BY <1>2, <2>1 DEF Found, NoSpace
  <2> HIDE DEF ncl
  <2> USE DEF IInv, TypeOK
  <2>3. /\ clst # ncl /\ fat[clst] \notin Clusters /\ fat[clst] # 0
    BY <2>1, <2>2, NFatEntAssumption DEF Clusters
  <2>4. /\ \A c \in Clusters : fat[c] \in Clusters => fat[c] # ncl
        /\ \A p \in Obj : head[p] # ncl
    BY <1>3, <2>2 DEF NoDangling
  <2>5. CASE /\ fat' = [fat EXCEPT ![ncl] = EOC, ![clst] = ncl]
             /\ Allocated(ncl)
             /\ ret' = "ok"
             /\ UNCHANGED <<head, job, leaked, understated>>
    <3>1. /\ fat' \in [Clusters -> Entry]
          /\ fat'[ncl] = EOC /\ fat'[clst] = ncl
          /\ \A c \in Clusters : c # ncl /\ c # clst => fat'[c] = fat[c]
      BY <2>2, <2>3, <2>5 DEF Entry
    <3>2. /\ free_clst' = IF free_clst <= NClusters THEN free_clst - 1 ELSE free_clst
          /\ last_clst' \in 0 .. NFatEnt
          /\ free_clst' \in 0 .. NClusters \cup {Unknown}
      BY <2>2, <2>5, AllocatedType DEF Allocated
    <3>3. TypeOK'
      BY <2>5, <3>1, <3>2 DEF Results
    <3>4. NoDangling'
      BY <1>1, <1>3, <2>2, <2>3, <2>5, <3>1 DEF NoDangling
    <3>5. NoCrossLink'
      BY <1>1, <1>3, <2>2, <2>3, <2>4, <2>5, <3>1 DEF NoCrossLink
    <3>6. NoLeak'
      <4> SUFFICES ASSUME NEW c \in Clusters, fat'[c] # 0
                   PROVE  (\E d \in Clusters : fat'[d] = c) \/ c \in Owned \cup leaked
        BY <2>5 DEF NoLeak, Owned
      <4>1. CASE c = ncl
        BY <3>1, <4>1
      <4>2. CASE c # ncl
        <5>1. fat[c] # 0
          BY <2>3, <3>1, <4>2
        <5>2. CASE \E d \in Clusters : fat[d] = c
          BY <1>3, <2>2, <2>3, <3>1, <5>2
        <5> QED BY <1>1, <1>3, <5>1, <5>2 DEF NoLeak
      <4> QED BY <4>1, <4>2
    <3>7. Free' = Free \ {ncl}
      BY <1>3, <2>2, <2>3, <3>1 DEF Free
    <3>8. CountCovers'
      BY <2>2, <2>5, <3>2, <3>3, <3>7, TakeInv
    <3>9. FullIsFull' /\ BusyWhileRemoving'
      BY <2>5 DEF FullIsFull, BusyWhileRemoving
    <3> QED BY <3>3, <3>4, <3>5, <3>6, <3>8, <3>9
  <2>6. CASE /\ fat' = [fat EXCEPT ![ncl] = EOC]
             /\ leaked' = leaked \cup {ncl}
             /\ ret' = "disk_err"
             /\ UNCHANGED <<free_clst, last_clst, head, job, understated>>
    <3>1. /\ fat' \in [Clusters -> Entry]
          /\ fat'[ncl] = EOC
          /\ \A c \in Clusters : c # ncl => fat'[c] = fat[c]
      BY <2>2, <2>6 DEF Entry
    <3>2. TypeOK'
      BY <2>2, <2>6, <3>1 DEF Results
    <3>3. NoDangling'
      BY <1>1, <1>3, <2>2, <2>6, <3>1 DEF NoDangling
    <3>4. NoCrossLink'
      BY <1>1, <1>3, <2>2, <2>4, <2>6, <3>1 DEF NoCrossLink
    <3>5. NoLeak'
      <4> SUFFICES ASSUME NEW c \in Clusters, fat'[c] # 0
                   PROVE  (\E d \in Clusters : fat'[d] = c)
                             \/ c \in Owned \cup leaked \cup {ncl}
        BY <2>6 DEF NoLeak, Owned
      <4>1. CASE c # ncl
        <5>1. fat[c] # 0
          BY <3>1, <4>1
        <5>2. CASE \E d \in Clusters : fat[d] = c
          BY <1>3, <2>2, <3>1, <5>2
        <5> QED BY <1>1, <1>3, <5>1, <5>2 DEF NoLeak
      <4> QED BY <4>1
    <3>6. Free' = Free \ {ncl}
      BY <1>3, <2>2, <3>1 DEF Free
    <3>7. CountCovers'
      BY <2>2, <2>6, <3>2, <3>6, TakeInv
    <3>8. FullIsFull' /\ BusyWhileRemoving'
      BY <2>6 DEF FullIsFull, BusyWhileRemoving
    <3> QED BY <3>2, <3>3, <3>4, <3>5, <3>7, <3>8
  <2> QED BY <2>1, <2>5, <2>6
<1> QED BY <1>4, <1>5, <1>6

LEMMA RemoveAllInv ==
    ASSUME IInv, NEW o \in Obj, RemoveAll(o)
    PROVE  IInv'
<1> USE DEF IInv, TypeOK
<1>1. /\ job = Idle /\ job.cur = 0 /\ head[o] # 0 /\ head[o] \in Clusters
      /\ job' \in {[cur |-> head[o], hint |-> h] : h \in {0, head[o] - 1}}
      /\ head' = [head EXCEPT ![o] = 0]
      /\ ret' = "busy"
      /\ UNCHANGED <<fat, free_clst, last_clst, leaked, understated>>
  BY DEF RemoveAll, Disowned, Idle
<1>2. job' \in [cur : {0} \cup Clusters, hint : 0 .. NFatEnt] /\ job'.cur = head[o]
  <2>1. 0 \in 0 .. NFatEnt /\ head[o] - 1 \in 0 .. NFatEnt
    BY <1>1, NFatEntAssumption DEF Clusters
  <2> QED BY <1>1, <2>1
<1>3. TypeOK'
  BY <1>1, <1>2 DEF Results
<1>4. 0 \notin Clusters
  BY NFatEntAssumption DEF Clusters
<1>5. NoDangling'
  BY <1>1, <1>2 DEF NoDangling
<1>6. NoCrossLink'
  <2>1. \A c \in Clusters : fat[c] # head[o]
    BY <1>1 DEF NoCrossLink
  <2>2. \A p \in Obj : head'[p] # head[o]
    BY <1>1, <1>4 DEF NoCrossLink
  <2> QED BY <1>1, <1>2, <1>4, <2>1, <2>2 DEF NoCrossLink
<1>7. NoLeak'
  <2> SUFFICES ASSUME NEW c \in Clusters, fat[c] # 0,
                      ~ \E d \in Clusters : fat[d] = c,
                      c \notin leaked, c # head[o]
               PROVE  c \in Owned'
    BY <1>1, <1>2 DEF NoLeak
  <2>1. c \in Owned
    BY <1>1, <1>4 DEF NoLeak
  <2>2. PICK p \in Obj : head[p] = c
    BY <2>1 DEF Owned
  <2>3. head'[p] = c /\ c # 0
    BY <1>1, <1>4, <2>2
  <2> QED BY <2>3 DEF Owned
<1>8. CountCovers' /\ FullIsFull' /\ BusyWhileRemoving'
  BY <1>1 DEF CountCovers, FullIsFull, BusyWhileRemoving, Free
<1> QED BY <1>3, <1>5, <1>6, <1>7, <1>8

LEMMA RemoveRestInv ==
    ASSUME IInv, NEW pclst \in Clusters, RemoveRest(pclst)
    PROVE  IInv'
<1>1. CASE Unchanged("disk_err")
  BY <1>1, UnchangedInv DEF RemoveRest, Results
<1>2. CASE ~Unchanged("disk_err")
  <2> USE DEF IInv, TypeOK
  <2>1. /\ job = Idle /\ job.cur = 0 /\ fat[pclst] \in Clusters
        /\ fat' = [fat EXCEPT ![pclst] = EOC]
        /\ job' = [cur |-> fat[pclst], hint |-> 0]
        /\ ret' = "busy"
        /\ UNCHANGED <<free_clst, last_clst, head, leaked, understated>>
    BY <1>2 DEF RemoveRest, CutAfter, Idle
  <2>2. 0 \notin Clusters /\ EOC \notin Clusters /\ EOC # 0
    BY NFatEntAssumption DEF Clusters, EOC
  <2>3. job' \in [cur : {0} \cup Clusters, hint : 0 .. NFatEnt] /\ job'.cur = fat[pclst]
    BY <2>1, NFatEntAssumption
  <2>4. TypeOK'
    BY <2>1, <2>3 DEF Results, Entry
  <2>5. NoDangling'
    BY <2>1, <2>2, <2>3 DEF NoDangling
  <2>6. NoCrossLink'
    BY <2>1, <2>2, <2>3 DEF NoCrossLink
  <2>7. NoLeak'
    <3> SUFFICES ASSUME NEW c \in Clusters, fat'[c] # 0,
                        c \notin Owned \cup leaked, c # fat[pclst]
                 PROVE  \E d \in Clusters : fat'[d] = c
      BY <2>1, <2>3 DEF NoLeak, Owned
    <3>1. fat[c] # 0
      BY <2>1, <2>2
    <3>2. PICK d \in Clusters : fat[d] = c
      BY <2>1, <2>2, <3>1 DEF NoLeak
    <3> QED BY <2>1, <3>2
  <2>8. Free' = Free
    BY <2>1, <2>2 DEF Free
  <2>9. CountCovers' /\ FullIsFull' /\ BusyWhileRemoving'
    BY <2>1, <2>8 DEF CountCovers, FullIsFull, BusyWhileRemoving
  <2> QED BY <2>4, <2>5, <2>6, <2>7, <2>9
<1> QED BY <1>1, <1>2

LEMMA FinishResult ==
    ASSUME TypeOK, Finish
    PROVE  /\ job' = Idle /\ job'.cur = 0
           /\ job' \in [cur : {0} \cup Clusters, hint : 0 .. NFatEnt]
           /\ ret' \in {"ok", "disk_err"}
           /\ last_clst' \in 0 .. NFatEnt
<1>1. /\ job' = Idle /\ ret' \in {"ok", "disk_err"} /\ last_clst' \in 0 .. NFatEnt
  BY DEF TypeOK, Finish
<1> QED BY <1>1, NFatEntAssumption DEF Idle

LEMMA RemoveStepInv ==
    ASSUME IInv, RemoveStep
    PROVE  IInv'
<1> DEFINE nxt == fat[job.cur]
<1> USE DEF IInv, TypeOK
<1>1. /\ job.cur # 0 /\ job.cur \in Clusters /\ nxt >= 2
      /\ fat' = [fat EXCEPT ![job.cur] = 0]
      /\ free_clst' = IF free_clst < NClusters THEN free_clst + 1 ELSE free_clst
      /\ UNCHANGED <<head, leaked, understated>>
  BY DEF RemoveStep, Freed
<1>2. /\ job' \in [cur : {0} \cup Clusters, hint : 0 .. NFatEnt]
      /\ ret' \in Results /\ ret' # "full"
      /\ last_clst' \in 0 .. NFatEnt
      /\ \/ nxt \in Clusters /\ job'.cur = nxt
         \/ nxt \notin Clusters /\ job'.cur = 0
  <2>1. CASE nxt < NFatEnt /\ job' = [job EXCEPT !.cur = nxt] /\ UNCHANGED <<last_clst, ret>>
    <3>1. nxt \in Clusters
      BY <1>1, <2>1, NFatEntAssumption DEF Entry, Clusters, EOC
    <3> QED BY <1>1, <2>1, <3>1 DEF BusyWhileRemoving
  <2>2. CASE nxt >= NFatEnt /\ Finish
    <3>1. nxt \notin Clusters
      BY <2>2, NFatEntAssumption DEF Clusters
    <3> QED BY <2>2, <3>1, FinishResult DEF Results
  <2> QED BY <2>1, <2>2 DEF RemoveStep
<1>3. 0 \notin Clusters /\ NClusters \in Int /\ NFatEnt = NClusters + 2
  BY NFatEntAssumption DEF Clusters, NClusters
<1>4. TypeOK'
  <2>1. free_clst' \in 0 .. NClusters \cup {Unknown}
    BY <1>1, NFatEntAssumption DEF NClusters, Unknown
  <2> QED BY <1>1, <1>2, <2>1 DEF Entry
<1>5. \A c \in Clusters : fat[c] # job.cur
  BY <1>1 DEF NoCrossLink
<1>6. NoDangling'
  BY <1>1, <1>2, <1>3, <1>5 DEF NoDangling, NoCrossLink
<1>7. NoCrossLink'
  BY <1>1, <1>2, <1>3 DEF NoCrossLink
<1>8. NoLeak'
  <2> SUFFICES ASSUME NEW c \in Clusters, fat'[c] # 0, c \notin Owned \cup leaked,
                      c # job'.cur
               PROVE  \E d \in Clusters : fat'[d] = c
    BY <1>1 DEF NoLeak, Owned
  <2>1. fat[c] # 0 /\ c # job.cur
    BY <1>1
  <2>2. PICK d \in Clusters : fat[d] = c
    BY <2>1 DEF NoLeak
  <2>3. d # job.cur
    BY <1>2, <2>2
  <2> QED BY <1>1, <2>2, <2>3
<1>9. CountCovers'
  <2>1. job.cur \notin Free /\ Free' = Free \cup {job.cur}
    BY <1>1 DEF Free
  <2>2. Cardinality(Free') = Cardinality(Free) + 1
    BY <2>1, FreeFinite, FS_AddElement
  <2>3. Cardinality(Free') \in 0 .. NClusters
    BY ClustersFinite DEF Free
  <2>4. free_clst \in Int /\ Cardinality(Free) \in Int
    BY <1>3, FreeFinite DEF Unknown
  <2> QED BY <1>1, <1>3, <2>2, <2>3, <2>4 DEF CountCovers
<1>10. FullIsFull' /\ BusyWhileRemoving'
  BY <1>2 DEF FullIsFull, BusyWhileRemoving
<1> QED BY <1>4, <1>6, <1>7, <1>8, <1>9, <1>10

(* A removal that stops: on a free cluster, which never happens here, or   *)
(* on an error, which leaves the rest of the chain without owner.          *)
LEMMA RemoveEndInv ==
    ASSUME IInv, RemoveStop \/ RemoveFail
    PROVE  IInv'
<1> USE DEF IInv, TypeOK
<1>1. CASE RemoveStop
  BY <1>1 DEF RemoveStop, NoDangling
<1>2. CASE RemoveFail
  <2>1. /\ job.cur \in Clusters
        /\ job' = Idle /\ job'.cur = 0
        /\ leaked' = leaked \cup {job.cur}
        /\ ret' \in {"int_err", "disk_err"}
        /\ UNCHANGED <<fat, free_clst, last_clst, head, understated>>
    BY <1>2 DEF RemoveFail, Idle
  <2>2. TypeOK'
    BY <2>1, NFatEntAssumption DEF Idle, Results
  <2>3. NoDangling' /\ NoCrossLink'
    BY <2>1 DEF NoDangling, NoCrossLink
  <2>4. NoLeak'
    BY <2>1 DEF NoLeak, Owned
  <2>5. CountCovers' /\ FullIsFull' /\ BusyWhileRemoving'
    BY <2>1 DEF CountCovers, FullIsFull, BusyWhileRemoving, Free
  <2> QED BY <2>2, <2>3, <2>4, <2>5
<1> QED BY <1>1, <1>2

LEMMA GetFreeInv ==
    ASSUME IInv, f_getfree
    PROVE  IInv'
<1>1. CASE \E r \in {"disk_err", "int_err"} : Unchanged(r)
  BY <1>1, UnchangedInv DEF f_getfree, Results
<1>2. CASE ~ \E r \in {"disk_err", "int_err"} : Unchanged(r)
  <2> USE DEF IInv, TypeOK
  <2>1. /\ job = Idle /\ free_clst' = Cardinality(Free) /\ ret' = "ok"
        /\ UNCHANGED <<fat, last_clst, head, job, leaked, understated>>
    BY <1>2 DEF f_getfree
  <2>2. TypeOK'
    BY <2>1, FreeFinite DEF Results
  <2>3. Free' = Free /\ Cardinality(Free) \in Int
    BY <2>1, FreeFinite DEF Free
  <2>4. CountCovers' /\ FullIsFull' /\ BusyWhileRemoving'
    BY <2>1, <2>3 DEF CountCovers, FullIsFull, BusyWhileRemoving
  <2>5. NoDangling' /\ NoCrossLink' /\ NoLeak'
    BY <2>1 DEF NoDangling, NoCrossLink, NoLeak, Owned
  <2> QED BY <2>2, <2>4, <2>5
<1> QED BY <1>1, <1>2

-----------------------------------------------------------------------------

(* All the invariants of cluster allocation, for every volume size.        *)
THEOREM Invariance == Spec => []IInv
<1>1. IInv /\ [Next]_vars => IInv'
  <2> SUFFICES ASSUME IInv, [Next]_vars PROVE IInv'
    OBVIOUS
  <2>1. CASE UNCHANGED vars
    BY <2>1 DEF vars, IInv, TypeOK, NoDangling, NoCrossLink, NoLeak, Owned,
                CountCovers, FullIsFull, BusyWhileRemoving, Free
  <2>2. CASE Next
    BY <2>2, CreateChainInv, StretchChainInv, RemoveAllInv, RemoveRestInv,
       RemoveStepInv, RemoveEndInv, GetFreeInv DEF Next
  <2> QED BY <2>1, <2>2
<1> QED BY <1>1, InitInv, PTL DEF Spec

(* Every variable keeps its type: the allocator never writes a cluster     *)
(* number outside the volume into the FAT.                                 *)
THEOREM TypeCorrect == Spec => []TypeOK
<1>1. IInv => TypeOK
  BY DEF IInv
<1> QED BY <1>1, Invariance, PTL

(* No chain runs into a free cluster, whichever write fails.               *)
THEOREM ChainsDoNotDangle == Spec => []NoDangling
<1>1. IInv => NoDangling
  BY DEF IInv
<1> QED BY <1>1, Invariance, PTL

(* Two files never come to share a cluster.                                *)
THEOREM ChainsDoNotCross == Spec => []NoCrossLink
<1>1. IInv => NoCrossLink
  BY DEF IInv
<1> QED BY <1>1, Invariance, PTL

(* Clusters are lost to disk errors only, and every loss is known.         *)
THEOREM NothingElseLeaks == Spec => []NoLeak
<1>1. IInv => NoLeak
  BY DEF IInv
<1> QED BY <1>1, Invariance, PTL

(* The free count errs on the safe side.                                   *)
THEOREM CountNeverUnderstates == Spec => []CountCovers
<1>1. IInv => CountCovers
  BY DEF IInv
<1> QED BY <1>1, Invariance, PTL

(* create_chain reports a full volume only when no cluster is free.        *)
THEOREM FullMeansFull == Spec => []FullIsFull
<1>1. IInv => FullIsFull
  BY DEF IInv
<1> QED BY <1>1, Invariance, PTL

(* The chains of a sound volume stay disjoint lists of clusters in use.    *)
THEOREM ChainsStayApart == Spec => []ChainsApart
<1>1. NoDangling /\ NoCrossLink => ChainsApart
  BY DEF ChainsApart
<1> QED BY <1>1, ChainsDoNotDangle, ChainsDoNotCross, PTL

(* A volume is never taken for full when it is not.                        *)
THEOREM CountStaysHonest == Spec => []CountHonest
<1>1. CountCovers /\ FullIsFull => CountHonest
  BY DEF CountHonest
<1> QED BY <1>1, CountNeverUnderstates, FullMeansFull, PTL

-----------------------------------------------------------------------------
(* On a FAT of any shape: the allocator keeps to the range of the table.   *)
LEMMA DamagedType == TypeOK /\ [Next]_vars => TypeOK'
<1> SUFFICES ASSUME TypeOK, [Next]_vars PROVE TypeOK'
  OBVIOUS
<1> USE DEF TypeOK
<1>1. 0 \notin Clusters /\ EOC \notin Clusters /\ 0 \in Entry /\ EOC \in Entry
  BY NFatEntAssumption DEF Clusters, EOC, Entry
<1>2. ASSUME NEW r \in Results, Unchanged(r) PROVE TypeOK'
  BY <1>2 DEF Unchanged
<1>3. ASSUME NEW ncl, CannotAllocate(ncl) PROVE TypeOK'
  BY <1>2, <1>3, Zenon DEF CannotAllocate, Results
<1>4. ASSUME NEW o \in Obj, CreateChain(o) PROVE TypeOK'
  <2> DEFINE ncl == NewCluster
  <2>1. CASE CannotAllocate(ncl)
    BY <1>3, <2>1
  <2>2. CASE ~CannotAllocate(ncl)
    <3>1. /\ Found(ncl)
          /\ fat' = [fat EXCEPT ![ncl] = EOC]
          /\ head' = [head EXCEPT ![o] = ncl]
          /\ Allocated(ncl)
          /\ ret' = "ok"
          /\ UNCHANGED <<job, leaked, understated>>
      BY <1>4, <2>2 DEF CreateChain, Adopted
    <3>2. ncl \in Clusters /\ free_clst # 0
      BY <3>1, NewClusterResult DEF Found, NoSpace
    <3> HIDE DEF ncl
    <3>3. /\ last_clst' \in 0 .. NFatEnt
          /\ free_clst' \in 0 .. NClusters \cup {Unknown}
      BY <3>1, <3>2, AllocatedType
    <3> QED BY <1>1, <3>1, <3>2, <3>3 DEF Results
  <2> QED BY <2>1, <2>2
<1>5. ASSUME NEW c \in Clusters, StretchChain(c) PROVE TypeOK'
  <2> DEFINE ncl == NextCluster(c)
  <2>1. CASE CannotAllocate(ncl)
    BY <1>3, <2>1
  <2>2. CASE \E r \in Results : Unchanged(r)
    BY <1>2, <2>2
  <2>3. CASE ~CannotAllocate(ncl) /\ ~ \E r \in Results : Unchanged(r)
    <3>1. /\ Found(ncl)
          /\ \/ /\ fat' = [fat EXCEPT ![ncl] = EOC, ![c] = ncl]
                /\ Allocated(ncl)
                /\ ret' = "ok"
                /\ UNCHANGED <<head, job, leaked, understated>>
             \/ /\ fat' = [fat EXCEPT ![ncl] = EOC]
                /\ leaked' = leaked \cup {ncl}
                /\ ret' = "disk_err"
                /\ UNCHANGED <<free_clst, last_clst, head, job, understated>>
      BY <1>5, <2>3, Zenon DEF StretchChain, Results
    <3>2. ncl \in Clusters /\ free_clst # 0
      BY <3>1, NextClusterResult DEF Found, NoSpace
    <3> HIDE DEF ncl
    <3>3. Clusters \subseteq Entry
      BY DEF Entry
    <3>4. CASE /\ fat' = [fat EXCEPT ![ncl] = EOC, ![c] = ncl]
               /\ Allocated(ncl)
               /\ ret' = "ok"
               /\ UNCHANGED <<head, job, leaked, understated>>
      <4>1. /\ last_clst' \in 0 .. NFatEnt
            /\ free_clst' \in 0 .. NClusters \cup {Unknown}
        BY <3>2, <3>4, AllocatedType
      <4> QED BY <1>1, <3>2, <3>3, <3>4, <4>1 DEF Results
    <3>5. CASE /\ fat' = [fat EXCEPT ![ncl] = EOC]
               /\ leaked' = leaked \cup {ncl}
               /\ ret' = "disk_err"
               /\ UNCHANGED <<free_clst, last_clst, head, job, understated>>
      BY <1>1, <3>2, <3>5 DEF Results
    <3> QED BY <3>1, <3>4, <3>5
  <2> QED BY <2>1, <2>2, <2>3
<1>6. ASSUME NEW o \in Obj, RemoveAll(o) PROVE TypeOK'
  <2>1. /\ head[o] \in Clusters
        /\ job' \in {[cur |-> head[o], hint |-> h] : h \in {0, head[o] - 1}}
        /\ head' = [head EXCEPT ![o] = 0]
        /\ ret' = "busy"
        /\ UNCHANGED <<fat, free_clst, last_clst, leaked, understated>>
    BY <1>6 DEF RemoveAll, Disowned
  <2>2. 0 \in 0 .. NFatEnt /\ head[o] - 1 \in 0 .. NFatEnt
    BY <2>1, NFatEntAssumption DEF Clusters
  <2> QED BY <2>1, <2>2 DEF Results
<1>7. ASSUME NEW c \in Clusters, RemoveRest(c) PROVE TypeOK'
  <2>1. CASE Unchanged("disk_err")
    BY <1>2, <2>1 DEF Results
  <2>2. CASE ~Unchanged("disk_err")
    <3>1. /\ fat[c] \in Clusters
          /\ fat' = [fat EXCEPT ![c] = EOC]
          /\ job' = [cur |-> fat[c], hint |-> 0]
          /\ ret' = "busy"
          /\ UNCHANGED <<free_clst, last_clst, head, leaked, understated>>
      BY <1>7, <2>2 DEF RemoveRest, CutAfter
    <3> QED BY <1>1, <3>1, NFatEntAssumption DEF Results
  <2> QED BY <2>1, <2>2
<1>8. CASE RemoveStep
  <2>1. /\ job.cur \in Clusters
        /\ fat[job.cur] >= 2
        /\ fat' = [fat EXCEPT ![job.cur] = 0]
        /\ free_clst' = IF free_clst < NClusters THEN free_clst + 1 ELSE free_clst
        /\ \/ /\ fat[job.cur] < NFatEnt
              /\ job' = [job EXCEPT !.cur = fat[job.cur]]
              /\ UNCHANGED <<last_clst, ret>>
           \/ Finish
        /\ UNCHANGED <<head, leaked, understated>>
    BY <1>8 DEF RemoveStep, Freed
  <2>2. free_clst' \in 0 .. NClusters \cup {Unknown}
    BY <2>1, NFatEntAssumption DEF NClusters, Unknown
  <2>3. CASE Finish
    BY <1>1, <2>1, <2>2, <2>3, FinishResult DEF Results
  <2>4. CASE /\ fat[job.cur] < NFatEnt
             /\ job' = [job EXCEPT !.cur = fat[job.cur]]
             /\ UNCHANGED <<last_clst, ret>>
    <3>1. fat[job.cur] \in Clusters
      BY <2>1, <2>4, NFatEntAssumption DEF Entry, Clusters, EOC
    <3> QED BY <1>1, <2>1, <2>2, <2>4, <3>1
  <2> QED BY <2>1, <2>3, <2>4
<1>9. CASE RemoveStop
  BY <1>9, FinishResult DEF RemoveStop, Results
<1>10. CASE RemoveFail
  <2>1. job' \in [cur : {0} \cup Clusters, hint : 0 .. NFatEnt]
    BY <1>10, NFatEntAssumption DEF RemoveFail, Idle
  <2>2. ret' \in Results
    BY <1>10 DEF RemoveFail, Results
  <2> QED BY <1>10, <2>1, <2>2 DEF RemoveFail
<1>11. CASE f_getfree
  <2>1. CASE \E r \in Results : Unchanged(r)
    BY <1>2, <2>1
  <2>2. CASE ~ \E r \in Results : Unchanged(r)
    <3>1. /\ free_clst' = Cardinality(Free)
          /\ ret' = "ok"
          /\ UNCHANGED <<fat, last_clst, head, job, leaked, understated>>
      BY <1>11, <2>2 DEF f_getfree, Results
    <3> QED BY <3>1, FreeFinite DEF Results
  <2> QED BY <2>1, <2>2
<1>12. CASE UNCHANGED vars
  BY <1>12 DEF vars
<1> QED BY <1>4, <1>5, <1>6, <1>7, <1>8, <1>9, <1>10, <1>11, <1>12 DEF Next

(* No step outside a removal writes an entry in use, but to link a cluster *)
(* that was free to the end of a chain.                                    *)
LEMMA UsedEntriesStep ==
    ASSUME TypeOK, [Next]_vars, NEW c \in Clusters, fat[c] # 0, fat'[c] # fat[c]
    PROVE  \/ job # Idle \/ job' # Idle
           \/ fat[c] = EOC /\ fat'[c] \in Clusters /\ fat[fat'[c]] = 0
<1> USE DEF TypeOK
<1>1. ~ UNCHANGED fat
  OBVIOUS
<1>2. 0 \notin Clusters
  BY NFatEntAssumption DEF Clusters
<1>3. ASSUME NEW ncl PROVE ~CannotAllocate(ncl)
  BY <1>1 DEF CannotAllocate, Unchanged
<1>4. ASSUME NEW o \in Obj, CreateChain(o) PROVE FALSE
  <2> DEFINE ncl == NewCluster
  <2>1. Found(ncl) /\ fat' = [fat EXCEPT ![ncl] = EOC]
    BY <1>3, <1>4 DEF CreateChain
  <2>2. fat[ncl] = 0
    BY <2>1 DEF Found
  <2> QED BY <2>1, <2>2
<1>5. ASSUME NEW d \in Clusters, StretchChain(d)
      PROVE  fat[c] = EOC /\ fat'[c] \in Clusters /\ fat[fat'[c]] = 0
  <2> DEFINE ncl == NextCluster(d)
  <2>1. /\ fat[d] >= NFatEnt /\ Found(ncl)
        /\ \/ fat' = [fat EXCEPT ![ncl] = EOC, ![d] = ncl]
           \/ fat' = [fat EXCEPT ![ncl] = EOC]
    BY <1>1, <1>3, <1>5 DEF StretchChain, Unchanged
  <2>2. ncl \in Clusters /\ fat[ncl] = 0
    BY <2>1, NextClusterResult DEF Found, NoSpace
  <2> HIDE DEF ncl
  <2>3. c = d /\ fat'[c] = ncl
    BY <2>1, <2>2
  <2>4. fat[d] = EOC
    BY <2>1, NFatEntAssumption DEF Entry, Clusters, EOC
  <2> QED BY <2>2, <2>3, <2>4
<1>6. ASSUME NEW d \in Clusters, RemoveRest(d) PROVE job' # Idle
  BY <1>1, <1>2, <1>6 DEF RemoveRest, Unchanged, Idle
<1>7. ASSUME RemoveStep PROVE job # Idle
  BY <1>7 DEF RemoveStep, Idle
<1>8. ASSUME \/ \E o \in Obj : RemoveAll(o)
             \/ RemoveStop \/ RemoveFail \/ f_getfree \/ UNCHANGED vars
      PROVE  FALSE
  BY <1>1, <1>8 DEF RemoveAll, RemoveStop, RemoveFail, f_getfree, Unchanged, vars
<1> QED BY <1>4, <1>5, <1>6, <1>7, <1>8 DEF Next

(* Whatever the FAT of a damaged volume holds, crossed and circular chains *)
(* included, create_chain writes no entry in use but the end of the chain  *)
(* it stretches, and links that to a cluster that was free.                *)
THEOREM UsedEntriesStay == DamagedSpec => UsedEntriesKept
<1>1. DamagedInit => TypeOK
  <2> SUFFICES ASSUME DamagedInit PROVE TypeOK
    OBVIOUS
  <2>1. Idle \in [cur : {0} \cup Clusters, hint : 0 .. NFatEnt]
    BY NFatEntAssumption DEF Idle
  <2> QED BY <2>1 DEF DamagedInit, InitCounters, TypeOK, Results
<1>2. TypeOK /\ [Next]_vars
        => [\A c \in Clusters : fat[c] # 0 /\ fat'[c] # fat[c] =>
               \/ job # Idle \/ job' # Idle
               \/ fat[c] = EOC /\ fat'[c] \in Clusters /\ fat[fat'[c]] = 0]_vars
  BY UsedEntriesStep
<1> QED BY <1>1, <1>2, DamagedType, PTL DEF DamagedSpec, UsedEntriesKept

-----------------------------------------------------------------------------
(* The volume as a FAT f, the first clusters h of the objects and the      *)
(* cluster c that remove_chain has come to: what IInv says of them.        *)
Volume(f, h, c) ==
    /\ f \in [Clusters -> Entry]
    /\ h \in [Obj -> {0} \cup Clusters]
    /\ c \in {0} \cup Clusters
    /\ OneLink(f, Clusters)
    /\ \A o \in Obj : NoLinkTo(h[o], f, Clusters)
    /\ NoLinkTo(c, f, Clusters)
    /\ \A o, p \in Obj : h[o] # 0 /\ h[o] = h[p] => o = p
    /\ \A o \in Obj : c # 0 => h[o] # c
    /\ \A x \in Clusters : f[x] \in Clusters => f[f[x]] # 0
    /\ \A o \in Obj : h[o] # 0 => f[h[o]] # 0
    /\ c # 0 => f[c] # 0

LEMMA ZeroIsNone == 0 \notin Clusters /\ EOC \notin Clusters /\ EOC # 0
BY NFatEntAssumption DEF Clusters, EOC

LEMMA IsVolume == IInv => Volume(fat, head, job.cur)
<1> SUFFICES ASSUME IInv PROVE Volume(fat, head, job.cur)
  OBVIOUS
<1>1. /\ fat \in [Clusters -> Entry]
      /\ head \in [Obj -> {0} \cup Clusters]
      /\ job.cur \in {0} \cup Clusters
  BY DEF IInv, TypeOK
<1>2. OneLink(fat, Clusters)
  BY DEF IInv, NoCrossLink, OneLink
<1>3. \A o \in Obj : NoLinkTo(head[o], fat, Clusters)
  BY DEF IInv, NoCrossLink, NoLinkTo
<1>4. NoLinkTo(job.cur, fat, Clusters)
  BY ZeroIsNone DEF IInv, NoCrossLink, NoLinkTo
<1>5. /\ \A o, p \in Obj : head[o] # 0 /\ head[o] = head[p] => o = p
      /\ \A o \in Obj : job.cur # 0 => head[o] # job.cur
  BY DEF IInv, NoCrossLink
<1>6. /\ \A x \in Clusters : fat[x] \in Clusters => fat[fat[x]] # 0
      /\ \A o \in Obj : head[o] # 0 => fat[head[o]] # 0
      /\ job.cur # 0 => fat[job.cur] # 0
  BY DEF IInv, NoDangling
<1> QED BY <1>1, <1>2, <1>3, <1>4, <1>5, <1>6 DEF Volume

(* The sequences ChainStore speaks of.                                     *)
ChainOf(c, f) == Follow(c, f, Clusters)
ChainsOf(f, h) == [o \in Obj |-> ChainOf(h[o], f)]
LostOf(f, h, c) == {x \in Clusters :
    /\ f[x] # 0
    /\ x \notin UNION {Members(ChainOf(h[o], f)) : o \in Obj}
    /\ x \notin Members(ChainOf(c, f))}

LEMMA LostIs ==
    ASSUME NEW f, NEW h, NEW c, NEW x
    PROVE  x \in LostOf(f, h, c) <=>
              /\ x \in Clusters
              /\ f[x] # 0
              /\ \A o \in Obj : x \notin Members(ChainOf(h[o], f))
              /\ x \notin Members(ChainOf(c, f))
BY DEF LostOf

(* A chain of the volume, read to its end, has no cluster twice and none   *)
(* that is free.                                                           *)
ChainGood(s, a, f) ==
    /\ Whole(s, a, f, Clusters)
    /\ Distinct(s)
    /\ \A x \in Members(s) : x \in Clusters /\ f[x] # 0

LEMMA ChainIsGood ==
    ASSUME NEW f, NEW a, OneLink(f, Clusters), NoLinkTo(a, f, Clusters),
           \A x \in Clusters : f[x] \in Clusters => f[f[x]] # 0,
           a \in Clusters => f[a] # 0
    PROVE  ChainGood(ChainOf(a, f), a, f)
<1> DEFINE s == ChainOf(a, f)
<1>1. Whole(s, a, f, Clusters)
  BY ClustersFinite, FollowIsWhole DEF ChainOf
<1> HIDE DEF s
<1>2. Distinct(s)
  BY <1>1, PathsApart DEF Whole, Distinct
<1>3. s \in Seq(Clusters) /\ Len(s) \in Nat
  BY <1>1 DEF Whole, Path
<1>4. ASSUME NEW x \in Members(s) PROVE x \in Clusters /\ f[x] # 0
  <2>1. PICK i \in 1 .. Len(s) : s[i] = x
    BY <1>3, MembersAre
  <2>2. x \in Clusters
    BY <1>3, <2>1
  <2>3. x = IF i = 1 THEN a ELSE f[s[i - 1]]
    BY <1>1, <2>1 DEF Whole, Path
  <2>4. CASE i = 1
    BY <2>2, <2>3, <2>4
  <2>5. CASE i # 1
    <3>1. i - 1 \in 1 .. Len(s)
      BY <1>3, <2>5
    <3>2. s[i - 1] \in Clusters
      BY <1>3, <3>1
    <3> QED BY <2>2, <2>3, <2>5, <3>2
  <2> QED BY <2>2, <2>4, <2>5
<1> QED BY <1>1, <1>2, <1>4 DEF ChainGood, s

LEMMA ChainsApartFrom ==
    ASSUME NEW f, NEW a, NEW b, OneLink(f, Clusters),
           NoLinkTo(a, f, Clusters), NoLinkTo(b, f, Clusters), a # b
    PROVE  Members(ChainOf(a, f)) \cap Members(ChainOf(b, f)) = {}
<1> DEFINE s == ChainOf(a, f)
           u == ChainOf(b, f)
<1>1. Whole(s, a, f, Clusters) /\ Whole(u, b, f, Clusters)
  BY ClustersFinite, FollowIsWhole DEF ChainOf
<1> HIDE DEF s, u
<1>2. \A i \in 1 .. Len(s), j \in 1 .. Len(u) : s[i] = u[j] => i = j /\ a = b
  BY <1>1, PathsApart DEF Whole
<1>3. s \in Seq(Clusters) /\ u \in Seq(Clusters)
  BY <1>1 DEF Whole, Path
<1>4. ASSUME NEW x \in Members(s), x \in Members(u) PROVE FALSE
  <2>1. PICK i \in 1 .. Len(s) : s[i] = x
    BY <1>3, MembersAre
  <2>2. PICK j \in 1 .. Len(u) : u[j] = x
    BY <1>3, <1>4, MembersAre
  <2> QED BY <1>2, <2>1, <2>2
<1> QED BY <1>4 DEF s, u

LEMMA NoChain ==
    ASSUME NEW f
    PROVE  ChainOf(0, f) = <<>>
<1>1. /\ Path(ChainOf(0, f), 0, f, Clusters)
  BY ClustersFinite, FollowIsPath DEF ChainOf
<1> DEFINE s == ChainOf(0, f)
<1>2. s \in Seq(Clusters) /\ Len(s) \in Nat
  BY <1>1 DEF Path
<1>3. 1 \in 1 .. Len(s) => s[1] = 0
  BY <1>1 DEF Path
<1> HIDE DEF s
<1>4. CASE Len(s) = 0
  BY <1>2, <1>4 DEF s
<1>5. CASE Len(s) # 0
  BY <1>2, <1>3, <1>5, ZeroIsNone
<1> QED BY <1>4, <1>5

LEMMA VolumeChains ==
    ASSUME NEW f, NEW h, NEW c, Volume(f, h, c)
    PROVE  /\ \A o \in Obj : ChainGood(ChainOf(h[o], f), h[o], f)
           /\ ChainGood(ChainOf(c, f), c, f)
           /\ \A o, p \in Obj : o # p =>
                 Members(ChainOf(h[o], f)) \cap Members(ChainOf(h[p], f)) = {}
           /\ \A o \in Obj :
                 Members(ChainOf(h[o], f)) \cap Members(ChainOf(c, f)) = {}
<1>1. /\ OneLink(f, Clusters) /\ NoLinkTo(c, f, Clusters)
      /\ \A o \in Obj : NoLinkTo(h[o], f, Clusters)
      /\ \A x \in Clusters : f[x] \in Clusters => f[f[x]] # 0
      /\ \A o \in Obj : h[o] \in Clusters => f[h[o]] # 0
      /\ c \in Clusters => f[c] # 0
  BY ZeroIsNone DEF Volume
<1>2. ASSUME NEW o \in Obj PROVE ChainGood(ChainOf(h[o], f), h[o], f)
  BY <1>1, ChainIsGood
<1>3. ChainGood(ChainOf(c, f), c, f)
  BY <1>1, ChainIsGood
<1>4. ASSUME NEW o \in Obj, NEW p \in Obj, o # p
      PROVE  Members(ChainOf(h[o], f)) \cap Members(ChainOf(h[p], f)) = {}
  <2>1. CASE h[o] = 0
    BY <2>1, NoChain, EmptyHasNone
  <2>2. CASE h[o] # 0
    <3>1. h[o] # h[p]
      BY <1>4, <2>2 DEF Volume
    <3> QED BY <1>1, <3>1, ChainsApartFrom
  <2> QED BY <2>1, <2>2
<1>5. ASSUME NEW o \in Obj
      PROVE  Members(ChainOf(h[o], f)) \cap Members(ChainOf(c, f)) = {}
  <2>1. CASE c = 0
    BY <2>1, NoChain, EmptyHasNone
  <2>2. CASE c # 0
    <3>1. h[o] # c
      BY <2>2 DEF Volume
    <3> QED BY <1>1, <3>1, ChainsApartFrom
  <2> QED BY <2>1, <2>2
<1> QED BY <1>2, <1>3, <1>4, <1>5

(* Another FAT in which a sequence is whole has it for its chain.          *)
LEMMA ChainBecomes ==
    ASSUME NEW f, NEW a, NEW s, OneLink(f, Clusters), NoLinkTo(a, f, Clusters),
           Whole(s, a, f, Clusters)
    PROVE  ChainOf(a, f) = s
BY ClustersFinite, WholeIsFollow DEF ChainOf

LEMMA ChainStays ==
    ASSUME NEW f, NEW g, NEW a, NEW s, ChainGood(s, a, f),
           OneLink(g, Clusters), NoLinkTo(a, g, Clusters),
           \A x \in Members(s) : g[x] = f[x]
    PROVE  ChainOf(a, g) = s
<1>1. Whole(s, a, f, Clusters) /\ s \in Seq(Clusters)
  BY DEF ChainGood, Whole, Path
<1>2. \A i \in 1 .. Len(s) : s[i] \in Members(s)
  BY <1>1, MembersAre
<1>3. Whole(s, a, g, Clusters)
  BY <1>1, <1>2, WholeStays
<1> QED BY <1>3, ChainBecomes

-----------------------------------------------------------------------------
(* What a call does to the FAT f and the first clusters h, which become g  *)
(* and k, in terms of the chains.                                          *)

(* A chain without a changed entry is the same in the FAT that results.    *)
LEMMA OtherStays ==
    ASSUME NEW f, NEW h, NEW c, NEW g, NEW k, NEW d, Volume(f, h, c), Volume(g, k, d),
           NEW p \in Obj, k[p] = h[p], \A x \in Members(ChainOf(h[p], f)) : g[x] = f[x]
    PROVE  ChainOf(k[p], g) = ChainOf(h[p], f)
<1>1. ChainGood(ChainOf(h[p], f), h[p], f)
  BY VolumeChains
<1>2. OneLink(g, Clusters) /\ NoLinkTo(h[p], g, Clusters)
  BY DEF Volume
<1> QED BY <1>1, <1>2, ChainStays

LEMMA FreeIsUnused ==
    ASSUME NEW f, NEW h, NEW c, Volume(f, h, c), NEW n, f[n] = 0
    PROVE  /\ \A o \in Obj : n \notin Members(ChainOf(h[o], f))
           /\ n \notin Members(ChainOf(c, f))
           /\ n \notin LostOf(f, h, c)
<1>1. ASSUME NEW o \in Obj PROVE n \notin Members(ChainOf(h[o], f))
  <2>1. ChainGood(ChainOf(h[o], f), h[o], f)
    BY VolumeChains
  <2> QED BY <2>1 DEF ChainGood
<1>2. n \notin Members(ChainOf(c, f))
  <2>1. ChainGood(ChainOf(c, f), c, f)
    BY VolumeChains
  <2> QED BY <2>1 DEF ChainGood
<1> QED BY <1>1, <1>2, LostIs

(* An allocation: the chain of o is one cluster longer, nothing else moves.*)
Adds(o, n, f, h, g, k) ==
    /\ f[n] = 0 /\ g[n] # 0
    /\ ChainOf(k[o], g) = Append(ChainOf(h[o], f), n)
    /\ \A p \in Obj : p # o => k[p] = h[p]
    /\ \A x \in Clusters : x # n /\ x \notin Members(ChainOf(h[o], f)) => g[x] = f[x]
    /\ \A x \in Clusters : x # n => (g[x] = 0 <=> f[x] = 0)

LEMMA Grown ==
    ASSUME NEW f, NEW h, NEW g, NEW k, Volume(f, h, 0), Volume(g, k, 0),
           NEW o \in Obj, NEW n \in Clusters, Adds(o, n, f, h, g, k)
    PROVE  /\ ChainsOf(g, k) = [ChainsOf(f, h) EXCEPT ![o] = Append(@, n)]
           /\ LostOf(g, k, 0) = LostOf(f, h, 0)
<1>0. /\ f[n] = 0 /\ g[n] # 0
      /\ ChainOf(k[o], g) = Append(ChainOf(h[o], f), n)
      /\ \A p \in Obj : p # o => k[p] = h[p]
      /\ \A x \in Clusters : x # n /\ x \notin Members(ChainOf(h[o], f)) => g[x] = f[x]
      /\ \A x \in Clusters : x # n => (g[x] = 0 <=> f[x] = 0)
  BY DEF Adds
<1>1. ASSUME NEW p \in Obj, p # o PROVE ChainOf(k[p], g) = ChainOf(h[p], f)
  <2>1. ASSUME NEW x \in Members(ChainOf(h[p], f)) PROVE g[x] = f[x]
    <3>1. ChainGood(ChainOf(h[p], f), h[p], f)
      BY VolumeChains
    <3>2. x \in Clusters /\ f[x] # 0
      BY <2>1, <3>1 DEF ChainGood
    <3>3. Members(ChainOf(h[o], f)) \cap Members(ChainOf(h[p], f)) = {}
      BY <1>1, VolumeChains
    <3>4. x # n /\ x \notin Members(ChainOf(h[o], f))
      BY <1>0, <2>1, <3>2, <3>3
    <3> QED BY <1>0, <3>2, <3>4
  <2> QED BY <1>0, <1>1, <2>1, OtherStays
<1>2. ChainsOf(g, k) = [ChainsOf(f, h) EXCEPT ![o] = Append(@, n)]
  BY <1>0, <1>1 DEF ChainsOf
<1>3. ChainOf(h[o], f) \in Seq(Clusters)
  <2>1. ChainGood(ChainOf(h[o], f), h[o], f)
    BY VolumeChains
  <2> QED BY <2>1 DEF ChainGood, Whole, Path
<1>4. Members(ChainOf(k[o], g)) = Members(ChainOf(h[o], f)) \cup {n}
  BY <1>0, <1>3, MembersOfAppend
<1>5. \A p \in Obj : n \notin Members(ChainOf(h[p], f))
  BY <1>0, FreeIsUnused
<1>6. ASSUME NEW x PROVE x \in LostOf(g, k, 0) <=> x \in LostOf(f, h, 0)
  <2>1. ChainOf(0, g) = <<>> /\ ChainOf(0, f) = <<>> /\ Members(<<>>) = {}
    BY NoChain, EmptyHasNone
  <2>2. x \in LostOf(f, h, 0) <=> /\ x \in Clusters
                                  /\ f[x] # 0
                                  /\ \A p \in Obj : x \notin Members(ChainOf(h[p], f))
    BY <2>1, LostIs
  <2>3. x \in LostOf(g, k, 0) <=> /\ x \in Clusters
                                  /\ g[x] # 0
                                  /\ \A p \in Obj : x \notin Members(ChainOf(k[p], g))
    BY <2>1, LostIs
  <2>4. CASE x = n
    <3>1. x \in Members(ChainOf(k[o], g))
      BY <1>4, <2>4
    <3> QED BY <1>0, <2>2, <2>3, <2>4, <3>1
  <2>5. CASE x # n
    <3>1. \A p \in Obj : x \in Members(ChainOf(k[p], g)) <=> x \in Members(ChainOf(h[p], f))
      BY <1>1, <1>4, <2>5
    <3> QED BY <1>0, <2>2, <2>3, <2>5, <3>1
  <2> QED BY <2>4, <2>5
<1> QED BY <1>2, <1>6

(* One entry, or one first cluster, has got the value v.                   *)
Wrote(f, x, v, g) == g = [f EXCEPT ![x] = v]

(* The chain of o has got a first cluster.                                 *)
LEMMA CreatedGrows ==
    ASSUME NEW f, NEW h, NEW g, NEW k, Volume(f, h, 0), Volume(g, k, 0),
           NEW o \in Obj, NEW n \in Clusters, f[n] = 0, h[o] = 0,
           Wrote(f, n, EOC, g), Wrote(h, o, n, k)
    PROVE  /\ ChainsOf(g, k) = [ChainsOf(f, h) EXCEPT ![o] = Append(@, n)]
           /\ LostOf(g, k, 0) = LostOf(f, h, 0)
<1>1. f \in [Clusters -> Entry] /\ h \in [Obj -> {0} \cup Clusters]
  BY DEF Volume
<1>2. /\ g[n] = EOC /\ \A x \in Clusters : x # n => g[x] = f[x]
      /\ k[o] = n /\ \A p \in Obj : p # o => k[p] = h[p]
  BY <1>1 DEF Wrote
<1>3. Whole(<<n>>, n, g, Clusters)
  BY <1>2, WholeOfOne, ZeroIsNone
<1>4. OneLink(g, Clusters) /\ NoLinkTo(n, g, Clusters)
  BY <1>2 DEF Volume
<1>5. ChainOf(k[o], g) = Append(ChainOf(h[o], f), n)
  <2>1. ChainOf(k[o], g) = <<n>> /\ ChainOf(h[o], f) = <<>>
    BY <1>2, <1>3, <1>4, ChainBecomes, NoChain
  <2>2. Append(<<>>, n) = <<n>>
    OBVIOUS
  <2> QED BY <2>1, <2>2
<1>6. g[n] # 0
  BY <1>2, ZeroIsNone
<1>7. Adds(o, n, f, h, g, k)
  BY <1>2, <1>5, <1>6 DEF Adds
<1> QED BY <1>7, Grown

(* The chain of o, which ends with c, has got n behind it.                 *)
StretchedBy(c, n, f, g) == g = [f EXCEPT ![n] = EOC, ![c] = n]

LEMMA StretchedGrows ==
    ASSUME NEW f, NEW h, NEW g, Volume(f, h, 0), Volume(g, h, 0),
           NEW o \in Obj, NEW n \in Clusters, f[n] = 0,
           NEW c \in Members(ChainOf(h[o], f)), f[c] \notin Clusters,
           StretchedBy(c, n, f, g)
    PROVE  /\ ChainsOf(g, h) = [ChainsOf(f, h) EXCEPT ![o] = Append(@, n)]
           /\ LostOf(g, h, 0) = LostOf(f, h, 0)
<1> DEFINE s == ChainOf(h[o], f)
<1>0. ChainGood(s, h[o], f)
  BY VolumeChains
<1>1. /\ f \in [Clusters -> Entry]
      /\ c \in Clusters /\ f[c] # 0 /\ s \in Seq(Clusters) /\ Len(s) \in Nat
  BY <1>0 DEF Volume, ChainGood, Whole, Path
<1>2. g[n] = EOC /\ g[c] = n /\ \A x \in Clusters : x # n /\ x # c => g[x] = f[x]
  BY <1>1 DEF StretchedBy
<1>3. PICK i \in 1 .. Len(s) : s[i] = c
  BY <1>1, MembersAre
<1>4. i = Len(s) /\ s # <<>>
  <2>1. CASE i + 1 \in 1 .. Len(s)
    <3>1. PICK j \in 1 .. Len(s) : j = i + 1
      BY <2>1
    <3>2. s[j] = IF j = 1 THEN h[o] ELSE f[s[j - 1]]
      BY <1>0 DEF ChainGood, Whole, Path
    <3>3. j # 1 /\ j - 1 = i
      BY <3>1
    <3>4. s[j] \in Clusters
      BY <1>1
    <3> QED BY <1>3, <3>2, <3>3, <3>4
  <2>2. CASE i + 1 \notin 1 .. Len(s)
    BY <1>1, <2>2
  <2> QED BY <2>1, <2>2
<1>5. \A j \in 1 .. Len(s) : s[j] \in Clusters /\ s[j] # n
  <2>1. \A j \in 1 .. Len(s) : s[j] \in Members(s)
    BY <1>1, MembersAre
  <2> QED BY <1>0, <2>1 DEF ChainGood
<1>6. Whole(Append(s, n), h[o], g, Clusters)
  <2>1. g[s[Len(s)]] = n /\ g[n] \notin Clusters
    BY <1>2, <1>3, <1>4, ZeroIsNone
  <2>2. \A j \in 1 .. Len(s) : s[j] # s[Len(s)] => g[s[j]] = f[s[j]]
    BY <1>2, <1>3, <1>4, <1>5
  <2>3. /\ Whole(s, h[o], f, Clusters)
        /\ Distinct(s)
    BY <1>0 DEF ChainGood
  <2>4. LinkedTo(n, s, f, g)
    BY <2>1, <2>2 DEF LinkedTo
  <2> HIDE DEF s
  <2> QED BY <1>4, <2>1, <2>3, <2>4, WholeGrows
<1>7. OneLink(g, Clusters) /\ NoLinkTo(h[o], g, Clusters)
  BY DEF Volume
<1>8. ChainOf(h[o], g) = Append(s, n)
  BY <1>6, <1>7, ChainBecomes
<1>9. g[n] # 0 /\ g[c] # 0 /\ n # 0
  BY <1>2, ZeroIsNone
<1>10. \A x \in Clusters : x # n /\ x \notin Members(ChainOf(h[o], f)) => g[x] = f[x]
  BY <1>2
<1>11. \A x \in Clusters : x # n => (g[x] = 0 <=> f[x] = 0)
  BY <1>1, <1>2, <1>9
<1>12. Adds(o, n, f, h, g, h)
  BY <1>8, <1>9, <1>10, <1>11 DEF Adds
<1> QED BY <1>12, Grown

LEMMA LostCluster ==
    ASSUME NEW f, NEW h, NEW g, Volume(f, h, 0), Volume(g, h, 0),
           NEW n \in Clusters, f[n] = 0, Wrote(f, n, EOC, g)
    PROVE  /\ ChainsOf(g, h) = ChainsOf(f, h)
           /\ LostOf(g, h, 0) = LostOf(f, h, 0) \cup {n}
<1>1. f \in [Clusters -> Entry]
  BY DEF Volume
<1>2. g[n] # 0 /\ \A x \in Clusters : x # n => g[x] = f[x]
  BY <1>1, ZeroIsNone DEF Wrote
<1>3. \A p \in Obj : n \notin Members(ChainOf(h[p], f))
  BY FreeIsUnused
<1>4. ASSUME NEW p \in Obj PROVE ChainOf(h[p], g) = ChainOf(h[p], f)
  <2>1. ChainGood(ChainOf(h[p], f), h[p], f)
    BY VolumeChains
  <2>2. \A x \in Members(ChainOf(h[p], f)) : g[x] = f[x]
    BY <1>2, <1>3, <2>1 DEF ChainGood
  <2> QED BY <2>2, OtherStays
<1>5. ChainOf(0, g) = <<>> /\ ChainOf(0, f) = <<>> /\ Members(<<>>) = {}
  BY NoChain, EmptyHasNone
<1>6. ASSUME NEW x PROVE x \in LostOf(g, h, 0) <=> x \in LostOf(f, h, 0) \cup {n}
  <2>1. x \in LostOf(f, h, 0) <=> /\ x \in Clusters
                                  /\ f[x] # 0
                                  /\ \A p \in Obj : x \notin Members(ChainOf(h[p], f))
    BY <1>5, LostIs
  <2>2. x \in LostOf(g, h, 0) <=> /\ x \in Clusters
                                  /\ g[x] # 0
                                  /\ \A p \in Obj : x \notin Members(ChainOf(h[p], f))
    BY <1>4, <1>5, LostIs
  <2>3. CASE x = n
    BY <1>2, <1>3, <2>2, <2>3
  <2>4. CASE x # n
    BY <1>2, <2>1, <2>2, <2>4
  <2> QED BY <2>3, <2>4
<1> QED BY <1>4, <1>6 DEF ChainsOf

(* A removal takes the chain of o, or what is behind its cluster k.        *)
Takes(o, k, f, h, g, j, d) ==
    /\ k \in 0 .. Len(ChainOf(h[o], f)) - 1
    /\ ChainOf(j[o], g) = SubSeq(ChainOf(h[o], f), 1, k)
    /\ ChainOf(d, g) = SubSeq(ChainOf(h[o], f), k + 1, Len(ChainOf(h[o], f)))
    /\ \A p \in Obj : p # o => j[p] = h[p]
    /\ \A x \in Clusters : x \notin Members(ChainOf(h[o], f)) => g[x] = f[x]
    /\ \A x \in Clusters : g[x] = 0 <=> f[x] = 0

LEMMA Taken ==
    ASSUME NEW f, NEW h, NEW g, NEW j, NEW d, Volume(f, h, 0), Volume(g, j, d),
           NEW o \in Obj, NEW k, Takes(o, k, f, h, g, j, d)
    PROVE  /\ ChainsOf(g, j) = [ChainsOf(f, h) EXCEPT ![o] = SubSeq(@, 1, k)]
           /\ LostOf(g, j, d) = LostOf(f, h, 0)
<1> DEFINE s == ChainOf(h[o], f)
<1>1. /\ k \in 0 .. Len(s) - 1
      /\ ChainOf(j[o], g) = SubSeq(s, 1, k)
      /\ ChainOf(d, g) = SubSeq(s, k + 1, Len(s))
      /\ \A p \in Obj : p # o => j[p] = h[p]
      /\ \A x \in Clusters : x \notin Members(s) => g[x] = f[x]
      /\ \A x \in Clusters : g[x] = 0 <=> f[x] = 0
  BY DEF Takes
<1>2. ASSUME NEW p \in Obj, p # o PROVE ChainOf(j[p], g) = ChainOf(h[p], f)
  <2>1. ChainGood(ChainOf(h[p], f), h[p], f)
    BY VolumeChains
  <2>2. Members(s) \cap Members(ChainOf(h[p], f)) = {}
    BY <1>2, VolumeChains
  <2>3. \A x \in Members(ChainOf(h[p], f)) : g[x] = f[x]
    BY <1>1, <2>1, <2>2 DEF ChainGood
  <2>4. j[p] = h[p]
    BY <1>1, <1>2
  <2> QED BY <2>3, <2>4, OtherStays
<1>3. s \in Seq(Clusters)
  <2>1. ChainGood(ChainOf(h[o], f), h[o], f)
    BY VolumeChains
  <2> QED BY <2>1 DEF ChainGood, Whole, Path
<1>4. Members(s) = Members(ChainOf(j[o], g)) \cup Members(ChainOf(d, g))
  <2> HIDE DEF s
  <2>1. k \in 0 .. Len(s)
    BY <1>1, <1>3
  <2>2. Members(s) = Members(SubSeq(s, 1, k)) \cup Members(SubSeq(s, k + 1, Len(s)))
    BY <1>3, <2>1, CutMembers
  <2> QED BY <1>1, <2>2
<1>5. ChainOf(0, f) = <<>> /\ Members(<<>>) = {}
  BY NoChain, EmptyHasNone
<1>6. ASSUME NEW x PROVE x \in LostOf(g, j, d) <=> x \in LostOf(f, h, 0)
  <2>1. x \in LostOf(f, h, 0) <=> /\ x \in Clusters
                                  /\ f[x] # 0
                                  /\ \A p \in Obj : x \notin Members(ChainOf(h[p], f))
    BY <1>5, LostIs
  <2>2. x \in LostOf(g, j, d) <=> /\ x \in Clusters
                                  /\ g[x] # 0
                                  /\ \A p \in Obj : x \notin Members(ChainOf(j[p], g))
                                  /\ x \notin Members(ChainOf(d, g))
    BY LostIs
  <2>3. \A p \in Obj : p # o => Members(ChainOf(j[p], g)) = Members(ChainOf(h[p], f))
    BY <1>2
  <2>4. (\A p \in Obj : x \notin Members(ChainOf(h[p], f)))
           <=> /\ \A p \in Obj : x \notin Members(ChainOf(j[p], g))
               /\ x \notin Members(ChainOf(d, g))
    BY <1>4, <2>3
  <2> QED BY <1>1, <2>1, <2>2, <2>4
<1>7. ChainsOf(g, j) = [ChainsOf(f, h) EXCEPT ![o] = SubSeq(@, 1, k)]
  BY <1>1, <1>2 DEF ChainsOf
<1> QED BY <1>6, <1>7

LEMMA AllIsTaken ==
    ASSUME NEW f, NEW h, NEW j, NEW o \in Obj, Volume(f, h, 0), Volume(f, j, h[o]),
           h[o] # 0, Wrote(h, o, 0, j)
    PROVE  Takes(o, 0, f, h, f, j, h[o])
<1> DEFINE s == ChainOf(h[o], f)
<1>1. h \in [Obj -> {0} \cup Clusters]
  BY DEF Volume
<1>2. j[o] = 0 /\ (\A p \in Obj : p # o => j[p] = h[p]) /\ h[o] \in Clusters
  BY <1>1 DEF Wrote
<1>3. Whole(s, h[o], f, Clusters)
  BY VolumeChains DEF ChainGood
<1>4. s \in Seq(Clusters) /\ Len(s) \in Nat /\ Len(s) >= 1
  BY <1>2, <1>3, EmptyIsWhole DEF Whole, Path
<1>5. ChainOf(0, f) = <<>>
  BY NoChain
<1> HIDE DEF s
<1>6. SubSeq(s, 1, 0) = <<>> /\ SubSeq(s, 0 + 1, Len(s)) = s
  BY <1>4, SubSeqEmpty, SubSeqFull
<1>7. ChainOf(j[o], f) = SubSeq(s, 1, 0) /\ ChainOf(h[o], f) = SubSeq(s, 0 + 1, Len(s))
  BY <1>2, <1>5, <1>6 DEF s
<1>8. 0 \in 0 .. Len(s) - 1
  BY <1>4
<1> QED BY <1>2, <1>7, <1>8 DEF Takes, s

LEMMA RestIsTaken ==
    ASSUME NEW f, NEW h, NEW g, NEW o \in Obj, NEW c \in Members(ChainOf(h[o], f)),
           Volume(f, h, 0), Volume(g, h, f[c]), f[c] \in Clusters, Wrote(f, c, EOC, g)
    PROVE  \E k \in 0 .. Len(ChainOf(h[o], f)) - 1 : Takes(o, k, f, h, g, h, f[c])
<1> DEFINE s == ChainOf(h[o], f)
<1>1. ChainGood(s, h[o], f) /\ Whole(s, h[o], f, Clusters)
  BY VolumeChains DEF ChainGood
<1>2. /\ f \in [Clusters -> Entry]
      /\ c \in Clusters /\ f[c] # 0 /\ s \in Seq(Clusters) /\ Len(s) \in Nat
  BY <1>1 DEF Volume, ChainGood, Whole, Path
<1>3. g[c] = EOC /\ \A x \in Clusters : x # c => g[x] = f[x]
  BY <1>2 DEF Wrote
<1>4. PICK k \in 1 .. Len(s) : s[k] = c
  BY <1>2, MembersAre
<1>5. Distinct(s)
  BY <1>1 DEF ChainGood
<1> SUFFICES Takes(o, k, f, h, g, h, f[c]) /\ k \in 0 .. Len(s) - 1
  OBVIOUS
<1>6. /\ OneLink(g, Clusters) /\ NoLinkTo(h[o], g, Clusters)
      /\ NoLinkTo(f[c], g, Clusters)
  BY DEF Volume
<1>7. \A x \in Clusters : x \notin Members(s) => g[x] = f[x]
  BY <1>3
<1>8. \A x \in Clusters : g[x] = 0 <=> f[x] = 0
  BY <1>2, <1>3, ZeroIsNone
<1> HIDE DEF s
<1>9. k \in 1 .. Len(s) - 1
  <2>1. k # Len(s)
    <3>1. ASSUME k = Len(s) PROVE FALSE
      <4>1. s # <<>> /\ After(s, h[o], f) = f[s[Len(s)]]
        BY <1>2, <3>1 DEF After
      <4> QED BY <1>1, <1>4, <3>1, <4>1 DEF Whole
    <3> QED BY <3>1
  <2> QED BY <1>2, <2>1
<1>10. \A i \in 1 .. Len(s) : i # k => g[s[i]] = f[s[i]]
  BY <1>2, <1>3, <1>4, <1>5 DEF Distinct
<1>11. ChangedAt(k, s, f, g)
  BY <1>10 DEF ChangedAt
<1>12. g[s[k]] \notin Clusters
  BY <1>3, <1>4, ZeroIsNone
<1>13. /\ Whole(SubSeq(s, 1, k), h[o], g, Clusters)
       /\ Whole(SubSeq(s, k + 1, Len(s)), f[s[k]], g, Clusters)
  BY <1>1, <1>9, <1>11, <1>12, WholeIsCut
<1>14. /\ ChainOf(h[o], g) = SubSeq(s, 1, k)
       /\ ChainOf(f[c], g) = SubSeq(s, k + 1, Len(s))
  BY <1>4, <1>6, <1>13, ChainBecomes
<1>15. k \in 0 .. Len(s) - 1
  BY <1>9
<1> QED BY <1>7, <1>8, <1>14, <1>15 DEF Takes, s

(* One turn of remove_chain: the first cluster of what is removed is free. *)
LEMMA Released ==
    ASSUME NEW f, NEW h, NEW c, NEW g, NEW d, Volume(f, h, c), Volume(g, h, d),
           c # 0, Wrote(f, c, 0, g),
           d = IF f[c] \in Clusters THEN f[c] ELSE 0
    PROVE  /\ ChainsOf(g, h) = ChainsOf(f, h)
           /\ ChainOf(c, f) # <<>>
           /\ ChainOf(d, g) = Tail(ChainOf(c, f))
           /\ LostOf(g, h, d) = LostOf(f, h, c)
<1> DEFINE s == ChainOf(c, f)
<1>1. ChainGood(s, c, f) /\ Whole(s, c, f, Clusters) /\ Distinct(s)
  BY VolumeChains DEF ChainGood
<1>2. /\ f \in [Clusters -> Entry] /\ c \in Clusters
      /\ s \in Seq(Clusters) /\ Len(s) \in Nat
  BY <1>1 DEF Volume, Whole, Path
<1>3. g[c] = 0 /\ \A x \in Clusters : x # c => g[x] = f[x]
  BY <1>2 DEF Wrote
<1>4. s # <<>> /\ s[1] = c /\ Len(s) >= 1
  BY <1>1, <1>2, EmptyIsWhole
<1>5. OneLink(g, Clusters) /\ NoLinkTo(d, g, Clusters)
  BY DEF Volume
<1>6. ChainOf(d, g) = Tail(s)
  <2> HIDE DEF s
  <2>1. \A i \in 1 .. Len(s) : i # 1 => g[s[i]] = f[s[i]]
    BY <1>1, <1>2, <1>3, <1>4 DEF Distinct
  <2>2. Whole(Tail(s), f[c], g, Clusters)
    BY <1>1, <1>4, <2>1, WholeShrinks DEF ChangedAt
  <2>3. CASE f[c] \in Clusters
    BY <1>5, <2>2, <2>3, ChainBecomes
  <2>4. CASE f[c] \notin Clusters
    <3>1. \A u, a : Whole(u, a, g, Clusters) /\ a \notin Clusters => u = <<>>
      BY EmptyIsWhole
    <3>2. Tail(s) = <<>>
      BY <2>2, <2>4, <3>1, Zenon
    <3> QED BY <2>4, <3>2, NoChain
  <2> QED BY <2>3, <2>4
<1>7. ASSUME NEW p \in Obj PROVE ChainOf(h[p], g) = ChainOf(h[p], f)
  <2>1. ChainGood(ChainOf(h[p], f), h[p], f)
    BY VolumeChains
  <2>2. Members(ChainOf(h[p], f)) \cap Members(s) = {}
    BY VolumeChains
  <2>3. c \in Members(s)
    BY <1>2, <1>4, MembersAre
  <2>4. \A x \in Members(ChainOf(h[p], f)) : g[x] = f[x]
    BY <1>3, <2>1, <2>2, <2>3 DEF ChainGood
  <2> QED BY <2>4, OtherStays
<1>8. c \in Members(s) /\ Members(Tail(s)) = Members(s) \ {c}
  <2> HIDE DEF s
  <2>1. \A a, b \in 1 .. Len(s) : s[a] = s[b] => a = b
    BY <1>1 DEF Distinct
  <2> QED BY <1>2, <1>4, <2>1, TailMembers
<1>9. ASSUME NEW x PROVE x \in LostOf(g, h, d) <=> x \in LostOf(f, h, c)
  <2>1. x \in LostOf(f, h, c) <=> /\ x \in Clusters
                                  /\ f[x] # 0
                                  /\ \A p \in Obj : x \notin Members(ChainOf(h[p], f))
                                  /\ x \notin Members(s)
    BY LostIs
  <2>2. x \in LostOf(g, h, d) <=> /\ x \in Clusters
                                  /\ g[x] # 0
                                  /\ \A p \in Obj : x \notin Members(ChainOf(h[p], f))
                                  /\ x \notin Members(Tail(s))
    BY <1>6, <1>7, LostIs
  <2>3. CASE x = c
    BY <1>3, <1>8, <2>1, <2>2, <2>3
  <2>4. CASE x # c
    BY <1>3, <1>8, <2>1, <2>2, <2>4
  <2> QED BY <2>3, <2>4
<1> QED BY <1>4, <1>6, <1>7, <1>9 DEF ChainsOf

(* A removal that fails: the rest of the chain belongs to nothing.         *)
LEMMA Abandoned ==
    ASSUME NEW f, NEW h, NEW c, Volume(f, h, c), c # 0
    PROVE  /\ ChainOf(c, f) # <<>>
           /\ ChainOf(0, f) = <<>>
           /\ LostOf(f, h, 0) = LostOf(f, h, c) \cup Members(ChainOf(c, f))
<1> DEFINE s == ChainOf(c, f)
<1>1. ChainGood(s, c, f) /\ Whole(s, c, f, Clusters) /\ c \in Clusters
  BY VolumeChains DEF ChainGood, Volume
<1>2. s # <<>>
  BY <1>1, EmptyIsWhole
<1>3. ChainOf(0, f) = <<>> /\ Members(<<>>) = {}
  BY NoChain, EmptyHasNone
<1>4. \A p \in Obj : Members(ChainOf(h[p], f)) \cap Members(s) = {}
  BY VolumeChains
<1>5. \A x \in Members(s) : x \in Clusters /\ f[x] # 0
  BY <1>1 DEF ChainGood
<1>6. ASSUME NEW x PROVE x \in LostOf(f, h, 0) <=> x \in LostOf(f, h, c) \cup Members(s)
  <2>1. x \in LostOf(f, h, c) <=> /\ x \in Clusters
                                  /\ f[x] # 0
                                  /\ \A p \in Obj : x \notin Members(ChainOf(h[p], f))
                                  /\ x \notin Members(s)
    BY LostIs
  <2>2. x \in LostOf(f, h, 0) <=> /\ x \in Clusters
                                  /\ f[x] # 0
                                  /\ \A p \in Obj : x \notin Members(ChainOf(h[p], f))
    BY <1>3, LostIs
  <2> QED BY <1>4, <1>5, <2>1, <2>2
<1> QED BY <1>2, <1>3, <1>6

-----------------------------------------------------------------------------
(* The refinement mapping, and the same in terms of the lemmas above.      *)
mChain == [o \in Obj |-> Chain(head[o])]
mDying == Chain(job.cur)
mLost == {c \in Clusters : /\ fat[c] # 0
                           /\ c \notin UNION {OnChain(o) : o \in Obj}
                           /\ c \notin Reached(job.cur, fat)}

cChain == ChainsOf(fat, head)
cDying == ChainOf(job.cur, fat)
cLost == LostOf(fat, head, job.cur)

MapsTo == mChain = cChain /\ mDying = cDying /\ mLost = cLost

LEMMA Mapping == MapsTo
BY DEF MapsTo, mChain, mDying, mLost, cChain, cDying, cLost, ChainsOf, ChainOf, LostOf,
       Chain, OnChain, Reached, Members

LEMMA MappingNext == mChain' = cChain' /\ mDying' = cDying' /\ mLost' = cLost'
<1>1. MapsTo'
  BY Mapping, PTL
<1> QED BY <1>1 DEF MapsTo

(* A cluster that is in no chain and not lost.                             *)
Unused(c) == /\ \A o \in Obj : c \notin Members(cChain[o])
             /\ c \notin Members(cDying)
             /\ c \notin cLost

LEMMA GrowIs ==
    ASSUME NEW o \in Obj, NEW c \in Clusters, cDying = <<>>, Unused(c),
           cChain' = [cChain EXCEPT ![o] = Append(@, c)],
           cDying' = cDying, cLost' = cLost
    PROVE  Chains!Next
<1>1. c \notin Chains!Used
  BY Mapping DEF MapsTo, Chains!Used, Chains!Members, Unused, Members, mChain, mDying, mLost
<1>2. Chains!Grow(o, c)
  BY <1>1, Mapping, MappingNext DEF MapsTo, Chains!Grow, mChain, mDying, mLost
<1> QED BY <1>2 DEF Chains!Next

LEMMA LoseIs ==
    ASSUME NEW c \in Clusters, cDying = <<>>, Unused(c),
           cChain' = cChain, cDying' = cDying, cLost' = cLost \cup {c}
    PROVE  Chains!Next
<1>1. c \notin Chains!Used
  BY Mapping DEF MapsTo, Chains!Used, Chains!Members, Unused, Members, mChain, mDying, mLost
<1>2. Chains!Lose(c)
  BY <1>1, Mapping, MappingNext DEF MapsTo, Chains!Lose, mChain, mDying, mLost
<1> QED BY <1>2 DEF Chains!Next

LEMMA CutIsStep ==
    ASSUME NEW o \in Obj, NEW k \in 0 .. Len(cChain[o]) - 1, cDying = <<>>,
           cChain' = [cChain EXCEPT ![o] = SubSeq(@, 1, k)],
           cDying' = SubSeq(cChain[o], k + 1, Len(cChain[o])), cLost' = cLost
    PROVE  Chains!Next
<1>1. Chains!Cut(o, k)
  BY Mapping, MappingNext DEF MapsTo, Chains!Cut, mChain, mDying, mLost
<1>2. k \in 0 .. Len(mChain[o]) - 1
  BY Mapping DEF MapsTo
<1> QED BY <1>1, <1>2 DEF Chains!Next, mChain

LEMMA ReleaseIs ==
    ASSUME cDying # <<>>, cChain' = cChain, cDying' = Tail(cDying), cLost' = cLost
    PROVE  Chains!Next
<1>1. Chains!Release
  BY Mapping, MappingNext DEF MapsTo, Chains!Release, mChain, mDying, mLost
<1> QED BY <1>1 DEF Chains!Next

LEMMA AbandonIs ==
    ASSUME cDying # <<>>, cChain' = cChain, cDying' = <<>>,
           cLost' = cLost \cup Members(cDying)
    PROVE  Chains!Next
<1>1. Chains!Abandon
  BY Mapping, MappingNext
     DEF MapsTo, Chains!Abandon, Chains!Members, Members, mChain, mDying, mLost
<1> QED BY <1>1 DEF Chains!Next

LEMMA StutterIs ==
    ASSUME UNCHANGED <<fat, head, job>>
    PROVE  UNCHANGED Chains!cvars
<1>1. cChain' = cChain /\ cDying' = cDying /\ cLost' = cLost
  BY DEF cChain, cDying, cLost
<1> QED BY <1>1, Mapping, MappingNext DEF MapsTo, Chains!cvars, mChain, mDying, mLost

-----------------------------------------------------------------------------
(* Every step of the allocator is a step of ChainStore, or changes nothing.*)
VolumeNow == Volume(fat, head, job.cur)

LEMMA VolumeIs == IInv => VolumeNow
BY IsVolume DEF VolumeNow

LEMMA VolumeNext == IInv' => Volume(fat', head', job'.cur)
<1>1. IInv' => VolumeNow'
  BY VolumeIs, PTL
<1> QED BY <1>1 DEF VolumeNow

LEMMA FreeNow ==
    ASSUME IInv, NEW c \in Clusters, fat[c] = 0
    PROVE  Unused(c)
<1>1. Volume(fat, head, job.cur)
  BY IsVolume
<1>2. /\ \A o \in Obj : c \notin Members(ChainOf(head[o], fat))
      /\ c \notin Members(ChainOf(job.cur, fat))
      /\ c \notin LostOf(fat, head, job.cur)
  BY <1>1, FreeIsUnused
<1> QED BY <1>2 DEF Unused, cChain, cDying, cLost, ChainsOf

LEMMA InitChains == Init => Chains!Init
<1> SUFFICES ASSUME Init PROVE Chains!Init
  OBVIOUS
<1>1. Volume(fat, head, job.cur) /\ job.cur = 0
  BY InitInv, IsVolume DEF Init, InitCounters, Idle
<1>2. /\ \A o \in Obj : ChainGood(ChainOf(head[o], fat), head[o], fat)
      /\ \A o, p \in Obj : o # p =>
            Members(ChainOf(head[o], fat)) \cap Members(ChainOf(head[p], fat)) = {}
  BY <1>1, VolumeChains
<1>3. cDying = <<>>
  BY <1>1, NoChain DEF cDying
<1>4. ASSUME NEW o \in Obj
      PROVE  /\ Distinct(cChain[o]) /\ cChain[o] \in Seq(Clusters)
             /\ Members(cChain[o]) \subseteq Clusters
             /\ Members(cChain[o]) \cap cLost = {}
  <2>1. cChain[o] = ChainOf(head[o], fat)
    BY DEF cChain, ChainsOf
  <2>2. ChainGood(cChain[o], head[o], fat)
    BY <1>2, <2>1
  <2>3. \A x \in cLost : x \notin Members(cChain[o])
    BY <2>1, LostIs DEF cLost
  <2> QED BY <2>2, <2>3 DEF ChainGood, Whole, Path
<1>5. \A o, p \in Obj : o # p => Members(cChain[o]) \cap Members(cChain[p]) = {}
  BY <1>2 DEF cChain, ChainsOf
<1>6. \A o \in Obj : Chains!Distinct(cChain[o])
  <2> SUFFICES ASSUME NEW o \in Obj PROVE Chains!Distinct(cChain[o])
    OBVIOUS
  <2>1. DOMAIN cChain[o] = 1 .. Len(cChain[o])
    BY <1>4
  <2> QED BY <1>4, <2>1 DEF Chains!Distinct, Distinct
<1>7. \A s : Chains!Members(s) = Members(s)
  BY DEF Chains!Members, Members
<1>8. Chains!Distinct(<<>>) /\ Members(<<>>) = {}
  BY DEF Chains!Distinct, Members
<1>9. Chains!Disjoint
  <2>1. \A o \in Obj : Members(cChain[o]) \cap (Members(cDying) \cup cLost) = {}
    BY <1>3, <1>4, <1>8
  <2>2. Chains!Distinct(cDying) /\ Members(cDying) \cap cLost = {}
    BY <1>3, <1>8
  <2> HIDE DEF Members
  <2> QED BY <1>5, <1>6, <1>7, <2>1, <2>2, Mapping
          DEF MapsTo, Chains!Disjoint, mChain, mDying, mLost
<1>10. cLost \subseteq Clusters
  BY DEF cLost, LostOf
<1> QED BY <1>3, <1>4, <1>7, <1>9, <1>10, Mapping
        DEF MapsTo, Chains!Init, mChain, mDying, mLost

LEMMA CreateChains ==
    ASSUME IInv, IInv', NEW o \in Obj, CreateChain(o)
    PROVE  [Chains!Next]_(Chains!cvars)
<1> DEFINE n == NewCluster
<1>1. CASE CannotAllocate(n)
  <2>1. UNCHANGED <<fat, head, job>>
    BY <1>1 DEF CannotAllocate, Unchanged
  <2> QED BY <2>1, StutterIs
<1>2. CASE ~CannotAllocate(n)
  <2>1. /\ job = Idle /\ head[o] = 0 /\ Found(n)
        /\ fat' = [fat EXCEPT ![n] = EOC]
        /\ head' = [head EXCEPT ![o] = n]
        /\ job' = job
    BY <1>2 DEF CreateChain, Adopted
  <2>2. n \in Clusters /\ fat[n] = 0
    BY <2>1, NewClusterResult DEF IInv, Found, NoSpace
  <2> HIDE DEF n
  <2>3. Volume(fat, head, 0) /\ Volume(fat', head', 0) /\ job.cur = 0 /\ job'.cur = 0
    <3>1. job.cur = 0 /\ job'.cur = 0
      BY <2>1 DEF Idle
    <3> QED BY <3>1, IsVolume, VolumeNext
  <2>4. /\ ChainsOf(fat', head') = [ChainsOf(fat, head) EXCEPT ![o] = Append(@, n)]
        /\ LostOf(fat', head', 0) = LostOf(fat, head, 0)
    <3>1. Wrote(fat, n, EOC, fat') /\ Wrote(head, o, n, head')
      BY <2>1 DEF Wrote
    <3>2. head[o] = 0
      BY <2>1
    <3> QED BY <2>2, <2>3, <3>1, <3>2, CreatedGrows
  <2>5. cDying = <<>> /\ cDying' = cDying
    BY <2>3, NoChain DEF cDying
  <2>6. cChain' = [cChain EXCEPT ![o] = Append(@, n)] /\ cLost' = cLost
    BY <2>3, <2>4 DEF cChain, cLost
  <2>7. Unused(n)
    BY <2>2, FreeNow
  <2> QED BY <2>2, <2>5, <2>6, <2>7, GrowIs
<1> QED BY <1>1, <1>2

LEMMA StretchChains ==
    ASSUME IInv, IInv', NEW o \in Obj, NEW c \in Clusters, c \in OnChain(o), StretchChain(c)
    PROVE  [Chains!Next]_(Chains!cvars)
<1> DEFINE n == NextCluster(c)
<1>0. c \in Members(ChainOf(head[o], fat))
  BY DEF OnChain, Reached, Members, ChainOf
<1>1. CASE UNCHANGED <<fat, head, job>>
  BY <1>1, StutterIs
<1>2. CASE ~UNCHANGED <<fat, head, job>>
  <2>1. /\ job = Idle /\ fat[c] >= NFatEnt /\ Found(n)
        /\ head' = head /\ job' = job
        /\ \/ fat' = [fat EXCEPT ![n] = EOC, ![c] = n]
           \/ fat' = [fat EXCEPT ![n] = EOC]
    BY <1>2 DEF StretchChain, CannotAllocate, Unchanged
  <2>2. n \in Clusters /\ fat[n] = 0
    BY <2>1, NextClusterResult DEF IInv, Found, NoSpace
  <2> HIDE DEF n
  <2>3. Volume(fat, head, 0) /\ Volume(fat', head, 0) /\ job.cur = 0 /\ job'.cur = 0
    <3>1. job.cur = 0 /\ job'.cur = 0 /\ head' = head
      BY <2>1 DEF Idle
    <3> QED BY <3>1, IsVolume, VolumeNext
  <2>4. fat[c] \notin Clusters
    BY <2>1, NFatEntAssumption DEF Clusters
  <2>5. cDying = <<>> /\ cDying' = cDying
    BY <2>3, NoChain DEF cDying
  <2>6. Unused(n)
    BY <2>2, FreeNow
  <2>7. CASE fat' = [fat EXCEPT ![n] = EOC, ![c] = n]
    <3>1. /\ ChainsOf(fat', head) = [ChainsOf(fat, head) EXCEPT ![o] = Append(@, n)]
          /\ LostOf(fat', head, 0) = LostOf(fat, head, 0)
      <4>1. StretchedBy(c, n, fat, fat')
        BY <2>7 DEF StretchedBy
      <4> QED BY <1>0, <2>2, <2>3, <2>4, <4>1, StretchedGrows
    <3>2. cChain' = [cChain EXCEPT ![o] = Append(@, n)] /\ cLost' = cLost
      BY <2>1, <2>3, <3>1 DEF cChain, cLost
    <3> QED BY <2>2, <2>5, <2>6, <3>2, GrowIs
  <2>8. CASE fat' = [fat EXCEPT ![n] = EOC]
    <3>1. /\ ChainsOf(fat', head) = ChainsOf(fat, head)
          /\ LostOf(fat', head, 0) = LostOf(fat, head, 0) \cup {n}
      <4>1. Wrote(fat, n, EOC, fat')
        BY <2>8 DEF Wrote
      <4> QED BY <2>2, <2>3, <4>1, LostCluster
    <3>2. cChain' = cChain /\ cLost' = cLost \cup {n}
      BY <2>1, <2>3, <3>1 DEF cChain, cLost
    <3> QED BY <2>2, <2>5, <2>6, <3>2, LoseIs
  <2> QED BY <2>1, <2>7, <2>8
<1> QED BY <1>1, <1>2

LEMMA RemoveAllChains ==
    ASSUME IInv, IInv', NEW o \in Obj, RemoveAll(o)
    PROVE  [Chains!Next]_(Chains!cvars)
<1>1. /\ job = Idle /\ head[o] # 0 /\ fat' = fat
      /\ head' = [head EXCEPT ![o] = 0] /\ job'.cur = head[o]
  BY DEF RemoveAll, Disowned
<1>2. job.cur = 0
  BY <1>1 DEF Idle
<1>3. Volume(fat, head, 0) /\ Volume(fat, head', head[o])
  BY <1>1, <1>2, IsVolume, VolumeNext
<1>4. Wrote(head, o, 0, head')
  BY <1>1 DEF Wrote
<1>5. Takes(o, 0, fat, head, fat, head', head[o])
  BY <1>1, <1>3, <1>4, AllIsTaken
<1>6. /\ ChainsOf(fat, head') = [ChainsOf(fat, head) EXCEPT ![o] = SubSeq(@, 1, 0)]
      /\ LostOf(fat, head', head[o]) = LostOf(fat, head, 0)
  BY <1>3, <1>5, Taken
<1>7. cChain[o] = ChainOf(head[o], fat)
  BY DEF cChain, ChainsOf
<1>8. /\ 0 \in 0 .. Len(cChain[o]) - 1
      /\ cDying' = SubSeq(cChain[o], 0 + 1, Len(cChain[o]))
  BY <1>1, <1>5, <1>7 DEF Takes, cDying
<1>9. cDying = <<>>
  BY <1>2, NoChain DEF cDying
<1>10. cChain' = [cChain EXCEPT ![o] = SubSeq(@, 1, 0)] /\ cLost' = cLost
  BY <1>1, <1>2, <1>6 DEF cChain, cLost
<1> QED BY <1>8, <1>9, <1>10, CutIsStep

LEMMA RemoveRestChains ==
    ASSUME IInv, IInv', NEW o \in Obj, NEW c \in Clusters, c \in OnChain(o), RemoveRest(c)
    PROVE  [Chains!Next]_(Chains!cvars)
<1>0. c \in Members(ChainOf(head[o], fat))
  BY DEF OnChain, Reached, Members, ChainOf
<1>1. CASE UNCHANGED <<fat, head, job>>
  BY <1>1, StutterIs
<1>2. CASE ~UNCHANGED <<fat, head, job>>
  <2>1. /\ job = Idle /\ fat[c] \in Clusters /\ head' = head
        /\ fat' = [fat EXCEPT ![c] = EOC] /\ job'.cur = fat[c]
    BY <1>2 DEF RemoveRest, CutAfter, Unchanged
  <2>2. job.cur = 0
    BY <2>1 DEF Idle
  <2>3. Volume(fat, head, 0) /\ Volume(fat', head, fat[c])
    BY <2>1, <2>2, IsVolume, VolumeNext
  <2>4. Wrote(fat, c, EOC, fat')
    BY <2>1 DEF Wrote
  <2>5. PICK k \in 0 .. Len(ChainOf(head[o], fat)) - 1 :
           Takes(o, k, fat, head, fat', head, fat[c])
    BY <1>0, <2>1, <2>3, <2>4, RestIsTaken
  <2>6. /\ ChainsOf(fat', head) = [ChainsOf(fat, head) EXCEPT ![o] = SubSeq(@, 1, k)]
        /\ LostOf(fat', head, fat[c]) = LostOf(fat, head, 0)
    <3> DEFINE d == fat[c]
    <3>1. Volume(fat, head, 0) /\ Volume(fat', head, d) /\ Takes(o, k, fat, head, fat', head, d)
      BY <2>3, <2>5
    <3> HIDE DEF d
    <3>2. /\ ChainsOf(fat', head) = [ChainsOf(fat, head) EXCEPT ![o] = SubSeq(@, 1, k)]
          /\ LostOf(fat', head, d) = LostOf(fat, head, 0)
      BY <3>1, Taken
    <3> QED BY <3>2 DEF d
  <2>7. cChain[o] = ChainOf(head[o], fat)
    BY DEF cChain, ChainsOf
  <2>8. /\ k \in 0 .. Len(cChain[o]) - 1
        /\ cDying' = SubSeq(cChain[o], k + 1, Len(cChain[o]))
    BY <2>1, <2>5, <2>7 DEF Takes, cDying
  <2>9. cDying = <<>>
    BY <2>2, NoChain DEF cDying
  <2>10. cChain' = [cChain EXCEPT ![o] = SubSeq(@, 1, k)] /\ cLost' = cLost
    BY <2>1, <2>2, <2>6 DEF cChain, cLost
  <2> QED BY <2>8, <2>9, <2>10, CutIsStep
<1> QED BY <1>1, <1>2

LEMMA RemoveStepChains ==
    ASSUME IInv, IInv', RemoveStep
    PROVE  [Chains!Next]_(Chains!cvars)
<1> DEFINE c == job.cur
           d == IF fat[c] \in Clusters THEN fat[c] ELSE 0
<1>1. /\ c # 0 /\ fat[c] >= 2 /\ fat' = [fat EXCEPT ![c] = 0] /\ head' = head
      /\ \/ fat[c] < NFatEnt /\ job' = [job EXCEPT !.cur = fat[c]]
         \/ fat[c] >= NFatEnt /\ job' = Idle
  BY DEF RemoveStep, Freed, Finish
<1>2. c \in Clusters /\ fat[c] \in Entry /\ job \in [cur : {0} \cup Clusters, hint : 0 .. NFatEnt]
  BY <1>1 DEF IInv, TypeOK
<1>3. job'.cur = d
  <2>1. CASE fat[c] < NFatEnt
    <3>1. fat[c] \in Clusters
      BY <1>1, <1>2, <2>1, NFatEntAssumption DEF Clusters, Entry, EOC
    <3>2. job' = [job EXCEPT !.cur = fat[c]]
      BY <1>1, <1>2, <2>1, NFatEntAssumption DEF Clusters, Entry, EOC
    <3> QED BY <1>2, <3>1, <3>2
  <2>2. CASE ~(fat[c] < NFatEnt)
    <3>1. fat[c] \notin Clusters
      BY <2>2, NFatEntAssumption DEF Clusters
    <3>2. job' = Idle
      BY <1>1, <2>2
    <3> QED BY <3>1, <3>2 DEF Idle
  <2> QED BY <2>1, <2>2
<1>4. Volume(fat, head, c) /\ Volume(fat', head, d)
  BY <1>1, <1>3, IsVolume, VolumeNext
<1>5. Wrote(fat, c, 0, fat')
  BY <1>1 DEF Wrote
<1>6. /\ ChainsOf(fat', head) = ChainsOf(fat, head)
      /\ ChainOf(c, fat) # <<>>
      /\ ChainOf(d, fat') = Tail(ChainOf(c, fat))
      /\ LostOf(fat', head, d) = LostOf(fat, head, c)
  <2>1. d = IF fat[c] \in Clusters THEN fat[c] ELSE 0
    OBVIOUS
  <2>2. c # 0
    BY <1>1
  <2> HIDE DEF c, d
  <2> QED BY <2>1, <2>2, <1>4, <1>5, Released
<1>7. cDying # <<>> /\ cChain' = cChain /\ cDying' = Tail(cDying) /\ cLost' = cLost
  BY <1>1, <1>3, <1>6 DEF cDying, cChain, cLost
<1> QED BY <1>7, ReleaseIs

LEMMA RemoveFailChains ==
    ASSUME IInv, IInv', RemoveFail
    PROVE  [Chains!Next]_(Chains!cvars)
<1>1. job.cur # 0 /\ job' = Idle /\ fat' = fat /\ head' = head
  BY DEF RemoveFail
<1>2. job'.cur = 0
  BY <1>1 DEF Idle
<1>3. Volume(fat, head, job.cur)
  BY IsVolume
<1>4. /\ ChainOf(job.cur, fat) # <<>>
      /\ ChainOf(0, fat) = <<>>
      /\ LostOf(fat, head, 0)
            = LostOf(fat, head, job.cur) \cup Members(ChainOf(job.cur, fat))
  BY <1>1, <1>3, Abandoned
<1>5. /\ cDying # <<>> /\ cChain' = cChain /\ cDying' = <<>>
      /\ cLost' = cLost \cup Members(cDying)
  BY <1>1, <1>2, <1>4 DEF cDying, cChain, cLost
<1> QED BY <1>5, AbandonIs

(* On a sound volume a removal does not come upon a free cluster.          *)
LEMMA StepChains == IInv /\ IInv' /\ [Next]_vars => [Chains!Next]_(Chains!cvars)
<1> SUFFICES ASSUME IInv, IInv', [Next]_vars PROVE [Chains!Next]_(Chains!cvars)
  OBVIOUS
<1>1. CASE \E o \in Obj : CreateChain(o)
  BY <1>1, CreateChains
<1>2. CASE \E o \in Obj : RemoveAll(o)
  BY <1>2, RemoveAllChains
<1>3. CASE \E o \in Obj, c \in Clusters : c \in OnChain(o) /\ StretchChain(c)
  BY <1>3, StretchChains
<1>4. CASE \E o \in Obj, c \in Clusters : c \in OnChain(o) /\ RemoveRest(c)
  BY <1>4, RemoveRestChains
<1>5. CASE RemoveStep
  BY <1>5, RemoveStepChains
<1>6. CASE RemoveStop
  BY <1>6 DEF RemoveStop, IInv, NoDangling
<1>7. CASE RemoveFail
  BY <1>7, RemoveFailChains
<1>8. CASE f_getfree
  <2>1. UNCHANGED <<fat, head, job>>
    BY <1>8 DEF f_getfree, Unchanged
  <2> QED BY <2>1, StutterIs
<1>9. CASE UNCHANGED vars
  <2>1. UNCHANGED <<fat, head, job>>
    BY <1>9 DEF vars
  <2> QED BY <2>1, StutterIs
<1> QED BY <1>1, <1>2, <1>3, <1>4, <1>5, <1>6, <1>7, <1>8, <1>9 DEF Next

(* The linked lists of the FAT implement the sequences of ChainStore: an   *)
(* allocation or a removal never touches another object's chain, and what  *)
(* a removal frees is the rest of the chain it was called for, cluster by  *)
(* cluster, whichever transfer fails on the way.                           *)
THEOREM FatImplementsChains == Spec => ImplementsChains
<1>1. Init => Chains!Init
  BY InitChains
<1> QED BY <1>1, Invariance, StepChains, PTL DEF Spec, ImplementsChains, Chains!Spec
=============================================================================
