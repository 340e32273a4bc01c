-------------------------- MODULE DirectoryProofs --------------------------
(***************************************************************************)
(* The soundness of directory tables, for every size of table, sector and  *)
(* cluster and every set of names, and the proof that a table with its     *)
(* reader implements Listing.                                              *)
(*                                                                         *)
(* IInv adds to the invariants of Directory where a call has come to.  A   *)
(* search carries that the entries before it are not its target and not    *)
(* the end mark, an allocation that none before it is free; the end mark   *)
(* is followed by no name, so what the search did not meet is not there.   *)
(* The reader carries that what it owes lies ahead and what it delivered   *)
(* lies behind.  Both need that a position has one place on the disk and   *)
(* a place one position, which is the arithmetic of BasicLemmas and the    *)
(* induction along the cluster chain.                                      *)
(***************************************************************************)
EXTENDS Directory, BasicLemmas

(* The chain of the table is a list of clusters that are in use.           *)
ChainOK ==
    IF sclust = 0 THEN NRootDir > 0
    ELSE \A k \in Nat : NthCluster[k] \in Clusters =>
            /\ fat[NthCluster[k]] \in Clusters \cup {EOC}
            /\ \A j \in Nat : NthCluster[j] = NthCluster[k] => j = k

(* The table by positions: the ones it has, and for each its sector, its   *)
(* cluster and its entry.                                                  *)
BlockOf(p) == p \div (SS * CSize)
Extent == {p \in Nat : InTable(p)}
Where == [p \in Nat |-> PlaceOf(p)]
Block == [p \in Nat |-> IF sclust = 0 THEN 0 ELSE NthCluster[BlockOf(p)]]
Entries == [p \in Nat |-> EntryAt(p)]
Table == <<Extent, Where, Block, Entries>>

(* A DIR at an entry of the table, cluster included.                       *)
Here(dp) ==
    /\ dp \in Dirs
    /\ dp.dptr \in Extent
    /\ dp.sect = Where[dp.dptr]
    /\ dp.clust = Block[dp.dptr]

(* Records, where TypeOK looks at their fields.                            *)
JobType ==
    [op : Ops \cup {"none", "readdir"},
     pc : {"idle", "find", "find_new", "alloc", "remove", "read"},
     name : Name \cup {"none"}, new : Name \cup {"none"},
     dp : Dirs, old : Dirs]
LastType == [name : Name \cup {"none"}, res : Answers \cup {"none"}]
Records ==
    /\ rd \in [dptr : Position, sect : Nat, clust : {0} \cup Clusters]
    /\ job \in JobType
    /\ last \in LastType

(* What calls and readers rely on is in the table.                         *)
AllInside ==
    \A s \in Sector, i \in Index :
        \/ slot[s][i] \in {"end", "junk"}
        \/ \E p \in Position : p \in Extent /\ Where[p] = s /\ p % SS = i

(* After an end mark there is nothing, or what a cluster held before.      *)
BehindEnd ==
    \A p, q \in Position : p < q /\ Entries[p] = "end" =>
        Entries[q] = "end" \/ (garbled /\ Entries[q] = "junk")

OneEntry ==
    \A n \in Name \ twice : \A p, q \in Position :
        Entries[p] = n /\ Entries[q] = n =>
            p = q \/ (Renaming(n) /\ (p = job.dp.dptr \/ q = job.dp.dptr))

(* The name that dir_register is to write.                                 *)
Entering == IF job.op = "rename" THEN job.new ELSE job.name

Searching == {"find", "find_new"}
Working == {"find", "find_new", "alloc", "remove"}

Jobs ==
    /\ job.pc \in Working =>
          job.op \in Ops /\ job.name \in Name /\ Here(job.dp) /\ last.res = "none"
    /\ IF job.op = "rename" THEN job.new \in Name ELSE job.new = "none"
    /\ job.pc = "read" => job.op = "readdir"
    /\ job.pc = "find_new" => job.op = "rename"
    /\ job.pc = "alloc" => job.op \in {"create", "rename"}
    /\ job.pc = "remove" =>
          job.op \in {"unlink", "rename"} /\ Entries[job.dp.dptr] = job.name
    /\ job.op = "rename" /\ job.pc \in {"find_new", "alloc"} =>
          Here(job.old) /\ Entries[job.old.dptr] = job.name

(* The entries that the search and the allocation have passed.             *)
Passed ==
    /\ job.pc \in Searching => \A p \in Position :
          p < job.dp.dptr => Entries[p] \notin {"end", Target}
    /\ job.pc = "alloc" => \A p \in Position :
          p < job.dp.dptr => ~IsFree(Entries[p])
    /\ job.pc = "alloc" =>
          job.new = job.name \/ \A p \in Position : Entries[p] # Entering

(* A full table has no free entry.                                         *)
NoRoom ==
    last.res = "full" => \A p \in Position : p \in Extent => ~IsFree(Entries[p])

(* Where the reader is; an error leaves it off its sector at the end of a  *)
(* cluster, from where it finds back.                                      *)
OnTrack(dp) ==
    /\ dp.dptr \in Extent /\ dp.clust = Block[dp.dptr]
    /\ dp.sect = Where[dp.dptr] \/ AtClusterEnd(dp)
ReaderAt ==
    rd.sect # 0 => OnTrack(rd) /\ (scan # "failed" => rd.sect = Where[rd.dptr])

(* The reader will come to what it owes and has passed what it delivered.  *)
Quiet == scan # "on" => must = {} /\ seen = NotSeen
Ahead ==
    scan = "on" => \A n \in must : seen[n] = 0 =>
        rd.sect # 0 /\ \E p \in Position : p >= rd.dptr /\ Entries[p] = n
Behind ==
    scan = "on" /\ rd.sect # 0 => \A n \in Name \ twice : seen[n] # 0 =>
        \A p \in Position : Entries[p] = n => p < rd.dptr

IInv == /\ TypeOK /\ Records
        /\ ChainOK /\ AllInside
        /\ BehindEnd /\ OneEntry
        /\ Jobs /\ Passed
        /\ NoRoom
        /\ ReaderAt /\ Quiet /\ Ahead /\ Behind

-----------------------------------------------------------------------------
(* The chain of the table.                                                 *)

Value == {0, 1, EOC} \cup Clusters

Nth(a, f) ==
    CHOOSE g : g = [k \in Nat |->
        IF k = 0 THEN a
        ELSE LET c == g[k - 1] IN IF c \in Clusters THEN f[c] ELSE EOC]

LEMMA NthNow == NthCluster = Nth(sclust, fat)
BY DEF NthCluster, Nth

LEMMA NthNext == NthCluster' = Nth(sclust', fat')
BY DEF NthCluster, Nth

LEMMA NthResult ==
    ASSUME NEW f \in [Clusters -> Value], NEW a \in {0, 2}
    PROVE  /\ Nth(a, f) \in [Nat -> Value]
           /\ Nth(a, f)[0] = a
           /\ \A k \in Nat : Nth(a, f)[k + 1] =
                 IF Nth(a, f)[k] \in Clusters THEN f[Nth(a, f)[k]] ELSE EOC
<1> DEFINE S == [v \in Value |-> IF v \in Clusters THEN f[v] ELSE EOC]
<1>1. a \in Value /\ EOC \in Value
  BY SizeAssumption DEF Value, Clusters, EOC
<1>2. S \in [Value -> Value]
  BY <1>1
<1>3. PICK g : Run(Value, S, a, g)
  <2> HIDE DEF S
  <2> QED BY <1>1, <1>2, RunExists
<1>4. /\ g \in [Nat -> Value] /\ g[0] = a
      /\ \A k \in Nat : g[k + 1] = IF g[k] \in Clusters THEN f[g[k]] ELSE EOC
  BY <1>3 DEF Run
<1>5. ASSUME NEW k \in Nat
      PROVE  g[k] = IF k = 0 THEN a
                    ELSE LET c == g[k - 1] IN IF c \in Clusters THEN f[c] ELSE EOC
  <2>1. CASE k = 0
    BY <1>4, <2>1
  <2>2. CASE k # 0
    <3>1. k - 1 \in Nat /\ k - 1 + 1 = k
      BY <2>2
    <3> QED BY <1>4, <2>2, <3>1
  <2> QED BY <2>1, <2>2
<1>6. g = [k \in Nat |-> IF k = 0 THEN a
                         ELSE LET c == g[k - 1] IN IF c \in Clusters THEN f[c] ELSE EOC]
  BY <1>4, <1>5
<1>7. Nth(a, f) = [k \in Nat |-> IF k = 0 THEN a
                  ELSE LET c == Nth(a, f)[k - 1] IN IF c \in Clusters THEN f[c] ELSE EOC]
  BY <1>6 DEF Nth
<1> DEFINE h == Nth(a, f)
<1>8. /\ h[0] = a
      /\ \A k \in Nat : h[k + 1] = IF h[k] \in Clusters THEN f[h[k]] ELSE EOC
  <2> HIDE DEF h
  <2>1. h = [k \in Nat |-> IF k = 0 THEN a
                  ELSE LET c == h[k - 1] IN IF c \in Clusters THEN f[c] ELSE EOC]
    BY <1>7 DEF h
  <2>2. h[0] = a
    BY <2>1
  <2>3. ASSUME NEW k \in Nat
        PROVE  h[k + 1] = IF h[k] \in Clusters THEN f[h[k]] ELSE EOC
    <3>1. k + 1 \in Nat /\ k + 1 # 0 /\ k + 1 - 1 = k
      OBVIOUS
    <3>2. h[k + 1] = IF k + 1 = 0 THEN a
                  ELSE LET c == h[k + 1 - 1] IN IF c \in Clusters THEN f[c] ELSE EOC
      BY <2>1, <3>1
    <3> QED BY <3>1, <3>2
  <2> QED BY <2>2, <2>3
<1>9. h \in [Nat -> Value]
  <2> DEFINE E == {k \in Nat : h[k] \in Value}
  <2> HIDE DEF h
  <2>1. 0 \in E /\ \A k \in E : k + 1 \in E
    BY <1>1, <1>8
  <2>2. E = Nat
    BY <2>1, Induction
  <2>3. h = [k \in Nat |-> IF k = 0 THEN a
                  ELSE LET c == h[k - 1] IN IF c \in Clusters THEN f[c] ELSE EOC]
    BY <1>7 DEF h
  <2>4. \A k \in Nat : h[k] \in Value
    BY <2>2
  <2> DEFINE H(k) == IF k = 0 THEN a
                  ELSE LET c == h[k - 1] IN IF c \in Clusters THEN f[c] ELSE EOC
  <2>5. h = [k \in Nat |-> H(k)]
    BY <2>3
  <2> HIDE DEF H
  <2>6. \A k \in Nat : h[k] = H(k)
    BY <2>5
  <2> QED BY <2>4, <2>5, <2>6
<1> QED BY <1>8, <1>9

-----------------------------------------------------------------------------
(* Positions.                                                              *)

LEMMA Sizes == SS \in Nat \ {0} /\ CSize \in Nat \ {0} /\ SS * CSize \in Nat \ {0}
BY SizeAssumption, DivDiv

LEMMA PositionParts ==
    ASSUME NEW p \in Nat
    PROVE  /\ BlockOf(p) \in Nat /\ BlockOf(p) = (p \div SS) \div CSize
           /\ p \div SS \in Nat /\ p % SS \in Index
           /\ (p \div SS) % CSize \in 0 .. CSize - 1
           /\ p \div SS = CSize * BlockOf(p) + ((p \div SS) % CSize)
           /\ p = SS * (p \div SS) + (p % SS)
<1>1. p \div SS \in Nat /\ p % SS \in Index /\ p = SS * (p \div SS) + (p % SS)
  BY Sizes, DivMod DEF Index
<1>2. BlockOf(p) = (p \div SS) \div CSize
  BY Sizes, DivDiv DEF BlockOf
<1> QED BY <1>1, <1>2, Sizes, DivMod

LEMMA NextParts ==
    ASSUME NEW p \in Nat
    PROVE  IF (p + 1) % SS # 0
           THEN /\ (p + 1) \div SS = p \div SS
                /\ BlockOf(p + 1) = BlockOf(p)
                /\ (p + 1) % SS = (p % SS) + 1
           ELSE /\ (p + 1) \div SS = p \div SS + 1
                /\ IF ((p + 1) \div SS) % CSize # 0
                   THEN /\ BlockOf(p + 1) = BlockOf(p)
                        /\ ((p + 1) \div SS) % CSize = ((p \div SS) % CSize) + 1
                   ELSE BlockOf(p + 1) = BlockOf(p) + 1
<1>1. IF (p + 1) % SS = 0 THEN (p + 1) \div SS = p \div SS + 1
      ELSE (p + 1) \div SS = p \div SS /\ (p + 1) % SS = (p % SS) + 1
  BY Sizes, DivSucc
<1>2. p + 1 \in Nat
  OBVIOUS
<1>3. /\ BlockOf(p) = (p \div SS) \div CSize
      /\ BlockOf(p + 1) = ((p + 1) \div SS) \div CSize
      /\ p \div SS \in Nat
  BY <1>2, PositionParts
<1> DEFINE s == p \div SS
           t == (p + 1) \div SS
<1>4. IF (s + 1) % CSize = 0 THEN (s + 1) \div CSize = s \div CSize + 1
      ELSE /\ (s + 1) \div CSize = s \div CSize
           /\ (s + 1) % CSize = (s % CSize) + 1
  BY <1>3, Sizes, DivSucc
<1> QED BY <1>1, <1>3, <1>4

LEMMA BlockMono ==
    ASSUME NEW p \in Nat, NEW q \in Nat, p <= q
    PROVE  BlockOf(p) <= BlockOf(q)
BY Sizes, DivMono DEF BlockOf

LEMMA SectorUnique ==
    ASSUME NEW c \in Clusters, NEW d \in Clusters,
           NEW i \in 0 .. CSize - 1, NEW j \in 0 .. CSize - 1,
           clst2sect(c) + i = clst2sect(d) + j
    PROVE  c = d /\ i = j
<1>1. c - 2 \in Int /\ d - 2 \in Int /\ Database \in Int
  BY SizeAssumption, Sizes, DivMod DEF Clusters, Database, Dirbase
<1> DEFINE x == c - 2
           y == d - 2
<1>2. CSize * x + i = CSize * y + j /\ x \in Int /\ y \in Int
  BY <1>1, Sizes DEF clst2sect
<1> HIDE DEF x, y
<1>3. x = y /\ i = j
  BY <1>2, Sizes, DivUnique
<1> QED BY <1>3 DEF x, y, Clusters

LEMMA SectorRange ==
    ASSUME NEW c \in Clusters, NEW i \in 0 .. CSize - 1
    PROVE  clst2sect(c) + i \in Sector /\ clst2sect(c) + i >= Database
<1>1. Database \in Nat /\ Database >= 1 /\ Dirbase = 1
  BY SizeAssumption, Sizes, DivMod DEF Database, Dirbase
<1>2. c - 2 \in Nat /\ c - 2 + 1 <= NFatEnt - 2 /\ NFatEnt - 2 \in Nat
  BY SizeAssumption DEF Clusters
<1>3. (c - 2) * CSize \in Nat /\ (c - 2) * CSize + CSize <= (NFatEnt - 2) * CSize
  <2>1. (c - 2 + 1) * CSize <= (NFatEnt - 2) * CSize
    BY <1>2, Sizes
  <2> QED BY <1>2, <2>1, Sizes
<1> DEFINE x == (c - 2) * CSize
           y == (NFatEnt - 2) * CSize
<1>4. y \in Nat
  BY <1>2, Sizes
<1>5. clst2sect(c) = Database + x /\ clst2sect(NFatEnt) = Database + y
  BY DEF clst2sect
<1> HIDE DEF x, y
<1>6. x \in Nat /\ x + CSize <= y
  BY <1>3 DEF x, y
<1> QED BY <1>1, <1>4, <1>5, <1>6, Sizes DEF Sector

LEMMA SectorType ==
    ASSUME NEW c \in Clusters
    PROVE  clst2sect(c) \in Int
<1>1. Database \in Nat
  BY SizeAssumption, Sizes, DivMod DEF Database, Dirbase
<1>2. c - 2 \in Nat
  BY SizeAssumption DEF Clusters
<1>3. (c - 2) * CSize \in Nat
  BY <1>2, Sizes
<1> QED BY <1>1, <1>3 DEF clst2sect

LEMMA StaticRange ==
    ASSUME NEW p \in Nat, p < NRootDir
    PROVE  Dirbase + p \div SS \in Sector
<1>1. p \div SS \in Nat /\ NRootDir \in Nat /\ NRootDir % SS = 0
      /\ NRootDir \div SS \in Nat
  BY SizeAssumption, Sizes, DivMod
<1>2. p \div SS < NRootDir \div SS
  <2>1. NRootDir = SS * (NRootDir \div SS) + (NRootDir % SS)
    BY Sizes, SizeAssumption, DivMod
  <2>2. p = SS * (p \div SS) + (p % SS) /\ p % SS \in 0 .. SS - 1
    BY Sizes, DivMod
  <2> DEFINE a == p \div SS
             b == NRootDir \div SS
             r == p % SS
  <2>3. SS * a + r < SS * b /\ a \in Nat /\ b \in Nat /\ r \in Nat
    <3>1. NRootDir = SS * b
      BY <1>1, <2>1, Sizes
    <3>2. p = SS * a + r /\ r \in Nat /\ a \in Nat /\ b \in Nat
      BY <1>1, <2>2
    <3> HIDE DEF a, b, r
    <3> QED BY <3>1, <3>2
  <2> HIDE DEF a, b, r
  <2>4. CASE a >= b
    <3>1. SS * a >= SS * b
      BY <2>3, <2>4, Sizes
    <3> QED BY <2>3, <3>1, Sizes
  <2>5. CASE a < b
    BY <2>5 DEF a, b
  <2> QED BY <2>3, <2>4, <2>5
<1>3. clst2sect(NFatEnt) >= Database /\ clst2sect(NFatEnt) \in Int
  <2>1. (NFatEnt - 2) * CSize \in Nat
    BY SizeAssumption, Sizes
  <2> QED BY <1>1, <2>1 DEF clst2sect, Database, Dirbase
<1> QED BY <1>1, <1>2, <1>3 DEF Sector, Database, Dirbase

-----------------------------------------------------------------------------
(* The table by positions.                                                 *)

LEMMA ChainNow ==
    ASSUME TypeOK
    PROVE  /\ NthCluster \in [Nat -> Value]
           /\ NthCluster[0] = sclust
           /\ \A k \in Nat : NthCluster[k + 1] =
                 IF NthCluster[k] \in Clusters THEN fat[NthCluster[k]] ELSE EOC
BY NthNow, NthResult DEF TypeOK, Value

LEMMA NotClusters == 0 \notin Clusters /\ EOC \notin Clusters /\ 2 \in Clusters
BY SizeAssumption DEF Clusters, EOC

(* After its last cluster the chain stays ended.                           *)
LEMMA ChainEnds ==
    ASSUME TypeOK, NEW j \in Nat, NthCluster[j] \notin Clusters, NEW k \in Nat, j <= k
    PROVE  NthCluster[k] \notin Clusters
<1> DEFINE E == {i \in Nat : NthCluster[j + i] \notin Clusters}
<1>1. 0 \in E
  OBVIOUS
<1>2. ASSUME NEW i \in E PROVE i + 1 \in E
  <2>1. j + i \in Nat /\ j + (i + 1) = (j + i) + 1
    OBVIOUS
  <2> QED BY <2>1, ChainNow, NotClusters
<1>3. E = Nat
  BY <1>1, <1>2, Induction
<1>4. k - j \in E /\ j + (k - j) = k
  <2> HIDE DEF E
  <2> QED BY <1>3
<1> QED BY <1>4

(* A position has one place and a place one position.                      *)
LEMMA PlaceInTable ==
    ASSUME TypeOK, NEW p \in Extent
    PROVE  PlaceOf(p) \in Sector /\ p % SS \in Index /\ p \in Nat
<1>1. p \in Nat /\ InTable(p)
  BY DEF Extent
<1>2. p % SS \in Index /\ (p \div SS) % CSize \in 0 .. CSize - 1
  BY <1>1, PositionParts
<1>3. CASE sclust = 0
  BY <1>1, <1>2, <1>3, StaticRange DEF InTable, PlaceOf
<1>4. CASE sclust # 0
  BY <1>1, <1>2, <1>4, SectorRange DEF InTable, PlaceOf
<1> QED BY <1>1, <1>2, <1>3, <1>4

LEMMA PlacesDiffer ==
    ASSUME TypeOK, ChainOK, NEW p \in Extent, NEW q \in Extent,
           PlaceOf(p) = PlaceOf(q), p % SS = q % SS
    PROVE  p = q
<1>1. p \in Nat /\ q \in Nat /\ InTable(p) /\ InTable(q)
  BY DEF Extent
<1>2. /\ p = SS * (p \div SS) + (p % SS) /\ q = SS * (q \div SS) + (q % SS)
      /\ p \div SS \in Nat /\ q \div SS \in Nat
  BY <1>1, PositionParts
<1>3. p \div SS = q \div SS
  <2>1. CASE sclust = 0
    BY <1>2, <2>1 DEF PlaceOf, Dirbase
  <2>2. CASE sclust # 0
    <3>1. /\ NthCluster[BlockOf(p)] \in Clusters /\ NthCluster[BlockOf(q)] \in Clusters
          /\ clst2sect(NthCluster[BlockOf(p)]) + ((p \div SS) % CSize)
                = clst2sect(NthCluster[BlockOf(q)]) + ((q \div SS) % CSize)
      BY <1>1, <2>2 DEF PlaceOf, InTable, BlockOf
    <3>2. /\ BlockOf(p) \in Nat /\ BlockOf(q) \in Nat
          /\ (p \div SS) % CSize \in 0 .. CSize - 1
          /\ (q \div SS) % CSize \in 0 .. CSize - 1
          /\ p \div SS = CSize * BlockOf(p) + ((p \div SS) % CSize)
          /\ q \div SS = CSize * BlockOf(q) + ((q \div SS) % CSize)
      BY <1>1, PositionParts
    <3>3. /\ NthCluster[BlockOf(p)] = NthCluster[BlockOf(q)]
          /\ (p \div SS) % CSize = (q \div SS) % CSize
      BY <3>1, <3>2, SectorUnique
    <3>4. BlockOf(p) = BlockOf(q)
      BY <2>2, <3>1, <3>2, <3>3 DEF ChainOK
    <3> QED BY <3>2, <3>3, <3>4
  <2> QED BY <2>1, <2>2
<1> QED BY <1>2, <1>3

LEMMA TableFacts ==
    ASSUME TypeOK, ChainOK
    PROVE  /\ \A p \in Extent : /\ p \in Nat /\ p % SS \in Index
                                /\ Where[p] \in Sector
                                /\ Entries[p] = slot[Where[p]][p % SS]
           /\ \A p, q \in Extent : Where[p] = Where[q] /\ p % SS = q % SS => p = q
           /\ \A p \in Nat : /\ Entries[p] \in Mark \cup Name
                             /\ p \notin Extent => Entries[p] = "end"
           /\ \A p, q \in Nat : p <= q /\ q \in Extent => p \in Extent
<1>1. ASSUME NEW p \in Extent
      PROVE  /\ p \in Nat /\ p % SS \in Index
             /\ Where[p] \in Sector /\ Where[p] = PlaceOf(p)
             /\ Entries[p] = slot[Where[p]][p % SS]
  <2>1. p \in Nat /\ InTable(p)
    BY DEF Extent
  <2>2. Where[p] = PlaceOf(p) /\ Entries[p] = EntryAt(p)
    BY <2>1 DEF Where, Entries
  <2> QED BY <2>1, <2>2, PlaceInTable DEF EntryAt
<1>2. \A p, q \in Extent : Where[p] = Where[q] /\ p % SS = q % SS => p = q
  BY <1>1, PlacesDiffer
<1>3. ASSUME NEW p \in Nat
      PROVE  /\ Entries[p] \in Mark \cup Name
             /\ p \notin Extent => Entries[p] = "end"
  <2>1. CASE p \in Extent
    BY <1>1, <2>1 DEF TypeOK
  <2>2. CASE p \notin Extent
    BY <2>2 DEF Extent, Entries, EntryAt, Mark
  <2> QED BY <2>1, <2>2
<1>4. ASSUME NEW p \in Nat, NEW q \in Nat, p <= q, q \in Extent
      PROVE  p \in Extent
  <2>1. InTable(q)
    BY <1>4 DEF Extent
  <2>2. CASE sclust = 0
    BY <1>4, <2>1, <2>2, SizeAssumption DEF Extent, InTable
  <2>3. CASE sclust # 0
    <3>1. BlockOf(p) \in Nat /\ BlockOf(q) \in Nat /\ BlockOf(p) <= BlockOf(q)
      BY <1>4, PositionParts, BlockMono
    <3>2. NthCluster[BlockOf(q)] \in Clusters
      BY <2>1, <2>3 DEF InTable, BlockOf
    <3>3. NthCluster[BlockOf(p)] \in Clusters
      BY <3>1, <3>2, ChainEnds
    <3> QED BY <2>3, <3>3 DEF Extent, InTable, BlockOf
  <2> QED BY <2>2, <2>3
<1> QED BY <1>1, <1>2, <1>3, <1>4

-----------------------------------------------------------------------------
(* dir_next                                                                *)

Dp == [dptr : Position, sect : Nat, clust : {0} \cup Clusters]

(* It goes to the next position, or there is none, or it fails at the end  *)
(* of a cluster.                                                           *)
NextOk(dp, o) == o.res = "ok" /\ Here(o.dp) /\ o.dp.dptr = dp.dptr + 1
NextEnds(dp, o) ==
    /\ o.res \in {"no_file", "chain_end"} /\ o.dp = Disabled(dp)
    /\ \A p \in Position : p > dp.dptr => p \notin Extent
    /\ o.res = "chain_end" =>
          AtClusterEnd(dp) /\ fat[dp.clust] >= NFatEnt /\ dp.dptr + 1 \in Position
NextFails(dp, o) ==
    o.res \in {"disk_err", "int_err"} /\ o.dp = Derailed(dp) /\ AtClusterEnd(dp)

LEMMA PositionFacts == Position \subseteq Nat /\ \A p \in Position : p < MaxDir
BY SizeAssumption DEF Position

LEMMA NextEntry ==
    ASSUME TypeOK, ChainOK, NEW dp \in Dp, dp.sect # 0, OnTrack(dp),
           NEW o \in dir_next(dp)
    PROVE  NextOk(dp, o) \/ NextEnds(dp, o) \/ NextFails(dp, o)
<1> DEFINE p == dp.dptr
<1>1. p \in Position /\ p \in Nat /\ p < MaxDir /\ p + 1 \in Nat /\ InTable(p)
  BY PositionFacts DEF OnTrack, Extent, Dp
<1>2. /\ dp.clust = IF sclust = 0 THEN 0 ELSE NthCluster[BlockOf(p)]
      /\ dp.sect = PlaceOf(p) \/ AtClusterEnd(dp)
  BY <1>1 DEF OnTrack, Block, Where
<1>3. dp.clust # 0 <=> sclust # 0
  BY <1>1, <1>2, NotClusters DEF InTable, BlockOf
<1>4. BlockOf(p) \in Nat
  BY <1>1, PositionParts
<1>5. CASE AtTableEnd(dp)
  <2>1. o = [res |-> "no_file", dp |-> Disabled(dp)]
    BY <1>5 DEF dir_next
  <2>2. ASSUME NEW q \in Position, q > p PROVE q \notin Extent
    <3>1. q \in Nat /\ q < MaxDir /\ q >= p + 1
      BY <1>1, <2>2, PositionFacts
    <3>2. CASE p + 1 >= MaxDir
      BY <1>1, <3>1, <3>2, SizeAssumption
    <3>3. CASE dp.clust = 0 /\ p + 1 >= NRootDir
      <4>1. ~(q < NRootDir)
        BY <1>1, <3>1, <3>3, SizeAssumption
      <4> QED BY <1>3, <3>3, <4>1 DEF Extent, InTable
    <3> QED BY <1>5, <3>2, <3>3 DEF AtTableEnd
  <2> QED BY <2>1, <2>2 DEF NextEnds
<1>6. ASSUME ~AtTableEnd(dp)
      PROVE  p + 1 \in Position
  BY <1>1, <1>6, SizeAssumption DEF AtTableEnd, Position
<1>7. CASE ~AtTableEnd(dp) /\ AtClusterEnd(dp)
  <2>1. /\ (p + 1) % SS = 0 /\ ((p + 1) \div SS) % CSize = 0 /\ sclust # 0
    BY <1>3, <1>7 DEF AtClusterEnd, AtSectorEnd
  <2>2. BlockOf(p + 1) = BlockOf(p) + 1
    BY <1>1, <2>1, NextParts
  <2>3. dp.clust \in Clusters /\ dp.clust = NthCluster[BlockOf(p)]
    BY <1>1, <1>2, <2>1 DEF InTable, BlockOf
  <2>4. NthCluster[BlockOf(p + 1)] = fat[dp.clust]
    BY <1>4, <2>2, <2>3, ChainNow
  <2>5. fat[dp.clust] \in Value
    BY <2>3 DEF TypeOK, Value
  <2>6. \/ o = [res |-> "disk_err", dp |-> Derailed(dp)]
        \/ o = [res |-> "int_err", dp |-> Derailed(dp)]
        \/ /\ fat[dp.clust] >= NFatEnt
           /\ o = [res |-> "chain_end", dp |-> Disabled(dp)]
        \/ /\ ~(fat[dp.clust] < 2) /\ ~(fat[dp.clust] >= NFatEnt)
           /\ o = [res |-> "ok", dp |-> InCluster(dp, fat[dp.clust])]
    BY <1>7, Zenon DEF dir_next, EndOfChain
  <2>7. CASE \/ o = [res |-> "disk_err", dp |-> Derailed(dp)]
             \/ o = [res |-> "int_err", dp |-> Derailed(dp)]
    BY <1>7, <2>7 DEF NextFails
  <2>8. CASE /\ fat[dp.clust] >= NFatEnt
             /\ o = [res |-> "chain_end", dp |-> Disabled(dp)]
    <3>1. fat[dp.clust] \notin Clusters
      BY <2>8, SizeAssumption DEF Clusters
    <3>2. p + 1 \notin Extent
      BY <2>1, <2>4, <3>1 DEF Extent, InTable, BlockOf
    <3>3. \A q \in Position : q > p => q \notin Extent
      BY <1>1, <3>2, TableFacts, PositionFacts
    <3> QED BY <1>6, <1>7, <2>8, <3>3 DEF NextEnds
  <2>9. CASE /\ ~(fat[dp.clust] < 2) /\ ~(fat[dp.clust] >= NFatEnt)
             /\ o = [res |-> "ok", dp |-> InCluster(dp, fat[dp.clust])]
    <3>1. fat[dp.clust] \in Clusters
      BY <2>5, <2>9, SizeAssumption DEF Value, Clusters, EOC
    <3>2. p + 1 \in Extent
      BY <1>1, <2>1, <2>4, <3>1 DEF Extent, InTable, BlockOf
    <3>3. /\ Where[p + 1] = PlaceOf(p + 1)
          /\ Block[p + 1] = fat[dp.clust]
      BY <1>1, <2>1, <2>4 DEF Where, Block
    <3>4. clst2sect(fat[dp.clust]) \in Sector
          /\ clst2sect(fat[dp.clust]) + 0 = clst2sect(fat[dp.clust])
      <4>1. 0 \in 0 .. CSize - 1
        BY Sizes
      <4>2. clst2sect(fat[dp.clust]) + 0 \in Sector
        BY <3>1, <4>1, SectorRange
      <4> QED BY <3>1, <4>2, SectorType
    <3>5. PlaceOf(p + 1) = clst2sect(fat[dp.clust])
      BY <2>1, <2>4, <3>4 DEF PlaceOf, BlockOf
    <3>6. o.dp = [dptr |-> p + 1, clust |-> fat[dp.clust],
                  sect |-> clst2sect(fat[dp.clust])]
      BY <2>9 DEF InCluster
    <3>7. o.dp \in Dirs
      BY <1>6, <1>7, <3>1, <3>4, <3>6 DEF Dirs
    <3> QED BY <2>9, <3>2, <3>3, <3>5, <3>6, <3>7 DEF NextOk, Here
  <2> QED BY <2>6, <2>7, <2>8, <2>9
<1>8. CASE ~AtTableEnd(dp) /\ ~AtClusterEnd(dp)
  <2>1. /\ o.res = "ok"
        /\ o.dp = IF AtSectorEnd(dp) THEN InNextSector(dp) ELSE InSector(dp)
    BY <1>8 DEF dir_next
  <2>2. dp.sect = PlaceOf(p)
    BY <1>2, <1>8
  <2>3. /\ o.dp = [dptr |-> p + 1, sect |-> o.dp.sect, clust |-> dp.clust]
        /\ o.dp.sect = IF (p + 1) % SS = 0 THEN dp.sect + 1 ELSE dp.sect
    BY <2>1 DEF AtSectorEnd, InNextSector, InSector, Dp
  <2>4. p \div SS \in Nat
    BY <1>1, PositionParts
  <2>5. /\ p + 1 \in Extent /\ o.dp.sect = PlaceOf(p + 1)
        /\ dp.clust = Block[p + 1]
    <3>1. CASE sclust = 0
      <4>1. p < NRootDir
        BY <1>1, <3>1 DEF InTable
      <4>2. CASE (p + 1) % SS = 0
        <5>1. p + 1 < NRootDir
          BY <1>1, <1>3, <1>8, <3>1, <4>2, SizeAssumption DEF AtTableEnd, AtSectorEnd
        <5>2. (p + 1) \div SS = p \div SS + 1
          BY <1>1, <4>2, NextParts
        <5> QED BY <1>1, <1>3, <2>2, <2>3, <2>4, <3>1, <4>2, <5>1, <5>2
                DEF Extent, InTable, PlaceOf, Dirbase, Block
      <4>3. CASE (p + 1) % SS # 0
        <5>1. p + 1 < NRootDir
          BY <1>1, <4>1, <4>3, SizeAssumption
        <5>2. (p + 1) \div SS = p \div SS
          BY <1>1, <4>3, NextParts
        <5> QED BY <1>1, <1>3, <2>2, <2>3, <2>4, <3>1, <4>3, <5>1, <5>2
                DEF Extent, InTable, PlaceOf, Dirbase, Block
      <4> QED BY <4>2, <4>3
    <3>2. CASE sclust # 0
      <4> DEFINE b == BlockOf(p)
                 j == (p \div SS) % CSize
      <4>1. /\ BlockOf(p + 1) = b
            /\ IF (p + 1) % SS = 0
               THEN ((p + 1) \div SS) % CSize = j + 1
               ELSE ((p + 1) \div SS) % CSize = j
        <5>1. CASE (p + 1) % SS # 0
          BY <1>1, <5>1, NextParts
        <5>2. CASE (p + 1) % SS = 0
          <6>1. ((p + 1) \div SS) % CSize # 0
            BY <1>3, <1>8, <3>2, <5>2 DEF AtClusterEnd, AtSectorEnd
          <6> QED BY <1>1, <5>2, <6>1, NextParts
        <5> QED BY <5>1, <5>2
      <4>2. NthCluster[b] \in Clusters /\ dp.clust = NthCluster[b]
        BY <1>1, <1>2, <3>2 DEF InTable, BlockOf
      <4>3. p + 1 \in Extent /\ dp.clust = Block[p + 1]
        BY <1>1, <3>2, <4>1, <4>2 DEF Extent, InTable, BlockOf, Block
      <4>4. /\ PlaceOf(p) = clst2sect(NthCluster[b]) + j
            /\ PlaceOf(p + 1) = clst2sect(NthCluster[b]) + (((p + 1) \div SS) % CSize)
        BY <3>2, <4>1 DEF PlaceOf, BlockOf
      <4>5. j \in Int /\ clst2sect(NthCluster[b]) \in Int
        <5>1. j \in Int
          BY <1>1, PositionParts
        <5> QED BY <4>2, <5>1, SectorType
      <4> HIDE DEF b, j
      <4> QED BY <2>2, <2>3, <4>1, <4>3, <4>4, <4>5
    <3> QED BY <3>1, <3>2
  <2>6. o.dp.sect = Where[p + 1] /\ o.dp.sect \in Sector
    BY <1>1, <2>5, PlaceInTable DEF Where
  <2>7. o.dp \in Dirs /\ o.dp.dptr = p + 1 /\ o.dp.clust = dp.clust
    BY <1>6, <1>8, <2>3, <2>6 DEF Dirs, Dp
  <2> QED BY <2>1, <2>5, <2>6, <2>7 DEF NextOk, Here
<1> QED BY <1>5, <1>7, <1>8

-----------------------------------------------------------------------------
(* What writes do to the table.                                            *)

LEMMA SameChain ==
    ASSUME NthCluster' = NthCluster, sclust' = sclust
    PROVE  Extent' = Extent /\ Where' = Where /\ Block' = Block
BY DEF Extent, Where, Block, InTable, PlaceOf, BlockOf

LEMMA SameTable ==
    ASSUME UNCHANGED <<sclust, slot, fat>>
    PROVE  UNCHANGED <<NthCluster, Extent, Where, Block, Entries>>
<1>1. NthCluster' = NthCluster
  BY NthNow, NthNext
<1>2. \A p \in Nat : EntryAt(p)' = EntryAt(p)
  BY <1>1 DEF EntryAt, InTable, PlaceOf
<1> QED BY <1>1, <1>2, SameChain DEF Entries

(* dir_register and dir_remove write one entry.                            *)
Writes(p, e) ==
    /\ slot' = [slot EXCEPT ![Where[p]][p % SS] = e]
    /\ UNCHANGED <<sclust, fat>>

LEMMA WriteEntry ==
    ASSUME TypeOK, ChainOK, NEW p \in Extent, NEW e, Writes(p, e)
    PROVE  /\ UNCHANGED <<NthCluster, Extent, Where, Block>>
           /\ Entries' = [Entries EXCEPT ![p] = e]
           /\ \A s \in Sector, i \in Index :
                 slot'[s][i] = IF s = Where[p] /\ i = p % SS THEN e ELSE slot[s][i]
<1>0. slot' = [slot EXCEPT ![Where[p]][p % SS] = e] /\ UNCHANGED <<sclust, fat>>
  BY DEF Writes
<1>1. UNCHANGED <<NthCluster, Extent, Where, Block>>
  BY <1>0, NthNow, NthNext, SameChain
<1>2. /\ p \in Nat /\ p % SS \in Index /\ Where[p] \in Sector
      /\ slot \in [Sector -> [Index -> Mark \cup Name]]
  BY TableFacts DEF TypeOK
<1>3. \A s \in Sector, i \in Index :
         slot'[s][i] = IF s = Where[p] /\ i = p % SS THEN e ELSE slot[s][i]
  BY <1>0, <1>2
<1>4. ASSUME NEW q \in Nat PROVE EntryAt(q)' = IF q = p THEN e ELSE EntryAt(q)
  <2>1. CASE q \in Extent
    <3>1. /\ InTable(q) /\ InTable(q)' /\ PlaceOf(q) = Where[q]
          /\ PlaceOf(q)' = Where[q]
      BY <1>0, <1>1, <2>1 DEF Extent, Where
    <3>2. EntryAt(q)' = slot'[Where[q]][q % SS] /\ EntryAt(q) = slot[Where[q]][q % SS]
      BY <1>0, <3>1 DEF EntryAt, InTable, PlaceOf
    <3>3. Where[q] \in Sector /\ q % SS \in Index
          /\ (Where[q] = Where[p] /\ q % SS = p % SS => q = p)
      BY <2>1, TableFacts
    <3> QED BY <1>3, <3>2, <3>3
  <2>2. CASE q \notin Extent
    <3>1. ~InTable(q) /\ ~InTable(q)' /\ q # p
      BY <1>0, <1>1, <2>2 DEF Extent
    <3> QED BY <1>0, <3>1 DEF EntryAt, InTable
  <2> QED BY <2>1, <2>2
<1>5. Entries' = [Entries EXCEPT ![p] = e]
  BY <1>2, <1>4 DEF Entries
<1> QED BY <1>1, <1>3, <1>5

(* A chain whose entries stay is the same chain.                           *)
LEMMA ChainNext ==
    ASSUME sclust' \in {0, 2}, fat' \in [Clusters -> Value]
    PROVE  /\ NthCluster' \in [Nat -> Value]
           /\ NthCluster'[0] = sclust'
           /\ \A k \in Nat : NthCluster'[k + 1] =
                 IF NthCluster'[k] \in Clusters THEN fat'[NthCluster'[k]] ELSE EOC
BY NthNext, NthResult

LEMMA ChainKept ==
    ASSUME TypeOK, sclust' = sclust, fat' \in [Clusters -> Value],
           \A k \in Nat : NthCluster[k] \in Clusters =>
              fat'[NthCluster[k]] = fat[NthCluster[k]]
    PROVE  NthCluster' = NthCluster
<1>1. sclust' \in {0, 2}
  BY DEF TypeOK
<1> DEFINE E == {k \in Nat : NthCluster'[k] = NthCluster[k]}
<1>2. 0 \in E
  BY <1>1, ChainNow, ChainNext
<1>3. ASSUME NEW k \in E PROVE k + 1 \in E
  BY <1>1, ChainNow, ChainNext
<1>4. E = Nat
  BY <1>2, <1>3, Induction
<1>5. NthCluster' \in [Nat -> Value] /\ NthCluster \in [Nat -> Value]
  BY <1>1, ChainNow, ChainNext
<1>6. \A k \in Nat : NthCluster'[k] = NthCluster[k]
  BY <1>4
<1> QED BY <1>5, <1>6

(* Allocating a cluster without linking it.                                *)
LEMMA LostCluster ==
    ASSUME TypeOK, ChainOK, UNCHANGED <<sclust, slot>>,
           NEW c \in Clusters, fat[c] = 0, fat' = [fat EXCEPT ![c] = EOC]
    PROVE  UNCHANGED <<NthCluster, Extent, Where, Block, Entries>> /\ ChainOK'
<1>1. fat' \in [Clusters -> Value] /\ fat \in [Clusters -> Value]
  BY DEF TypeOK, Value
<1>2. ASSUME NEW k \in Nat, NthCluster[k] \in Clusters
      PROVE  fat'[NthCluster[k]] = fat[NthCluster[k]]
  <2>1. CASE sclust = 0
    <3>1. NthCluster[0] \notin Clusters
      BY <2>1, ChainNow, NotClusters
    <3> QED BY <1>2, <3>1, ChainEnds
  <2>2. CASE sclust # 0
    BY <1>1, <1>2, <2>2, NotClusters, SizeAssumption DEF ChainOK, EOC
  <2> QED BY <2>1, <2>2
<1>3. NthCluster' = NthCluster
  BY <1>1, <1>2, ChainKept
<1>4. \A p \in Nat : EntryAt(p)' = EntryAt(p)
  BY <1>3 DEF EntryAt, InTable, PlaceOf
<1>5. ChainOK'
  BY <1>2, <1>3 DEF ChainOK
<1> QED BY <1>3, <1>4, <1>5, SameChain DEF Entries

(* Linking a free cluster to the last one.                                 *)
LEMMA LinkedChain ==
    ASSUME TypeOK, ChainOK, sclust # 0, sclust' = sclust,
           NEW b \in Nat, NthCluster[b] \in Clusters, fat[NthCluster[b]] = EOC,
           NEW c \in Clusters, fat[c] = 0,
           fat' = [fat EXCEPT ![c] = EOC, ![NthCluster[b]] = c]
    PROVE  /\ \A k \in Nat : NthCluster'[k] = IF k <= b THEN NthCluster[k]
                                              ELSE IF k = b + 1 THEN c ELSE EOC
           /\ \A k \in Nat : NthCluster[k] # c
           /\ \A k \in Nat : k > b => NthCluster[k] \notin Clusters
           /\ ChainOK'
<1> DEFINE N(k) == IF k <= b THEN NthCluster[k] ELSE IF k = b + 1 THEN c ELSE EOC
           E == {k \in Nat : NthCluster'[k] = N(k)}
           l == NthCluster[b]
<1>1. fat' \in [Clusters -> Value] /\ fat \in [Clusters -> Value] /\ sclust' \in {0, 2}
  BY DEF TypeOK, Value
<1>2. 0 # EOC /\ EOC \notin Clusters
  BY SizeAssumption, NotClusters DEF EOC
<1>3. /\ l # c /\ fat'[l] = c /\ fat'[c] = EOC
      /\ \A d \in Clusters : d # l /\ d # c => fat'[d] = fat[d]
  BY <1>1, <1>2
<1>4. \A k \in Nat : NthCluster[k] # c
  BY <1>2, NotClusters DEF ChainOK
<1>5. ASSUME NEW k \in Nat, k > b PROVE NthCluster[k] \notin Clusters
  <2>1. NthCluster[b + 1] \notin Clusters
    BY <1>2, ChainNow
  <2> QED BY <1>5, <2>1, ChainEnds
<1>6. \A k \in Nat : NthCluster[k] \in Clusters /\ NthCluster[k] = l => k = b
  BY DEF ChainOK
<1>7. 0 \in E
  BY <1>1, ChainNow, ChainNext
<1>8. ASSUME NEW k \in E PROVE k + 1 \in E
  <2>1. /\ k \in Nat /\ NthCluster'[k] = N(k)
        /\ NthCluster'[k + 1] = IF N(k) \in Clusters THEN fat'[N(k)] ELSE EOC
    BY <1>1, ChainNext
  <2>2. CASE k < b
    <3>1. N(k) = NthCluster[k] /\ N(k + 1) = NthCluster[k + 1]
      BY <2>2
    <3>2. ASSUME NthCluster[k] \in Clusters
          PROVE  fat'[NthCluster[k]] = fat[NthCluster[k]]
      <4>1. NthCluster[k] # c /\ NthCluster[k] # l
        BY <1>4, <1>6, <2>1, <2>2, <3>2
      <4> HIDE DEF l
      <4> QED BY <1>3, <3>2, <4>1
    <3> HIDE DEF N
    <3> QED BY <2>1, <3>1, <3>2, ChainNow
  <2>3. CASE k = b
    BY <1>3, <2>1, <2>3
  <2>4. CASE k = b + 1
    BY <1>3, <2>1, <2>4
  <2>5. CASE k > b + 1
    BY <1>2, <2>1, <2>5
  <2> QED BY <2>1, <2>2, <2>3, <2>4, <2>5
<1>9. E = Nat
  <2> HIDE DEF E
  <2>1. E \in SUBSET Nat
    BY DEF E
  <2> QED BY <1>7, <1>8, <2>1, Induction
<1>10. \A k \in Nat : NthCluster'[k] = N(k)
  BY <1>9
<1>11. ASSUME NEW k \in Nat, N(k) \in Clusters
       PROVE  /\ fat'[N(k)] \in Clusters \cup {EOC}
              /\ \A j \in Nat : N(j) = N(k) => j = k
  <2>1. CASE k <= b
    <3>1. N(k) = NthCluster[k] /\ NthCluster[k] \in Clusters
      BY <1>11, <2>1
    <3>2. fat[NthCluster[k]] \in Clusters \cup {EOC}
          /\ \A j \in Nat : NthCluster[j] = NthCluster[k] => j = k
      BY <3>1 DEF ChainOK
    <3>3. fat'[N(k)] \in Clusters \cup {EOC}
      BY <1>3, <1>4, <3>1, <3>2
    <3>4. ASSUME NEW j \in Nat, N(j) = N(k) PROVE j = k
      BY <1>2, <1>4, <3>1, <3>2, <3>4
    <3> QED BY <3>3, <3>4
  <2>2. CASE k = b + 1
    <3>1. N(k) = c
      BY <2>2
    <3>2. ASSUME NEW j \in Nat, N(j) = c PROVE j = k
      BY <1>2, <1>4, <2>2, <3>2
    <3> QED BY <1>3, <3>1, <3>2
  <2>3. CASE k > b + 1
    BY <1>2, <1>11, <2>3
  <2> QED BY <2>1, <2>2, <2>3
<1>12. ChainOK'
  <2> HIDE DEF N
  <2>1. ASSUME NEW k \in Nat, NthCluster'[k] \in Clusters
        PROVE  /\ fat'[NthCluster'[k]] \in Clusters \cup {EOC}
               /\ \A j \in Nat : NthCluster'[j] = NthCluster'[k] => j = k
    <3>1. NthCluster'[k] = N(k) /\ N(k) \in Clusters
      BY <1>10, <2>1
    <3>2. /\ fat'[N(k)] \in Clusters \cup {EOC}
          /\ \A j \in Nat : N(j) = N(k) => j = k
      BY <1>11, <3>1
    <3>3. \A j \in Nat : NthCluster'[j] = N(k) => j = k
      BY <1>10, <3>2
    <3> QED BY <3>1, <3>2, <3>3
  <2> QED BY <2>1 DEF ChainOK
<1> QED BY <1>4, <1>5, <1>10, <1>12

(* The table with a further cluster, of which dir_clear has cleared the    *)
(* first m sectors.                                                        *)
Links(dp, c, m) ==
    /\ sclust' = sclust
    /\ AtClusterEnd(dp) /\ fat[dp.clust] >= NFatEnt /\ dp.dptr + 1 \in Position
    /\ fat[c] = 0
    /\ fat' = [fat EXCEPT ![c] = EOC, ![dp.clust] = c]
    /\ slot' = ClearedTo(c, m)

LEMMA StretchTable ==
    ASSUME TypeOK, ChainOK, AllInside,
           NEW dp, Here(dp), NEW c \in Clusters, NEW m \in 0 .. CSize, Links(dp, c, m)
    PROVE  /\ ChainOK'
           /\ \A p \in Extent : /\ p \in Extent'
                                /\ Where'[p] = Where[p] /\ Block'[p] = Block[p]
                                /\ Entries'[p] = Entries[p]
           /\ \A p \in Nat : p \notin Extent /\ p \in Extent' =>
                 /\ p > dp.dptr
                 /\ Entries'[p] \in {"end", "junk"}
                 /\ m = CSize => Entries'[p] = "end"
           /\ \A p \in Nat : p \notin Extent' => Entries'[p] = "end"
           /\ LET nx == InCluster(dp, c)
              IN /\ nx \in Dirs /\ nx.dptr = dp.dptr + 1 /\ nx.dptr \in Extent'
                 /\ nx.sect = Where'[nx.dptr] /\ nx.clust = Block'[nx.dptr]
           /\ \A s \in Sector, i \in Index : slot'[s][i] \in {"end", slot[s][i]}
<1> DEFINE p == dp.dptr
           b == BlockOf(p)
<1>0. /\ sclust' = sclust
      /\ AtClusterEnd(dp) /\ fat[dp.clust] >= NFatEnt /\ dp.dptr + 1 \in Position
      /\ fat[c] = 0
      /\ fat' = [fat EXCEPT ![c] = EOC, ![dp.clust] = c]
      /\ slot' = ClearedTo(c, m)
  BY DEF Links
<1>1. /\ p \in Nat /\ p \in Extent /\ InTable(p) /\ b \in Nat
      /\ dp.clust # 0 /\ dp.clust = Block[p]
      /\ (p + 1) % SS = 0 /\ ((p + 1) \div SS) % CSize = 0
  BY <1>0, PositionParts DEF Here, AtClusterEnd, AtSectorEnd, Extent
<1>2. sclust # 0 /\ dp.clust = NthCluster[b] /\ NthCluster[b] \in Clusters
  BY <1>1 DEF Block, InTable, BlockOf
<1>3. fat[dp.clust] = EOC
  <2>1. dp.clust \in Clusters /\ fat \in [Clusters -> {0, 1, EOC} \cup Clusters]
    BY <1>2 DEF TypeOK
  <2>2. fat[dp.clust] \in {0, 1, EOC} \cup Clusters
    BY <2>1
  <2> QED BY <1>0, <2>2, SizeAssumption DEF Clusters, EOC
<1>4. /\ \A k \in Nat : NthCluster'[k] = IF k <= b THEN NthCluster[k]
                                         ELSE IF k = b + 1 THEN c ELSE EOC
      /\ \A k \in Nat : NthCluster[k] # c
      /\ \A k \in Nat : k > b => NthCluster[k] \notin Clusters
      /\ ChainOK'
  BY <1>0, <1>1, <1>2, <1>3, LinkedChain
<1>5. /\ slot \in [Sector -> [Index -> Mark \cup Name]]
      /\ slot' = [s \in Sector |-> IF s \in clst2sect(c) .. clst2sect(c) + m - 1
                                   THEN [i \in Index |-> "end"] ELSE slot[s]]
      /\ clst2sect(c) \in Int
  BY <1>0, SectorType DEF TypeOK, ClearedTo
<1>6. \A s \in Sector, i \in Index :
         slot'[s][i] = IF s \in clst2sect(c) .. clst2sect(c) + m - 1
                       THEN "end" ELSE slot[s][i]
  BY <1>5
<1> HIDE DEF b
(* The clusters it had.                                                    *)
<1>7. ASSUME NEW q \in Extent
      PROVE  /\ q \in Extent' /\ q \in Nat
             /\ Where'[q] = Where[q] /\ Block'[q] = Block[q]
             /\ Entries'[q] = Entries[q]
             /\ NthCluster[BlockOf(q)] \in Clusters
             /\ Where[q] = clst2sect(NthCluster[BlockOf(q)]) + ((q \div SS) % CSize)
             /\ (q \div SS) % CSize \in 0 .. CSize - 1
  <2>1. /\ q \in Nat /\ InTable(q) /\ BlockOf(q) \in Nat
        /\ (q \div SS) % CSize \in 0 .. CSize - 1 /\ q % SS \in Index
    BY PositionParts DEF Extent
  <2>2. NthCluster[BlockOf(q)] \in Clusters /\ BlockOf(q) <= b
    BY <1>1, <1>2, <1>4, <2>1 DEF InTable, BlockOf
  <2>3. NthCluster'[BlockOf(q)] = NthCluster[BlockOf(q)]
    BY <1>4, <2>1, <2>2
  <2>4. InTable(q)' /\ PlaceOf(q)' = PlaceOf(q)
    BY <1>0, <1>2, <2>2, <2>3 DEF InTable, PlaceOf, BlockOf
  <2>5. PlaceOf(q) = clst2sect(NthCluster[BlockOf(q)]) + ((q \div SS) % CSize)
    BY <1>2 DEF PlaceOf, BlockOf
  <2>6. q \in Extent' /\ Where'[q] = PlaceOf(q) /\ Where[q] = PlaceOf(q)
    BY <1>0, <2>1, <2>4 DEF Extent, Where
  <2>7. Block'[q] = Block[q]
    BY <1>0, <2>1, <2>3 DEF Block, BlockOf
  <2>8. PlaceOf(q) \in Sector
    BY PlaceInTable
  <2>9. PlaceOf(q) \notin clst2sect(c) .. clst2sect(c) + m - 1
    <3> SUFFICES ASSUME PlaceOf(q) \in clst2sect(c) .. clst2sect(c) + m - 1
                 PROVE  FALSE
      OBVIOUS
    <3> DEFINE x == PlaceOf(q) - clst2sect(c)
    <3>1. x \in 0 .. CSize - 1 /\ PlaceOf(q) = clst2sect(c) + x
      BY <1>5, Sizes
    <3> HIDE DEF x
    <3>2. NthCluster[BlockOf(q)] = c
      BY <2>1, <2>2, <2>5, <3>1, SectorUnique
    <3> QED BY <1>4, <2>1, <3>2
  <2>10. EntryAt(q)' = slot'[PlaceOf(q)][q % SS] /\ EntryAt(q) = slot[PlaceOf(q)][q % SS]
    BY <1>0, <2>1, <2>4 DEF EntryAt, InTable, PlaceOf
  <2>11. EntryAt(q)' = EntryAt(q)
    BY <1>6, <2>1, <2>8, <2>9, <2>10
  <2>12. Entries'[q] = Entries[q]
    BY <1>0, <2>1, <2>11 DEF Entries
  <2> QED BY <2>1, <2>2, <2>5, <2>6, <2>7, <2>12
(* The new cluster.                                                        *)
<1>8. ASSUME NEW q \in Nat, q \notin Extent, q \in Extent'
      PROVE  /\ q > p
             /\ Entries'[q] \in {"end", "junk"}
             /\ m = CSize => Entries'[q] = "end"
  <2> DEFINE j == (q \div SS) % CSize
  <2>1. /\ BlockOf(q) \in Nat /\ j \in 0 .. CSize - 1 /\ q % SS \in Index
    BY PositionParts
  <2>2. NthCluster[BlockOf(q)] \notin Clusters /\ NthCluster'[BlockOf(q)] \in Clusters
    BY <1>0, <1>2, <1>8 DEF Extent, InTable, BlockOf
  <2>3. BlockOf(q) = b + 1 /\ NthCluster'[BlockOf(q)] = c
    BY <1>4, <2>1, <2>2, NotClusters
  <2>4. q > p
    <3>1. CASE q <= p
      <4>1. BlockOf(q) <= b
        BY <1>1, <3>1, BlockMono DEF b
      <4> QED BY <1>1, <2>1, <2>3, <4>1
    <3> QED BY <1>1, <3>1
  <2>5. PlaceOf(q)' = clst2sect(c) + j /\ InTable(q)'
    BY <1>0, <1>2, <1>8, <2>3 DEF PlaceOf, Extent, InTable, BlockOf
  <2>6. EntryAt(q)' = slot'[clst2sect(c) + j][q % SS]
    BY <2>5 DEF EntryAt, InTable, PlaceOf
  <2>7. clst2sect(c) + j \in Sector
    BY <2>1, SectorRange
  <2>8. EntryAt(q)' = IF j < m THEN "end" ELSE slot[clst2sect(c) + j][q % SS]
    <3> HIDE DEF j
    <3>1. clst2sect(c) + j \in clst2sect(c) .. clst2sect(c) + m - 1 <=> j < m
      BY <1>5, <2>1, Sizes
    <3> QED BY <1>6, <2>1, <2>6, <2>7, <3>1
  <2>9. slot[clst2sect(c) + j][q % SS] \in {"end", "junk"}
    <3> SUFFICES ASSUME NEW r \in Extent, Where[r] = clst2sect(c) + j
                 PROVE  FALSE
      BY <2>1, <2>7 DEF AllInside
    <3>1. NthCluster[BlockOf(r)] = c
      BY <1>7, <2>1, SectorUnique
    <3> QED BY <1>4, <1>7, <3>1, PositionParts
  <2>10. Entries'[q] = EntryAt(q)'
    BY <1>0 DEF Entries
  <2> QED BY <2>1, <2>4, <2>8, <2>9, <2>10, Sizes
<1>9. ASSUME NEW q \in Nat, q \notin Extent' PROVE Entries'[q] = "end"
  BY <1>0, <1>9 DEF Entries, Extent, EntryAt, InTable, PlaceOf
<1>10. LET nx == InCluster(dp, c)
       IN /\ nx \in Dirs /\ nx.dptr = dp.dptr + 1 /\ nx.dptr \in Extent'
          /\ nx.sect = Where'[nx.dptr] /\ nx.clust = Block'[nx.dptr]
  <2>1. p + 1 \in Nat /\ BlockOf(p + 1) = b + 1
    BY <1>1, NextParts DEF b
  <2>2. NthCluster'[BlockOf(p + 1)] = c
    BY <1>1, <1>4, <2>1
  <2>3. p + 1 \in Extent' /\ Block'[p + 1] = c
    BY <1>0, <1>2, <2>1, <2>2 DEF Extent, InTable, Block, BlockOf
  <2>4. clst2sect(c) \in Sector
    <3>1. 0 \in 0 .. CSize - 1
      BY Sizes
    <3> QED BY <1>5, <3>1, SectorRange
  <2>5. PlaceOf(p + 1)' = clst2sect(c) + 0
    BY <1>0, <1>1, <1>2, <2>2 DEF PlaceOf, BlockOf
  <2>6. Where'[p + 1] = clst2sect(c)
    BY <1>0, <1>5, <2>1, <2>5 DEF Where
  <2> QED BY <1>0, <2>1, <2>3, <2>4, <2>6 DEF InCluster, Dirs
<1>11. \A s \in Sector, i \in Index : slot'[s][i] \in {"end", slot[s][i]}
  BY <1>6
<1> QED BY <1>4, <1>7, <1>8, <1>9, <1>10, <1>11

-----------------------------------------------------------------------------
(* DIRs and entries.                                                       *)

LEMMA SectorsPositive == \A s \in Sector : s \in Nat /\ s # 0
<1>1. clst2sect(NFatEnt) \in Int \/ clst2sect(NFatEnt) \notin Int
  OBVIOUS
<1>2. (NFatEnt - 2) * CSize \in Int
  BY SizeAssumption, Sizes
<1>3. Database \in Int
  BY SizeAssumption, Sizes, DivMod DEF Database, Dirbase
<1>4. clst2sect(NFatEnt) \in Int
  BY <1>2, <1>3 DEF clst2sect
<1> QED BY <1>4 DEF Sector, Dirbase

LEMMA TopHere ==
    ASSUME TypeOK, ChainOK
    PROVE  Here(Top) /\ Top \in Dp /\ Top.dptr = 0 /\ Top.sect # 0
<1>1. 0 \in Position /\ 0 \in Nat
  BY SizeAssumption DEF Position
<1>2. /\ 0 \div SS \in Nat /\ 0 % SS \in Nat /\ 0 = SS * (0 \div SS) + (0 % SS)
      /\ 0 \div SS = CSize * BlockOf(0) + ((0 \div SS) % CSize)
      /\ BlockOf(0) \in Nat /\ (0 \div SS) % CSize \in Nat
  BY PositionParts DEF Index
<1>3. 0 \div SS = 0
  <2> DEFINE a == 0 \div SS
             r == 0 % SS
  <2>1. 0 = SS * a + r /\ a \in Nat /\ r \in Nat
    BY <1>2
  <2> HIDE DEF a, r
  <2>2. CASE a >= 1
    <3>1. SS * a >= SS * 1
      BY <2>1, <2>2, Sizes
    <3> QED BY <2>1, <3>1, Sizes
  <2>3. CASE a = 0
    BY <2>3 DEF a
  <2> QED BY <2>1, <2>2, <2>3
<1>4. BlockOf(0) = 0 /\ (0 \div SS) % CSize = 0
  <2> DEFINE a == BlockOf(0)
             r == (0 \div SS) % CSize
  <2>1. 0 = CSize * a + r /\ a \in Nat /\ r \in Nat
    BY <1>2, <1>3
  <2> HIDE DEF a, r
  <2>2. CASE a >= 1
    <3>1. CSize * a >= CSize * 1
      BY <2>1, <2>2, Sizes
    <3> QED BY <2>1, <3>1, Sizes
  <2>3. CASE a = 0
    BY <2>1, <2>3, Sizes DEF a, r
  <2> QED BY <2>1, <2>2, <2>3
<1>5. 0 \in Extent
  <2>1. CASE sclust = 0
    <3>1. NRootDir > 0
      BY <2>1 DEF ChainOK
    <3> QED BY <2>1, <3>1 DEF Extent, InTable
  <2>2. CASE sclust # 0
    <3>1. NthCluster[BlockOf(0)] \in Clusters
      BY <1>4, <2>2, ChainNow, NotClusters DEF TypeOK
    <3> QED BY <2>2, <3>1 DEF Extent, InTable, BlockOf
  <2> QED BY <2>1, <2>2
<1>6. Top.sect = Where[0] /\ Top.clust = Block[0] /\ Top.dptr = 0
  <2>1. CASE sclust = 0
    BY <1>1, <1>3, <2>1 DEF Top, Where, Block, PlaceOf, Dirbase
  <2>2. CASE sclust # 0
    <3>1. NthCluster[BlockOf(0)] = sclust /\ sclust \in Clusters
      BY <1>4, <2>2, ChainNow, NotClusters DEF TypeOK
    <3>2. clst2sect(sclust) + 0 = clst2sect(sclust)
      BY <3>1, SectorType
    <3> QED BY <1>1, <1>4, <2>2, <3>1, <3>2 DEF Top, Where, Block, PlaceOf, BlockOf
  <2> QED BY <2>1, <2>2
<1>7. Where[0] \in Sector /\ Block[0] \in {0} \cup Clusters
  BY <1>1, <1>5, TableFacts, NotClusters DEF Block, Extent, InTable, BlockOf
<1>8. Top = [dptr |-> 0, clust |-> Top.clust, sect |-> Top.sect]
  BY DEF Top
<1>9. Top \in Dirs /\ Top \in Dp
  BY <1>1, <1>6, <1>7, <1>8, SectorsPositive DEF Dirs, Dp
<1> QED BY <1>5, <1>6, <1>7, <1>9, SectorsPositive DEF Here

LEMMA HereFacts ==
    ASSUME TypeOK, ChainOK, NEW dp, Here(dp)
    PROVE  /\ dp \in Dirs /\ dp \in Dp /\ dp.sect # 0 /\ OnTrack(dp)
           /\ dp.dptr \in Position /\ dp.dptr \in Nat /\ dp.dptr \in Extent
           /\ dp.sect = Where[dp.dptr] /\ dp.sect \in Sector
           /\ dp.dptr % SS \in Index
           /\ At(dp) = Entries[dp.dptr]
           /\ Entries[dp.dptr] \in Mark \cup Name
<1>1. dp \in Dirs /\ dp.dptr \in Extent /\ dp.sect = Where[dp.dptr]
  BY DEF Here
<1>2. /\ dp.dptr \in Nat /\ dp.dptr % SS \in Index /\ dp.sect \in Sector
      /\ Entries[dp.dptr] = slot[dp.sect][dp.dptr % SS]
  BY <1>1, TableFacts
<1>3. dp \in Dp /\ dp.dptr \in Position
  BY <1>1, SectorsPositive DEF Dirs, Dp
<1> QED BY <1>1, <1>2, <1>3, TableFacts, SectorsPositive DEF OnTrack, Here, At

LEMMA NamesAreNoMarks ==
    /\ \A n \in Name : ~IsFree(n) /\ n \notin Mark /\ n # "none"
    /\ "end" \notin Name /\ "deleted" \notin Name /\ "junk" \notin Name
    /\ "none" \notin Name
BY NameAssumption DEF Mark, IsFree

(* Every entry that holds a name is at some position.                      *)
LEMMA NamesInTable ==
    ASSUME TypeOK, ChainOK, AllInside
    PROVE  \A n : n \in Names <=> n \in Name /\ \E p \in Position : Entries[p] = n
<1>1. ASSUME NEW n \in Names PROVE n \in Name /\ \E p \in Position : Entries[p] = n
  <2>1. PICK s \in Sector, i \in Index : slot[s][i] = n
    BY DEF Names
  <2>2. n \in Name /\ n \notin {"end", "junk"}
    BY NamesAreNoMarks DEF Names
  <2>3. PICK p \in Position : p \in Extent /\ Where[p] = s /\ p % SS = i
    BY <2>1, <2>2 DEF AllInside
  <2>4. Entries[p] = n
    BY <2>1, <2>3, TableFacts
  <2> QED BY <2>2, <2>4
<1>2. ASSUME NEW n \in Name, NEW p \in Position, Entries[p] = n PROVE n \in Names
  <2>1. p \in Nat
    BY PositionFacts
  <2>2. p \in Extent
    BY <1>2, <2>1, TableFacts, NamesAreNoMarks
  <2>3. n = slot[Where[p]][p % SS] /\ Where[p] \in Sector /\ p % SS \in Index
    BY <1>2, <2>2, TableFacts
  <2> QED BY <2>3 DEF Names
<1> QED BY <1>1, <1>2

-----------------------------------------------------------------------------
(* The initial states.                                                     *)

(* A table that fills so many sectors in a row, with k entries in it.      *)
LEMMA InitTable ==
    ASSUME TypeOK, ChainOK, NEW first \in Nat, NEW sectors \in Nat, NEW k \in Int,
           slot = [s \in Sector |-> [i \in Index |->
                     IF s \notin first .. first + sectors - 1 THEN "junk"
                     ELSE IF (s - first) * SS + i < k THEN "other" ELSE "end"]],
           \A p \in Nat : p \in Extent <=> p \div SS < sectors,
           \A p \in Extent : p < MaxDir /\ PlaceOf(p) = first + p \div SS
    PROVE  AllInside /\ \A p \in Extent : Entries[p] = IF p < k THEN "other" ELSE "end"
<1>1. ASSUME NEW p \in Extent PROVE Entries[p] = IF p < k THEN "other" ELSE "end"
  <2>1. /\ p \in Nat /\ p % SS \in Index /\ Where[p] \in Sector
        /\ Entries[p] = slot[Where[p]][p % SS] /\ Where[p] = PlaceOf(p)
    BY TableFacts DEF Where
  <2>2. p \div SS \in Nat /\ p = SS * (p \div SS) + (p % SS) /\ p \div SS < sectors
    BY <2>1, PositionParts
  <2> DEFINE x == p \div SS
             i == p % SS
  <2>3. Where[p] = first + x
    BY <2>1
  <2> HIDE DEF x, i
  <2>4. x \in Nat /\ i \in Index /\ p = SS * x + i /\ x < sectors /\ i \in Int
    BY <2>1, <2>2 DEF x, i, Index
  <2>5. first + x \in first .. first + sectors - 1
    BY <2>4
  <2>6. (first + x - first) * SS + i = p
    <3>1. first + x - first = x
      BY <2>4
    <3> QED BY <2>4, <3>1, Sizes
  <2>7. Entries[p] = slot[first + x][i] /\ first + x \in Sector
    BY <2>1, <2>3 DEF i
  <2> QED BY <2>4, <2>5, <2>6, <2>7
<1>2. ASSUME NEW s \in Sector, NEW i \in Index, slot[s][i] \notin {"end", "junk"}
      PROVE  \E p \in Position : p \in Extent /\ Where[p] = s /\ p % SS = i
  <2>1. s \in first .. first + sectors - 1
    BY <1>2
  <2> DEFINE x == s - first
             p == SS * x + i
  <2>2. x \in Nat /\ x < sectors /\ s = first + x /\ i \in 0 .. SS - 1
    BY <2>1 DEF Index
  <2> HIDE DEF x
  <2>3. p \in Nat
    BY <2>2, Sizes
  <2> HIDE DEF p
  <2>4. /\ p \div SS \in Nat /\ p % SS \in 0 .. SS - 1
        /\ SS * x + i = SS * (p \div SS) + (p % SS)
    BY <2>3, PositionParts DEF p, Index
  <2>5. x = p \div SS /\ i = p % SS
    <3> DEFINE y == p \div SS
               r == p % SS
    <3>1. SS * x + i = SS * y + r /\ y \in Nat /\ r \in 0 .. SS - 1
      BY <2>4
    <3> HIDE DEF y, r
    <3>2. SS \in Nat \ {0} /\ x \in Int /\ y \in Int /\ i \in 0 .. SS - 1
      BY <2>2, <3>1, Sizes
    <3>3. x = y /\ i = r
      BY <3>1, <3>2, DivUnique
    <3> QED BY <3>3 DEF y, r
  <2>6. p \in Extent
    BY <2>2, <2>3, <2>5
  <2>7. Where[p] = s /\ p \in Position
    BY <2>2, <2>3, <2>5, <2>6, SizeAssumption DEF Where, Position
  <2> QED BY <2>5, <2>6, <2>7
<1> QED BY <1>1, <1>2 DEF AllInside

LEMMA InitTypes == Init => TypeOK /\ Records
<1> SUFFICES ASSUME Init PROVE TypeOK /\ Records
  OBVIOUS
<1>1. sclust \in {0, 2} /\ fat \in [Clusters -> {0, 1, EOC} \cup Clusters]
  <2>1. ASSUME NEW n \in 1 .. NFatEnt - 2, InitChain(n)
        PROVE  fat \in [Clusters -> {0, 1, EOC} \cup Clusters]
    <3>1. fat = [c \in Clusters |-> IF c < n + 1 THEN c + 1
                                    ELSE IF c = n + 1 THEN EOC ELSE 0]
      BY <2>1 DEF InitChain
    <3>2. ASSUME NEW c \in Clusters, c < n + 1 PROVE c + 1 \in Clusters
      BY <2>1, <3>2, SizeAssumption DEF Clusters
    <3> QED BY <3>1, <3>2
  <2>2. 1 \in 1 .. NFatEnt - 2
    BY SizeAssumption
  <2> QED BY <2>1, <2>2 DEF Init
<1>2. slot \in [Sector -> [Index -> Mark \cup Name]]
  BY DEF Init, InitSlots, Mark
<1>3. Top \in Dirs /\ Top.sect \in Sector
  <2>1. Dirbase \in Sector
    <3>1. (NFatEnt - 2) * CSize \in Nat /\ NRootDir \div SS \in Nat
      BY SizeAssumption, Sizes, DivMod
    <3>2. (NFatEnt - 2) * CSize >= 1 * CSize
      BY SizeAssumption, Sizes
    <3>3. clst2sect(NFatEnt) \in Int /\ clst2sect(NFatEnt) > Dirbase
      BY <3>1, <3>2, Sizes DEF clst2sect, Database, Dirbase
    <3> QED BY <3>3 DEF Sector, Dirbase
  <2>2. clst2sect(2) \in Sector
    <3>1. 0 \in 0 .. CSize - 1 /\ 2 \in Clusters
      BY Sizes, NotClusters
    <3>2. clst2sect(2) + 0 \in Sector
      BY <3>1, SectorRange
    <3> QED BY <3>1, <3>2, SectorType
  <2>3. 0 \in Position
    BY SizeAssumption DEF Position
  <2> QED BY <1>1, <2>1, <2>2, <2>3, NotClusters DEF Top, Dirs
<1>4. Disabled(Top) \in Dp /\ Disabled(Top) \in Dirs
  BY <1>3 DEF Disabled, Dirs, Dp
<1>5. Idle \in JobType /\ NoAnswer \in LastType
  BY <1>3 DEF Idle, NoAnswer, JobType, LastType
<1>6. rd = Disabled(Top) /\ job = Idle /\ last = NoAnswer /\ scan = "off"
      /\ must = {} /\ seen = NotSeen /\ twice = {} /\ garbled = FALSE
  BY DEF Init, InitCalls
<1>7. Records
  BY <1>4, <1>5, <1>6 DEF Records, Dp
<1>8. seen \in [Name -> 0 .. 2]
  BY <1>6 DEF NotSeen
<1> QED BY <1>1, <1>2, <1>6, <1>7, <1>8 DEF TypeOK, Records, JobType, LastType, Dp

(* The first cluster and those after it, in a row.                         *)
LEMMA InitChainResult ==
    ASSUME TypeOK, sclust = 2, NEW n \in 1 .. NFatEnt - 2, InitChain(n)
    PROVE  /\ \A k \in Nat : NthCluster[k] = IF k < n THEN k + 2 ELSE EOC
           /\ ChainOK
<1>1. fat = [c \in Clusters |-> IF c < n + 1 THEN c + 1 ELSE IF c = n + 1 THEN EOC ELSE 0]
  BY DEF InitChain
<1>2. \A k \in Nat : k < n => k + 2 \in Clusters
  BY SizeAssumption DEF Clusters
<1> DEFINE E == {k \in Nat : NthCluster[k] = IF k < n THEN k + 2 ELSE EOC}
<1>3. 0 \in E
  BY ChainNow
<1>4. ASSUME NEW k \in E PROVE k + 1 \in E
  <2>1. CASE k < n
    <3>1. NthCluster[k] = k + 2 /\ k + 2 \in Clusters
      BY <1>2, <2>1
    <3>2. NthCluster[k + 1] = fat[k + 2]
      BY <3>1, ChainNow
    <3>3. fat[k + 2] = IF k + 1 < n THEN k + 3 ELSE EOC
      BY <1>1, <2>1, <3>1
    <3> QED BY <2>1, <3>2, <3>3
  <2>2. CASE k >= n
    <3>1. NthCluster[k] = EOC
      BY <2>2
    <3> QED BY <2>2, <3>1, ChainNow, NotClusters
  <2> QED BY <2>1, <2>2
<1>5. E = Nat
  BY <1>3, <1>4, Induction
<1>6. \A k \in Nat : NthCluster[k] = IF k < n THEN k + 2 ELSE EOC
  BY <1>5
<1>7. ASSUME NEW k \in Nat, NthCluster[k] \in Clusters
      PROVE  /\ fat[NthCluster[k]] \in Clusters \cup {EOC}
             /\ \A j \in Nat : NthCluster[j] = NthCluster[k] => j = k
  <2>1. k < n /\ NthCluster[k] = k + 2
    BY <1>6, <1>7, NotClusters
  <2>2. fat[k + 2] = IF k + 1 < n THEN k + 3 ELSE EOC
    BY <1>1, <1>2, <2>1
  <2>3. k + 1 < n => k + 3 \in Clusters
    BY <2>1, SizeAssumption DEF Clusters
  <2>4. ASSUME NEW j \in Nat, NthCluster[j] = NthCluster[k] PROVE j = k
    <3>1. NthCluster[j] \in Clusters
      BY <1>7, <2>4
    <3>2. j < n /\ NthCluster[j] = j + 2
      BY <1>6, <3>1, NotClusters
    <3> QED BY <2>1, <2>4, <3>2
  <2> QED BY <2>1, <2>2, <2>3, <2>4
<1>8. ChainOK
  BY <1>7 DEF ChainOK
<1> QED BY <1>6, <1>8

LEMMA InitInv == Init => IInv
<1> SUFFICES ASSUME Init PROVE IInv
  OBVIOUS
<1>1. TypeOK /\ Records
  BY InitTypes
<1>2. ChainOK /\ AllInside
      /\ \E k \in Int : \A p \in Extent : Entries[p] = IF p < k THEN "other" ELSE "end"
  <2>1. CASE sclust = 0 /\ NRootDir > 0 /\ InitSlots(Dirbase, NRootDir \div SS)
    <3>1. ChainOK
      BY <2>1 DEF ChainOK
    <3>2. NRootDir \div SS \in Nat /\ NRootDir = SS * (NRootDir \div SS)
      <4>1. /\ NRootDir \div SS \in Nat
            /\ NRootDir = SS * (NRootDir \div SS) + (NRootDir % SS)
        BY SizeAssumption, Sizes, DivMod
      <4> DEFINE x == NRootDir \div SS
      <4>2. NRootDir = SS * x + 0 /\ x \in Nat
        BY <4>1, SizeAssumption
      <4> HIDE DEF x
      <4>3. SS * x \in Nat
        BY <4>2, Sizes
      <4>4. NRootDir = SS * x
        BY <4>2, <4>3
      <4> QED BY <4>2, <4>4 DEF x
    <3>3. \A p \in Nat : p \in Extent <=> p \div SS < NRootDir \div SS
      <4>1. \A p \in Nat : p \div SS < NRootDir \div SS <=> p < NRootDir
        BY <3>2, Sizes, DivLess
      <4> QED BY <2>1, <4>1 DEF Extent, InTable
    <3>4. \A p \in Extent : p < MaxDir /\ PlaceOf(p) = Dirbase + p \div SS
      BY <2>1, SizeAssumption DEF Extent, InTable, PlaceOf
    <3>5. PICK k \in (NRootDir \div SS) * SS - Room .. (NRootDir \div SS) * SS :
             slot = [s \in Sector |-> [i \in Index |->
                       IF s \notin Dirbase .. Dirbase + NRootDir \div SS - 1 THEN "junk"
                       ELSE IF (s - Dirbase) * SS + i < k THEN "other" ELSE "end"]]
      BY <2>1, Zenon DEF InitSlots
    <3>6. k \in Int /\ Dirbase \in Nat
      BY DEF Dirbase
    <3>7. AllInside /\ \A p \in Extent : Entries[p] = IF p < k THEN "other" ELSE "end"
      BY <1>1, <3>1, <3>2, <3>3, <3>4, <3>5, <3>6, InitTable
    <3> QED BY <3>1, <3>6, <3>7
  <2>2. ASSUME sclust = 2, NEW n \in 1 .. NFatEnt - 2, n * CSize * SS <= MaxDir,
               InitChain(n), InitSlots(clst2sect(2), n * CSize)
        PROVE  ChainOK /\ AllInside
      /\ \E k \in Int : \A p \in Extent : Entries[p] = IF p < k THEN "other" ELSE "end"
    <3>1. ChainOK /\ \A k \in Nat : NthCluster[k] = IF k < n THEN k + 2 ELSE EOC
      BY <1>1, <2>2, InitChainResult
    <3>2. n * CSize \in Nat /\ n \in Nat /\ CSize * n = n * CSize
      BY Sizes, SizeAssumption
    <3>3. ASSUME NEW p \in Nat PROVE p \in Extent <=> p \div SS < n * CSize
      <4>1. BlockOf(p) \in Nat /\ BlockOf(p) = (p \div SS) \div CSize /\ p \div SS \in Nat
        BY PositionParts
      <4>2. BlockOf(p) < n <=> p \div SS < n * CSize
        BY <3>2, <4>1, Sizes, DivLess
      <4>3. NthCluster[BlockOf(p)] \in Clusters <=> BlockOf(p) < n
        BY <3>1, <4>1, NotClusters, SizeAssumption DEF Clusters
      <4> QED BY <2>2, <4>2, <4>3 DEF Extent, InTable, BlockOf
    <3>4. ASSUME NEW p \in Extent
          PROVE  p < MaxDir /\ PlaceOf(p) = clst2sect(2) + p \div SS
      <4>1. /\ p \in Nat /\ BlockOf(p) \in Nat /\ p \div SS \in Nat
            /\ (p \div SS) % CSize \in 0 .. CSize - 1
            /\ p \div SS = CSize * BlockOf(p) + ((p \div SS) % CSize)
            /\ p \div SS < n * CSize
        BY <3>3, PositionParts DEF Extent
      <4>2. p < SS * (n * CSize)
        BY <3>2, <4>1, Sizes, DivLess
      <4>3. p < MaxDir
        <5> DEFINE x == n * CSize
        <5>1. x \in Nat /\ p < SS * x /\ x * SS <= MaxDir
          BY <2>2, <3>2, <4>2
        <5> HIDE DEF x
        <5>2. SS * x = x * SS
          BY <5>1, Sizes
        <5> QED BY <4>1, <5>1, <5>2, Sizes, SizeAssumption
      <4>4. NthCluster[BlockOf(p)] = BlockOf(p) + 2
        <5>1. NthCluster[BlockOf(p)] \in Clusters
          BY <2>2 DEF Extent, InTable, BlockOf
        <5> QED BY <3>1, <4>1, <5>1, NotClusters
      <4>5. Database \in Nat
        BY SizeAssumption, Sizes, DivMod DEF Database, Dirbase
      <4>6. PlaceOf(p) = clst2sect(BlockOf(p) + 2) + ((p \div SS) % CSize)
        BY <2>2, <4>4 DEF PlaceOf, BlockOf
      <4> DEFINE b == BlockOf(p)
                 s == p \div SS
                 j == (p \div SS) % CSize
      <4> HIDE DEF b, s, j
      <4>7. b \in Nat /\ s \in Nat /\ j \in Nat /\ s = CSize * b + j
        BY <4>1 DEF b, s, j
      <4>8. clst2sect(b + 2) = Database + b * CSize /\ clst2sect(2) = Database + 0 * CSize
        <5>1. (b + 2) - 2 = b /\ 2 - 2 = 0
          BY <4>7
        <5>2. clst2sect(b + 2) = Database + ((b + 2) - 2) * CSize
          BY DEF clst2sect
        <5>3. clst2sect(2) = Database + (2 - 2) * CSize
          BY DEF clst2sect
        <5> QED BY <5>1, <5>2, <5>3, Zenon
      <4>9. b * CSize = CSize * b /\ b * CSize \in Nat /\ 0 * CSize = 0
        BY <4>7, Sizes
      <4>10. clst2sect(b + 2) + j = clst2sect(2) + s
        BY <4>5, <4>7, <4>8, <4>9
      <4> QED BY <4>3, <4>6, <4>10 DEF b, s, j
    <3>5. PICK k \in n * CSize * SS - Room .. n * CSize * SS :
             slot = [s \in Sector |-> [i \in Index |->
                       IF s \notin clst2sect(2) .. clst2sect(2) + n * CSize - 1 THEN "junk"
                       ELSE IF (s - clst2sect(2)) * SS + i < k THEN "other" ELSE "end"]]
      BY <2>2 DEF InitSlots
    <3>6. k \in Int /\ clst2sect(2) \in Nat
      <4>1. clst2sect(2) + 0 >= Database /\ clst2sect(2) \in Int
        <5>1. 0 \in 0 .. CSize - 1
          BY Sizes
        <5> QED BY <5>1, NotClusters, SectorRange, SectorType
      <4>2. Database \in Nat
        BY SizeAssumption, Sizes, DivMod DEF Database, Dirbase
      <4> QED BY <4>1, <4>2
    <3>7. AllInside /\ \A p \in Extent : Entries[p] = IF p < k THEN "other" ELSE "end"
      BY <1>1, <3>1, <3>2, <3>3, <3>4, <3>5, <3>6, InitTable
    <3> QED BY <3>1, <3>6, <3>7
  <2> QED BY <2>1, <2>2 DEF Init
<1>3. PICK k \in Int : \A p \in Extent : Entries[p] = IF p < k THEN "other" ELSE "end"
  BY <1>2
<1>4. \A p \in Position : /\ p \in Nat
                          /\ Entries[p] \in {"other", "end"}
                          /\ p \notin Extent => Entries[p] = "end"
  BY <1>1, <1>2, <1>3, TableFacts, PositionFacts
<1>5. rd.sect = 0 /\ job = Idle /\ last = NoAnswer /\ scan = "off"
      /\ must = {} /\ seen = NotSeen /\ twice = {} /\ garbled = FALSE
  BY DEF Init, InitCalls, Disabled, Top
<1>6. BehindEnd
  <2> SUFFICES ASSUME NEW p \in Position, NEW q \in Position, p < q, Entries[p] = "end"
               PROVE  Entries[q] = "end"
    BY DEF BehindEnd
  <2>1. CASE q \in Extent
    <3>1. p \in Extent
      BY <1>1, <1>2, <1>4, <2>1, TableFacts
    <3>2. ~(p < k)
      BY <1>3, <3>1
    <3> QED BY <1>3, <1>4, <2>1, <3>2
  <2> QED BY <1>4, <2>1
<1>7. OneEntry
  BY <1>4, NameAssumption DEF OneEntry, Mark
<1>8. job.pc = "idle" /\ job.op = "none" /\ last.res = "none" /\ job.new = "none"
  BY <1>5 DEF Idle, NoAnswer
<1>9. Jobs /\ Passed /\ NoRoom
  BY <1>8 DEF Jobs, Passed, NoRoom, Working, Searching
<1>10. ReaderAt /\ Quiet /\ Ahead /\ Behind
  BY <1>5 DEF ReaderAt, Quiet, Ahead, Behind
<1> QED BY <1>1, <1>2, <1>6, <1>7, <1>9, <1>10 DEF IInv

-----------------------------------------------------------------------------
(* Steps that leave the table and its reader alone.                        *)

LEMMA TableStays ==
    ASSUME IInv, UNCHANGED <<sclust, slot, fat, garbled>>
    PROVE  /\ UNCHANGED <<Extent, Where, Block, Entries>>
           /\ ChainOK' /\ AllInside' /\ BehindEnd'
<1>1. UNCHANGED <<NthCluster, Extent, Where, Block, Entries>>
  BY SameTable
<1>2. ChainOK'
  BY <1>1 DEF IInv, ChainOK
<1>3. AllInside' /\ BehindEnd'
  BY <1>1 DEF IInv, AllInside, BehindEnd
<1> QED BY <1>1, <1>2, <1>3

LEMMA ReaderStays ==
    ASSUME IInv, UNCHANGED <<sclust, slot, fat, rd, scan, must, seen, twice>>
    PROVE  ReaderAt' /\ Quiet' /\ Ahead' /\ Behind'
<1>1. UNCHANGED <<Extent, Where, Block, Entries>>
  BY SameTable
<1>2. ReaderAt'
  BY <1>1 DEF IInv, ReaderAt, OnTrack, AtClusterEnd, AtSectorEnd
<1>3. Quiet' /\ Ahead' /\ Behind'
  BY <1>1 DEF IInv, Quiet, Ahead, Behind, NotSeen
<1> QED BY <1>2, <1>3

(* Names are unique but for a renaming about to end.                       *)
LEMMA UniqueNow ==
    ASSUME OneEntry, job.pc # "remove", NEW n \in Name \ twice,
           NEW p \in Position, NEW q \in Position, Entries[p] = n, Entries[q] = n
    PROVE  p = q
BY DEF OneEntry, Renaming

LEMMA JobStep ==
    ASSUME IInv, UNCHANGED <<sclust, slot, fat, rd, ghosts>>,
           job' \in JobType, last' \in LastType,
           Jobs', Passed', NoRoom', job.pc # "remove"
    PROVE  IInv'
<1>1. UNCHANGED <<sclust, slot, fat, rd, scan, must, seen, twice, garbled>>
  BY DEF ghosts
<1>2. TypeOK' /\ Records'
  BY <1>1 DEF IInv, TypeOK, Records, JobType, LastType
<1>3. UNCHANGED <<Extent, Where, Block, Entries>> /\ ChainOK' /\ AllInside' /\ BehindEnd'
  BY <1>1, TableStays
<1>4. OneEntry'
  BY <1>1, <1>3, UniqueNow DEF IInv, OneEntry
<1>5. ReaderAt' /\ Quiet' /\ Ahead' /\ Behind'
  BY <1>1, ReaderStays
<1> QED BY <1>2, <1>3, <1>4, <1>5 DEF IInv

LEMMA IdleFacts ==
    ASSUME TypeOK, ChainOK
    PROVE  /\ Idle \in JobType /\ NoAnswer \in LastType
           /\ Idle.pc = "idle" /\ Idle.op = "none" /\ Idle.new = "none"
           /\ NoAnswer.res = "none"
BY TopHere, HereFacts DEF Idle, NoAnswer, JobType, LastType

LEMMA TargetName ==
    ASSUME IInv, job.pc \in Searching
    PROVE  /\ Target \in Name /\ ~IsFree(Target)
           /\ job.op # "rename" => job.pc = "find" /\ Target = job.name
BY NamesAreNoMarks DEF IInv, Jobs, Target, Searching, Working

(* A call that ends.                                                       *)
LEMMA AnswerInv ==
    ASSUME IInv, UNCHANGED <<sclust, slot, fat, rd, ghosts>>, job.pc # "remove",
           NEW res \in Answers, Answer(res),
           res = "full" => \A p \in Position : p \in Extent => ~IsFree(Entries[p])
    PROVE  IInv'
<1>1. job' = Idle /\ last' = [name |-> Target, res |-> res]
  BY DEF Answer
<1>2. TypeOK /\ ChainOK /\ job \in JobType
  BY DEF IInv, Records
<1>3. job' \in JobType /\ last' \in LastType
  BY <1>1, <1>2, IdleFacts DEF JobType, LastType, Target
<1>4. job'.pc = "idle" /\ job'.op = "none" /\ job'.new = "none"
  BY <1>1, <1>2, IdleFacts
<1>5. Jobs' /\ Passed'
  BY <1>4 DEF Jobs, Passed, Working, Searching
<1>6. UNCHANGED <<Extent, Entries>>
  BY SameTable
<1>7. NoRoom'
  BY <1>1, <1>6 DEF NoRoom
<1> QED BY <1>3, <1>5, <1>7, <1>2, JobStep

LEMMA CallInv ==
    ASSUME IInv, UNCHANGED sclust, NEW op \in Ops, NEW n \in Name, NEW new,
           IF op = "rename" THEN new \in Name ELSE new = "none",
           Call(op, n, new)
    PROVE  IInv'
<1>1. /\ job = Idle /\ last' = NoAnswer
      /\ job' = [op |-> op, pc |-> "find", name |-> n, new |-> new, dp |-> Top, old |-> Top]
      /\ UNCHANGED <<slot, fat, rd, ghosts>>
  BY DEF Call
<1>2. TypeOK /\ ChainOK
  BY DEF IInv
<1>3. UNCHANGED <<Extent, Where, Block, Entries>>
  BY <1>1, SameTable
<1>4. Here(Top) /\ Top \in Dirs /\ Top.dptr = 0
  BY <1>2, TopHere, HereFacts
<1>5. job' \in JobType /\ last' \in LastType
  BY <1>1, <1>2, <1>4, IdleFacts DEF JobType
<1>6. /\ job'.pc = "find" /\ job'.op = op /\ job'.name = n /\ job'.new = new
      /\ job'.dp = Top /\ last'.res = "none"
  BY <1>1, <1>2, IdleFacts
<1>7. Here(job.dp)'
  BY <1>3, <1>4, <1>6 DEF Here
<1>8. Jobs'
  BY <1>6, <1>7 DEF Jobs, Working
<1>9. Passed'
  BY <1>4, <1>6, PositionFacts DEF Passed
<1>10. NoRoom'
  BY <1>6 DEF NoRoom
<1>11. job.pc # "remove"
  BY <1>1, <1>2, IdleFacts
<1> QED BY <1>1, <1>5, <1>8, <1>9, <1>10, <1>11, JobStep

LEMMA ReadDirInv ==
    ASSUME IInv, UNCHANGED sclust, f_readdir
    PROVE  IInv'
<1>1. /\ job = Idle /\ last' = NoAnswer
      /\ job' = [Idle EXCEPT !.op = "readdir", !.pc = "read"]
      /\ UNCHANGED <<slot, fat, rd, ghosts>>
  BY DEF f_readdir
<1>2. TypeOK /\ ChainOK
  BY DEF IInv
<1>3. /\ job' \in JobType /\ last' \in LastType /\ job.pc # "remove"
      /\ job'.pc = "read" /\ job'.op = "readdir" /\ job'.new = "none"
      /\ last'.res = "none"
  BY <1>1, <1>2, IdleFacts DEF JobType
<1>4. Jobs' /\ Passed' /\ NoRoom'
  BY <1>3 DEF Jobs, Passed, NoRoom, Working, Searching
<1> QED BY <1>1, <1>3, <1>4, JobStep

(* The search starts again from the top to allocate.                       *)
LEMMA NotFoundInv ==
    ASSUME IInv, UNCHANGED <<sclust, slot, fat, rd, ghosts>>, job.pc \in Searching,
           NotFound, \A p \in Position : Entries[p] # Target
    PROVE  IInv'
<1>1. TypeOK /\ ChainOK /\ job \in JobType /\ last \in LastType /\ job.pc # "remove"
  BY DEF IInv, Records, Searching
<1>2. CASE Answer("no_file")
  BY <1>1, <1>2, AnswerInv DEF Answers
<1>3. CASE Goto("alloc", Top) /\ (job.op = "create" \/ job.pc = "find_new")
  <2>1. job' = [job EXCEPT !.pc = "alloc", !.dp = Top] /\ last' = last
    BY <1>3 DEF Goto
  <2>2. UNCHANGED <<Extent, Where, Block, Entries>>
    BY SameTable
  <2>3. Here(Top) /\ Top \in Dirs /\ Top.dptr = 0
    BY <1>1, TopHere, HereFacts
  <2>4. /\ job' \in JobType /\ last' \in LastType
        /\ job'.pc = "alloc" /\ job'.dp = Top /\ job'.op = job.op
        /\ job'.name = job.name /\ job'.new = job.new /\ job'.old = job.old
    BY <1>1, <2>1, <2>3 DEF JobType
  <2>5. Here(job.dp)'
    BY <2>2, <2>3, <2>4 DEF Here
  <2>6. /\ job.op \in Ops /\ job.name \in Name /\ last.res = "none"
        /\ IF job.op = "rename" THEN job.new \in Name ELSE job.new = "none"
        /\ job.op \in {"create", "rename"}
        /\ job.op = "rename" => job.pc = "find_new"
        /\ job.op = "create" => job.pc = "find"
    BY <1>3 DEF IInv, Jobs, Searching, Working
  <2>7. job.op = "rename" => Here(job.old)' /\ Entries[job.old.dptr] = job.name
    BY <2>2, <2>4, <2>6 DEF IInv, Jobs, Here
  <2>8. Jobs'
    BY <2>1, <2>2, <2>4, <2>5, <2>6, <2>7 DEF Jobs, Working
  <2>9. Target = IF job.op = "rename" THEN job.new ELSE job.name
    BY <2>6 DEF Target
  <2>10. Passed'
    <3>1. Entering' = Target
      BY <2>4, <2>9 DEF Entering
    <3>2. \A p \in Position : Entries'[p] # Entering'
      BY <2>2, <3>1
    <3>3. \A p \in Position : ~(p < 0)
      BY PositionFacts
    <3>4. job'.pc = "alloc" /\ job'.dp.dptr = 0
      BY <2>3, <2>4
    <3> QED BY <3>2, <3>3, <3>4 DEF Passed, Searching
  <2>11. NoRoom'
    BY <2>1, <2>6 DEF NoRoom
  <2> QED BY <1>1, <2>4, <2>8, <2>10, <2>11, JobStep
<1> QED BY <1>2, <1>3 DEF NotFound

(* The search has found its target.                                        *)
LEMMA FoundInv ==
    ASSUME IInv, UNCHANGED <<sclust, slot, fat, rd, ghosts>>, job.pc \in Searching,
           Found, Entries[job.dp.dptr] = Target
    PROVE  IInv'
<1>1. TypeOK /\ ChainOK /\ job \in JobType /\ last \in LastType /\ job.pc # "remove"
  BY DEF IInv, Records, Searching
<1>2. CASE \E r \in {"ok", "exist", "denied", "disk_err", "int_err"} : Answer(r)
  BY <1>1, <1>2, AnswerInv DEF Answers
<1>3. UNCHANGED <<Extent, Where, Block, Entries>>
  BY SameTable
<1>4. Here(Top) /\ Top \in Dirs /\ Top.dptr = 0 /\ \A p \in Position : ~(p < 0)
  BY <1>1, TopHere, HereFacts, PositionFacts
<1>5. /\ job.op \in Ops /\ job.name \in Name /\ Here(job.dp) /\ last.res = "none"
      /\ IF job.op = "rename" THEN job.new \in Name ELSE job.new = "none"
      /\ job.pc = "find_new" =>
            job.op = "rename" /\ Here(job.old) /\ Entries[job.old.dptr] = job.name
  BY DEF IInv, Jobs, Searching, Working
<1>6. CASE job.op = "unlink" /\ Goto("remove", job.dp)
  <2>1. job' = [job EXCEPT !.pc = "remove", !.dp = job.dp] /\ last' = last
    BY <1>6 DEF Goto
  <2>2. /\ job' \in JobType /\ last' \in LastType
        /\ job'.pc = "remove" /\ job'.dp = job.dp /\ job'.op = job.op
        /\ job'.name = job.name /\ job'.new = job.new
    BY <1>1, <1>5, <2>1, HereFacts DEF JobType
  <2>3. Here(job.dp)'
    BY <1>3, <1>5, <2>2 DEF Here
  <2>4. Target = job.name
    BY <1>6, TargetName
  <2>5. Jobs'
    BY <1>3, <1>5, <1>6, <2>1, <2>2, <2>3, <2>4 DEF Jobs, Working
  <2>6. Passed' /\ NoRoom'
    BY <1>5, <2>1, <2>2 DEF Passed, NoRoom, Searching
  <2> QED BY <1>1, <2>2, <2>5, <2>6, JobStep
<1>7. CASE /\ job.op = "rename" /\ job.pc = "find"
           /\ job' = [job EXCEPT !.pc = "find_new", !.dp = Top, !.old = job.dp]
           /\ UNCHANGED last
  <2>1. /\ job' \in JobType /\ last' \in LastType
        /\ job'.pc = "find_new" /\ job'.dp = Top /\ job'.op = job.op
        /\ job'.name = job.name /\ job'.new = job.new /\ job'.old = job.dp
    BY <1>1, <1>4, <1>5, <1>7, HereFacts DEF JobType
  <2>2. Here(job.dp)' /\ Here(job.old)'
    BY <1>3, <1>4, <1>5, <2>1 DEF Here
  <2>3. Target = job.name
    BY <1>7 DEF Target
  <2>4. Jobs'
    BY <1>3, <1>5, <1>7, <2>1, <2>2, <2>3 DEF Jobs, Working
  <2>5. Passed' /\ NoRoom'
    BY <1>4, <1>5, <1>7, <2>1 DEF Passed, NoRoom
  <2> QED BY <1>1, <2>1, <2>4, <2>5, JobStep
<1>8. CASE job.pc = "find_new" /\ SameEntry(job.dp) /\ Goto("alloc", Top)
  <2>1. job' = [job EXCEPT !.pc = "alloc", !.dp = Top] /\ last' = last
    BY <1>8 DEF Goto
  <2>2. /\ job' \in JobType /\ last' \in LastType
        /\ job'.pc = "alloc" /\ job'.dp = Top /\ job'.op = job.op
        /\ job'.name = job.name /\ job'.new = job.new /\ job'.old = job.old
    BY <1>1, <1>4, <2>1 DEF JobType
  <2>3. Here(job.dp)' /\ Here(job.old)'
    BY <1>3, <1>4, <1>5, <1>8, <2>2 DEF Here
  <2>4. Jobs'
    BY <1>3, <1>5, <1>8, <2>1, <2>2, <2>3 DEF Jobs, Working
  <2>5. job.new = job.name
    BY <1>5, <1>8 DEF SameEntry, Target
  <2>6. Passed' /\ NoRoom'
    BY <1>4, <1>5, <2>1, <2>2, <2>5 DEF Passed, NoRoom, Searching
  <2> QED BY <1>1, <2>2, <2>4, <2>6, JobStep
<1> QED BY <1>2, <1>6, <1>7, <1>8 DEF Found

LEMMA FindInv ==
    ASSUME IInv, UNCHANGED sclust, dir_find
    PROVE  IInv'
<1>1. /\ job.pc \in Searching /\ UNCHANGED <<slot, fat, rd, ghosts>>
      /\ UNCHANGED <<sclust, slot, fat, rd, ghosts>>
  BY DEF dir_find, Searching
<1>2. TypeOK /\ ChainOK /\ job \in JobType /\ last \in LastType /\ job.pc # "remove"
  BY <1>1 DEF IInv, Records, Searching
<1>3. Here(job.dp) /\ last.res = "none"
  BY <1>1 DEF IInv, Jobs, Searching, Working
<1>4. Target \in Name /\ Target # "end" /\ Target # "junk"
  BY <1>1, TargetName, NamesAreNoMarks
<1> DEFINE d == job.dp.dptr
<1>5. /\ At(job.dp) = Entries[d] /\ job.dp \in Dp /\ job.dp.sect # 0 /\ OnTrack(job.dp)
      /\ d \in Position /\ d \in Nat
  BY <1>2, <1>3, HereFacts
<1>6. \A p \in Position : p \in Nat /\ (p < d => Entries[p] \notin {"end", Target})
  BY <1>1, PositionFacts DEF IInv, Passed
<1>7. CASE Answer("disk_err")
  BY <1>1, <1>2, <1>7, AnswerInv DEF Answers
<1>8. CASE EndsSearch(At(job.dp)) /\ NotFound
  <2>1. Entries[d] = "end"
    BY <1>5, <1>8 DEF EndsSearch
  <2>2. \A p \in Position : p > d => Entries[p] \in {"end", "junk"}
    BY <1>5, <1>6, <2>1 DEF IInv, BehindEnd
  <2>3. \A p \in Position : p < d \/ p = d \/ p > d
    BY <1>5, <1>6
  <2>4. \A p \in Position : Entries[p] # Target
    BY <1>4, <1>6, <2>1, <2>2, <2>3
  <2> QED BY <1>1, <1>8, <2>4, NotFoundInv
<1>9. CASE At(job.dp) = Target /\ Found
  BY <1>1, <1>5, <1>9, FoundInv
<1>10. CASE /\ ~EndsSearch(At(job.dp)) /\ At(job.dp) # Target
            /\ \E o \in dir_next(job.dp) :
                  \/ o.res = "ok" /\ Goto(job.pc, o.dp)
                  \/ o.res \in {"no_file", "chain_end"} /\ NotFound
                  \/ o.res \in {"disk_err", "int_err"} /\ Answer(o.res)
  <2>1. PICK o \in dir_next(job.dp) :
                  \/ o.res = "ok" /\ Goto(job.pc, o.dp)
                  \/ o.res \in {"no_file", "chain_end"} /\ NotFound
                  \/ o.res \in {"disk_err", "int_err"} /\ Answer(o.res)
    BY <1>10
  <2>2. NextOk(job.dp, o) \/ NextEnds(job.dp, o) \/ NextFails(job.dp, o)
    BY <1>2, <1>5, NextEntry
  <2>3. Entries[d] \notin {"end", Target}
    BY <1>5, <1>10 DEF EndsSearch
  <2>4. CASE NextFails(job.dp, o)
    BY <1>1, <1>2, <2>1, <2>4, AnswerInv DEF Answers, NextFails
  <2>5. CASE NextEnds(job.dp, o)
    <3>1. NotFound /\ \A p \in Position : p > d => p \notin Extent
      BY <2>1, <2>5 DEF NextEnds
    <3>2. \A p \in Position : p > d => Entries[p] = "end"
      BY <1>2, <1>6, <3>1, TableFacts
    <3>3. \A p \in Position : p < d \/ p = d \/ p > d
      BY <1>5, <1>6
    <3>4. \A p \in Position : Entries[p] # Target
      BY <1>4, <1>6, <2>3, <3>2, <3>3
    <3> QED BY <1>1, <3>1, <3>4, NotFoundInv
  <2>6. CASE NextOk(job.dp, o)
    <3>1. /\ job' = [job EXCEPT !.pc = job.pc, !.dp = o.dp] /\ last' = last
          /\ Here(o.dp) /\ o.dp.dptr = d + 1
      BY <2>1, <2>6 DEF NextOk, Goto
    <3>2. /\ job' \in JobType /\ last' \in LastType
          /\ job'.pc = job.pc /\ job'.dp = o.dp /\ job'.op = job.op
          /\ job'.name = job.name /\ job'.new = job.new /\ job'.old = job.old
      BY <1>2, <3>1, HereFacts DEF JobType
    <3>3. UNCHANGED <<Extent, Where, Block, Entries>>
      BY <1>1, SameTable
    <3>4. Here(job.dp)' /\ (Here(job.old) => Here(job.old)')
      BY <3>1, <3>2, <3>3 DEF Here
    <3>5. Jobs'
      BY <1>1, <3>1, <3>2, <3>3, <3>4 DEF IInv, Jobs, Searching, Working
    <3>6. \A p \in Position : p < d + 1 => p < d \/ p = d
      BY <1>5, <1>6
    <3>7. \A p \in Position : p < d + 1 => Entries[p] \notin {"end", Target}
      BY <1>6, <2>3, <3>6
    <3>8. Passed'
      BY <1>1, <3>1, <3>2, <3>3, <3>7 DEF Passed, Searching, Target
    <3>9. NoRoom'
      BY <1>3, <3>1 DEF NoRoom
    <3> QED BY <1>1, <1>2, <3>2, <3>5, <3>8, <3>9, JobStep
  <2> QED BY <2>2, <2>4, <2>5, <2>6
<1> QED BY <1>7, <1>8, <1>9, <1>10 DEF dir_find

-----------------------------------------------------------------------------
(* dir_alloc, dir_register and dir_remove.                                 *)

(* Where an allocation is, and what it has passed.                         *)
LEMMA AllocFacts ==
    ASSUME IInv, job.pc = "alloc"
    PROVE  /\ TypeOK /\ ChainOK /\ AllInside /\ job \in JobType /\ last \in LastType
           /\ Here(job.dp) /\ job.dp \in Dp /\ job.dp.sect # 0 /\ OnTrack(job.dp)
           /\ job.dp.sect \in Sector /\ job.dp.dptr % SS \in Index
           /\ job.dp.dptr \in Position /\ job.dp.dptr \in Nat /\ job.dp.dptr \in Extent
           /\ job.dp.sect = Where[job.dp.dptr]
           /\ At(job.dp) = Entries[job.dp.dptr]
           /\ last.res = "none" /\ job.op \in {"create", "rename"}
           /\ Entering \in Name /\ job.name \in Name
           /\ job.op = "rename" => /\ job.new = Entering
                                   /\ Here(job.old) /\ Entries[job.old.dptr] = job.name
                                   /\ job.old.dptr \in Position
           /\ job.op = "create" => job.new = "none" /\ Entering = job.name
           /\ \A p \in Position : p < job.dp.dptr => ~IsFree(Entries[p])
           /\ job.new = job.name \/ \A p \in Position : Entries[p] # Entering
<1>1. TypeOK /\ ChainOK /\ AllInside /\ job \in JobType /\ last \in LastType
  BY DEF IInv, Records
<1>2. /\ Here(job.dp) /\ last.res = "none" /\ job.op \in {"create", "rename"}
      /\ IF job.op = "rename" THEN job.new \in Name ELSE job.new = "none"
      /\ job.name \in Name
      /\ job.op = "rename" => Here(job.old) /\ Entries[job.old.dptr] = job.name
  BY DEF IInv, Jobs, Working
<1>3. /\ \A p \in Position : p < job.dp.dptr => ~IsFree(Entries[p])
      /\ job.new = job.name \/ \A p \in Position : Entries[p] # Entering
  BY DEF IInv, Passed
<1> QED BY <1>1, <1>2, <1>3, HereFacts DEF Entering

LEMMA PutInv ==
    ASSUME IInv, UNCHANGED sclust, job.pc = "alloc", Takes(At(job.dp)), Put
    PROVE  IInv'
<1> DEFINE d == job.dp.dptr
           n == Entering
<1>1. /\ slot' = [slot EXCEPT ![job.dp.sect][job.dp.dptr % SS] = n]
      /\ must' = must \ {n}
      /\ seen' = [seen EXCEPT ![n] = 0]
      /\ IF job.op = "rename" THEN Goto("remove", job.old) ELSE Answer("ok")
      /\ UNCHANGED <<fat, rd, scan, twice, garbled, sclust>>
  BY DEF Put, Entering
<1>2. /\ TypeOK /\ ChainOK /\ AllInside /\ job \in JobType /\ last \in LastType
      /\ d \in Position /\ d \in Nat /\ d \in Extent
      /\ job.dp.sect = Where[d] /\ job.dp.sect \in Sector /\ d % SS \in Index
      /\ IsFree(Entries[d]) /\ n \in Name
  BY AllocFacts DEF Takes
<1>3. /\ UNCHANGED <<NthCluster, Extent, Where, Block>>
      /\ Entries' = [Entries EXCEPT ![d] = n]
      /\ \A s \in Sector, i \in Index :
            slot'[s][i] = IF s = Where[d] /\ i = d % SS THEN n ELSE slot[s][i]
  <2>1. Writes(d, n)
    BY <1>1, <1>2 DEF Writes
  <2>2. TypeOK /\ ChainOK /\ d \in Extent
    BY <1>2
  <2> HIDE DEF d, n
  <2> QED BY <2>1, <2>2, WriteEntry
<1> HIDE DEF n
<1>4. Entries'[d] = n /\ \A p \in Position : p # d => Entries'[p] = Entries[p]
  BY <1>2, <1>3, PositionFacts DEF Entries
<1>5. /\ slot' \in [Sector -> [Index -> Mark \cup Name]]
      /\ must' \cup twice' \subseteq Name /\ seen' \in [Name -> 0 .. 2]
  BY <1>1, <1>2 DEF TypeOK
<1>6. ChainOK'
  BY <1>1, <1>2, <1>3 DEF ChainOK
<1>7. AllInside'
  <2> SUFFICES ASSUME NEW s \in Sector, NEW i \in Index, slot'[s][i] \notin {"end", "junk"}
               PROVE  \E p \in Position : p \in Extent /\ Where[p] = s /\ p % SS = i
    BY <1>3 DEF AllInside
  <2>1. CASE s = Where[d] /\ i = d % SS
    BY <1>2, <2>1
  <2>2. CASE ~(s = Where[d] /\ i = d % SS)
    BY <1>2, <1>3, <2>2 DEF AllInside
  <2> QED BY <2>1, <2>2
<1>8. BehindEnd'
  <2> SUFFICES ASSUME NEW p \in Position, NEW q \in Position, p < q, Entries'[p] = "end"
               PROVE  Entries'[q] = "end" \/ (garbled /\ Entries'[q] = "junk")
    BY <1>1 DEF BehindEnd
  <2>1. p # d /\ Entries[p] = "end"
    BY <1>2, <1>4, NamesAreNoMarks
  <2>2. ~(p < d)
    BY <2>1, AllocFacts DEF IsFree
  <2>3. q # d
    BY <1>2, <2>1, <2>2, PositionFacts
  <2> QED BY <1>4, <2>1, <2>3 DEF IInv, BehindEnd
<1>9. ReaderAt' /\ Quiet'
  <2>1. ReaderAt'
    BY <1>1, <1>3 DEF IInv, ReaderAt, OnTrack, AtClusterEnd, AtSectorEnd
  <2>2. Quiet'
    BY <1>1, <1>2 DEF IInv, Quiet, NotSeen
  <2> QED BY <2>1, <2>2
<1>10. Ahead'
  <2> SUFFICES ASSUME scan = "on", NEW m \in must', seen'[m] = 0
               PROVE  rd.sect # 0 /\ \E p \in Position : p >= rd.dptr /\ Entries'[p] = m
    BY <1>1 DEF Ahead
  <2>1. m \in must /\ m # n /\ m \in Name
    BY <1>1, <1>5
  <2>2. seen[m] = 0
    BY <1>1, <1>2, <2>1 DEF TypeOK
  <2>3. PICK p \in Position : p >= rd.dptr /\ Entries[p] = m
    BY <2>1, <2>2 DEF IInv, Ahead
  <2>4. p # d
    BY <1>2, <2>1, <2>3, NamesAreNoMarks
  <2> QED BY <1>4, <2>1, <2>2, <2>3, <2>4 DEF IInv, Ahead
<1>11. Behind'
  <2> SUFFICES ASSUME scan = "on", rd.sect # 0, NEW m \in Name \ twice, seen'[m] # 0,
                      NEW p \in Position, Entries'[p] = m
               PROVE  p < rd.dptr
    BY <1>1 DEF Behind
  <2>1. m # n /\ seen[m] # 0
    BY <1>1, <1>2 DEF TypeOK
  <2>2. p # d /\ Entries[p] = m
    BY <1>4, <2>1
  <2> QED BY <2>1, <2>2 DEF IInv, Behind
(* At most one entry, but for the old one of a renaming to the same name.  *)
<1>12. ASSUME NEW m \in Name \ twice, NEW p \in Position, NEW q \in Position,
              Entries'[p] = m, Entries'[q] = m, p # q
       PROVE  /\ job.op = "rename" /\ job.new = job.name /\ m = n
              /\ p = job.old.dptr \/ q = job.old.dptr
  <2>1. CASE p # d /\ q # d
    <3>1. Entries[p] = m /\ Entries[q] = m
      BY <1>4, <1>12, <2>1
    <3> QED BY <1>12, <3>1, UniqueNow DEF IInv
  <2>2. ASSUME NEW r \in Position, r # d, Entries'[r] = n, n \notin twice
        PROVE  /\ job.op = "rename" /\ job.new = job.name
               /\ r = job.old.dptr
    <3>1. Entries[r] = n
      BY <1>4, <2>2
    <3>2. job.new = job.name
      BY <3>1, AllocFacts DEF n
    <3>3. /\ job.op = "rename" /\ job.old.dptr \in Position
          /\ Entries[job.old.dptr] = n
      BY <3>2, AllocFacts, NamesAreNoMarks DEF n
    <3>4. r = job.old.dptr
      BY <1>2, <2>2, <3>1, <3>3, UniqueNow DEF IInv
    <3> QED BY <3>2, <3>3, <3>4
  <2>3. CASE p = d
    BY <1>4, <1>12, <2>2, <2>3
  <2>4. CASE q = d
    BY <1>4, <1>12, <2>2, <2>4
  <2> QED BY <2>1, <2>3, <2>4
<1>13. CASE job.op = "rename"
  <2>1. job' = [job EXCEPT !.pc = "remove", !.dp = job.old] /\ last' = last
    BY <1>1, <1>13 DEF Goto
  <2>2. /\ job' \in JobType /\ last' \in LastType
        /\ job'.pc = "remove" /\ job'.op = "rename" /\ job'.dp = job.old
        /\ job'.name = job.name /\ job'.new = job.new
    BY <1>2, <1>13, <2>1 DEF JobType
  <2>3. Here(job.dp)'
    BY <1>3, <1>13, <2>2, AllocFacts DEF Here
  <2>4. job.old.dptr # d
    BY <1>2, <1>13, AllocFacts, NamesAreNoMarks
  <2>5. Entries'[job'.dp.dptr] = job'.name
    BY <1>4, <1>13, <2>2, <2>4, AllocFacts
  <2>6. Jobs'
    BY <1>13, <2>1, <2>2, <2>3, <2>5, AllocFacts DEF Jobs, Ops
  <2>7. Passed' /\ NoRoom'
    BY <1>2, <2>1, <2>2, AllocFacts DEF Passed, NoRoom, Searching
  <2>8. OneEntry'
    <3> SUFFICES ASSUME NEW m \in Name \ twice, NEW p \in Position, NEW q \in Position,
                        Entries'[p] = m, Entries'[q] = m, p # q
                 PROVE  Renaming(m)' /\ (p = job'.dp.dptr \/ q = job'.dp.dptr)
      BY <1>1 DEF OneEntry
    <3>1. /\ job.new = job.name /\ m = n
          /\ p = job.old.dptr \/ q = job.old.dptr
      BY <1>12
    <3>2. n = job.new
      BY <1>13 DEF n, Entering
    <3> QED BY <2>2, <3>1, <3>2 DEF Renaming
  <2>9. TypeOK' /\ Records'
    BY <1>1, <1>2, <1>5, <2>2 DEF IInv, TypeOK, Records, JobType, LastType
  <2> QED BY <1>6, <1>7, <1>8, <1>9, <1>10, <1>11, <2>6, <2>7, <2>8, <2>9 DEF IInv
<1>14. CASE job.op # "rename"
  <2>1. job' = Idle /\ last' = [name |-> Target, res |-> "ok"]
    BY <1>1, <1>14 DEF Answer
  <2>2. /\ job' \in JobType /\ last' \in LastType
        /\ job'.pc = "idle" /\ job'.op = "none" /\ job'.new = "none"
    BY <1>2, <2>1, IdleFacts DEF Target, JobType, LastType, Answers
  <2>3. Jobs' /\ Passed' /\ NoRoom'
    BY <2>1, <2>2 DEF Jobs, Passed, NoRoom, Working, Searching
  <2>4. OneEntry'
    BY <1>1, <1>12, <1>14 DEF OneEntry
  <2>5. TypeOK' /\ Records'
    BY <1>1, <1>2, <1>5, <2>2 DEF IInv, TypeOK, Records, JobType, LastType
  <2> QED BY <1>6, <1>7, <1>8, <1>9, <1>10, <1>11, <2>3, <2>4, <2>5 DEF IInv
<1> QED BY <1>13, <1>14

(* A cluster that is linked to the table brings no name.                   *)
LEMMA LinkNames ==
    ASSUME IInv, job.pc = "alloc",
           NEW c \in Clusters, NEW m \in 0 .. CSize, Links(job.dp, c, m)
    PROVE  \A p \in Position, n \in Name : Entries'[p] = n <=> Entries[p] = n
<1>1. TypeOK /\ ChainOK /\ AllInside /\ Here(job.dp)
  BY AllocFacts
<1>2. /\ \A p \in Extent : Entries'[p] = Entries[p]
      /\ \A p \in Nat : p \notin Extent /\ p \in Extent' => Entries'[p] \in {"end", "junk"}
      /\ \A p \in Nat : p \notin Extent' => Entries'[p] = "end"
  BY <1>1, StretchTable
<1>3. \A p \in Position : p \notin Extent =>
         Entries[p] = "end" /\ Entries'[p] \in {"end", "junk"}
  BY <1>1, <1>2, TableFacts, PositionFacts
<1> QED BY <1>2, <1>3, NamesAreNoMarks

(* A cluster that is linked to the table, cleared or not.                  *)
LEMMA LinkInv ==
    ASSUME IInv, UNCHANGED <<sclust, rd, scan, must, seen, twice>>,
           job.pc = "alloc", ~IsFree(Entries[job.dp.dptr]),
           NEW c \in Clusters, NEW m \in 0 .. CSize, Links(job.dp, c, m),
           \/ m = CSize /\ garbled' = garbled /\ Goto("alloc", InCluster(job.dp, c))
           \/ garbled' = TRUE /\ Answer("disk_err")
    PROVE  IInv'
<1> DEFINE d == job.dp.dptr
           nx == InCluster(job.dp, c)
<1>1. /\ TypeOK /\ ChainOK /\ AllInside /\ job \in JobType /\ last \in LastType
      /\ Here(job.dp) /\ d \in Position /\ d \in Nat /\ d \in Extent
      /\ last.res = "none"
  BY AllocFacts
<1>2. /\ ChainOK'
      /\ \A p \in Extent : /\ p \in Extent'
                           /\ Where'[p] = Where[p] /\ Block'[p] = Block[p]
                           /\ Entries'[p] = Entries[p]
      /\ \A p \in Nat : p \notin Extent /\ p \in Extent' =>
            /\ p > d
            /\ Entries'[p] \in {"end", "junk"}
            /\ m = CSize => Entries'[p] = "end"
      /\ \A p \in Nat : p \notin Extent' => Entries'[p] = "end"
      /\ nx \in Dirs /\ nx.dptr = d + 1 /\ nx.dptr \in Extent'
      /\ nx.sect = Where'[nx.dptr] /\ nx.clust = Block'[nx.dptr]
      /\ \A s \in Sector, i \in Index : slot'[s][i] \in {"end", slot[s][i]}
  BY <1>1, StretchTable
<1>3. \A p \in Position : p \notin Extent =>
         /\ Entries[p] = "end"
         /\ Entries'[p] = "end" \/ (Entries'[p] = "junk" /\ garbled')
  BY <1>1, <1>2, TableFacts, PositionFacts
<1>4. \A p \in Position, n \in Name : Entries'[p] = n <=> Entries[p] = n
  BY LinkNames
<1>5. AllInside'
  <2> SUFFICES ASSUME NEW s \in Sector, NEW i \in Index, slot'[s][i] \notin {"end", "junk"}
               PROVE  \E p \in Position : p \in Extent' /\ Where'[p] = s /\ p % SS = i
    BY DEF AllInside
  <2>1. slot[s][i] \notin {"end", "junk"}
    BY <1>2
  <2>2. PICK p \in Position : p \in Extent /\ Where[p] = s /\ p % SS = i
    BY <1>1, <2>1 DEF AllInside
  <2> QED BY <1>2, <2>2
<1>6. garbled => garbled'
  OBVIOUS
<1>7. BehindEnd'
  <2> SUFFICES ASSUME NEW p \in Position, NEW q \in Position, p < q, Entries'[p] = "end"
               PROVE  Entries'[q] = "end" \/ (garbled' /\ Entries'[q] = "junk")
    BY DEF BehindEnd
  <2>1. CASE q \notin Extent
    BY <1>3, <2>1
  <2>2. CASE q \in Extent
    <3>1. p \in Extent
      <4>1. p \in Nat /\ q \in Nat /\ p <= q
        BY PositionFacts
      <4> QED BY <1>1, <2>2, <4>1, TableFacts
    <3>2. Entries[p] = "end" /\ Entries'[q] = Entries[q]
      BY <1>2, <2>2, <3>1
    <3>3. Entries[q] = "end" \/ (garbled /\ Entries[q] = "junk")
      BY <3>2 DEF IInv, BehindEnd
    <3> QED BY <1>6, <3>2, <3>3
  <2> QED BY <2>1, <2>2
<1>8. OneEntry'
  <2> SUFFICES ASSUME NEW n \in Name \ twice, NEW p \in Position, NEW q \in Position,
                      Entries'[p] = n, Entries'[q] = n
               PROVE  p = q
    BY DEF OneEntry
  <2>1. Entries[p] = n /\ Entries[q] = n
    BY <1>4
  <2> QED BY <2>1, UniqueNow DEF IInv
<1>9. ReaderAt' /\ Quiet'
  <2>1. ReaderAt'
    BY <1>2 DEF IInv, ReaderAt, OnTrack, AtClusterEnd, AtSectorEnd
  <2>2. Quiet'
    BY DEF IInv, Quiet, NotSeen
  <2> QED BY <2>1, <2>2
<1>10. Ahead' /\ Behind'
  <2>1. must \subseteq Name
    BY <1>1 DEF TypeOK
  <2>2. Ahead'
    BY <1>4, <2>1 DEF IInv, Ahead
  <2>3. Behind'
    BY <1>4 DEF IInv, Behind
  <2> QED BY <2>2, <2>3
<1>11. /\ fat' \in [Clusters -> {0, 1, EOC} \cup Clusters]
       /\ slot' \in [Sector -> [Index -> Mark \cup Name]]
       /\ garbled' \in BOOLEAN
  <2>1. fat' \in [Clusters -> {0, 1, EOC} \cup Clusters]
    BY <1>1 DEF TypeOK, Links
  <2>2. slot' \in [Sector -> [Index -> Mark \cup Name]]
    BY <1>1 DEF TypeOK, Links, ClearedTo, Mark
  <2>3. garbled' \in BOOLEAN
    BY <1>1 DEF TypeOK
  <2> QED BY <2>1, <2>2, <2>3
<1>12. CASE m = CSize /\ garbled' = garbled /\ Goto("alloc", nx)
  <2>1. job' = [job EXCEPT !.pc = "alloc", !.dp = nx] /\ last' = last
    BY <1>12 DEF Goto
  <2>2. /\ job' \in JobType /\ last' \in LastType
        /\ job'.pc = "alloc" /\ job'.dp = nx /\ job'.op = job.op
        /\ job'.name = job.name /\ job'.new = job.new /\ job'.old = job.old
    <3> HIDE DEF nx
    <3> QED BY <1>1, <1>2, <2>1 DEF JobType
  <2>3. Here(job.dp)'
    BY <1>2, <2>2 DEF Here
  <2>4. job.op = "rename" => Here(job.old)' /\ Entries'[job.old.dptr] = job.name
    BY <1>2, <2>2, AllocFacts DEF Here
  <2>5. Jobs'
    BY <2>1, <2>2, <2>3, <2>4, AllocFacts DEF Jobs, Ops
  <2>6. ASSUME NEW p \in Position, p < d + 1 PROVE ~IsFree(Entries'[p])
    <3>1. p \in Nat /\ (p < d \/ p = d)
      BY <1>1, <2>6, PositionFacts
    <3>2. p \in Extent
      BY <1>1, <3>1, TableFacts
    <3>3. ~IsFree(Entries[p])
      BY <3>1, AllocFacts
    <3> QED BY <1>2, <3>2, <3>3
  <2>7. job.new = job.name \/ \A p \in Position : Entries'[p] # Entering
    BY <1>4, AllocFacts
  <2>8. Passed'
    <3>1. Entering' = Entering /\ job'.dp.dptr = d + 1
      BY <1>2, <2>2 DEF Entering
    <3> HIDE DEF d
    <3> QED BY <2>2, <2>6, <2>7, <3>1 DEF Passed, Searching
  <2>9. NoRoom'
    BY <1>1, <2>1 DEF NoRoom
  <2>10. TypeOK' /\ Records'
    BY <1>1, <1>11, <2>2 DEF IInv, TypeOK, Records, JobType, LastType
  <2> QED BY <1>2, <1>5, <1>7, <1>8, <1>9, <1>10, <2>5, <2>8, <2>9, <2>10 DEF IInv
<1>13. CASE Answer("disk_err")
  <2>1. job' = Idle /\ last' = [name |-> Target, res |-> "disk_err"]
    BY <1>13 DEF Answer
  <2>2. /\ job' \in JobType /\ last' \in LastType
        /\ job'.pc = "idle" /\ job'.op = "none" /\ job'.new = "none"
    BY <1>1, <2>1, IdleFacts DEF Target, JobType, LastType, Answers
  <2>3. Jobs' /\ Passed' /\ NoRoom'
    BY <2>1, <2>2 DEF Jobs, Passed, NoRoom, Working, Searching
  <2>4. TypeOK' /\ Records'
    BY <1>1, <1>11, <2>2 DEF IInv, TypeOK, Records, JobType, LastType
  <2> QED BY <1>2, <1>5, <1>7, <1>8, <1>9, <1>10, <2>3, <2>4 DEF IInv
<1> QED BY <1>12, <1>13

LEMMA StretchInv ==
    ASSUME IInv, UNCHANGED <<sclust, rd>>, job.pc = "alloc", ~Takes(At(job.dp)),
           NEW o, NextEnds(job.dp, o), o.res = "chain_end", Stretch
    PROVE  IInv'
<1> DEFINE d == job.dp.dptr
<1>1. /\ TypeOK /\ ChainOK /\ job \in JobType /\ last \in LastType /\ job.pc # "remove"
      /\ d \in Position /\ d \in Nat /\ job.op \in {"create", "rename"}
      /\ At(job.dp) = Entries[d]
  BY AllocFacts
<1>2. ~IsFree(Entries[d])
  BY <1>1 DEF Takes
<1>3. /\ AtClusterEnd(job.dp) /\ fat[job.dp.clust] >= NFatEnt /\ d + 1 \in Position
      /\ \A p \in Position : p > d => p \notin Extent
  BY DEF NextEnds
<1>4. \A p \in Position : p \in Extent => ~IsFree(Entries[p])
  <2> SUFFICES ASSUME NEW p \in Position, p \in Extent PROVE ~IsFree(Entries[p])
    OBVIOUS
  <2>1. p < d \/ p = d
    BY <1>1, <1>3, PositionFacts
  <2> QED BY <1>2, <2>1, AllocFacts
<1>5. CASE /\ \E r \in {"full", "disk_err", "int_err"} : Answer(r)
           /\ UNCHANGED <<slot, fat, ghosts>>
  BY <1>1, <1>4, <1>5, AnswerInv DEF Answers
<1>6. ASSUME NEW c \in Clusters, fat[c] = 0, fat' = [fat EXCEPT ![c] = EOC],
             Answer("disk_err"), UNCHANGED <<slot, ghosts>>
      PROVE  IInv'
  <2>1. UNCHANGED <<NthCluster, Extent, Where, Block, Entries>> /\ ChainOK'
    BY <1>1, <1>6, LostCluster
  <2>2. job' = Idle /\ last' = [name |-> Target, res |-> "disk_err"]
    BY <1>6 DEF Answer
  <2>3. /\ job' \in JobType /\ last' \in LastType
        /\ job'.pc = "idle" /\ job'.op = "none" /\ job'.new = "none"
    BY <1>1, <2>2, IdleFacts DEF Target, JobType, LastType, Answers
  <2>4. Jobs' /\ Passed' /\ NoRoom'
    BY <2>2, <2>3 DEF Jobs, Passed, NoRoom, Working, Searching
  <2>5. UNCHANGED <<slot, rd, scan, must, seen, twice, garbled>>
    BY <1>6 DEF ghosts
  <2>6. fat' \in [Clusters -> {0, 1, EOC} \cup Clusters]
    BY <1>1, <1>6 DEF TypeOK
  <2>7. TypeOK' /\ Records'
    BY <2>3, <2>5, <2>6 DEF IInv, TypeOK, Records, JobType, LastType
  <2>8. AllInside' /\ BehindEnd'
    BY <2>1, <2>5 DEF IInv, AllInside, BehindEnd
  <2>9. OneEntry'
    BY <1>1, <2>1, <2>5, UniqueNow DEF IInv, OneEntry
  <2>10. ReaderAt'
    BY <2>1, <2>5 DEF IInv, ReaderAt, OnTrack, AtClusterEnd, AtSectorEnd
  <2>11. Quiet' /\ Ahead' /\ Behind'
    BY <2>1, <2>5 DEF IInv, Quiet, Ahead, Behind, NotSeen
  <2> QED BY <2>1, <2>4, <2>7, <2>8, <2>9, <2>10, <2>11 DEF IInv
<1>7. ASSUME NEW c \in Clusters, fat[c] = 0,
             fat' = [fat EXCEPT ![c] = EOC, ![job.dp.clust] = c],
             slot' = Cleared(c), Goto("alloc", InCluster(job.dp, c)), UNCHANGED ghosts
      PROVE  IInv'
  <2>1. CSize \in 0 .. CSize /\ Links(job.dp, c, CSize)
    BY <1>3, <1>7, Sizes DEF Links, Cleared
  <2>2. UNCHANGED <<scan, must, seen, twice, garbled>>
    BY <1>7 DEF ghosts
  <2> QED BY <1>2, <1>7, <2>1, <2>2, LinkInv
<1>8. ASSUME NEW c \in Clusters, fat[c] = 0,
             fat' = [fat EXCEPT ![c] = EOC, ![job.dp.clust] = c],
             NEW k \in 0 .. CSize - 1, slot' = ClearedTo(c, k),
             garbled' = TRUE, Answer("disk_err"), UNCHANGED <<scan, must, seen, twice>>
      PROVE  IInv'
  <2>1. k \in 0 .. CSize /\ Links(job.dp, c, k)
    BY <1>3, <1>8, Sizes DEF Links
  <2> QED BY <1>2, <1>8, <2>1, LinkInv
<1>9. \/ /\ \E r \in {"full", "disk_err", "int_err"} : Answer(r)
         /\ UNCHANGED <<slot, fat, ghosts>>
      \/ \E c \in Clusters : /\ fat[c] = 0 /\ fat' = [fat EXCEPT ![c] = EOC]
                             /\ Answer("disk_err") /\ UNCHANGED <<slot, ghosts>>
      \/ \E c \in Clusters : /\ fat[c] = 0
                             /\ fat' = [fat EXCEPT ![c] = EOC, ![job.dp.clust] = c]
                             /\ slot' = Cleared(c)
                             /\ Goto("alloc", InCluster(job.dp, c)) /\ UNCHANGED ghosts
      \/ \E c \in Clusters : \E k \in 0 .. CSize - 1 :
                             /\ fat[c] = 0
                             /\ fat' = [fat EXCEPT ![c] = EOC, ![job.dp.clust] = c]
                             /\ slot' = ClearedTo(c, k) /\ garbled' = TRUE
                             /\ Answer("disk_err") /\ UNCHANGED <<scan, must, seen, twice>>
  BY Zenon DEF Stretch
<1>10. CASE \E c \in Clusters : /\ fat[c] = 0 /\ fat' = [fat EXCEPT ![c] = EOC]
                               /\ Answer("disk_err") /\ UNCHANGED <<slot, ghosts>>
  BY <1>6, <1>10
<1>11. CASE \E c \in Clusters : /\ fat[c] = 0
                               /\ fat' = [fat EXCEPT ![c] = EOC, ![job.dp.clust] = c]
                               /\ slot' = Cleared(c)
                               /\ Goto("alloc", InCluster(job.dp, c)) /\ UNCHANGED ghosts
  BY <1>7, <1>11
<1>12. CASE \E c \in Clusters : \E k \in 0 .. CSize - 1 :
                               /\ fat[c] = 0
                               /\ fat' = [fat EXCEPT ![c] = EOC, ![job.dp.clust] = c]
                               /\ slot' = ClearedTo(c, k) /\ garbled' = TRUE
                               /\ Answer("disk_err") /\ UNCHANGED <<scan, must, seen, twice>>
  BY <1>8, <1>12
<1> QED BY <1>5, <1>9, <1>10, <1>11, <1>12

LEMMA AllocInv ==
    ASSUME IInv, UNCHANGED sclust, dir_alloc
    PROVE  IInv'
<1> DEFINE d == job.dp.dptr
<1>1. job.pc = "alloc"
  BY DEF dir_alloc
<1>2. /\ TypeOK /\ ChainOK /\ job \in JobType /\ last \in LastType /\ job.pc # "remove"
      /\ job.dp \in Dp /\ job.dp.sect # 0 /\ OnTrack(job.dp) /\ last.res = "none"
      /\ d \in Position /\ d \in Nat /\ d \in Extent /\ At(job.dp) = Entries[d]
  BY <1>1, AllocFacts
<1>3. CASE Answer("disk_err") /\ UNCHANGED <<slot, fat, rd, ghosts>>
  BY <1>2, <1>3, AnswerInv DEF Answers
<1>4. CASE Takes(At(job.dp)) /\ Put
  BY <1>1, <1>4, PutInv
<1>5. ASSUME ~Takes(At(job.dp)), UNCHANGED rd, NEW o \in dir_next(job.dp),
             \/ o.res = "chain_end" /\ Stretch
             \/ /\ \/ o.res = "ok" /\ Goto("alloc", o.dp)
                   \/ o.res = "no_file" /\ Answer("full")
                   \/ o.res \in {"disk_err", "int_err"} /\ Answer(o.res)
                /\ UNCHANGED <<slot, fat, ghosts>>
      PROVE  IInv'
  <2>1. NextOk(job.dp, o) \/ NextEnds(job.dp, o) \/ NextFails(job.dp, o)
    BY <1>2, NextEntry
  <2>2. ~IsFree(Entries[d])
    BY <1>2, <1>5 DEF Takes
  <2>3. CASE NextFails(job.dp, o)
    <3>1. Answer(o.res) /\ UNCHANGED <<slot, fat, ghosts>>
      BY <1>5, <2>3 DEF NextFails
    <3> QED BY <1>2, <1>5, <2>3, <3>1, AnswerInv DEF Answers, NextFails
  <2>4. CASE NextEnds(job.dp, o) /\ o.res = "chain_end" /\ Stretch
    BY <1>1, <1>5, <2>4, StretchInv
  <2>5. CASE NextEnds(job.dp, o) /\ o.res = "no_file"
    <3>1. Answer("full") /\ UNCHANGED <<slot, fat, rd, ghosts>>
      BY <1>5, <2>5
    <3>2. ASSUME NEW p \in Position, p \in Extent PROVE ~IsFree(Entries[p])
      <4>1. p < d \/ p = d
        BY <1>2, <2>5, <3>2, PositionFacts DEF NextEnds
      <4> QED BY <1>1, <2>2, <4>1, AllocFacts
    <3> QED BY <1>2, <3>1, <3>2, AnswerInv DEF Answers
  <2>6. CASE NextOk(job.dp, o)
    <3>1. /\ job' = [job EXCEPT !.pc = "alloc", !.dp = o.dp] /\ last' = last
          /\ Here(o.dp) /\ o.dp.dptr = d + 1 /\ UNCHANGED <<slot, fat, rd, ghosts>>
      BY <1>5, <2>6 DEF NextOk, Goto
    <3>2. /\ job' \in JobType /\ last' \in LastType
          /\ job'.pc = "alloc" /\ job'.dp = o.dp /\ job'.op = job.op
          /\ job'.name = job.name /\ job'.new = job.new /\ job'.old = job.old
      BY <1>2, <3>1, HereFacts DEF JobType
    <3>3. UNCHANGED <<Extent, Where, Block, Entries>>
      BY <3>1, SameTable
    <3>4. Here(job.dp)' /\ (Here(job.old) => Here(job.old)')
      BY <3>1, <3>2, <3>3 DEF Here
    <3>5. Jobs'
      BY <1>1, <3>1, <3>2, <3>3, <3>4, AllocFacts DEF Jobs, Ops
    <3>6. ASSUME NEW p \in Position, p < d + 1 PROVE ~IsFree(Entries[p])
      <4>1. p < d \/ p = d
        BY <1>2, <3>6, PositionFacts
      <4> QED BY <1>1, <2>2, <4>1, AllocFacts
    <3>7. Passed'
      <4>1. job.new = job.name \/ \A p \in Position : Entries[p] # Entering
        BY <1>1, AllocFacts
      <4>2. Entering' = Entering /\ job'.dp.dptr = d + 1
        BY <3>1, <3>2 DEF Entering
      <4> HIDE DEF d
      <4> QED BY <3>2, <3>3, <3>6, <4>1, <4>2 DEF Passed, Searching
    <3>8. NoRoom'
      BY <1>2, <3>1 DEF NoRoom
    <3> QED BY <1>2, <3>1, <3>2, <3>5, <3>7, <3>8, JobStep
  <2> QED BY <1>5, <2>1, <2>3, <2>4, <2>5, <2>6 DEF NextEnds
<1> QED BY <1>3, <1>4, <1>5 DEF dir_alloc

LEMMA RemoveInv ==
    ASSUME IInv, UNCHANGED sclust, dir_remove
    PROVE  IInv'
<1> DEFINE d == job.dp.dptr
           e == "deleted"
<1>1. /\ job.pc = "remove" /\ UNCHANGED <<sclust, fat, rd, scan, garbled>>
      /\ \/ /\ slot' = [slot EXCEPT ![job.dp.sect][job.dp.dptr % SS] = "deleted"]
            /\ must' = must \ {job.name}
            /\ seen' = [seen EXCEPT ![job.name] = 0]
            /\ Answer("ok") /\ UNCHANGED twice
         \/ /\ Answer("disk_err")
            /\ twice' = IF job.name = job.new THEN twice \cup {job.new} ELSE twice
            /\ UNCHANGED <<slot, must, seen>>
  BY DEF dir_remove
<1>2. /\ TypeOK /\ ChainOK /\ AllInside /\ job \in JobType /\ last \in LastType
      /\ Here(job.dp) /\ job.name \in Name /\ Entries[d] = job.name
      /\ job.new \in Name => job.op = "rename"
  BY <1>1, NamesAreNoMarks DEF IInv, Records, Jobs, Working
<1>3. /\ d \in Position /\ d \in Nat /\ d \in Extent
      /\ job.dp.sect = Where[d] /\ job.dp.sect \in Sector /\ d % SS \in Index
  BY <1>2, HereFacts
<1>4. job' = Idle /\ \E res \in {"ok", "disk_err"} : last' = [name |-> Target, res |-> res]
  BY <1>1 DEF Answer
<1>5. /\ job' \in JobType /\ last' \in LastType /\ last'.res # "full"
      /\ job'.pc = "idle" /\ job'.op = "none" /\ job'.new = "none"
  BY <1>2, <1>4, IdleFacts DEF Target, JobType, LastType, Answers
<1>6. Jobs' /\ Passed' /\ NoRoom'
  BY <1>5 DEF Jobs, Passed, NoRoom, Working, Searching
<1>7. ASSUME slot' = [slot EXCEPT ![job.dp.sect][job.dp.dptr % SS] = "deleted"],
             must' = must \ {job.name}, seen' = [seen EXCEPT ![job.name] = 0],
             UNCHANGED twice
      PROVE  IInv'
  <2>1. Writes(d, e)
    BY <1>1, <1>3, <1>7 DEF Writes
  <2> HIDE DEF e
  <2>2. /\ UNCHANGED <<NthCluster, Extent, Where, Block>>
        /\ Entries' = [Entries EXCEPT ![d] = e]
        /\ \A s \in Sector, i \in Index :
              slot'[s][i] = IF s = Where[d] /\ i = d % SS THEN e ELSE slot[s][i]
    BY <1>2, <1>3, <2>1, WriteEntry
  <2>3. /\ Entries'[d] = "deleted"
        /\ \A p \in Position : p # d => Entries'[p] = Entries[p]
    BY <1>3, <2>2, PositionFacts DEF Entries, e
  <2>4. /\ slot' \in [Sector -> [Index -> Mark \cup Name]]
        /\ must' \cup twice' \subseteq Name /\ seen' \in [Name -> 0 .. 2]
    <3>1. /\ slot \in [Sector -> [Index -> Mark \cup Name]] /\ "deleted" \in Mark
          /\ must \cup twice \subseteq Name /\ seen \in [Name -> 0 .. 2]
      BY <1>2 DEF TypeOK, Mark
    <3>2. slot' \in [Sector -> [Index -> Mark \cup Name]]
      BY <1>3, <1>7, <3>1
    <3>3. must' \cup twice' \subseteq Name
      BY <1>7, <3>1
    <3>4. seen' \in [Name -> 0 .. 2]
      <4>1. seen' = [seen EXCEPT ![job.name] = 0] /\ seen \in [Name -> 0 .. 2]
            /\ 0 \in 0 .. 2
        BY <1>7, <3>1
      <4> DEFINE C == 0 .. 2
      <4> HIDE DEF C
      <4>2. \A n \in Name : seen'[n] \in C
        BY <4>1 DEF C
      <4>3. DOMAIN seen' = Name /\ seen' = [n \in Name |-> seen'[n]]
        BY <4>1
      <4> QED BY <4>2, <4>3 DEF C
    <3> QED BY <3>2, <3>3, <3>4
  <2>5. TypeOK' /\ Records'
    BY <1>1, <1>2, <1>5, <2>4 DEF IInv, TypeOK, Records, JobType, LastType
  <2>6. ChainOK'
    BY <1>1, <1>2, <2>2 DEF ChainOK
  <2>7. AllInside'
    <3> SUFFICES ASSUME NEW s \in Sector, NEW i \in Index, slot'[s][i] \notin {"end", "junk"}
                 PROVE  \E p \in Position : p \in Extent /\ Where[p] = s /\ p % SS = i
      BY <2>2 DEF AllInside
    <3>1. CASE s = Where[d] /\ i = d % SS
      BY <1>3, <3>1
    <3>2. CASE ~(s = Where[d] /\ i = d % SS)
      BY <1>2, <2>2, <3>2 DEF AllInside
    <3> QED BY <3>1, <3>2
  <2>8. BehindEnd'
    <3> SUFFICES ASSUME NEW p \in Position, NEW q \in Position, p < q, Entries'[p] = "end"
                 PROVE  Entries'[q] = "end" \/ (garbled /\ Entries'[q] = "junk")
      BY <1>1 DEF BehindEnd
    <3>1. p # d /\ Entries[p] = "end"
      BY <2>3
    <3>2. Entries[q] = "end" \/ (garbled /\ Entries[q] = "junk")
      BY <3>1 DEF IInv, BehindEnd
    <3>3. q # d
      BY <1>2, <3>2, NamesAreNoMarks
    <3> QED BY <2>3, <3>2, <3>3
  <2>9. OneEntry'
    <3> SUFFICES ASSUME NEW n \in Name \ twice, NEW p \in Position, NEW q \in Position,
                        Entries'[p] = n, Entries'[q] = n
                 PROVE  p = q
      BY <1>7 DEF OneEntry
    <3>1. p # d /\ q # d
      BY <2>3, NamesAreNoMarks
    <3> QED BY <2>3, <3>1 DEF IInv, OneEntry
  <2>10. ReaderAt' /\ Quiet'
    <3>1. ReaderAt'
      BY <1>1, <2>2 DEF IInv, ReaderAt, OnTrack, AtClusterEnd, AtSectorEnd
    <3>2. Quiet'
      BY <1>1, <1>2, <1>7 DEF IInv, Quiet, NotSeen
    <3> QED BY <3>1, <3>2
  <2>11. Ahead'
    <3> SUFFICES ASSUME scan = "on", NEW n \in must', seen'[n] = 0
                 PROVE  rd.sect # 0 /\ \E p \in Position : p >= rd.dptr /\ Entries'[p] = n
      BY <1>1 DEF Ahead
    <3>1. n \in must /\ n # job.name /\ seen[n] = 0
      BY <1>2, <1>7, <2>4 DEF TypeOK
    <3>2. PICK p \in Position : p >= rd.dptr /\ Entries[p] = n
      BY <3>1 DEF IInv, Ahead
    <3>3. p # d
      BY <1>2, <3>1, <3>2
    <3> QED BY <2>3, <3>1, <3>2, <3>3 DEF IInv, Ahead
  <2>12. Behind'
    <3> SUFFICES ASSUME scan = "on", rd.sect # 0, NEW n \in Name \ twice, seen'[n] # 0,
                        NEW p \in Position, Entries'[p] = n
                 PROVE  p < rd.dptr
      BY <1>1, <1>7 DEF Behind
    <3>1. seen[n] # 0
      BY <1>2, <1>7 DEF TypeOK
    <3>2. Entries[p] = n
      BY <2>3, NamesAreNoMarks
    <3> QED BY <3>1, <3>2 DEF IInv, Behind
  <2> QED BY <1>6, <2>5, <2>6, <2>7, <2>8, <2>9, <2>10, <2>11, <2>12 DEF IInv
<1>8. ASSUME twice' = IF job.name = job.new THEN twice \cup {job.new} ELSE twice,
             UNCHANGED <<slot, must, seen>>
      PROVE  IInv'
  <2>1. /\ UNCHANGED <<Extent, Where, Block, Entries>>
        /\ ChainOK' /\ AllInside' /\ BehindEnd'
    BY <1>1, <1>8, TableStays
  <2>2. twice \subseteq twice' /\ twice' \subseteq Name
    BY <1>2, <1>8 DEF TypeOK
  <2>3. TypeOK' /\ Records'
    BY <1>1, <1>2, <1>5, <1>8, <2>2 DEF IInv, TypeOK, Records, JobType, LastType
  <2>4. OneEntry'
    <3> SUFFICES ASSUME NEW n \in Name \ twice', NEW p \in Position, NEW q \in Position,
                        Entries[p] = n, Entries[q] = n
                 PROVE  p = q
      BY <2>1 DEF OneEntry
    <3>1. p = q \/ Renaming(n)
      BY <2>2 DEF IInv, OneEntry
    <3> QED BY <1>8, <3>1 DEF Renaming
  <2>5. ReaderAt'
    BY <1>1, <2>1 DEF IInv, ReaderAt, OnTrack, AtClusterEnd, AtSectorEnd
  <2>6. Quiet' /\ Ahead' /\ Behind'
    BY <1>1, <1>8, <2>1, <2>2 DEF IInv, Quiet, Ahead, Behind, NotSeen
  <2> QED BY <1>6, <2>1, <2>3, <2>4, <2>5, <2>6 DEF IInv
<1> QED BY <1>1, <1>7, <1>8

-----------------------------------------------------------------------------
(* The open directory.                                                     *)

LEMMA ReaderStep ==
    ASSUME IInv, UNCHANGED <<sclust, slot, fat, twice, garbled>>,
           job.pc \in {"idle", "read"}, job' \in {job, Idle}, last' \in {last, NoAnswer},
           rd' \in Dp, scan' \in {"off", "ended", "on", "failed", "wild"},
           must' \subseteq Name, seen' \in [Name -> 0 .. 2],
           ReaderAt', Quiet', Ahead', Behind'
    PROVE  IInv'
<1>1. TypeOK /\ ChainOK /\ job \in JobType /\ last \in LastType
  BY DEF IInv, Records
<1>2. /\ UNCHANGED <<Extent, Where, Block, Entries>>
      /\ ChainOK' /\ AllInside' /\ BehindEnd'
  BY TableStays
<1>3. /\ job' \in JobType /\ last' \in LastType /\ job'.pc \in {"idle", "read"}
      /\ job'.pc = "read" => job' = job
      /\ last'.res = "full" => last' = last
  BY <1>1, IdleFacts
<1>4. TypeOK' /\ Records'
  BY <1>1, <1>3 DEF TypeOK, Records, JobType, LastType, Dp
<1>5. OneEntry'
  BY <1>2, UniqueNow DEF IInv, OneEntry
<1>6. Jobs'
  <2>1. CASE job' = Idle
    BY <1>1, <2>1, IdleFacts DEF Jobs, Working
  <2>2. CASE job' = job
    BY <2>2 DEF IInv, Jobs, Working
  <2> QED BY <2>1, <2>2
<1>7. Passed' /\ NoRoom'
  BY <1>2, <1>3 DEF IInv, Passed, NoRoom, Searching
<1> QED BY <1>2, <1>4, <1>5, <1>6, <1>7 DEF IInv

LEMMA OpenDirInv ==
    ASSUME IInv, UNCHANGED sclust, f_opendir
    PROVE  IInv'
<1>1. /\ job = Idle /\ rd' = Top /\ scan' = "on" /\ must' = Names /\ seen' = NotSeen
      /\ last' = NoAnswer /\ UNCHANGED <<sclust, slot, fat, job, twice, garbled>>
  BY DEF f_opendir
<1>2. TypeOK /\ ChainOK /\ AllInside
  BY DEF IInv
<1>3. UNCHANGED <<Extent, Where, Block, Entries>>
  BY <1>1, SameTable
<1>4. /\ Here(Top) /\ Top \in Dp /\ Top.dptr = 0 /\ Top.sect # 0
  BY <1>2, TopHere
<1>5. ReaderAt'
  BY <1>1, <1>3, <1>4 DEF ReaderAt, OnTrack, Here
<1>6. Ahead'
  <2> SUFFICES ASSUME NEW n \in Names
               PROVE  rd'.sect # 0 /\ \E p \in Position : p >= rd'.dptr /\ Entries[p] = n
    BY <1>1, <1>3 DEF Ahead
  <2>1. PICK p \in Position : Entries[p] = n
    BY <1>2, NamesInTable
  <2> QED BY <1>1, <1>4, <2>1, PositionFacts
<1>7. Behind' /\ Quiet'
  BY <1>1 DEF Behind, Quiet, NotSeen
<1>8. job.pc = "idle" /\ must' \subseteq Name /\ seen' \in [Name -> 0 .. 2]
  BY <1>1, <1>2, IdleFacts DEF NotSeen, Names
<1> QED BY <1>1, <1>4, <1>5, <1>6, <1>7, <1>8, ReaderStep

(* Where the reader is, and that its next item is none it had before.      *)
LEMMA ReadFacts ==
    ASSUME IInv, job.pc = "read", rd.sect \in Sector
    PROVE  /\ TypeOK /\ ChainOK /\ AllInside
           /\ rd \in Dp /\ rd.sect # 0 /\ OnTrack(rd)
           /\ rd.dptr \in Position /\ rd.dptr \in Nat
           /\ scan = "on" => At(rd) = Entries[rd.dptr]
           /\ scan = "on" => \A n \in must : seen[n] = 0 =>
                 \E p \in Position : p >= rd.dptr /\ Entries[p] = n
           /\ scan = "on" => \A n \in Name \ twice : seen[n] # 0 =>
                 \A p \in Position : Entries[p] = n => p < rd.dptr
           /\ scan # "on" => must = {} /\ seen = NotSeen
           /\ must \subseteq Name /\ seen \in [Name -> 0 .. 2]
<1>1. TypeOK /\ ChainOK /\ AllInside /\ rd \in Dp /\ rd.sect # 0
  BY SectorsPositive DEF IInv, Records, Dp
<1>2. OnTrack(rd) /\ (scan # "failed" => rd.sect = Where[rd.dptr])
  BY <1>1 DEF IInv, ReaderAt
<1>3. rd.dptr \in Extent /\ rd.dptr \in Position /\ rd.dptr \in Nat
  BY <1>1, <1>2, PositionFacts DEF OnTrack, Dp
<1>4. scan = "on" => At(rd) = Entries[rd.dptr]
  BY <1>1, <1>2, <1>3, TableFacts DEF At
<1>5. scan = "on" => \A n \in must : seen[n] = 0 =>
         \E p \in Position : p >= rd.dptr /\ Entries[p] = n
  BY DEF IInv, Ahead
<1>6. scan = "on" => \A n \in Name \ twice : seen[n] # 0 =>
         \A p \in Position : Entries[p] = n => p < rd.dptr
  BY <1>1 DEF IInv, Behind
<1>7. scan # "on" => must = {} /\ seen = NotSeen
  BY DEF IInv, Quiet
<1> QED BY <1>1, <1>2, <1>3, <1>4, <1>5, <1>6, <1>7 DEF TypeOK

LEMMA StopInv ==
    ASSUME IInv, UNCHANGED <<sclust, slot, fat, last, twice, garbled>>, job.pc = "read",
           NEW how \in {"ended", "off"}, ReadStops(how)
    PROVE  IInv'
<1>1. rd' = Disabled(rd) /\ scan' = how /\ must' = {} /\ seen' = NotSeen /\ job' = Idle
  BY DEF ReadStops
<1>2. rd \in Dp
  BY DEF IInv, Records, Dp
<1>3. rd' \in Dp /\ rd'.sect = 0
  BY <1>1, <1>2 DEF Disabled, Dp
<1>4. ReaderAt' /\ Quiet' /\ Ahead' /\ Behind'
  BY <1>1, <1>3 DEF ReaderAt, Quiet, Ahead, Behind, NotSeen
<1>5. seen' \in [Name -> 0 .. 2]
  BY <1>1 DEF NotSeen
<1> QED BY <1>1, <1>3, <1>4, <1>5, ReaderStep

(* A reader that moves on, with or without an item.                        *)
LEMMA SkipInv ==
    ASSUME IInv, UNCHANGED <<sclust, slot, fat, job, last, scan, must, seen, twice, garbled>>,
           job.pc = "read", rd.sect \in Sector, Skips(At(rd)),
           NEW o, NextOk(rd, o), rd' = o.dp
    PROVE  IInv'
<1>1. /\ TypeOK /\ ChainOK /\ Here(rd') /\ rd'.dptr = rd.dptr + 1 /\ rd.dptr \in Nat
  BY ReadFacts DEF NextOk
<1>2. /\ UNCHANGED <<Extent, Where, Block, Entries>>
  BY SameTable
<1>3. rd' \in Dp /\ rd'.sect # 0
  BY <1>1, HereFacts
<1>4. ReaderAt'
  BY <1>1, <1>2 DEF ReaderAt, OnTrack, Here
<1>5. Quiet'
  BY ReadFacts DEF Quiet, NotSeen
<1>6. scan = "on" => Entries[rd.dptr] \notin Name
  BY ReadFacts, NameAssumption DEF Skips, Mark
<1>7. Ahead'
  <2> SUFFICES ASSUME scan = "on", NEW n \in must, seen[n] = 0
               PROVE  \E p \in Position : p >= rd.dptr + 1 /\ Entries[p] = n
    BY <1>1, <1>2, <1>3 DEF Ahead
  <2>1. PICK p \in Position : p >= rd.dptr /\ Entries[p] = n
    BY ReadFacts
  <2>2. n \in Name
    BY ReadFacts
  <2>3. p # rd.dptr /\ p \in Nat
    BY <1>6, <2>1, <2>2, PositionFacts
  <2> QED BY <1>1, <2>1, <2>3
<1>8. Behind'
  <2> SUFFICES ASSUME scan = "on", NEW n \in Name \ twice, seen[n] # 0,
                      NEW p \in Position, Entries[p] = n
               PROVE  p < rd.dptr + 1
    BY <1>1, <1>2 DEF Behind
  <2>1. p < rd.dptr /\ p \in Nat
    BY ReadFacts, PositionFacts
  <2> QED BY <1>1, <2>1
<1>9. /\ scan' \in {"off", "ended", "on", "failed", "wild"}
      /\ must' \subseteq Name /\ seen' \in [Name -> 0 .. 2]
  BY <1>1 DEF TypeOK
<1>10. job' \in {job, Idle} /\ last' \in {last, NoAnswer} /\ job.pc \in {"idle", "read"}
  OBVIOUS
<1> QED BY <1>3, <1>4, <1>5, <1>7, <1>8, <1>9, <1>10, ReaderStep

LEMMA ItemInv ==
    ASSUME IInv, UNCHANGED <<sclust, slot, fat, last, twice, garbled>>, job' = Idle,
           job.pc = "read", rd.sect \in Sector, ~EndsSearch(At(rd)), ~Skips(At(rd)),
           Item(At(rd))
    PROVE  IInv'
<1> DEFINE e == At(rd)
           r == rd.dptr
<1>1. PICK o \in dir_next(rd) :
       /\ rd' = o.dp
       /\ \/ /\ o.res \in {"ok", "no_file", "chain_end"}
             /\ scan' = IF scan = "on" THEN "on" ELSE "wild"
             /\ seen' = IF scan = "on" /\ e \in Name
                        THEN [seen EXCEPT ![e] = IF @ = 0 THEN 1 ELSE 2] ELSE seen
             /\ must' = must
          \/ /\ o.res \in {"disk_err", "int_err"}
             /\ scan' = "failed" /\ must' = {} /\ seen' = NotSeen
  BY DEF Item
<1>2. /\ TypeOK /\ ChainOK /\ rd \in Dp /\ rd.sect # 0 /\ OnTrack(rd)
      /\ r \in Position /\ r \in Nat /\ must \subseteq Name /\ seen \in [Name -> 0 .. 2]
      /\ scan # "on" => must = {} /\ seen = NotSeen
      /\ scan = "on" => e = Entries[r]
  BY ReadFacts
<1>3. NextOk(rd, o) \/ NextEnds(rd, o) \/ NextFails(rd, o)
  BY <1>2, NextEntry
<1>4. UNCHANGED <<Extent, Where, Block, Entries>>
  BY SameTable
<1>5. job.pc \in {"idle", "read"} /\ job' \in {job, Idle} /\ last' \in {last, NoAnswer}
  OBVIOUS
<1>6. CASE NextFails(rd, o)
  <2>1. rd' = Derailed(rd) /\ AtClusterEnd(rd) /\ scan' = "failed" /\ must' = {}
        /\ seen' = NotSeen
    BY <1>1, <1>6 DEF NextFails
  <2>2. rd' \in Dp /\ rd'.dptr = rd.dptr /\ rd'.clust = rd.clust
    BY <1>2, <2>1 DEF Dp, Derailed
  <2>3. ReaderAt'
    BY <1>2, <1>4, <2>1, <2>2 DEF ReaderAt, OnTrack, AtClusterEnd, AtSectorEnd
  <2>4. Quiet' /\ Ahead' /\ Behind' /\ seen' \in [Name -> 0 .. 2]
    BY <2>1 DEF Quiet, Ahead, Behind, NotSeen
  <2> QED BY <1>5, <2>1, <2>2, <2>3, <2>4, ReaderStep
<1>7. CASE NextOk(rd, o) \/ NextEnds(rd, o)
  <2>1. /\ rd' = o.dp
        /\ scan' = IF scan = "on" THEN "on" ELSE "wild"
        /\ seen' = IF scan = "on" /\ e \in Name
                   THEN [seen EXCEPT ![e] = IF @ = 0 THEN 1 ELSE 2] ELSE seen
        /\ must' = must
    BY <1>1, <1>7 DEF NextOk, NextEnds
  <2>2. seen' \in [Name -> 0 .. 2]
    BY <1>2, <2>1
  <2>3. Quiet'
    BY <1>2, <2>1 DEF Quiet, NotSeen
  <2>4. /\ \A n \in Name : seen'[n] = 0 => seen[n] = 0 /\ (scan = "on" => n # e)
        /\ \A n \in Name : seen'[n] # 0 => seen[n] # 0 \/ (scan = "on" /\ n = e)
    BY <1>2, <2>1
  <2>5. ASSUME scan = "on", NEW n \in must, seen'[n] = 0
        PROVE  \E p \in Position : p > r /\ Entries[p] = n
    <3>1. n \in Name /\ seen[n] = 0 /\ n # e
      BY <1>2, <2>4, <2>5
    <3>2. PICK p \in Position : p >= r /\ Entries[p] = n
      BY <2>5, <3>1, ReadFacts
    <3>3. p # r /\ p \in Nat
      BY <1>2, <2>5, <3>1, <3>2, PositionFacts
    <3> QED BY <1>2, <3>2, <3>3
  <2>6. ASSUME scan = "on", NEW n \in Name \ twice, seen'[n] # 0,
               NEW p \in Position, Entries[p] = n
        PROVE  p < r + 1
    <3>1. p \in Nat
      BY PositionFacts
    <3>2. CASE seen[n] # 0
      <4>1. p < r
        BY <2>6, <3>2, ReadFacts
      <4> QED BY <1>2, <3>1, <4>1
    <3>3. CASE n = e
      <4>1. Entries[r] = n
        BY <1>2, <2>6, <3>3
      <4>2. p = r
        BY <1>2, <2>6, <4>1, UniqueNow DEF IInv
      <4> QED BY <1>2, <4>2
    <3> QED BY <2>4, <2>6, <3>2, <3>3
  <2>7. CASE NextOk(rd, o)
    <3>1. Here(rd') /\ rd'.dptr = r + 1
      BY <1>1, <2>7 DEF NextOk
    <3>2. rd' \in Dp /\ rd'.sect # 0
      BY <1>2, <3>1, HereFacts
    <3>3. ReaderAt'
      BY <1>4, <3>1 DEF ReaderAt, OnTrack, Here
    <3>4. Ahead'
      <4> SUFFICES ASSUME scan = "on", NEW n \in must, seen'[n] = 0
                   PROVE  \E p \in Position : p >= rd'.dptr /\ Entries[p] = n
        BY <1>4, <2>1, <3>2 DEF Ahead
      <4>1. PICK p \in Position : p > r /\ Entries[p] = n
        BY <2>5
      <4> QED BY <1>2, <3>1, <4>1, PositionFacts
    <3>5. Behind'
      BY <1>4, <2>1, <2>6, <3>1 DEF Behind
    <3> QED BY <1>2, <1>5, <2>1, <2>2, <2>3, <3>2, <3>3, <3>4, <3>5, ReaderStep
  <2>8. CASE NextEnds(rd, o)
    <3>1. /\ rd' = Disabled(rd) /\ \A p \in Position : p > r => p \notin Extent
      BY <1>1, <2>8 DEF NextEnds
    <3>2. rd' \in Dp /\ rd'.sect = 0
      BY <1>2, <3>1 DEF Disabled, Dp
    <3>3. ReaderAt' /\ Behind'
      BY <3>2 DEF ReaderAt, Behind
    <3>4. Ahead'
      <4> SUFFICES ASSUME scan = "on", NEW n \in must, seen'[n] = 0
                   PROVE  FALSE
        BY <2>1 DEF Ahead
      <4>1. PICK p \in Position : p > r /\ Entries[p] = n
        BY <2>5
      <4>2. Entries[p] = "end"
        BY <1>2, <3>1, <4>1, TableFacts, PositionFacts
      <4>3. n \in Name
        BY <1>2
      <4> QED BY <4>1, <4>2, <4>3, NamesAreNoMarks
    <3> QED BY <1>2, <1>5, <2>1, <2>2, <2>3, <3>2, <3>3, <3>4, ReaderStep
  <2> QED BY <1>7, <2>7, <2>8
<1> QED BY <1>3, <1>6, <1>7

LEMMA ReadInv ==
    ASSUME IInv, UNCHANGED sclust, dir_read
    PROVE  IInv'
<1>1. job.pc = "read" /\ UNCHANGED <<sclust, slot, fat, last, twice, garbled>>
  BY DEF dir_read
<1>2. CASE \E how \in {"ended", "off"} : ReadStops(how)
  BY <1>1, <1>2, StopInv
<1>3. ASSUME rd.sect \in Sector, Skips(At(rd)), NEW o \in dir_next(rd),
             o.res = "ok", rd' = o.dp, UNCHANGED <<job, scan, must, seen>>
      PROVE  IInv'
  <2>1. TypeOK /\ ChainOK /\ rd \in Dp /\ rd.sect # 0 /\ OnTrack(rd)
    BY <1>1, <1>3, ReadFacts
  <2>2. NextOk(rd, o)
    BY <1>3, <2>1, NextEntry DEF NextEnds, NextFails
  <2> QED BY <1>1, <1>3, <2>2, SkipInv
<1>4. CASE rd.sect \in Sector /\ ~EndsSearch(At(rd)) /\ ~Skips(At(rd)) /\ Item(At(rd))
           /\ job' = Idle
  BY <1>1, <1>4, ItemInv
<1> QED BY <1>2, <1>3, <1>4 DEF dir_read

-----------------------------------------------------------------------------
(* The invariant.                                                          *)

LEMMA StepInv == IInv /\ [Next]_vars => IInv'
<1> SUFFICES ASSUME IInv, [Next]_vars PROVE IInv'
  OBVIOUS
<1>1. CASE UNCHANGED vars
  <2>1. UNCHANGED <<sclust, slot, fat, rd, job, last, scan, must, seen, twice, garbled>>
    BY <1>1 DEF vars
  <2>2. UNCHANGED <<Extent, Where, Block, Entries>> /\ ChainOK' /\ AllInside' /\ BehindEnd'
    BY <2>1, TableStays
  <2>3. ReaderAt' /\ Quiet' /\ Ahead' /\ Behind'
    BY <2>1, ReaderStays
  <2>4. TypeOK' /\ Records'
    BY <2>1 DEF IInv, TypeOK, Records, JobType, LastType
  <2>5. OneEntry' /\ NoRoom'
    BY <2>1, <2>2 DEF IInv, OneEntry, NoRoom, Renaming
  <2>6. Jobs' /\ Passed'
    BY <2>1, <2>2 DEF IInv, Jobs, Passed, Here, Entering, Target
  <2> QED BY <2>2, <2>3, <2>4, <2>5, <2>6 DEF IInv
<1>2. ASSUME UNCHANGED sclust, Calls PROVE IInv'
  <2>1. ASSUME NEW n \in Name, f_open(n) \/ f_create(n) \/ f_unlink(n) PROVE IInv'
    BY <1>2, <2>1, CallInv DEF f_open, f_create, f_unlink, Ops
  <2>2. ASSUME NEW n \in Name, NEW m \in Name, f_rename(n, m) PROVE IInv'
    BY <1>2, <2>2, CallInv DEF f_rename, Ops
  <2> QED BY <1>2, <2>1, <2>2, OpenDirInv, ReadDirInv DEF Calls
<1>3. ASSUME UNCHANGED sclust, Step PROVE IInv'
  BY <1>3, FindInv, AllocInv, RemoveInv, ReadInv DEF Step
<1> QED BY <1>1, <1>2, <1>3 DEF Next

LEMMA Inductive == Spec => []IInv
BY InitInv, StepInv, PTL DEF Spec

LEMMA OnePlace == IInv => UniqueNames
<1> SUFFICES ASSUME IInv, NEW n \in Name \ twice, ~Renaming(n)
             PROVE  ~(Cardinality(Places(n)) > 1)
  BY DEF UniqueNames
<1>1. TypeOK /\ ChainOK
  BY DEF IInv
<1>2. ASSUME NEW x \in Places(n)
      PROVE  \E p \in Position : Entries[p] = n /\ x = <<Where[p], p % SS>>
  <2>1. PICK s \in Sector, i \in Index : x = <<s, i>> /\ slot[s][i] = n
    BY DEF Places
  <2>2. n \notin {"end", "junk"}
    BY NamesAreNoMarks
  <2>3. PICK p \in Position : p \in Extent /\ Where[p] = s /\ p % SS = i
    BY <2>1, <2>2 DEF IInv, AllInside
  <2> QED BY <1>1, <2>1, <2>3, TableFacts
<1>3. \A p, q \in Position : Entries[p] = n /\ Entries[q] = n => p = q
  BY DEF IInv, OneEntry
<1>4. \A x, y \in Places(n) : x = y
  BY <1>2, <1>3
<1>5. CASE Places(n) = {}
  BY <1>5, FS_EmptySet
<1>6. CASE Places(n) # {}
  <2>1. PICK x : Places(n) = {x}
    BY <1>4, <1>6
  <2>2. Cardinality(Places(n)) = 1
    BY <2>1, FS_Singleton, Zenon
  <2> QED BY <2>2
<1> QED BY <1>5, <1>6

LEMMA Sound == IInv => TableSound
<1> SUFFICES ASSUME IInv PROVE TableSound
  OBVIOUS
<1>1. TypeOK /\ ChainOK
  BY DEF IInv
<1>2. \A p \in Position : /\ p \in Nat /\ Entries[p] = EntryAt(p)
                          /\ p \in Extent <=> InTable(p)
  BY PositionFacts DEF Entries, Extent
<1>3. NothingBehindEnd
  <2> SUFFICES ASSUME ~garbled, NEW p \in Position \ {0}, EntryAt(p - 1) = "end"
               PROVE  EntryAt(p) = "end"
    BY DEF NothingBehindEnd
  <2>1. p - 1 \in Position /\ p - 1 < p
    BY SizeAssumption DEF Position
  <2> QED BY <1>2, <2>1 DEF IInv, BehindEnd
<1>4. FullMeansFull
  BY <1>2 DEF IInv, NoRoom, FullMeansFull
<1>5. ASSUME NEW dp, dp.dptr \in Extent, dp.sect = Where[dp.dptr] PROVE Located(dp)
  BY <1>5 DEF Located, Extent, Where
<1>6. InPlace
  <2>1. ASSUME job.pc \notin {"idle", "read"} PROVE Located(job.dp)
    <3>1. Here(job.dp)
      BY <2>1, <1>1 DEF IInv, Jobs, Working, TypeOK
    <3> QED BY <1>5, <3>1 DEF Here
  <2>2. ASSUME job.pc = "remove" PROVE EntryAt(job.dp.dptr) = job.name
    <3>1. Here(job.dp) /\ Entries[job.dp.dptr] = job.name
      BY <2>2 DEF IInv, Jobs, Working
    <3>2. job.dp.dptr \in Position
      BY <1>1, <3>1, HereFacts
    <3> QED BY <1>2, <3>1, <3>2
  <2>3. ASSUME rd.sect # 0, scan # "failed" PROVE Located(rd)
    BY <1>5, <2>3 DEF IInv, ReaderAt, OnTrack
  <2> QED BY <2>1, <2>2, <2>3 DEF InPlace
<1> QED BY <1>1, <1>3, <1>4, <1>6, OnePlace DEF TableSound

(* For every size of table, and transfers that fail at any entry of any    *)
(* call: no name has two entries, unless f_rename to the same name put the *)
(* second one in and has not removed, or failed to remove, the first       *)
(* (twice); nothing lies behind the end mark, unless dir_clear failed on a *)
(* linked cluster (garbled); no call is refused while an entry is free; and*)
(* a search, and a reader that was told of no error, are at the entry their*)
(* offset says.                                                            *)
THEOREM TableStaysSound == Spec => []TableSound
BY Inductive, Sound, PTL

-----------------------------------------------------------------------------
(* Listing.                                                                *)

Listed == {n \in Name : \E p \in Position : Entries[p] = n}

NamesAreListed == Names = Listed

LEMMA NamesListed == IInv => NamesAreListed
<1> SUFFICES ASSUME IInv PROVE NamesAreListed
  OBVIOUS
<1>1. \A n : n \in Names <=> n \in Name /\ \E p \in Position : Entries[p] = n
  BY NamesInTable DEF IInv
<1> QED BY <1>1 DEF Listed, NamesAreListed

LEMMA NamesListedThen == IInv' => NamesAreListed'
BY NamesListed, PTL

LEMMA NamesListedNext == ASSUME IInv, IInv' PROVE Names = Listed /\ Names' = Listed'
BY NamesListed, NamesListedThen DEF NamesAreListed

LEMMA InitList == Init => List!Init
<1> SUFFICES ASSUME Init PROVE List!Init
  OBVIOUS
<1>1. scan = "off" /\ must = {} /\ seen = NotSeen /\ twice = {}
  BY DEF Init, InitCalls
<1>2. Names \subseteq Name
  BY DEF Names
<1> QED BY <1>1, <1>2 DEF List!Init, List!NotSeen, NotSeen

LEMMA Stutters ==
    ASSUME UNCHANGED <<slot, scan, must, seen, twice>>
    PROVE  UNCHANGED List!lvars
BY DEF List!lvars, Names

LEMMA PutAdds ==
    ASSUME IInv, IInv', UNCHANGED sclust, job.pc = "alloc", Takes(At(job.dp)), Put
    PROVE  List!Next
<1> DEFINE d == job.dp.dptr
           n == Entering
<1>1. /\ slot' = [slot EXCEPT ![job.dp.sect][job.dp.dptr % SS] = n]
      /\ must' = must \ {n} /\ seen' = [seen EXCEPT ![n] = 0]
      /\ UNCHANGED <<fat, scan, twice, sclust>>
  BY DEF Put, Entering
<1>2. /\ TypeOK /\ ChainOK /\ d \in Extent /\ d \in Position /\ d \in Nat /\ n \in Name
      /\ job.dp.sect = Where[d] /\ IsFree(Entries[d])
  BY AllocFacts DEF Takes
<1> HIDE DEF n
<1>3. Writes(d, n)
  BY <1>1, <1>2 DEF Writes
<1>4. Entries' = [Entries EXCEPT ![d] = n]
  BY <1>2, <1>3, WriteEntry
<1>5. Entries'[d] = n /\ \A p \in Position : p # d => Entries'[p] = Entries[p]
  BY <1>2, <1>4, PositionFacts DEF Entries
<1>6. Listed' = Listed \cup {n}
  <2>1. ASSUME NEW m \in Name
        PROVE  (\E p \in Position : Entries'[p] = m)
                  <=> m = n \/ \E p \in Position : Entries[p] = m
    <3>1. CASE m = n
      BY <1>2, <1>5, <3>1
    <3>2. CASE m # n
      <4>1. \A p \in Position : Entries'[p] = m <=> Entries[p] = m
        BY <1>2, <1>5, <3>2, NamesAreNoMarks
      <4> QED BY <3>2, <4>1
    <3> QED BY <3>1, <3>2
  <2> QED BY <1>2, <2>1 DEF Listed
<1>7. Names' = Names \cup {n}
  BY <1>6, NamesListedNext
<1>8. List!Add(n)
  BY <1>1, <1>7 DEF List!Add
<1> QED BY <1>2, <1>8 DEF List!Next

LEMMA RemoveRefines ==
    ASSUME IInv, IInv', UNCHANGED sclust, dir_remove
    PROVE  [List!Next]_List!lvars
<1> DEFINE d == job.dp.dptr
           n == job.name
           e == "deleted"
<1>1. /\ job.pc = "remove" /\ UNCHANGED <<sclust, fat, scan>>
      /\ \/ /\ slot' = [slot EXCEPT ![job.dp.sect][job.dp.dptr % SS] = "deleted"]
            /\ must' = must \ {n}
            /\ seen' = [seen EXCEPT ![n] = 0]
            /\ UNCHANGED twice
         \/ /\ twice' = IF n = job.new THEN twice \cup {job.new} ELSE twice
            /\ UNCHANGED <<slot, must, seen>>
  BY DEF dir_remove
<1>2. /\ TypeOK /\ ChainOK /\ Here(job.dp) /\ n \in Name /\ Entries[d] = n
  BY <1>1 DEF IInv, Jobs, Working
<1>3. d \in Position /\ d \in Nat /\ d \in Extent /\ job.dp.sect = Where[d]
  BY <1>2, HereFacts
<1>4. n \in Names
  BY <1>2, <1>3, NamesListedNext DEF Listed
<1>5. CASE /\ slot' = [slot EXCEPT ![job.dp.sect][job.dp.dptr % SS] = "deleted"]
           /\ must' = must \ {n}
           /\ seen' = [seen EXCEPT ![n] = 0]
           /\ UNCHANGED twice
  <2>1. Writes(d, e)
    BY <1>1, <1>3, <1>5 DEF Writes
  <2> HIDE DEF e
  <2>2. Entries' = [Entries EXCEPT ![d] = e]
    BY <1>2, <1>3, <2>1, WriteEntry
  <2>3. Entries'[d] = "deleted" /\ \A p \in Position : p # d => Entries'[p] = Entries[p]
    BY <1>3, <2>2, PositionFacts DEF Entries, e
  <2>4. \A m \in Name : m # n =>
           ((\E p \in Position : Entries'[p] = m) <=> (\E p \in Position : Entries[p] = m))
    <3> SUFFICES ASSUME NEW m \in Name, m # n
                 PROVE  \A p \in Position : Entries'[p] = m <=> Entries[p] = m
      OBVIOUS
    <3> QED BY <1>2, <2>3, NamesAreNoMarks
  <2>5. Listed' \ {n} = Listed \ {n}
    BY <2>4 DEF Listed
  <2>6. Names' = Names \/ Names' = Names \ {n}
    BY <1>4, <2>5, NamesListedNext
  <2>7. CASE Names' = Names
    <3>1. List!Add(n)
      BY <1>1, <1>4, <1>5, <2>7 DEF List!Add
    <3> QED BY <1>2, <3>1 DEF List!Next
  <2>8. CASE Names' = Names \ {n}
    <3>1. List!Remove(n)
      BY <1>1, <1>5, <2>8 DEF List!Remove
    <3> QED BY <1>2, <3>1 DEF List!Next
  <2> QED BY <2>6, <2>7, <2>8
<1>6. CASE /\ twice' = IF n = job.new THEN twice \cup {job.new} ELSE twice
           /\ UNCHANGED <<slot, must, seen>>
  <2>1. CASE n = job.new
    <3>1. Names' = Names
      BY <1>6 DEF Names
    <3>2. List!Double(n)
      BY <1>1, <1>4, <1>6, <2>1, <3>1 DEF List!Double
    <3> QED BY <1>2, <3>2 DEF List!Next
  <2>2. CASE n # job.new
    BY <1>1, <1>6, <2>2, Stutters
  <2> QED BY <2>1, <2>2
<1> QED BY <1>1, <1>5, <1>6

LEMMA LinkStutters ==
    ASSUME IInv, IInv', UNCHANGED <<scan, must, seen, twice>>, job.pc = "alloc",
           NEW c \in Clusters, NEW m \in 0 .. CSize, Links(job.dp, c, m)
    PROVE  UNCHANGED List!lvars
<1>1. \A p \in Position, n \in Name : Entries'[p] = n <=> Entries[p] = n
  BY LinkNames
<1>2. Listed' = Listed
  BY <1>1 DEF Listed
<1>3. Names' = Names
  BY <1>2, NamesListedNext
<1> QED BY <1>3 DEF List!lvars

LEMMA StretchStutters ==
    ASSUME IInv, IInv', UNCHANGED sclust, job.pc = "alloc",
           NEW o, NextEnds(job.dp, o), o.res = "chain_end", Stretch
    PROVE  UNCHANGED List!lvars
<1>1. /\ AtClusterEnd(job.dp) /\ fat[job.dp.clust] >= NFatEnt
      /\ job.dp.dptr + 1 \in Position
  BY DEF NextEnds
<1>2. \/ UNCHANGED <<slot, ghosts>>
      \/ \E c \in Clusters, k \in 0 .. CSize :
            /\ fat[c] = 0
            /\ fat' = [fat EXCEPT ![c] = EOC, ![job.dp.clust] = c]
            /\ slot' = ClearedTo(c, k)
            /\ UNCHANGED <<scan, must, seen, twice>>
  <2>1. CSize \in 0 .. CSize /\ \A k \in 0 .. CSize - 1 : k \in 0 .. CSize
    BY Sizes
  <2>2. \/ UNCHANGED <<slot, ghosts>>
        \/ \E c \in Clusters : /\ fat[c] = 0
                               /\ fat' = [fat EXCEPT ![c] = EOC, ![job.dp.clust] = c]
                               /\ slot' = Cleared(c) /\ UNCHANGED ghosts
        \/ \E c \in Clusters : \E k \in 0 .. CSize - 1 :
                               /\ fat[c] = 0
                               /\ fat' = [fat EXCEPT ![c] = EOC, ![job.dp.clust] = c]
                               /\ slot' = ClearedTo(c, k)
                               /\ UNCHANGED <<scan, must, seen, twice>>
    BY Zenon DEF Stretch
  <2>3. CASE \E c \in Clusters : /\ fat[c] = 0
                               /\ fat' = [fat EXCEPT ![c] = EOC, ![job.dp.clust] = c]
                               /\ slot' = Cleared(c) /\ UNCHANGED ghosts
    BY <2>1, <2>3 DEF ghosts, Cleared
  <2>4. CASE \E c \in Clusters : \E k \in 0 .. CSize - 1 :
                               /\ fat[c] = 0
                               /\ fat' = [fat EXCEPT ![c] = EOC, ![job.dp.clust] = c]
                               /\ slot' = ClearedTo(c, k)
                               /\ UNCHANGED <<scan, must, seen, twice>>
    BY <2>1, <2>4
  <2> QED BY <2>2, <2>3, <2>4
<1>3. CASE UNCHANGED <<slot, ghosts>>
  <2>1. UNCHANGED <<slot, scan, must, seen, twice>>
    BY <1>3 DEF ghosts
  <2> QED BY <2>1, Stutters
<1>4. ASSUME NEW c \in Clusters, NEW k \in 0 .. CSize, fat[c] = 0,
             fat' = [fat EXCEPT ![c] = EOC, ![job.dp.clust] = c],
             slot' = ClearedTo(c, k), UNCHANGED <<scan, must, seen, twice>>
      PROVE  UNCHANGED List!lvars
  <2>1. Links(job.dp, c, k)
    BY <1>1, <1>4 DEF Links
  <2> QED BY <1>4, <2>1, LinkStutters
<1> QED BY <1>2, <1>3, <1>4

LEMMA AllocRefines ==
    ASSUME IInv, IInv', UNCHANGED sclust, dir_alloc
    PROVE  [List!Next]_List!lvars
<1>1. job.pc = "alloc"
  BY DEF dir_alloc
<1>2. /\ TypeOK /\ ChainOK /\ job.dp \in Dp /\ job.dp.sect # 0 /\ OnTrack(job.dp)
  BY <1>1, AllocFacts
<1>3. CASE UNCHANGED <<slot, ghosts>>
  <2>1. UNCHANGED <<slot, scan, must, seen, twice>>
    BY <1>3 DEF ghosts
  <2> QED BY <2>1, Stutters
<1>4. CASE Takes(At(job.dp)) /\ Put
  BY <1>1, <1>4, PutAdds
<1>5. ASSUME NEW o \in dir_next(job.dp), o.res = "chain_end", Stretch
      PROVE  UNCHANGED List!lvars
  <2>1. NextEnds(job.dp, o)
    BY <1>2, <1>5, NextEntry DEF NextOk, NextFails
  <2> QED BY <1>1, <1>5, <2>1, StretchStutters
<1> QED BY <1>3, <1>4, <1>5 DEF dir_alloc

LEMMA EndsPromise ==
    ASSUME UNCHANGED <<slot, twice>>, ReadStops("ended"),
           \A n \in must : seen[n] # 0
    PROVE  List!Next
<1>1. Names' = Names
  BY DEF Names
<1>2. List!End
  BY <1>1 DEF ReadStops, List!End, List!NotSeen, NotSeen
<1> QED BY <1>2 DEF List!Next

LEMMA ItemRefines ==
    ASSUME IInv, UNCHANGED <<sclust, slot, twice>>, job.pc = "read", rd.sect \in Sector,
           ~EndsSearch(At(rd)), ~Skips(At(rd)), Item(At(rd))
    PROVE  [List!Next]_List!lvars
<1> DEFINE e == At(rd)
<1>1. Names' = Names
  BY DEF Names
<1>2. /\ TypeOK /\ ChainOK /\ AllInside /\ rd.dptr \in Position /\ rd.dptr \in Nat
      /\ seen \in [Name -> 0 .. 2]
      /\ scan # "on" => must = {} /\ seen = NotSeen
      /\ scan = "on" => e = Entries[rd.dptr]
  BY ReadFacts
<1>3. \/ /\ scan' = IF scan = "on" THEN "on" ELSE "wild"
         /\ seen' = IF scan = "on" /\ e \in Name
                    THEN [seen EXCEPT ![e] = IF @ = 0 THEN 1 ELSE 2] ELSE seen
         /\ must' = must
      \/ scan' = "failed" /\ must' = {} /\ seen' = NotSeen
  BY DEF Item
<1>4. CASE scan' = "failed" /\ must' = {} /\ seen' = NotSeen
  <2>1. List!Fail
    BY <1>1, <1>4 DEF List!Fail, List!NotSeen, NotSeen
  <2> QED BY <2>1 DEF List!Next
<1>5. CASE scan # "on" /\ scan' = "wild" /\ seen' = seen /\ must' = must
  <2>1. List!Fail
    BY <1>1, <1>2, <1>5 DEF List!Fail, List!NotSeen, NotSeen
  <2> QED BY <2>1 DEF List!Next
<1>6. CASE scan = "on" /\ e \notin Name /\ scan' = scan /\ seen' = seen /\ must' = must
  BY <1>6, Stutters
<1>7. CASE /\ scan = "on" /\ e \in Name /\ scan' = scan /\ must' = must
           /\ seen' = [seen EXCEPT ![e] = IF @ = 0 THEN 1 ELSE 2]
  <2>1. e = Entries[rd.dptr] /\ e \in Names
    BY <1>2, <1>7, NamesInTable
  <2>2. seen[e] # 0 => e \in twice
    <3> SUFFICES ASSUME e \in Name \ twice, seen[e] # 0 PROVE FALSE
      BY <1>7
    <3>1. rd.dptr < rd.dptr
      BY <1>2, <1>7, <2>1, ReadFacts
    <3> QED BY <1>2, <3>1
  <2>3. \/ seen[e] = 0 /\ seen' = [seen EXCEPT ![e] = 1]
        \/ e \in twice /\ seen' = [seen EXCEPT ![e] = 2]
    BY <1>7, <2>2
  <2>4. List!Deliver(e)
    BY <1>1, <1>7, <2>1, <2>3 DEF List!Deliver
  <2> QED BY <1>7, <2>4 DEF List!Next
<1> QED BY <1>3, <1>4, <1>5, <1>6, <1>7

LEMMA ReadRefines ==
    ASSUME IInv, IInv', UNCHANGED sclust, dir_read
    PROVE  [List!Next]_List!lvars
<1>1. job.pc = "read" /\ UNCHANGED <<sclust, slot, fat, last, twice, garbled>>
  BY DEF dir_read
<1>2. CASE ReadStops("off")
  <2>1. Names' = Names
    BY <1>1 DEF Names
  <2>2. List!Fail
    BY <1>1, <1>2, <2>1 DEF ReadStops, List!Fail, List!NotSeen, NotSeen
  <2> QED BY <2>2 DEF List!Next
<1>3. CASE rd.sect = 0 /\ ReadStops("ended")
  <2>1. \A n \in must : seen[n] # 0
    BY <1>3 DEF IInv, Quiet, Ahead
  <2> QED BY <1>1, <1>3, <2>1, EndsPromise
<1>4. CASE rd.sect \in Sector /\ EndsSearch(At(rd)) /\ ReadStops("ended")
  <2>1. ASSUME NEW n \in must, seen[n] = 0 PROVE FALSE
    <3>1. scan = "on" /\ n \in Name
      BY <1>1, <1>4, <2>1, ReadFacts
    <3>2. PICK p \in Position : p >= rd.dptr /\ Entries[p] = n
      BY <1>1, <1>4, <2>1, <3>1, ReadFacts
    <3>3. Entries[rd.dptr] = "end" /\ rd.dptr \in Position /\ rd.dptr \in Nat /\ p \in Nat
      BY <1>1, <1>4, <3>1, ReadFacts, PositionFacts DEF EndsSearch
    <3>4. p = rd.dptr \/ rd.dptr < p
      BY <3>2, <3>3
    <3>5. Entries[p] \in {"end", "junk"}
      BY <3>3, <3>4 DEF IInv, BehindEnd
    <3> QED BY <3>1, <3>2, <3>5, NamesAreNoMarks
  <2> QED BY <1>1, <1>4, <2>1, EndsPromise
<1>5. ASSUME rd.sect \in Sector, Skips(At(rd)), NEW o \in dir_next(rd),
             o.res \in {"no_file", "chain_end"}, ReadStops("ended")
      PROVE  List!Next
  <2>1. /\ TypeOK /\ ChainOK /\ rd \in Dp /\ rd.sect # 0 /\ OnTrack(rd)
        /\ rd.dptr \in Position /\ rd.dptr \in Nat
    BY <1>1, <1>5, ReadFacts
  <2>2. \A p \in Position : p > rd.dptr => p \notin Extent
    BY <1>5, <2>1, NextEntry DEF NextOk, NextEnds, NextFails
  <2>3. ASSUME NEW n \in must, seen[n] = 0 PROVE FALSE
    <3>1. scan = "on" /\ n \in Name
      BY <1>1, <1>5, <2>3, ReadFacts
    <3>2. PICK p \in Position : p >= rd.dptr /\ Entries[p] = n
      BY <1>1, <1>5, <2>3, <3>1, ReadFacts
    <3>3. Entries[rd.dptr] \notin Name
      BY <1>1, <1>5, <3>1, ReadFacts, NameAssumption DEF Skips, Mark
    <3>4. p > rd.dptr /\ p \in Nat
      BY <2>1, <3>1, <3>2, <3>3, PositionFacts
    <3>5. Entries[p] = "end"
      BY <2>1, <2>2, <3>4, TableFacts
    <3> QED BY <3>1, <3>2, <3>5, NamesAreNoMarks
  <2> QED BY <1>1, <1>5, <2>3, EndsPromise
<1>6. CASE UNCHANGED <<job, scan, must, seen>>
  BY <1>1, <1>6, Stutters
<1>7. CASE rd.sect \in Sector /\ ~EndsSearch(At(rd)) /\ ~Skips(At(rd)) /\ Item(At(rd))
  BY <1>1, <1>7, ItemRefines
<1> QED BY <1>2, <1>3, <1>4, <1>5, <1>6, <1>7 DEF dir_read

LEMMA StepRefines == IInv /\ IInv' /\ [Next]_vars => [List!Next]_List!lvars
<1> SUFFICES ASSUME IInv, IInv', [Next]_vars PROVE [List!Next]_List!lvars
  OBVIOUS
<1>1. CASE UNCHANGED vars
  BY <1>1, Stutters DEF vars
<1>2. ASSUME Calls PROVE [List!Next]_List!lvars
  <2>1. CASE UNCHANGED <<slot, ghosts>>
    BY <2>1, Stutters DEF ghosts
  <2>2. CASE f_opendir
    <3>1. Names' = Names
      BY <2>2 DEF f_opendir, Names
    <3>2. List!Start
      BY <2>2, <3>1 DEF f_opendir, List!Start, List!NotSeen, NotSeen
    <3> QED BY <3>2 DEF List!Next
  <2> QED BY <1>2, <2>1, <2>2
          DEF Calls, f_open, f_create, f_unlink, f_rename, f_readdir, Call
<1>3. ASSUME UNCHANGED sclust, Step PROVE [List!Next]_List!lvars
  <2>1. CASE dir_find
    BY <2>1, Stutters DEF dir_find, ghosts
  <2> QED BY <1>3, <2>1, AllocRefines, RemoveRefines, ReadRefines DEF Step
<1> QED BY <1>1, <1>2, <1>3 DEF Next

(* The table and its reader keep the promise of Listing: every name that   *)
(* was there all the time is delivered, none twice, whatever comes, goes   *)
(* and moves and however the table is stretched while the reader is on its *)
(* way.                                                                    *)
THEOREM TableRefinesListing == Spec => RefinesListing
<1>1. Spec => []IInv
  BY Inductive
<1> QED BY <1>1, InitList, StepRefines, PTL DEF Spec, RefinesListing, List!Spec
=============================================================================
