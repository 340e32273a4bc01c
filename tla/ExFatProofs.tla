---------------------------- MODULE ExFatProofs ----------------------------
(***************************************************************************)
(* The theorems about ExFat, for every size of volume, any files and       *)
(* sub-directories and any sequence of calls: an open file's chain is      *)
(* known, what was written is enough to find it again, every cluster marked*)
(* in the bitmap is accounted for and no call answers FR_INT_ERR.  All of  *)
(* it ends when f_mkdir gives back more than its own cluster (stray).      *)
(*                                                                         *)
(* IInv, the inductive invariant, says of each object what its allocation  *)
(* fields together with the FAT must know of the clusters it was given     *)
(* (Knows): contiguous ones by number, the last n_frag of them by number   *)
(* too, those between by their FAT entries.  Chains are disjoint and the   *)
(* bitmap is their union (Apart), so what a call marks or links is no one  *)
(* else's; and what a handle remembers of its directory stays a beginning  *)
(* of the directory's chain, with its entry block inside (HomeSeen).       *)
(*                                                                         *)
(* First come the helpers, one by one (get_fat, the fragments, the bitmap, *)
(* create_chain, remove_chain, dir_register), then one lemma per call, then*)
(* the theorems.                                                           *)
(***************************************************************************)
EXTENDS ExFat, BasicLemmas

FatType == [Clusters -> {0, EOC} \cup Clusters]
Volumes == [fat : FatType, bits : SUBSET Clusters, last : Nat, free : 0 .. Unknown]
ObjRec == [sclust : Nat, objsize : Nat, stat : {0, 2, 3}, n_cont : Nat, n_frag : Nat]

(* The clusters number a to b of ch are one behind the other.              *)
Straight(ch, a, b) == \A i, j \in a .. b : ch[j] - ch[i] = j - i
(* What cluster number i of ch refers to.                                  *)
Behind(ch, i) == IF i < Len(ch) THEN ch[i + 1] ELSE EOC

(* The object o, with the FAT t, knows that its clusters are ch.           *)
Knows(o, ch, t) ==
    /\ o \in ObjRec
    /\ o.objsize = Len(ch)
    /\ o.stat # 3 => o.n_cont = 0
    /\ o.n_frag <= Len(ch)
    /\ IF ch = <<>> THEN o.sclust = 0 /\ o.stat = 0
       ELSE /\ o.sclust = ch[1]
            /\ o.stat = 2 => o.n_frag = 0 /\ Straight(ch, 1, Len(ch))
            /\ o.stat = 3 => /\ Len(ch) >= o.n_cont + 2 /\ Len(ch) >= o.n_cont + 1 + o.n_frag
                             /\ Straight(ch, 1, o.n_cont + 1)
            /\ Straight(ch, Len(ch) - o.n_frag + 1, Len(ch))
            /\ o.stat # 2 => \A i \in o.n_cont + 1 .. Len(ch) - o.n_frag : t[ch[i]] = Behind(ch, i)

-----------------------------------------------------------------------------
LEMMA Sizes ==
    /\ NFatEnt \in Nat /\ NFatEnt >= 3 /\ NClusters \in Nat \ {0} /\ NClusters = NFatEnt - 2
    /\ IsFiniteSet(Clusters) /\ Cardinality(Clusters) = NClusters
    /\ EOC \in Nat /\ EOC > NFatEnt /\ EOC = 2 * NFatEnt /\ Unknown = NFatEnt
    /\ \A c : c \in Clusters <=> c \in Nat /\ 2 <= c /\ c < NFatEnt
<1>1. NFatEnt \in Nat /\ 2 \in Clusters
  BY VolumeAssumption
<1>2. NFatEnt >= 3
  BY <1>1 DEF Clusters
<1>3. IsFiniteSet(Clusters) /\ Cardinality(Clusters) = NFatEnt - 2
  <2>1. IsFiniteSet(2 .. NFatEnt - 1)
          /\ Cardinality(2 .. NFatEnt - 1) = IF 2 > NFatEnt - 1 THEN 0 ELSE NFatEnt - 1 - 2 + 1
    BY <1>1, FS_Interval
  <2> QED BY <2>1, <1>1, <1>2 DEF Clusters
<1> QED BY <1>1, <1>2, <1>3 DEF Clusters, NClusters, EOC, Unknown

LEMMA GetFatIsNat ==
    ASSUME NEW s \in Volumes, NEW o \in ObjRec, NEW c \in Nat
    PROVE  /\ get_fat(s, o, c) \in Nat
           /\ c \notin Clusters => get_fat(s, o, c) = 1
<1>1. \A d \in Clusters : s.fat[d] \in Nat
  BY Sizes DEF Volumes, FatType
<1>2. /\ o.sclust \in Nat /\ o.objsize \in Nat /\ o.stat \in {0, 2, 3} /\ o.n_cont \in Nat
      /\ o.n_frag \in Nat
  BY DEF ObjRec
<1>3. EOC \in Nat /\ c + 1 \in Nat /\ 1 \in Nat
  BY Sizes
<1>4. c \in Clusters => s.fat[c] \in Nat
  BY <1>1
<1> HIDE DEF Clusters, EOC
<1>5. \/ get_fat(s, o, c) = 1 \/ get_fat(s, o, c) = EOC \/ get_fat(s, o, c) = c + 1
      \/ c \in Clusters /\ get_fat(s, o, c) = s.fat[c]
  <2>1. CASE o.stat = 2
    BY <2>1 DEF get_fat
  <2>2. CASE o.stat = 3
    BY <2>2 DEF get_fat
  <2>3. CASE o.stat = 0
    BY <2>3 DEF get_fat
  <2> QED BY <2>1, <2>2, <2>3, <1>2
<1>6. c \notin Clusters => get_fat(s, o, c) = 1
  BY DEF get_fat
<1> QED BY <1>3, <1>4, <1>5, <1>6

(* get_fat tells the chain.                                                *)
LEMMA GetFatOf ==
    ASSUME NEW s \in Volumes, NEW o, NEW ch \in Seq(Clusters), Distinct(ch),
           Knows(o, ch, s.fat), NEW i \in 1 .. Len(ch), o.n_frag = 0 \/ i = Len(ch)
    PROVE  get_fat(s, o, ch[i]) = Behind(ch, i)
<1>1. /\ o.sclust \in Nat /\ o.objsize \in Nat /\ o.stat \in {0, 2, 3} /\ o.n_cont \in Nat
      /\ o.n_frag \in Nat /\ o.objsize = Len(ch) /\ o.n_frag <= Len(ch)
      /\ o.stat # 3 => o.n_cont = 0
  BY DEF Knows, ObjRec
<1>2. /\ Len(ch) \in Nat /\ \A k \in 1 .. Len(ch) : ch[k] \in Clusters /\ ch[k] \in Nat
      /\ ch # <<>>
  BY Sizes
<1>3. /\ o.sclust = ch[1] /\ o.sclust \in Clusters
      /\ o.stat = 2 => o.n_frag = 0 /\ Straight(ch, 1, Len(ch))
      /\ o.stat = 3 => /\ Len(ch) >= o.n_cont + 2 /\ Len(ch) >= o.n_cont + 1 + o.n_frag
                       /\ Straight(ch, 1, o.n_cont + 1)
      /\ o.stat # 2 => \A k \in o.n_cont + 1 .. Len(ch) - o.n_frag :
                             s.fat[ch[k]] = Behind(ch, k)
  BY <1>2 DEF Knows
<1>4. ch[i] \in Clusters /\ o.objsize # 0 /\ o.sclust # 0
  BY <1>1, <1>2, <1>3, Sizes
<1>5. CASE o.stat = 2
  <2>1. ch[i] - o.sclust = i - 1
    BY <1>5, <1>2, <1>3, SMTT(30) DEF Straight
  <2>2. i < Len(ch) => ch[i + 1] - ch[i] = 1
    BY <1>5, <1>2, <1>3 DEF Straight
  <2>3. /\ i - 1 \in 0 .. o.objsize - 1 /\ ch[i] \in Clusters
        /\ (o.objsize # 0 /\ o.sclust # 0) \/ o.stat = 0
    BY <1>1, <1>2, <1>4
  <2>4. get_fat(s, o, ch[i]) = IF i - 1 = o.objsize - 1 THEN EOC ELSE ch[i] + 1
    BY ONLY <2>1, <2>3, <1>5 DEF get_fat
  <2> QED BY <2>2, <2>4, <1>1, <1>2, SMTT(30) DEF Behind
<1>6. CASE o.stat = 3
  <2>1. \A k \in 1 .. o.n_cont + 1 : ch[k] = o.sclust + k - 1
    <3> SUFFICES ASSUME NEW k \in 1 .. o.n_cont + 1 PROVE ch[k] = o.sclust + k - 1
      OBVIOUS
    <3>1. 1 \in 1 .. o.n_cont + 1 /\ k \in 1 .. Len(ch) /\ 1 \in 1 .. Len(ch)
      BY <1>1, <1>2, <1>3, <1>6, SMTT(30)
    <3>2. ch[k] - ch[1] = k - 1
      BY <3>1, <1>3, <1>6 DEF Straight
    <3> QED BY <3>1, <3>2, <1>2, <1>3
  <2>2. ch[i] - o.sclust \in 0 .. o.n_cont - 1 <=> i \in 1 .. o.n_cont
    <3>1. ASSUME ch[i] - o.sclust \in 0 .. o.n_cont - 1 PROVE i \in 1 .. o.n_cont
      <4> DEFINE k == ch[i] - o.sclust + 1
      <4>1. k \in 1 .. o.n_cont
        BY <3>1, <1>1, <1>2, <1>4, Sizes, SMTT(30)
      <4>2. k \in 1 .. Len(ch)
        BY <4>1, <1>1, <1>2, <1>3, <1>6
      <4>3. ch[k] = o.sclust + k - 1
        BY <4>1, <2>1, <1>1, SMTT(30)
      <4>4. ch[i] \in Nat
        BY <1>2
      <4>5. ch[k] = ch[i]
        BY <4>3, <4>4, <1>1
      <4> QED BY <4>1, <4>2, <4>5 DEF Distinct
    <3> QED BY <3>1, <2>1, <1>1, <1>2, SMTT(30)
  <2>3. CASE i \in 1 .. o.n_cont
    <3>1. get_fat(s, o, ch[i]) = ch[i] + 1
      BY <2>2, <2>3, <1>1, <1>4, <1>6 DEF get_fat
    <3>2. i < Len(ch) /\ i \in 1 .. o.n_cont + 1 /\ i + 1 \in 1 .. o.n_cont + 1
      BY <2>3, <1>1, <1>2, <1>3, <1>6
    <3>3. ch[i + 1] = o.sclust + (i + 1) - 1 /\ ch[i] = o.sclust + i - 1
      BY <2>1, <3>2
    <3>4. ch[i + 1] = ch[i] + 1
      BY <3>3, <1>1
    <3> QED BY <3>1, <3>2, <3>4 DEF Behind
  <2>4. CASE i \notin 1 .. o.n_cont
    <3>1. get_fat(s, o, ch[i]) = IF o.n_frag # 0 THEN EOC ELSE s.fat[ch[i]]
      BY <2>2, <2>4, <1>1, <1>4, <1>6 DEF get_fat
    <3>2. o.n_frag = 0 => s.fat[ch[i]] = Behind(ch, i)
      BY <2>4, <1>1, <1>2, <1>3, <1>6
    <3> QED BY <3>1, <3>2, <1>2 DEF Behind
  <2> QED BY <2>3, <2>4
<1>7. CASE o.stat = 0
  <2>1. get_fat(s, o, ch[i]) = IF o.n_frag # 0 THEN EOC ELSE s.fat[ch[i]]
    BY <1>1, <1>4, <1>7 DEF get_fat
  <2>2. o.n_frag = 0 => s.fat[ch[i]] = Behind(ch, i)
    BY <1>1, <1>2, <1>3, <1>7
  <2> QED BY <2>1, <2>2, <1>2 DEF Behind
<1> QED BY <1>1, <1>5, <1>6, <1>7

(* The object's clusters can be followed.                                  *)
LEMMA ChainIsFollowed ==
    ASSUME NEW s \in Volumes, NEW o, NEW ch \in Seq(Clusters), Distinct(ch),
           Knows(o, ch, s.fat), o.n_frag = 0
    PROVE  ChainOf(s, o) = ch
<1> DEFINE t == [c \in Clusters |-> get_fat(s, o, c)]
<1>1. /\ Len(ch) \in Nat /\ \A k \in 1 .. Len(ch) : ch[k] \in Clusters
  OBVIOUS
<1>2. \A i \in 1 .. Len(ch) : t[ch[i]] = Behind(ch, i)
  BY <1>1, GetFatOf
<1>3. ch # <<>> => ch[1] = o.sclust
  BY DEF Knows
<1>4. ch = <<>> => o.sclust = 0
  BY DEF Knows
<1> HIDE DEF t
<1>5. Path(ch, o.sclust, t, Clusters)
  BY <1>1, <1>2, <1>3 DEF Path, Behind
<1>6. After(ch, o.sclust, t) \notin Clusters
  <2>1. CASE ch = <<>>
    BY <2>1, <1>4, Sizes DEF After
  <2>2. CASE ch # <<>>
    <3>1. Len(ch) \in 1 .. Len(ch)
      BY <2>2, <1>1
    <3> QED BY <2>2, <3>1, <1>2, Sizes DEF After, Behind
  <2> QED BY <2>1, <2>2
<1>7. Whole(ch, o.sclust, t, Clusters)
  BY <1>5, <1>6 DEF Whole
<1>8. Follow(o.sclust, t, Clusters) = ch
  BY <1>7, Sizes, DistinctIsFollow
<1> QED BY <1>8 DEF ChainOf, t

-----------------------------------------------------------------------------
(* The bitmap and the count of free clusters.                              *)
Exact(s) == s.free # Unknown => s.free = Cardinality(Clusters \ s.bits)
Sound(s) == s \in Volumes /\ Exact(s) /\ Reserved \subseteq s.bits

LEMMA LeastIs ==
    ASSUME NEW S \in SUBSET Nat, S # {}
    PROVE  Least(S) \in S /\ \A y \in S : Least(S) <= y
<1>1. \E x \in S : \A y \in S : x <= y
  <2> SUFFICES ASSUME \A x \in S : \E y \in S : ~(x <= y) PROVE FALSE
    OBVIOUS
  <2> DEFINE Low == {n \in Nat : \A m \in S : n <= m}
  <2>1. Low \in SUBSET Nat /\ 0 \in Low
    OBVIOUS
  <2>2. ASSUME NEW n \in Low PROVE n + 1 \in Low
    <3>1. n \notin S
      OBVIOUS
    <3>2. \A m \in S : n <= m /\ n # m /\ m \in Nat /\ n \in Nat
      BY <3>1
    <3>3. \A m \in S : n + 1 <= m
      BY <3>2
    <3> QED BY <3>3
  <2> HIDE DEF Low
  <2>3. Low = Nat
    BY <2>1, <2>2, Induction
  <2>4. PICK m \in S : TRUE
    OBVIOUS
  <2>5. m + 1 \in Low
    BY <2>3
  <2> QED BY <2>5 DEF Low
<1> QED BY <1>1 DEF Least

(* The run of free clusters that is found lies on the volume.              *)
LEMMA FindBitmap ==
    ASSUME NEW s \in Volumes, 2 \in s.bits, NEW clst \in Nat, NEW n \in Nat \ {0}
    PROVE  \/ find_bitmap(s, clst, n) = 0
           \/ /\ find_bitmap(s, clst, n) \in Clusters
              /\ \A k \in 0 .. n - 1 : find_bitmap(s, clst, n) + k \in Clusters \ s.bits
<1> DEFINE start == IF clst \in Clusters THEN clst ELSE 2
           a == start - 2
           At(k) == ((a + k) % NClusters) + 2
           Runs == {k \in 0 .. NClusters - n : \A j \in k .. k + n - 1 : At(j) \notin s.bits}
           m == Least(Runs)
<1>1. find_bitmap(s, clst, n) = IF Runs = {} THEN 0 ELSE At(m)
  BY DEF find_bitmap
<1>2. a \in Nat /\ NClusters \in Nat \ {0}
  BY Sizes
<1> HIDE DEF a
<1>3. \A k \in Nat : At(k) \in Clusters
  <2> SUFFICES ASSUME NEW k \in Nat PROVE At(k) \in Clusters
    OBVIOUS
  <2>1. a + k \in Nat
    BY <1>2
  <2>2. (a + k) % NClusters \in 0 .. NClusters - 1
    BY <2>1, <1>2, DivMod
  <2> QED BY <2>2, Sizes
<1>4. \A k \in Nat : At(k + 1) = 2 \/ At(k + 1) = At(k) + 1
  <2> SUFFICES ASSUME NEW k \in Nat PROVE At(k + 1) = 2 \/ At(k + 1) = At(k) + 1
    OBVIOUS
  <2> DEFINE x == a + k
  <2>1. x \in Nat /\ a + (k + 1) = x + 1
    BY <1>2
  <2> HIDE DEF x
  <2>2. (x + 1) % NClusters = 0 \/ (x + 1) % NClusters = (x % NClusters) + 1
    BY <2>1, <1>2, DivSucc
  <2>3. x % NClusters \in 0 .. NClusters - 1
    BY <2>1, <1>2, DivMod
  <2> QED BY <2>1, <2>2, <2>3 DEF x
<1> SUFFICES ASSUME Runs # {} PROVE
              At(m) \in Clusters /\ \A k \in 0 .. n - 1 : At(m) + k \in Clusters \ s.bits
  BY <1>1
<1>5. Runs \in SUBSET Nat
  OBVIOUS
<1>6. m \in Runs
  BY <1>5, LeastIs
<1> HIDE DEF m, At
<1>7. m \in Nat /\ \A j \in m .. m + n - 1 : At(j) \notin s.bits
  BY <1>6
<1> HIDE DEF Runs
<1> DEFINE Q == {k \in Nat : k \in 0 .. n - 1 => At(m + k) = At(m) + k}
<1>8. 0 \in Q
  BY <1>3, <1>7, Sizes
<1>9. ASSUME NEW k \in Q PROVE k + 1 \in Q
  <2> SUFFICES ASSUME k + 1 \in 0 .. n - 1 PROVE At(m + (k + 1)) = At(m) + (k + 1)
    OBVIOUS
  <2>1. k \in Nat /\ k \in 0 .. n - 1 /\ m + k \in Nat /\ m + (k + 1) = (m + k) + 1
        /\ m + (k + 1) \in m .. m + n - 1
    BY <1>7
  <2>2. At((m + k) + 1) # 2
    BY <2>1, <1>7
  <2>3. At((m + k) + 1) = At(m + k) + 1
    BY <2>1, <2>2, <1>4
  <2>4. At(m) \in Nat
    BY <1>3, <1>7, Sizes
  <2> QED BY <2>1, <2>3, <2>4
<1>10. Q = Nat
  <2>1. Q \in SUBSET Nat
    OBVIOUS
  <2> HIDE DEF Q
  <2> QED BY <1>8, <1>9, <2>1, Induction
<1>11. ASSUME NEW k \in 0 .. n - 1 PROVE At(m) + k \in Clusters \ s.bits
  <2>1. k \in Q /\ k \in Nat /\ m + k \in Nat /\ m + k \in m .. m + n - 1
    BY <1>10, <1>7
  <2>2. At(m) + k = At(m + k)
    BY <2>1
  <2> QED BY <2>1, <2>2, <1>3, <1>7
<1>12. At(m) \in Clusters
  BY <1>3, <1>7
<1> QED BY <1>11, <1>12

LEMMA MarkBlock ==
    ASSUME NEW s, NEW c \in Nat, NEW n \in Nat, \A k \in c .. c + n - 1 : k \notin s.bits
    PROVE  change_bitmap(s, c, n, TRUE) =
             [ok |-> TRUE, s |-> [s EXCEPT !.bits = @ \cup (c .. c + n - 1)]]
<1> DEFINE Odd == {k \in c .. c + n - 1 : (k \in s.bits) = TRUE}
<1>1. Odd = {}
  OBVIOUS
<1> QED BY <1>1 DEF change_bitmap

LEMMA ClearBlock ==
    ASSUME NEW s, NEW c \in Nat, NEW n \in Nat, \A k \in c .. c + n - 1 : k \in s.bits
    PROVE  change_bitmap(s, c, n, FALSE) =
             [ok |-> TRUE, s |-> [s EXCEPT !.bits = @ \ (c .. c + n - 1)]]
<1> DEFINE Odd == {k \in c .. c + n - 1 : (k \in s.bits) = FALSE}
<1>1. Odd = {}
  OBVIOUS
<1> QED BY <1>1 DEF change_bitmap

(* The clear bits after clusters were marked, or cleared.                  *)
LEMMA ClearBits ==
    ASSUME NEW b \in SUBSET Clusters, NEW B \in SUBSET Clusters
    PROVE  /\ Cardinality(Clusters \ b) \in 0 .. NClusters /\ Cardinality(B) \in Nat
           /\ B \cap b = {} => Cardinality(Clusters \ (b \cup B))
                                  = Cardinality(Clusters \ b) - Cardinality(B)
           /\ B \subseteq b => Cardinality(Clusters \ (b \ B))
                                  = Cardinality(Clusters \ b) + Cardinality(B)
<1>1. /\ IsFiniteSet(B) /\ IsFiniteSet(Clusters \ b)
      /\ Cardinality(Clusters \ b) <= NClusters
  BY Sizes, FS_Subset
<1>2. Cardinality(B) \in Nat /\ Cardinality(Clusters \ b) \in Nat
  BY <1>1, FS_CardinalityType
<1>3. ASSUME B \cap b = {}
      PROVE  Cardinality(Clusters \ (b \cup B)) = Cardinality(Clusters \ b) - Cardinality(B)
  <2>1. (Clusters \ b) \ B = Clusters \ (b \cup B) /\ (Clusters \ b) \cap B = B
    BY <1>3
  <2>2. Cardinality((Clusters \ b) \ B) = Cardinality(Clusters \ b) - Cardinality((Clusters \ b) \cap B)
    BY <1>1, FS_Difference
  <2> QED BY <2>1, <2>2
<1>4. ASSUME B \subseteq b
      PROVE  Cardinality(Clusters \ (b \ B)) = Cardinality(Clusters \ b) + Cardinality(B)
  <2>1. (Clusters \ b) \cup B = Clusters \ (b \ B) /\ (Clusters \ b) \cap B = {}
    BY <1>4
  <2>2. Cardinality((Clusters \ b) \cup B)
          = Cardinality(Clusters \ b) + Cardinality(B) - Cardinality((Clusters \ b) \cap B)
    BY <1>1, FS_Union
  <2>3. Cardinality({}) = 0
    BY FS_EmptySet
  <2>4. Cardinality((Clusters \ b) \cup B) = Cardinality(Clusters \ b) + Cardinality(B) - 0
    BY <2>1, <2>2, <2>3
  <2> QED BY <2>1, <2>4, <1>2
<1>5. NClusters \in Nat
  BY Sizes
<1> QED BY <1>1, <1>2, <1>3, <1>4, <1>5

LEMMA DistinctCount ==
    ASSUME NEW ch \in Seq(Clusters), Distinct(ch)
    PROVE  Cardinality(Members(ch)) = Len(ch)
<1> DEFINE g == [i \in 1 .. Len(ch) |-> ch[i]]
<1>1. \A x : x \in Members(ch) <=> \E i \in 1 .. Len(ch) : ch[i] = x
  BY MembersAre
<1>2. g \in Bijection(1 .. Len(ch), Members(ch))
  BY <1>1 DEF Bijection, Injection, Surjection, IsInjective, Distinct
<1>3. Len(ch) \in Nat /\ IsFiniteSet(1 .. Len(ch)) /\ Cardinality(1 .. Len(ch)) = Len(ch)
  <2>1. Len(ch) \in Nat /\ 1 \in Int /\ Len(ch) \in Int
    OBVIOUS
  <2> QED BY <2>1, FS_Interval
<1>4. ExistsBijection(1 .. Len(ch), Members(ch))
  BY <1>2 DEF ExistsBijection
<1> QED BY <1>3, <1>4, FS_Bijection

-----------------------------------------------------------------------------
(* What is written to the FAT of s to get u lies in S.                     *)
Wrote(S, s, u) ==
    /\ u \in Volumes /\ u.bits = s.bits /\ u.last = s.last /\ u.free = s.free
    /\ \A c \in Clusters \ S : u.fat[c] = s.fat[c]

LEMMA KnownParts ==
    ASSUME NEW o, NEW ch \in Seq(Clusters), NEW t, Knows(o, ch, t)
    PROVE  /\ o.sclust \in Nat /\ o.objsize \in Nat /\ o.stat \in {0, 2, 3} /\ o.n_cont \in Nat
           /\ o.n_frag \in Nat /\ o \in ObjRec
           /\ Len(ch) \in Nat /\ \A i \in 1 .. Len(ch) : ch[i] \in Clusters /\ ch[i] \in Nat
           /\ ch = <<>> <=> Len(ch) = 0
           /\ ch = <<>> <=> o.sclust = 0
BY Sizes, SMTT(30) DEF Knows, ObjRec

LEMMA KnowsStays ==
    ASSUME NEW o, NEW ch \in Seq(Clusters), NEW t, NEW u, Knows(o, ch, t),
           \A i \in 1 .. Len(ch) : u[ch[i]] = t[ch[i]]
    PROVE  Knows(o, ch, u)
<1>1. /\ Len(ch) \in Nat /\ o.n_cont \in Nat /\ o.n_frag \in Nat
  BY DEF Knows, ObjRec
<1>2. \A i \in o.n_cont + 1 .. Len(ch) - o.n_frag : i \in 1 .. Len(ch)
  BY <1>1
<1> QED BY <1>2 DEF Knows

LEMMA JoinedIs ==
    ASSUME NEW s \in Volumes, NEW S \in SUBSET Clusters, \A c \in S : c + 1 \in Clusters
    PROVE  /\ Wrote(S, s, Joined(s, S))
           /\ \A c \in S : Joined(s, S).fat[c] = c + 1
<1> DEFINE g == [c \in Clusters |-> IF c \in S THEN c + 1 ELSE s.fat[c]]
           u == [s EXCEPT !.fat = g]
<1>1. Joined(s, S) = u
  BY DEF Joined
<1>2. g \in FatType /\ \A c \in Clusters : g[c] = IF c \in S THEN c + 1 ELSE s.fat[c]
  BY DEF Volumes, FatType
<1> HIDE DEF g
<1>3. u \in Volumes /\ u.bits = s.bits /\ u.last = s.last /\ u.free = s.free /\ u.fat = g
  BY <1>2 DEF Volumes
<1> QED BY <1>1, <1>2, <1>3 DEF Wrote

(* Writing a single entry.                                                 *)
LEMMA PutFat ==
    ASSUME NEW s \in Volumes, NEW c \in Clusters, NEW v \in {EOC} \cup Clusters
    PROVE  /\ Wrote({c}, s, [s EXCEPT !.fat[c] = v])
           /\ [s EXCEPT !.fat[c] = v].fat[c] = v
<1> DEFINE g == [s.fat EXCEPT ![c] = v]
           u == [s EXCEPT !.fat = g]
<1>1. [s EXCEPT !.fat[c] = v] = u
  BY DEF Volumes
<1>2. g \in FatType /\ \A d \in Clusters : g[d] = IF d = c THEN v ELSE s.fat[d]
  BY DEF Volumes, FatType
<1> HIDE DEF g
<1>3. u \in Volumes /\ u.bits = s.bits /\ u.last = s.last /\ u.free = s.free /\ u.fat = g
  BY <1>2 DEF Volumes
<1> QED BY <1>1, <1>2, <1>3 DEF Wrote

(* The last fragment is written down, with what is behind it.              *)
LastWritten(s, o, ch, term) ==
    LET r == fill_last_frag(s, o, ch[Len(ch)], term)
        n == Len(ch)
    IN /\ r.obj = [o EXCEPT !.n_frag = 0]
       /\ Wrote(Members(ch), s, r.s)
       /\ \A i \in 1 .. n : r.s.fat[ch[i]] = IF i = n THEN term
                              ELSE IF i > n - o.n_frag THEN ch[i + 1]
                              ELSE s.fat[ch[i]]
LEMMA LastFragment ==
    ASSUME NEW s \in Volumes, NEW o \in ObjRec, NEW ch \in Seq(Clusters), Distinct(ch),
           o.n_frag \in 1 .. Len(ch), Straight(ch, Len(ch) - o.n_frag + 1, Len(ch)),
           NEW term, term \in {EOC} \cup Clusters
    PROVE  LastWritten(s, o, ch, term)
<1> DEFINE n == Len(ch)
           k == o.n_frag
           l == ch[n]
           S == l - k + 1 .. l - 1
           t == Joined(s, S)
           u == [t EXCEPT !.fat[l] = term]
<1>1. n \in Nat /\ k \in Nat /\ k >= 1 /\ k <= n /\ n >= 1
  BY DEF ObjRec
<1>2. \A i \in 1 .. n : ch[i] \in Clusters /\ ch[i] \in Nat
  BY <1>1, Sizes
<1>3. fill_last_frag(s, o, l, term) = [s |-> u, obj |-> [o EXCEPT !.n_frag = 0]]
  BY <1>1 DEF fill_last_frag
<1>4. \A i \in n - k + 1 .. n : ch[i] = l - (n - i)
  <2> SUFFICES ASSUME NEW i \in n - k + 1 .. n PROVE ch[i] = l - (n - i)
    OBVIOUS
  <2>1. n \in n - k + 1 .. n /\ i \in 1 .. n
    BY <1>1
  <2>2. l - ch[i] = n - i
    BY <2>1 DEF Straight
  <2>3. l \in Nat /\ ch[i] \in Nat
    BY <2>1, <1>1, <1>2
  <2> QED BY <2>2, <2>3, <1>1
<1>5. \A c : c \in S <=> \E i \in n - k + 1 .. n - 1 : c = ch[i]
  <2>1. l \in Nat
    BY <1>1, <1>2
  <2>2. ASSUME NEW c, c \in S PROVE \E i \in n - k + 1 .. n - 1 : c = ch[i]
    <3> DEFINE j == n - (l - c)
    <3>1. j \in n - k + 1 .. n - 1 /\ j \in n - k + 1 .. n /\ c \in Int
      BY <2>1, <2>2, <1>1
    <3>2. l - (n - j) = c
      BY <3>1, <2>1, <1>1
    <3> HIDE DEF j
    <3>3. c = ch[j]
      BY <3>1, <3>2, <1>4
    <3> QED BY <3>1, <3>3
  <2>3. ASSUME NEW i \in n - k + 1 .. n - 1 PROVE ch[i] \in S
    BY <2>1, <1>1, <1>4, SMTT(30)
  <2> QED BY <2>2, <2>3
<1>6. S \in SUBSET Clusters /\ \A c \in S : c + 1 \in Clusters
  <2> SUFFICES ASSUME NEW c \in S PROVE c \in Clusters /\ c + 1 \in Clusters
    OBVIOUS
  <2>1. PICK i \in n - k + 1 .. n - 1 : c = ch[i]
    BY <1>5
  <2>2. i \in 1 .. n /\ i + 1 \in 1 .. n /\ i + 1 \in n - k + 1 .. n /\ i \in n - k + 1 .. n
    BY <1>1
  <2>3. ch[i + 1] = ch[i] + 1
    <3>1. ch[i + 1] = l - (n - (i + 1)) /\ ch[i] = l - (n - i) /\ l \in Nat /\ i \in Nat
      BY <2>2, <1>1, <1>2, <1>4
    <3> HIDE DEF l, n, k
    <3> QED BY <3>1, <1>1
  <2> QED BY <2>1, <2>2, <2>3, <1>2
<1> HIDE DEF S
<1>7. /\ Wrote(S, s, t) /\ \A c \in S : t.fat[c] = c + 1
  BY <1>6, JoinedIs
<1>8. t \in Volumes /\ l \in Clusters
  BY <1>1, <1>2, <1>7 DEF Wrote
<1> HIDE DEF t, l
<1>9. Wrote({l}, t, u) /\ u.fat[l] = term
  BY <1>8, PutFat
<1> HIDE DEF u
<1>10. \A x : x \in Members(ch) <=> \E i \in 1 .. n : ch[i] = x
  BY MembersAre
<1>11. S \subseteq Members(ch) /\ l \in Members(ch)
  <2>1. n \in 1 .. n /\ \A i \in n - k + 1 .. n - 1 : i \in 1 .. n
    BY <1>1
  <2> HIDE DEF n, k
  <2> QED BY <2>1, <1>5, <1>10 DEF l
<1>12. Wrote(Members(ch), s, u)
  BY <1>7, <1>9, <1>11 DEF Wrote
<1>13. ASSUME NEW i \in 1 .. n
       PROVE  u.fat[ch[i]] = IF i = n THEN term
                             ELSE IF i > n - k THEN ch[i + 1] ELSE s.fat[ch[i]]
  <2>1. CASE i = n
    BY <2>1, <1>9 DEF l
  <2>2. CASE i # n
    <3>1. ch[i] \in Clusters /\ ch[i] # l
      BY <2>2, <1>1, <1>2 DEF Distinct, l
    <3>2. u.fat[ch[i]] = t.fat[ch[i]]
      BY <3>1, <1>9 DEF Wrote
    <3>3. CASE i > n - k
      <4>1. i \in n - k + 1 .. n - 1 /\ i \in n - k + 1 .. n /\ i + 1 \in n - k + 1 .. n
        BY <2>2, <3>3, <1>1
      <4>2. t.fat[ch[i]] = ch[i] + 1
        BY <4>1, <1>5, <1>7
      <4>3. ch[i + 1] = ch[i] + 1
        <5>1. ch[i + 1] = l - (n - (i + 1)) /\ ch[i] = l - (n - i) /\ l \in Nat /\ i \in Nat
          BY <4>1, <1>1, <1>4, <1>8, Sizes
        <5> QED BY ONLY <5>1, <1>1
      <4> QED BY <2>2, <3>2, <3>3, <4>2, <4>3
    <3>4. CASE ~(i > n - k)
      <4>1. ch[i] \notin S
        <5> SUFFICES ASSUME NEW j \in n - k + 1 .. n - 1, ch[i] = ch[j] PROVE FALSE
          BY <1>5
        <5>1. j \in 1 .. n /\ i # j
          BY <3>4, <1>1
        <5> QED BY <5>1 DEF Distinct
      <4>2. t.fat[ch[i]] = s.fat[ch[i]]
        BY <3>1, <4>1, <1>7 DEF Wrote
      <4> QED BY <2>2, <3>2, <3>4, <4>2
    <3> QED BY <3>3, <3>4
  <2> QED BY <2>1, <2>2
<1> QED BY <1>3, <1>12, <1>13 DEF l, LastWritten

(* The first fragment is written down.                                     *)
LEMMA FirstFilled ==
    ASSUME NEW s \in Volumes, NEW o, NEW ch \in Seq(Clusters), Distinct(ch),
           Knows(o, ch, s.fat)
    PROVE  LET r == fill_first_frag(s, o)
           IN /\ Wrote(Members(ch), s, r.s)
              /\ Knows(r.obj, ch, r.s.fat)
              /\ r.obj.stat \in {0, 2} /\ r.obj.n_frag = o.n_frag /\ r.obj.sclust = o.sclust
              /\ r.obj.n_cont = 0 /\ r.obj.objsize = o.objsize
              /\ o.stat # 3 => r.obj = o
<1> DEFINE n == Len(ch)
           k == o.n_cont
           S == o.sclust .. o.sclust + k - 1
           u == Joined(s, S)
           p == [o EXCEPT !.stat = 0, !.n_cont = 0]
<1>1. /\ o.sclust \in Nat /\ o.objsize \in Nat /\ o.stat \in {0, 2, 3} /\ k \in Nat
      /\ o.n_frag \in Nat /\ o \in ObjRec /\ n \in Nat
      /\ \A i \in 1 .. n : ch[i] \in Clusters /\ ch[i] \in Nat
      /\ ch = <<>> <=> n = 0
  BY KnownParts
<1>2. CASE o.stat # 3
  <2>1. fill_first_frag(s, o) = [s |-> s, obj |-> o]
    BY <1>2 DEF fill_first_frag
  <2>2. Wrote(Members(ch), s, s)
    BY DEF Wrote
  <2>3. o.n_cont = 0
    BY <1>2 DEF Knows
  <2> QED BY <2>1, <2>2, <2>3, <1>1, <1>2
<1>3. CASE o.stat = 3
  <2>1. /\ o.objsize = n /\ o.n_frag <= n /\ o.sclust = ch[1] /\ n >= k + 2 /\ n >= k + 1 + o.n_frag
        /\ Straight(ch, 1, k + 1) /\ Straight(ch, n - o.n_frag + 1, n)
        /\ \A i \in k + 1 .. n - o.n_frag : s.fat[ch[i]] = Behind(ch, i)
    BY <1>1, <1>3 DEF Knows
  <2>2. fill_first_frag(s, o) = [s |-> u, obj |-> p]
    BY <1>3 DEF fill_first_frag
  <2>3. /\ p \in ObjRec /\ p.sclust = o.sclust /\ p.objsize = o.objsize /\ p.stat = 0
        /\ p.n_cont = 0 /\ p.n_frag = o.n_frag
    BY DEF Knows, ObjRec
  <2>4. \A i \in 1 .. k + 1 : ch[i] = o.sclust + i - 1
    <3> SUFFICES ASSUME NEW i \in 1 .. k + 1 PROVE ch[i] = o.sclust + i - 1
      OBVIOUS
    <3>1. 1 \in 1 .. k + 1 /\ i \in 1 .. n /\ 1 \in 1 .. n
      BY <2>1, <1>1
    <3>2. ch[i] - ch[1] = i - 1
      BY <3>1, <2>1 DEF Straight
    <3> QED BY <3>1, <3>2, <2>1, <1>1, SMTT(30)
  <2>5. \A c : c \in S <=> \E i \in 1 .. k : c = ch[i]
    <3>1. ASSUME NEW c, c \in S PROVE \E i \in 1 .. k : c = ch[i]
      <4> DEFINE j == c - o.sclust + 1
      <4>1. j \in 1 .. k /\ j \in 1 .. k + 1 /\ c \in Int
        BY <3>1, <1>1
      <4>2. o.sclust + j - 1 = c
        BY <4>1, <1>1
      <4> HIDE DEF j
      <4> QED BY <4>1, <4>2, <2>4
    <3>2. ASSUME NEW i \in 1 .. k PROVE ch[i] \in S
      <4>1. i \in 1 .. k + 1 /\ i \in Nat
        BY <1>1
      <4>2. ch[i] = o.sclust + i - 1
        BY <4>1, <2>4
      <4> QED BY <4>1, <4>2, <1>1
    <3> QED BY <3>1, <3>2
  <2>6. \A i \in 1 .. k : i \in 1 .. n /\ i + 1 \in 1 .. n /\ ch[i + 1] = ch[i] + 1
    <3> SUFFICES ASSUME NEW i \in 1 .. k
                 PROVE  i \in 1 .. n /\ i + 1 \in 1 .. n /\ ch[i + 1] = ch[i] + 1
      OBVIOUS
    <3>1. i \in 1 .. n /\ i + 1 \in 1 .. n /\ i \in 1 .. k + 1 /\ i + 1 \in 1 .. k + 1
      BY <2>1, <1>1, SMTT(30)
    <3>2. ch[i + 1] - ch[i] = (i + 1) - i
      BY <3>1, <2>1 DEF Straight
    <3> QED BY <3>1, <3>2, <1>1
  <2>7. S \in SUBSET Clusters /\ \A c \in S : c + 1 \in Clusters
    <3> SUFFICES ASSUME NEW c \in S PROVE c \in Clusters /\ c + 1 \in Clusters
      OBVIOUS
    <3>1. PICK i \in 1 .. k : c = ch[i]
      BY <2>5
    <3> QED BY <3>1, <2>6, <1>1
  <2> HIDE DEF S, p
  <2>8. Wrote(S, s, u) /\ \A c \in S : u.fat[c] = c + 1
    BY <2>7, JoinedIs
  <2> HIDE DEF u
  <2>9. Wrote(Members(ch), s, u)
    <3>1. \A x : x \in Members(ch) <=> \E i \in 1 .. n : ch[i] = x
      BY MembersAre
    <3>2. S \subseteq Members(ch)
      BY <3>1, <2>5, <2>6
    <3> QED BY <3>2, <2>8 DEF Wrote
  <2>10. ASSUME NEW i \in 1 .. n - o.n_frag PROVE u.fat[ch[i]] = Behind(ch, i)
    <3>1. i \in 1 .. n
      BY <1>1
    <3>2. CASE i \in 1 .. k
      <4>1. u.fat[ch[i]] = ch[i] + 1
        BY <3>2, <2>5, <2>8
      <4>2. i < n
        BY <3>2, <2>1, <1>1
      <4> QED BY <4>1, <4>2, <3>2, <2>6 DEF Behind
    <3>3. CASE i \notin 1 .. k
      <4>1. ch[i] \notin S
        <5> SUFFICES ASSUME NEW j \in 1 .. k, ch[i] = ch[j] PROVE FALSE
          BY <2>5
        <5> QED BY <3>1, <3>3, <2>6 DEF Distinct
      <4>2. u.fat[ch[i]] = s.fat[ch[i]]
        BY <4>1, <3>1, <2>8, <1>1 DEF Wrote
      <4>3. i \in k + 1 .. n - o.n_frag
        BY <3>3, <1>1
      <4> QED BY <4>2, <4>3, <2>1
    <3> QED BY <3>2, <3>3
  <2>11. Knows(p, ch, u.fat)
    <3>1. \A i \in p.n_cont + 1 .. n - p.n_frag : i \in 1 .. n - o.n_frag
      BY <2>3, <1>1
    <3>2. ch # <<>>
      BY <2>1, <1>1
    <3> QED BY <3>1, <3>2, <2>1, <2>3, <2>10 DEF Knows
  <2> QED BY <2>2, <2>3, <2>9, <2>11, <1>3
<1> QED BY <1>2, <1>3

(* The last fragment of a chain that is complete.                          *)
LEMMA LastFilled ==
    ASSUME NEW s \in Volumes, NEW o, NEW ch \in Seq(Clusters), Distinct(ch),
           Knows(o, ch, s.fat), NEW lcl, o.n_frag # 0 => lcl = ch[Len(ch)]
    PROVE  LET r == fill_last_frag(s, o, lcl, EOC)
           IN /\ Wrote(Members(ch), s, r.s)
              /\ Knows(r.obj, ch, r.s.fat)
              /\ r.obj.n_frag = 0 /\ r.obj.stat = o.stat /\ r.obj.sclust = o.sclust
              /\ r.obj.n_cont = o.n_cont /\ r.obj.objsize = o.objsize
              /\ o.n_frag = 0 => r.obj = o
<1> DEFINE n == Len(ch)
           k == o.n_frag
           r == fill_last_frag(s, o, lcl, EOC)
           p == [o EXCEPT !.n_frag = 0]
<1>1. /\ o.sclust \in Nat /\ o.objsize \in Nat /\ o.stat \in {0, 2, 3} /\ o.n_cont \in Nat
      /\ k \in Nat /\ o \in ObjRec /\ n \in Nat
      /\ \A i \in 1 .. n : ch[i] \in Clusters /\ ch[i] \in Nat
      /\ ch = <<>> <=> n = 0
  BY KnownParts
<1>2. CASE k = 0
  <2>1. r = [s |-> s, obj |-> o]
    BY <1>2 DEF fill_last_frag
  <2>2. Wrote(Members(ch), s, s)
    BY DEF Wrote
  <2> QED BY <2>1, <2>2, <1>2
<1>3. CASE k # 0
  <2>1. /\ o.objsize = n /\ k \in 1 .. n /\ ch # <<>> /\ o.sclust = ch[1]
        /\ o.stat # 2
        /\ o.stat = 3 => n >= o.n_cont + 2 /\ n >= o.n_cont + 1 + k /\ Straight(ch, 1, o.n_cont + 1)
        /\ o.stat # 3 => o.n_cont = 0
        /\ Straight(ch, n - k + 1, n)
        /\ \A i \in o.n_cont + 1 .. n - k : s.fat[ch[i]] = Behind(ch, i)
    BY <1>1, <1>3 DEF Knows
  <2>2. /\ r.obj = p /\ Wrote(Members(ch), s, r.s)
        /\ \A i \in 1 .. n : r.s.fat[ch[i]] = IF i = n THEN EOC ELSE IF i > n - k THEN ch[i + 1]
                                             ELSE s.fat[ch[i]]
    <3>1. lcl = ch[n] /\ EOC \in {EOC} \cup Clusters
      BY <1>3
    <3>2. /\ o \in ObjRec /\ Distinct(ch) /\ o.n_frag \in 1 .. Len(ch)
          /\ Straight(ch, Len(ch) - o.n_frag + 1, Len(ch))
      BY <2>1, <1>1
    <3>3. LastWritten(s, o, ch, EOC)
      BY <3>1, <3>2, LastFragment
    <3> QED BY <3>1, <3>3 DEF LastWritten
  <2>3. /\ p \in ObjRec /\ p.sclust = o.sclust /\ p.objsize = o.objsize /\ p.stat = o.stat
        /\ p.n_cont = o.n_cont /\ p.n_frag = 0
    BY DEF Knows, ObjRec
  <2> HIDE DEF p, r
  <2>4. ASSUME NEW i \in o.n_cont + 1 .. n PROVE r.s.fat[ch[i]] = Behind(ch, i)
    <3>1. i \in 1 .. n
      BY <1>1
    <3>2. CASE i > n - k
      BY <3>1, <3>2, <2>2 DEF Behind
    <3>3. CASE ~(i > n - k)
      <4>1. i \in o.n_cont + 1 .. n - k /\ i # n
        BY <3>3, <2>1, <1>1
      <4> QED BY <3>1, <3>3, <4>1, <2>1, <2>2
    <3> QED BY <3>2, <3>3
  <2>5. Knows(p, ch, r.s.fat)
    <3>1. \A i \in p.n_cont + 1 .. n - p.n_frag : i \in o.n_cont + 1 .. n
      BY <2>3, <1>1
    <3>2. Straight(ch, n - p.n_frag + 1, n)
      BY <2>3, <1>1 DEF Straight
    <3>3. n >= o.n_cont + 1 + 0 \/ o.stat # 3
      BY <2>1, <1>1
    <3> QED BY <3>1, <3>2, <3>3, <2>1, <2>3, <2>4 DEF Knows
  <2> QED BY <2>2, <2>3, <2>5, <1>3 DEF r
<1> QED BY <1>2, <1>3

-----------------------------------------------------------------------------
(* A chain gets a cluster more.                                            *)
NewObj(o, ch, ncl) ==
    [o EXCEPT !.sclust = IF ch = <<>> THEN ncl ELSE @, !.objsize = Len(ch) + 1]
Stretches(s, o, ch, ncl) ==
    LET r == Stretched(s, o, IF ch = <<>> THEN 0 ELSE ch[Len(ch)], ncl)
    IN /\ Wrote(Members(ch), s, r.s)
       /\ r.obj \in ObjRec /\ r.obj.sclust = o.sclust /\ r.obj.objsize = o.objsize
       /\ ch # <<>> /\ o.stat = 0 => r.obj.stat = 0
       /\ Knows(NewObj(r.obj, ch, ncl), Append(ch, ncl), r.s.fat)

LEMMA NewObjIs ==
    ASSUME NEW p \in ObjRec, NEW ch \in Seq(Clusters), NEW ncl \in Clusters
    PROVE  LET q == NewObj(p, ch, ncl)
           IN /\ q \in ObjRec /\ q.objsize = Len(ch) + 1
              /\ q.sclust = IF ch = <<>> THEN ncl ELSE p.sclust
              /\ q.stat = p.stat /\ q.n_cont = p.n_cont /\ q.n_frag = p.n_frag
<1>1. ncl \in Nat /\ Len(ch) + 1 \in Nat
  BY Sizes
<1>2. /\ p.sclust \in Nat /\ p.objsize \in Nat /\ p.stat \in {0, 2, 3} /\ p.n_cont \in Nat
      /\ p.n_frag \in Nat
  BY DEF ObjRec
<1> DEFINE a == IF ch = <<>> THEN ncl ELSE p.sclust
           b == Len(ch) + 1
           q == [p EXCEPT !.sclust = a, !.objsize = b]
<1>3. NewObj(p, ch, ncl) = q
  BY DEF NewObj, ObjRec
<1>4. a \in Nat /\ b \in Nat
  BY <1>1, <1>2
<1> HIDE DEF a, b
<1>5. q \in ObjRec /\ q.objsize = b /\ q.sclust = a /\ q.stat = p.stat /\ q.n_cont = p.n_cont
      /\ q.n_frag = p.n_frag
  BY <1>4 DEF ObjRec
<1> QED BY <1>3, <1>5 DEF a, b

LEMMA AppendIs ==
    ASSUME NEW ch \in Seq(Clusters), NEW ncl \in Clusters
    PROVE  /\ Append(ch, ncl) \in Seq(Clusters) /\ Append(ch, ncl) # <<>>
           /\ Len(Append(ch, ncl)) = Len(ch) + 1 /\ Len(ch) \in Nat
           /\ \A i \in 1 .. Len(ch) : Append(ch, ncl)[i] = ch[i]
           /\ Append(ch, ncl)[Len(ch) + 1] = ncl
           /\ \A i \in 1 .. Len(ch) - 1 : Behind(Append(ch, ncl), i) = Behind(ch, i)
           /\ Behind(Append(ch, ncl), Len(ch)) = ncl
BY DEF Behind

LEMMA StraightOne ==
    ASSUME NEW ch \in Seq(Clusters), NEW a \in 1 .. Len(ch)
    PROVE  Straight(ch, a, a)
<1>1. ch[a] \in Nat /\ ch[a] - ch[a] = 0
  BY Sizes
<1>2. \A i \in a .. a : i = a
  OBVIOUS
<1> QED BY <1>1, <1>2 DEF Straight

LEMMA StraightStays ==
    ASSUME NEW ch \in Seq(Clusters), NEW ncl \in Clusters, NEW a \in Nat, NEW b \in Nat,
           1 <= a, b <= Len(ch), Straight(ch, a, b)
    PROVE  Straight(Append(ch, ncl), a, b)
<1>1. \A i \in 1 .. Len(ch) : Append(ch, ncl)[i] = ch[i]
  BY AppendIs
<1>2. \A i \in a .. b : i \in 1 .. Len(ch)
  OBVIOUS
<1> QED BY <1>1, <1>2 DEF Straight

LEMMA StraightGrows ==
    ASSUME NEW ch \in Seq(Clusters), NEW ncl \in Clusters, NEW a \in Nat,
           1 <= a, a <= Len(ch), Straight(ch, a, Len(ch)), ncl = ch[Len(ch)] + 1
    PROVE  Straight(Append(ch, ncl), a, Len(ch) + 1)
<1> DEFINE n == Len(ch)
           d == Append(ch, ncl)
<1>1. /\ n \in Nat /\ \A i \in 1 .. n : d[i] = ch[i] /\ d[i] \in Nat
      /\ d[n + 1] = d[n] + 1 /\ d[n] \in Nat
  BY AppendIs, Sizes
<1>2. \A i, j \in a .. n : d[j] - d[i] = j - i
  <2>1. \A i \in a .. n : i \in 1 .. n
    BY <1>1
  <2> QED BY <2>1, <1>1 DEF Straight
<1> HIDE DEF n, d
<1>3. ASSUME NEW i \in a .. n + 1, NEW j \in a .. n + 1
      PROVE  d[j] - d[i] = j - i
  <2>1. n \in a .. n /\ (i \in a .. n \/ i = n + 1) /\ (j \in a .. n \/ j = n + 1)
    BY <1>1 DEF n
  <2>2. \A k \in a .. n : d[k] \in Nat /\ d[n] - d[k] = n - k /\ d[k] - d[n] = k - n
    BY <2>1, <1>1, <1>2
  <2>3. CASE i \in a .. n /\ j \in a .. n
    BY <2>3, <1>2
  <2>4. CASE i \in a .. n /\ j = n + 1
    <3>1. d[i] \in Nat /\ d[n] - d[i] = n - i /\ d[j] = d[n] + 1 /\ i \in Nat
      BY <2>2, <2>4, <1>1
    <3> QED BY <3>1, <2>4, <1>1, SMTT(30)
  <2>5. CASE i = n + 1 /\ j \in a .. n
    <3>1. d[j] \in Nat /\ d[j] - d[n] = j - n /\ d[i] = d[n] + 1 /\ j \in Nat
      BY <2>2, <2>5, <1>1
    <3> QED BY <3>1, <2>5, <1>1, SMTT(30)
  <2>6. CASE i = n + 1 /\ j = n + 1
    BY <2>6, <1>1
  <2> QED BY <2>1, <2>3, <2>4, <2>5, <2>6
<1> QED BY <1>3 DEF Straight, n, d

LEMMA StretchedIs ==
    ASSUME NEW s \in Volumes, NEW o, NEW ch \in Seq(Clusters), Distinct(ch),
           Knows(o, ch, s.fat), NEW ncl \in Clusters
    PROVE  Stretches(s, o, ch, ncl)
<1> DEFINE n == Len(ch)
           k == o.n_frag
           d == Append(ch, ncl)
           clst == IF ch = <<>> THEN 0 ELSE ch[n]
           r == Stretched(s, o, clst, ncl)
<1>1. /\ o.sclust \in Nat /\ o.objsize = n /\ o.stat \in {0, 2, 3} /\ o.n_cont \in Nat
      /\ k \in Nat /\ o \in ObjRec /\ n \in Nat
      /\ \A i \in 1 .. n : ch[i] \in Clusters /\ ch[i] \in Nat
      /\ ch = <<>> <=> n = 0
      /\ k <= n /\ (o.stat # 3 => o.n_cont = 0)
  BY KnownParts DEF Knows
<1>2. ncl \in Nat /\ ncl # 0 /\ \A c \in Clusters : c # 0 /\ c \in Nat
  BY Sizes
<1>3. /\ d \in Seq(Clusters) /\ d # <<>> /\ Len(d) = n + 1
      /\ \A i \in 1 .. n : d[i] = ch[i]
      /\ d[n + 1] = ncl
      /\ \A i \in 1 .. n - 1 : Behind(d, i) = Behind(ch, i)
      /\ Behind(d, n) = ncl
  BY AppendIs
<1>4. Wrote(Members(ch), s, s)
  BY DEF Wrote
<1> HIDE DEF d
<1>5. CASE ch = <<>>
  <2> DEFINE p == [o EXCEPT !.stat = 2]
             q == NewObj(p, ch, ncl)
  <2>1. r = [s |-> s, obj |-> p]
    BY <1>5, <1>1 DEF Stretched
  <2>2. p \in ObjRec /\ p.sclust = o.sclust /\ p.objsize = o.objsize /\ p.n_frag = 0
        /\ p.stat = 2 /\ p.n_cont = 0
    BY <1>1, <1>5 DEF Knows, ObjRec
  <2> HIDE DEF p
  <2>3. /\ q \in ObjRec /\ q.sclust = ncl /\ q.objsize = 1 /\ q.stat = 2 /\ q.n_cont = 0
        /\ q.n_frag = 0
    <3>1. /\ q \in ObjRec /\ q.objsize = Len(ch) + 1
          /\ q.sclust = IF ch = <<>> THEN ncl ELSE p.sclust
          /\ q.stat = p.stat /\ q.n_cont = p.n_cont /\ q.n_frag = p.n_frag
      BY <2>2, NewObjIs
    <3> HIDE DEF q
    <3> QED BY <3>1, <2>2, <1>1, <1>5
  <2>4. Len(d) = 1 /\ d[1] = ncl
    BY <1>1, <1>3, <1>5
  <2> HIDE DEF q
  <2>5. Knows(q, d, s.fat)
    <3>1. Straight(d, 1, 1) /\ Straight(d, 2, 1)
      BY <2>4, <1>2 DEF Straight
    <3>2. Len(d) - q.n_frag + 1 = 2 /\ q.n_frag <= Len(d)
      BY <2>3, <2>4
    <3> QED BY <2>3, <2>4, <3>1, <3>2, <1>3 DEF Knows
  <2> QED BY <2>1, <2>2, <2>5, <1>4, <1>5 DEF Stretches, q, d
<1>6. ASSUME ch # <<>>
      PROVE  /\ clst = ch[n] /\ clst \in Clusters /\ clst # 0 /\ n >= 1 /\ o.sclust = ch[1]
             /\ o.stat = 2 => k = 0 /\ Straight(ch, 1, n)
             /\ o.stat = 3 => /\ n >= o.n_cont + 2 /\ n >= o.n_cont + 1 + k
                              /\ Straight(ch, 1, o.n_cont + 1)
             /\ Straight(ch, n - k + 1, n)
             /\ o.stat # 2 => \A i \in o.n_cont + 1 .. n - k : s.fat[ch[i]] = Behind(ch, i)
  BY <1>1, <1>2, <1>6 DEF Knows
(* The new object and what it knows, whatever happened to status and FAT.  *)
<1>7. ASSUME ch # <<>>, NEW p \in ObjRec, NEW t, p.sclust = o.sclust,
             p.stat # 3 => p.n_cont = 0, p.n_frag <= n + 1,
             p.stat = 2 => p.n_frag = 0 /\ Straight(d, 1, n + 1),
             p.stat = 3 => n + 1 >= p.n_cont + 2 /\ n >= p.n_cont + p.n_frag
                           /\ Straight(d, 1, p.n_cont + 1),
             Straight(d, n + 1 - p.n_frag + 1, n + 1),
             p.stat # 2 => \A i \in p.n_cont + 1 .. n + 1 - p.n_frag : t[d[i]] = Behind(d, i)
      PROVE  Knows(NewObj(p, ch, ncl), d, t)
  <2> DEFINE q == NewObj(p, ch, ncl)
  <2>1. /\ q \in ObjRec /\ q.objsize = n + 1 /\ q.sclust = ch[1] /\ q.stat = p.stat
        /\ q.n_cont = p.n_cont /\ q.n_frag = p.n_frag
    BY <1>6, <1>7, NewObjIs
  <2>2. d[1] = ch[1] /\ p.n_cont \in Nat /\ p.n_frag \in Nat
    BY <1>1, <1>3, <1>6, <1>7 DEF ObjRec
  <2> HIDE DEF q
  <2>3. p.stat = 3 => n + 1 >= p.n_cont + 1 + p.n_frag
    BY <2>2, <1>1, <1>7
  <2> QED BY <2>1, <2>2, <2>3, <1>3, <1>7 DEF Knows, q
<1>8. CASE ch # <<>> /\ o.stat = 2 /\ ncl = clst + 1
  <2>1. r = [s |-> s, obj |-> o]
    BY <1>6, <1>8 DEF Stretched
  <2>2. Straight(d, 1, n + 1)
    BY <1>6, <1>8, <1>1, StraightGrows DEF d
  <2>3. Straight(d, n + 1 - o.n_frag + 1, n + 1)
    BY <1>6, <1>8, <1>1 DEF Straight
  <2>4. Knows(NewObj(o, ch, ncl), d, s.fat)
    BY <2>2, <2>3, <1>1, <1>6, <1>7, <1>8, SMTT(30)
  <2> QED BY <2>1, <2>4, <1>1, <1>4, <1>8 DEF Stretches, d
<1>9. CASE ch # <<>> /\ o.stat = 2 /\ ncl # clst + 1
  <2> DEFINE a == clst - o.sclust
             p == [o EXCEPT !.n_cont = a, !.stat = 3]
             w == [p EXCEPT !.n_frag = 1]
             x == fill_last_frag(s, w, ch[n], ncl)
             v == [x.obj EXCEPT !.n_frag = 1]
  <2>1. a = n - 1 /\ a \in Nat
    <3>1. ch[n] - ch[1] = n - 1
      BY <1>1, <1>6, <1>9 DEF Straight
    <3> QED BY <3>1, <1>1, <1>6, <1>9
  <2>2. r = [s |-> x.s, obj |-> v]
    <3>1. p.stat = 3 /\ Larger(p.n_frag, 1) = 1
      BY <1>1, <1>6, <1>9 DEF Larger, ObjRec
    <3>2. w = [p EXCEPT !.n_frag = Larger(p.n_frag, 1)]
      BY <3>1
    <3> HIDE DEF w
    <3>3. p = IF o.stat = 2 /\ ncl # clst + 1
              THEN [o EXCEPT !.n_cont = clst - o.sclust, !.stat = 3] ELSE o
      BY <1>9
    <3> HIDE DEF p
    <3>4. r = [s |-> x.s, obj |-> v]
      BY <3>1, <3>2, <3>3, <1>6, <1>9 DEF Stretched
    <3> QED BY <3>4
  <2> HIDE DEF a
  <2>3. /\ w \in ObjRec /\ w.sclust = o.sclust /\ w.objsize = o.objsize /\ w.stat = 3
        /\ w.n_cont = a /\ w.n_frag = 1
    BY <2>1, <1>1 DEF ObjRec
  <2> HIDE DEF w
  <2>4. LastWritten(s, w, ch, ncl)
    <3>1. Straight(ch, n - w.n_frag + 1, n)
      <4>1. n - w.n_frag + 1 = n /\ n \in 1 .. Len(ch)
        BY <2>3, <1>1, <1>6, <1>9
      <4> QED BY <4>1, StraightOne
    <3>2. w.n_frag \in 1 .. n
      BY <2>3, <1>1, <1>6, <1>9
    <3> QED BY <2>3, <3>1, <3>2, LastFragment
  <2>5. /\ x.obj = [w EXCEPT !.n_frag = 0] /\ Wrote(Members(ch), s, x.s)
        /\ x.s.fat[ch[n]] = ncl
    BY <2>4, <1>1, <1>6, <1>9 DEF LastWritten
  <2>6. /\ v \in ObjRec /\ v.sclust = o.sclust /\ v.objsize = o.objsize /\ v.stat = 3
        /\ v.n_cont = a /\ v.n_frag = 1
    BY <2>3, <2>5 DEF ObjRec
  <2> HIDE DEF x, v
  <2>7. Straight(d, 1, n) /\ Straight(d, n + 1, n + 1)
    <3>1. Straight(d, 1, n)
      BY <1>1, <1>6, <1>9, StraightStays DEF d
    <3>2. Straight(d, n + 1, n + 1)
      BY <1>1, <1>2, <1>3 DEF Straight
    <3> QED BY <3>1, <3>2
  <2>8. \A i \in n .. n : x.s.fat[d[i]] = Behind(d, i)
    BY <2>5, <1>1, <1>3, <1>6, <1>9
  <2>9. /\ n + 1 >= v.n_cont + 2 /\ n >= v.n_cont + v.n_frag /\ v.n_cont + 1 = n
        /\ n + 1 - v.n_frag + 1 = n + 1 /\ n + 1 - v.n_frag = n /\ v.n_frag <= n + 1
    BY <2>1, <2>6, <1>1
  <2>10. Knows(NewObj(v, ch, ncl), d, x.s.fat)
    BY <2>6, <2>7, <2>8, <2>9, <1>7, <1>9
  <2> QED BY <2>2, <2>5, <2>6, <2>10, <1>9 DEF Stretches, d
<1>10. CASE ch # <<>> /\ o.stat # 2 /\ ncl = clst + 1
  <2> DEFINE a == IF o.n_frag = 0 THEN 2 ELSE o.n_frag + 1
             v == [o EXCEPT !.n_frag = a]
  <2>1. r = [s |-> s, obj |-> v]
    BY <1>6, <1>10, <1>1 DEF Stretched
  <2>2. a \in Nat /\ a >= 2 /\ a <= n + 1 /\ (k = 0 => a = 2) /\ (k # 0 => a = k + 1)
    BY <1>1, <1>6, <1>10, SMTT(30)
  <2> HIDE DEF a
  <2>3. /\ v \in ObjRec /\ v.sclust = o.sclust /\ v.objsize = o.objsize /\ v.stat = o.stat
        /\ v.n_cont = o.n_cont /\ v.n_frag = a
    BY <2>2, <1>1 DEF ObjRec
  <2> HIDE DEF v
  <2>4. Straight(d, n + 1 - a + 1, n + 1)
    <3> DEFINE b == n + 1 - a + 1
    <3>1. b \in Nat /\ 1 <= b /\ b <= n
      BY <2>2, <1>1
    <3>2. Straight(ch, b, n)
      <4>1. k = 0 => b = n
        BY <2>2, <1>1
      <4>2. k # 0 => b = n - k + 1
        BY <2>2, <1>1
      <4>3. Straight(ch, n, n)
        BY <1>1, <1>6, <1>10, StraightOne
      <4> HIDE DEF b
      <4> QED BY <4>1, <4>2, <4>3, <1>6, <1>10
    <3> HIDE DEF b
    <3>3. Straight(d, b, n + 1)
      <4>1. b \in Nat /\ 1 <= b /\ b <= Len(ch) /\ Straight(ch, b, Len(ch)) /\ ncl = ch[Len(ch)] + 1
        BY <3>1, <3>2, <1>6, <1>10
      <4> QED BY ONLY ch \in Seq(Clusters), ncl \in Clusters, <4>1, StraightGrows DEF d, n
    <3> QED BY <3>3 DEF b
  <2>5. \A i \in o.n_cont + 1 .. n + 1 - a : s.fat[d[i]] = Behind(d, i)
    <3> SUFFICES ASSUME NEW i \in o.n_cont + 1 .. n + 1 - a PROVE s.fat[d[i]] = Behind(d, i)
      OBVIOUS
    <3>1. i \in 1 .. n - 1 /\ i \in 1 .. n /\ i \in o.n_cont + 1 .. n - k
      BY <2>2, <1>1, SMTT(30)
    <3> QED BY <3>1, <1>3, <1>6, <1>10
  <2>6. o.stat = 3 => Straight(d, 1, o.n_cont + 1)
    <3>1. SUFFICES ASSUME o.stat = 3 PROVE Straight(d, 1, o.n_cont + 1)
      OBVIOUS
    <3>2. n >= o.n_cont + 2 /\ Straight(ch, 1, o.n_cont + 1)
      BY <3>1, <1>6, <1>10
    <3>3. o.n_cont + 1 \in Nat /\ 1 <= o.n_cont + 1 /\ o.n_cont + 1 <= n
      BY <3>2, <1>1
    <3> QED BY <3>2, <3>3, StraightStays DEF d
  <2>7. o.stat = 3 => n + 1 >= v.n_cont + 2 /\ n >= v.n_cont + v.n_frag
    BY <2>2, <2>3, <1>1, <1>6, <1>10, SMTT(30)
  <2>8. Knows(NewObj(v, ch, ncl), d, s.fat)
    BY <2>2, <2>3, <2>4, <2>5, <2>6, <2>7, <1>1, <1>7, <1>10
  <2> QED BY <2>1, <2>3, <2>8, <1>4, <1>10 DEF Stretches, d
<1>11. CASE ch # <<>> /\ o.stat # 2 /\ ncl # clst + 1
  <2> DEFINE a == Larger(k, 1)
             w == [o EXCEPT !.n_frag = a]
             x == fill_last_frag(s, w, ch[n], ncl)
             v == [x.obj EXCEPT !.n_frag = 1]
  <2>1. a \in 1 .. n /\ a \in Nat /\ (k = 0 => a = 1) /\ (k # 0 => a = k)
    BY <1>1, <1>6, <1>11, SMTT(30) DEF Larger
  <2>2. r = [s |-> x.s, obj |-> v]
    BY <1>6, <1>11 DEF Stretched
  <2> HIDE DEF a
  <2>3. /\ w \in ObjRec /\ w.sclust = o.sclust /\ w.objsize = o.objsize /\ w.stat = o.stat
        /\ w.n_cont = o.n_cont /\ w.n_frag = a
    BY <2>1, <1>1 DEF ObjRec
  <2> HIDE DEF w
  <2>4. LastWritten(s, w, ch, ncl)
    <3>1. Straight(ch, n - w.n_frag + 1, n)
      <4>1. Straight(ch, n, n) /\ n - 1 + 1 = n
        BY <1>1, <1>6, <1>11, StraightOne
      <4> QED BY <4>1, <2>1, <2>3, <1>6, <1>11
    <3> QED BY <2>1, <2>3, <3>1, LastFragment
  <2>5. /\ x.obj = [w EXCEPT !.n_frag = 0] /\ Wrote(Members(ch), s, x.s)
        /\ \A i \in 1 .. n : x.s.fat[ch[i]] = IF i = n THEN ncl
                              ELSE IF i > n - a THEN ch[i + 1]
                              ELSE s.fat[ch[i]]
    BY <2>3, <2>4 DEF LastWritten
  <2>6. /\ v \in ObjRec /\ v.sclust = o.sclust /\ v.objsize = o.objsize /\ v.stat = o.stat
        /\ v.n_cont = o.n_cont /\ v.n_frag = 1
    BY <2>3, <2>5 DEF ObjRec
  <2> HIDE DEF x, v
  <2>7. Straight(d, n + 1, n + 1) /\ n + 1 - 1 + 1 = n + 1 /\ n + 1 - 1 = n
    BY <1>1, <1>2, <1>3 DEF Straight
  <2>8. \A i \in o.n_cont + 1 .. n : x.s.fat[d[i]] = Behind(d, i)
    <3> SUFFICES ASSUME NEW i \in o.n_cont + 1 .. n PROVE x.s.fat[d[i]] = Behind(d, i)
      OBVIOUS
    <3>1. i \in 1 .. n /\ d[i] = ch[i]
      BY <1>1, <1>3
    <3>2. CASE i = n
      BY <3>1, <3>2, <2>5, <1>3
    <3>3. CASE i # n /\ i > n - a
      <4>1. Behind(ch, i) = ch[i + 1] /\ i \in 1 .. n - 1
        BY <3>1, <3>3, <1>1 DEF Behind
      <4> QED BY <3>1, <3>3, <4>1, <2>5, <1>3
    <3>4. CASE i # n /\ ~(i > n - a)
      <4>1. i \in o.n_cont + 1 .. n - k /\ i \in 1 .. n - 1
        BY <3>1, <3>4, <2>1, <1>1
      <4> QED BY <3>1, <3>4, <4>1, <2>5, <1>3, <1>6, <1>11
    <3> QED BY <3>2, <3>3, <3>4
  <2>9. o.stat = 3 => Straight(d, 1, o.n_cont + 1)
    <3>1. SUFFICES ASSUME o.stat = 3 PROVE Straight(d, 1, o.n_cont + 1)
      OBVIOUS
    <3>2. n >= o.n_cont + 2 /\ Straight(ch, 1, o.n_cont + 1)
      BY <3>1, <1>6, <1>11
    <3>3. o.n_cont + 1 \in Nat /\ 1 <= o.n_cont + 1 /\ o.n_cont + 1 <= n
      BY <3>2, <1>1
    <3> QED BY <3>2, <3>3, StraightStays DEF d
  <2>10. /\ o.stat = 3 => n + 1 >= v.n_cont + 2 /\ n >= v.n_cont + v.n_frag
         /\ v.n_frag <= n + 1
    BY <2>6, <1>1, <1>6, <1>11, SMTT(30)
  <2>11. Knows(NewObj(v, ch, ncl), d, x.s.fat)
    BY <2>6, <2>7, <2>8, <2>9, <2>10, <1>1, <1>7, <1>11
  <2> QED BY <2>2, <2>5, <2>6, <2>11 DEF Stretches, d
<1> QED BY <1>5, <1>8, <1>9, <1>10, <1>11

-----------------------------------------------------------------------------
(* create_chain.                                                           *)
LEMMA TakenIs ==
    ASSUME NEW s, Sound(s), s.free # 0, NEW ncl \in Clusters \ s.bits
    PROVE  LET t == Taken(s, ncl)
           IN Sound(t) /\ t.bits = s.bits \cup {ncl} /\ t.fat = s.fat
<1>1. /\ s \in Volumes /\ s.bits \in SUBSET Clusters /\ s.free \in 0 .. Unknown
      /\ (s.free # Unknown => s.free = Cardinality(Clusters \ s.bits))
      /\ Reserved \subseteq s.bits
  BY DEF Sound, Exact, Volumes
<1> DEFINE B == ncl .. ncl + 1 - 1
           b == s.bits \cup {ncl}
           f == IF s.free <= NClusters THEN s.free - 1 ELSE s.free
           t == [s EXCEPT !.bits = b, !.last = ncl, !.free = f]
<1>2. ncl \in Nat /\ B = {ncl}
  BY Sizes
<1>3. change_bitmap(s, ncl, 1, TRUE) = [ok |-> TRUE, s |-> [s EXCEPT !.bits = b]]
  <2>1. \A k \in ncl .. ncl + 1 - 1 : k \notin s.bits
    BY <1>2
  <2>2. change_bitmap(s, ncl, 1, TRUE)
           = [ok |-> TRUE, s |-> [s EXCEPT !.bits = s.bits \cup (ncl .. ncl + 1 - 1)]]
    BY <1>2, <2>1, MarkBlock
  <2> QED BY <2>2, <1>2
<1>4. Taken(s, ncl) = t
  <2> DEFINE u == [s EXCEPT !.bits = b]
  <2>1. u.free = s.free /\ u.last = s.last
    BY <1>1 DEF Volumes
  <2>2. Taken(s, ncl) = [u EXCEPT !.last = ncl,
                            !.free = IF u.free <= NClusters THEN u.free - 1 ELSE u.free]
    <3> DEFINE z == change_bitmap(s, ncl, 1, TRUE)
    <3>0. z = [ok |-> TRUE, s |-> u]
      BY <1>3
    <3>3. Taken(s, ncl) = [z.s EXCEPT !.last = ncl,
                               !.free = IF @ <= NClusters THEN @ - 1 ELSE @]
      BY DEF Taken
    <3>2. DOMAIN u = {"fat", "bits", "last", "free"}
      BY <1>1 DEF Volumes
    <3> HIDE DEF u, z
    <3>1. z.s = u
      BY <3>0
    <3> QED BY <3>1, <3>2, <3>3
  <2> QED BY <2>1, <2>2
<1>5. /\ Cardinality(Clusters \ s.bits) \in 0 .. NClusters
      /\ Cardinality(Clusters \ b) = Cardinality(Clusters \ s.bits) - 1
  <2>1. {ncl} \in SUBSET Clusters /\ {ncl} \cap s.bits = {}
    OBVIOUS
  <2>2. Cardinality({ncl}) = 1
    BY FS_Singleton
  <2>3. b = s.bits \cup {ncl} /\ s.bits \in SUBSET Clusters
    BY <1>1 DEF Sound, Volumes
  <2> DEFINE N == {ncl}
             old == s.bits
  <2>4. N \in SUBSET Clusters /\ N \cap old = {} /\ Cardinality(N) = 1 /\ b = old \cup N
        /\ old \in SUBSET Clusters
    BY <2>1, <2>2, <2>3
  <2> HIDE DEF N, b, old
  <2>5. Cardinality(Clusters \ old) \in 0 .. NClusters
    BY <2>4, ClearBits
  <2>6. Cardinality(Clusters \ (old \cup N)) = Cardinality(Clusters \ old) - Cardinality(N)
    BY <2>4, ClearBits
  <2> QED BY <2>4, <2>5, <2>6 DEF old
<1>6. /\ NClusters \in Nat /\ Unknown = NClusters + 2
  BY Sizes
<1>7. f \in 0 .. Unknown /\ (f # Unknown => f = Cardinality(Clusters \ b))
  <2>1. CASE s.free = Unknown
    BY <1>6, <2>1
  <2>2. CASE s.free # Unknown
    BY <1>1, <1>5, <1>6, <2>2
  <2> QED BY <2>1, <2>2
<1>8. b \in SUBSET Clusters /\ Reserved \subseteq b
  BY <1>1
<1> HIDE DEF b, f
<1>9. t \in Volumes /\ t.bits = b /\ t.free = f /\ t.fat = s.fat
  BY <1>1, <1>2, <1>7, <1>8 DEF Volumes
<1> QED BY <1>4, <1>7, <1>8, <1>9 DEF Sound, Exact, b

(* The chain goes on.                                                      *)
LEMMA CreateFollows ==
    ASSUME NEW s \in Volumes, NEW o, NEW ch \in Seq(Clusters), Distinct(ch),
           Knows(o, ch, s.fat), o.n_frag = 0, NEW i \in 1 .. Len(ch) - 1
    PROVE  create_chain(s, o, ch[i]) = [s |-> s, obj |-> o, clst |-> ch[i + 1], new |-> FALSE]
<1>1. i \in 1 .. Len(ch) /\ i + 1 \in 1 .. Len(ch) /\ i < Len(ch)
  OBVIOUS
<1>2. get_fat(s, o, ch[i]) = ch[i + 1]
  BY <1>1, GetFatOf DEF Behind
<1>3. /\ ch[i] # 0 /\ ~(ch[i + 1] < 2) /\ ch[i + 1] < NFatEnt
  BY <1>1, Sizes
<1> QED BY <1>2, <1>3 DEF create_chain

(* The chain ends: the volume is full, or a free cluster is put behind it. *)
Extended(s, o, ch, r) ==
    \/ r = [s |-> s, obj |-> o, clst |-> 0, new |-> FALSE]
    \/ /\ r.new = TRUE
       /\ r.clst \in Clusters \ s.bits
       /\ Sound(r.s) /\ r.s.bits = s.bits \cup {r.clst}
       /\ \A c \in Clusters \ Members(ch) : r.s.fat[c] = s.fat[c]
       /\ r.obj \in ObjRec /\ r.obj.sclust = o.sclust /\ r.obj.objsize = o.objsize
       /\ ch # <<>> /\ o.stat = 0 => r.obj.stat = 0
       /\ Knows(NewObj(r.obj, ch, r.clst), Append(ch, r.clst), r.s.fat)

LEMMA CreateExtends ==
    ASSUME NEW s, Sound(s), NEW o, NEW ch \in Seq(Clusters), Distinct(ch), Knows(o, ch, s.fat)
    PROVE  Extended(s, o, ch, create_chain(s, o, IF ch = <<>> THEN 0 ELSE ch[Len(ch)]))
<1> DEFINE clst == IF ch = <<>> THEN 0 ELSE ch[Len(ch)]
           scl == IF clst # 0 THEN clst ELSE IF s.last \in Clusters THEN s.last ELSE 1
           ncl == find_bitmap(s, scl, 1)
           t == Taken(s, ncl)
           q == Stretched(t, o, clst, ncl)
           r == create_chain(s, o, clst)
<1>1. /\ s \in Volumes /\ 2 \in s.bits /\ s.last \in Nat
  BY VolumeAssumption DEF Sound, Volumes
<1>2. clst \in Nat /\ scl \in Nat /\ (ch # <<>> => clst \in Clusters /\ clst # 0)
  <2>1. ch # <<>> => Len(ch) \in 1 .. Len(ch)
    OBVIOUS
  <2> QED BY <2>1, <1>1, Sizes
<1>3. IF clst = 0 THEN TRUE ELSE get_fat(s, o, clst) = EOC
  <2> SUFFICES ASSUME clst # 0 PROVE get_fat(s, o, clst) = EOC
    OBVIOUS
  <2>1. ch # <<>> /\ Len(ch) \in 1 .. Len(ch)
    OBVIOUS
  <2>2. get_fat(s, o, ch[Len(ch)]) = Behind(ch, Len(ch))
    BY <2>1, <1>1, GetFatOf
  <2> QED BY <2>1, <2>2 DEF Behind
<1>4. r = IF s.free = 0 \/ ncl = 0 THEN [s |-> s, obj |-> o, clst |-> 0, new |-> FALSE]
          ELSE [s |-> q.s, obj |-> q.obj, clst |-> ncl, new |-> TRUE]
  <2>1. ~(NFatEnt < 2) /\ ~(NFatEnt < NFatEnt) /\ ~(EOC < 2) /\ ~(EOC < NFatEnt)
    BY Sizes
  <2> HIDE DEF ncl, q, t
  <2> DEFINE cs == IF clst = 0 THEN NFatEnt ELSE get_fat(s, o, clst)
  <2>2. ~(cs < 2) /\ ~(cs < NFatEnt)
    BY <2>1, <1>3
  <2> HIDE DEF cs
  <2> USE DEF ncl, q, t
  <2> QED BY <2>2 DEF create_chain, cs
<1>5. ncl = 0 \/ ncl \in Clusters \ s.bits
  <2>1. \/ ncl = 0
        \/ ncl \in Clusters /\ \A k \in 0 .. 1 - 1 : ncl + k \in Clusters \ s.bits
    BY <1>1, <1>2, FindBitmap
  <2> HIDE DEF ncl
  <2>2. ncl \in Clusters => ncl + 0 = ncl /\ 0 \in 0 .. 1 - 1
    BY Sizes
  <2> QED BY <2>1, <2>2
<1> HIDE DEF scl, ncl
<1>6. ASSUME s.free # 0, ncl # 0
      PROVE  /\ ncl \in Clusters \ s.bits
             /\ Sound(t) /\ t.bits = s.bits \cup {ncl} /\ t.fat = s.fat
             /\ Stretches(t, o, ch, ncl)
  <2>1. ncl \in Clusters \ s.bits
    BY <1>5, <1>6
  <2>2. Sound(t) /\ t.bits = s.bits \cup {ncl} /\ t.fat = s.fat
    BY <2>1, <1>6, TakenIs
  <2>3. t \in Volumes
    BY <2>2 DEF Sound
  <2> HIDE DEF t
  <2> QED BY <2>1, <2>2, <2>3, StretchedIs
<1>7. ASSUME s.free # 0, ncl # 0
      PROVE  Extended(s, o, ch, r)
  <2> HIDE DEF t
  <2>1. /\ Wrote(Members(ch), t, q.s)
        /\ q.obj \in ObjRec /\ q.obj.sclust = o.sclust /\ q.obj.objsize = o.objsize
        /\ ch # <<>> /\ o.stat = 0 => q.obj.stat = 0
        /\ Knows(NewObj(q.obj, ch, ncl), Append(ch, ncl), q.s.fat)
    BY <1>6, <1>7 DEF Stretches
  <2> HIDE DEF q
  <2>2. Sound(q.s)
    BY <2>1, <1>6, <1>7 DEF Wrote, Sound, Exact
  <2>3. /\ r.s = q.s /\ r.obj = q.obj /\ r.clst = ncl /\ r.new = TRUE
    BY <1>4, <1>7
  <2> HIDE DEF r
  <2>4. /\ q.s.bits = s.bits \cup {ncl}
        /\ \A c \in Clusters \ Members(ch) : q.s.fat[c] = s.fat[c]
    BY <2>1, <1>6, <1>7 DEF Wrote
  <2> QED BY <2>1, <2>2, <2>3, <2>4, <1>6, <1>7 DEF Extended
<1>8. ASSUME s.free = 0 \/ ncl = 0
      PROVE  Extended(s, o, ch, r)
  BY <1>4, <1>8 DEF Extended
<1> QED BY <1>7, <1>8

-----------------------------------------------------------------------------
(* remove_chain: the loop.                                                 *)
Turns == [s : Volumes, scl : Nat, clst : Nat]
ClearWalk(s, o, clst, w) ==
    /\ w \in [Nat -> Turns] /\ w[0] = [s |-> s, scl |-> clst, clst |-> clst]
    /\ \A n \in Nat : w[n + 1] = ClearTurn(o, w[n])
    /\ Cleared(s, o, clst) = w[2 * NFatEnt]

LEMMA ClearTurnType ==
    ASSUME NEW o \in ObjRec, NEW v \in Turns
    PROVE  ClearTurn(o, v) \in Turns
<1> DEFINE nxt == get_fat(v.s, o, v.clst)
           f == IF v.s.free < NClusters THEN v.s.free + 1 ELSE v.s.free
           t == [v.s EXCEPT !.free = f]
           Block == v.scl .. v.scl + (v.clst - v.scl + 1) - 1
           Odd == {c \in Block : (c \in t.bits) = FALSE}
           Done == IF Odd = {} THEN Block ELSE v.scl .. Least(Odd) - 1
           b == t.bits \ Done
           u == [t EXCEPT !.bits = b]
           full == Odd = {}
<1>1. v.s \in Volumes /\ v.scl \in Nat /\ v.clst \in Nat
  BY DEF Turns
<1>2. nxt \in Nat
  BY <1>1, GetFatIsNat
<1> HIDE DEF nxt
<1>3. f \in 0 .. Unknown
  <2>1. v.s.free \in 0 .. Unknown /\ NClusters \in Nat /\ Unknown = NClusters + 2
    BY <1>1, Sizes DEF Volumes
  <2> QED BY <2>1
<1>4. change_bitmap(t, v.scl, v.clst - v.scl + 1, FALSE) = [ok |-> full, s |-> u]
  BY DEF change_bitmap
<1> HIDE DEF f, full
<1>5. t \in Volumes /\ t.bits \in SUBSET Clusters
  BY <1>1, <1>3 DEF Volumes
<1> HIDE DEF t
<1>6. b \in SUBSET Clusters
  BY <1>5
<1> HIDE DEF b
<1>7. u \in Volumes
  BY <1>5, <1>6 DEF Volumes
<1> HIDE DEF u
<1> DEFINE r == change_bitmap(t, v.scl, v.clst - v.scl + 1, FALSE)
<1>8. r.s = u
  <2>1. r = [ok |-> full, s |-> u]
    BY <1>4
  <2> HIDE DEF r
  <2> QED BY <2>1
<1> DEFINE e == IF r.ok THEN nxt ELSE 1
<1>9. e \in Nat
  BY <1>2
<1>10. ClearTurn(o, v) = CASE v.clst \notin Clusters -> v
         [] v.clst \in Clusters /\ nxt < 2 -> [v EXCEPT !.clst = nxt]
         [] v.clst \in Clusters /\ nxt >= 2 /\ nxt = v.clst + 1 ->
              [s |-> t, scl |-> v.scl, clst |-> nxt]
         [] OTHER -> [s |-> r.s, scl |-> nxt, clst |-> e]
  BY DEF ClearTurn, nxt, t, f
<1> HIDE DEF e, r
<1>11. /\ [v EXCEPT !.clst = nxt] \in Turns
       /\ [s |-> t, scl |-> v.scl, clst |-> nxt] \in Turns
       /\ [s |-> r.s, scl |-> nxt, clst |-> e] \in Turns
  BY <1>1, <1>2, <1>5, <1>7, <1>8, <1>9 DEF Turns
<1> QED BY <1>10, <1>11

LEMMA ClearWalkExists ==
    ASSUME NEW s \in Volumes, NEW o \in ObjRec, NEW clst \in Nat
    PROVE  \E w : ClearWalk(s, o, clst, w)
<1> DEFINE a == [s |-> s, scl |-> clst, clst |-> clst]
           S == [v \in Turns |-> ClearTurn(o, v)]
           Rec(w) == w = [n \in Nat |-> IF n = 0 THEN a ELSE ClearTurn(o, w[n - 1])]
           w == CHOOSE h : Rec(h)
<1>1. a \in Turns
  BY DEF Turns
<1>2. Cleared(s, o, clst) = w[2 * NFatEnt]
  BY DEF Cleared
<1> HIDE DEF a
<1>3. S \in [Turns -> Turns] /\ \A v \in Turns : S[v] = ClearTurn(o, v)
  BY ClearTurnType
<1> HIDE DEF S
<1>4. \E g : Run(Turns, S, a, g)
  BY <1>1, <1>3, RunExists
<1>5. PICK g : Run(Turns, S, a, g)
  BY <1>4
<1>6. g \in [Nat -> Turns] /\ g[0] = a /\ \A n \in Nat : g[n + 1] = ClearTurn(o, g[n])
  BY <1>3, <1>5 DEF Run
<1>7. Rec(g)
  <2>1. ASSUME NEW n \in Nat, n # 0 PROVE g[n] = ClearTurn(o, g[n - 1])
    <3>1. n - 1 \in Nat /\ n - 1 + 1 = n
      BY <2>1
    <3> QED BY <1>6, <3>1
  <2> QED BY <1>6, <2>1
<1>8. Rec(w)
  BY <1>7
<1> HIDE DEF w
<1>9. w[0] = a /\ \A n \in Nat : w[n + 1] = ClearTurn(o, w[n])
  <2>1. ASSUME NEW n \in Nat PROVE w[n + 1] = ClearTurn(o, w[n])
    <3>1. n + 1 \in Nat /\ n + 1 # 0 /\ n + 1 - 1 = n
      OBVIOUS
    <3> QED BY <1>8, <3>1
  <2> QED BY <1>8, <2>1
<1>10. w \in [Nat -> Turns]
  <2> DEFINE G == {n \in Nat : w[n] \in Turns}
  <2>1. 0 \in G
    BY <1>1, <1>9
  <2>2. ASSUME NEW n \in G PROVE n + 1 \in G
    BY <1>9, ClearTurnType
  <2>3. G \in SUBSET Nat
    OBVIOUS
  <2> HIDE DEF G
  <2>4. G = Nat
    BY <2>1, <2>2, <2>3, Induction
  <2>5. \E D : w = [n \in Nat |-> D[n]]
    BY <1>8
  <2> QED BY <1>8, <2>4 DEF G
<1> QED BY <1>2, <1>9, <1>10 DEF ClearWalk, a

(* Where the walk has left the volume it stays.                            *)
LEMMA ClearWalkEnds ==
    ASSUME NEW s, NEW o, NEW clst, NEW w, ClearWalk(s, o, clst, w),
           NEW k \in 0 .. 2 * NFatEnt, w[k].clst \notin Clusters
    PROVE  Cleared(s, o, clst) = w[k]
<1> DEFINE G == {n \in Nat : w[k + n] = w[k]}
<1>1. 0 \in G
  OBVIOUS
<1>2. ASSUME NEW n \in G PROVE n + 1 \in G
  <2>1. k + n \in Nat /\ k + (n + 1) = (k + n) + 1
    OBVIOUS
  <2>2. w[(k + n) + 1] = ClearTurn(o, w[k])
    BY <2>1 DEF ClearWalk
  <2>3. ClearTurn(o, w[k]) = w[k]
    BY DEF ClearTurn
  <2> QED BY <2>1, <2>2, <2>3
<1>3. G \in SUBSET Nat
  OBVIOUS
<1> HIDE DEF G
<1>4. G = Nat
  BY <1>1, <1>2, <1>3, Induction
<1>5. 2 * NFatEnt - k \in Nat /\ k + (2 * NFatEnt - k) = 2 * NFatEnt
  BY Sizes
<1>6. w[k + (2 * NFatEnt - k)] = w[k]
  BY <1>4, <1>5 DEF G
<1> QED BY <1>5, <1>6 DEF ClearWalk

(* The clusters of a stretch without gaps.                                 *)
LEMMA BlockIs ==
    ASSUME NEW ch \in Seq(Clusters), NEW a \in 1 .. Len(ch), NEW b \in a .. Len(ch),
           Straight(ch, a, b)
    PROVE  /\ ch[a] <= ch[b]
           /\ \A c : c \in ch[a] .. ch[b] <=> \E i \in a .. b : c = ch[i]
<1>1. /\ a \in Nat /\ b \in Nat /\ a <= b /\ a \in a .. b /\ b \in a .. b
      /\ \A i \in a .. b : i \in Nat /\ i \in 1 .. Len(ch)
  OBVIOUS
<1>2. \A i \in a .. b : ch[i] \in Nat
  BY <1>1, Sizes
<1>3. \A i \in a .. b : ch[i] - ch[a] = i - a
  BY <1>1 DEF Straight
<1>4. \A i \in a .. b : ch[i] = ch[a] + (i - a)
  <2> SUFFICES ASSUME NEW i \in a .. b PROVE ch[i] = ch[a] + (i - a)
    OBVIOUS
  <2>1. ch[i] \in Nat /\ ch[a] \in Nat /\ i \in Nat /\ ch[i] - ch[a] = i - a
    BY <1>1, <1>2, <1>3
  <2> QED BY <2>1, <1>1
<1>5. ch[a] \in Nat /\ ch[b] = ch[a] + (b - a)
  BY <1>1, <1>2, <1>4
<1>6. ASSUME NEW c \in ch[a] .. ch[b] PROVE \E i \in a .. b : c = ch[i]
  <2> DEFINE j == a + (c - ch[a])
  <2>1. j \in a .. b /\ ch[a] + (j - a) = c
    BY <1>1, <1>5
  <2> HIDE DEF j
  <2> QED BY <2>1, <1>4
<1>7. ASSUME NEW i \in a .. b PROVE ch[i] \in ch[a] .. ch[b]
  <2>1. i \in Nat /\ a <= i /\ i <= b /\ ch[i] = ch[a] + (i - a)
    BY <1>1, <1>4
  <2> QED BY <2>1, <1>1, <1>5
<1> QED BY <1>1, <1>5, <1>6, <1>7

(* A turn that finds a cluster behind, and the block it has reached marked.*)
Turned(v, nxt, x) ==
    /\ x \in Turns /\ x.clst = nxt
    /\ x.s.fat = v.s.fat /\ x.s.last = v.s.last
    /\ x.s.free = IF v.s.free < NClusters THEN v.s.free + 1 ELSE v.s.free
    /\ IF nxt = v.clst + 1 THEN x.scl = v.scl /\ x.s.bits = v.s.bits
       ELSE x.scl = nxt /\ x.s.bits = v.s.bits \ (v.scl .. v.clst)
LEMMA TurnIs ==
    ASSUME NEW o \in ObjRec, NEW v \in Turns, v.clst \in Clusters, v.scl <= v.clst,
           \A c \in v.scl .. v.clst : c \in v.s.bits, NEW nxt,
           get_fat(v.s, o, v.clst) = nxt, nxt >= 2
    PROVE  Turned(v, nxt, ClearTurn(o, v))
<1> DEFINE f == IF v.s.free < NClusters THEN v.s.free + 1 ELSE v.s.free
           t == [v.s EXCEPT !.free = f]
           n == v.clst - v.scl + 1
           b == v.s.bits \ (v.scl .. v.clst)
           u == [t EXCEPT !.bits = b]
           r == change_bitmap(t, v.scl, n, FALSE)
           x == ClearTurn(o, v)
<1>1. v.s \in Volumes /\ v.scl \in Nat /\ v.clst \in Nat /\ x \in Turns
  BY ClearTurnType DEF Turns
<1>2. nxt \in Nat
  BY <1>1, GetFatIsNat
<1>3. x = CASE v.clst \notin Clusters -> v
            [] v.clst \in Clusters /\ nxt < 2 -> [v EXCEPT !.clst = nxt]
            [] v.clst \in Clusters /\ nxt >= 2 /\ nxt = v.clst + 1 ->
                 [s |-> t, scl |-> v.scl, clst |-> nxt]
            [] OTHER -> [s |-> r.s, scl |-> nxt, clst |-> IF r.ok THEN nxt ELSE 1]
  BY DEF ClearTurn
<1>4. n \in Nat /\ v.scl + n - 1 = v.clst
  BY <1>1
<1> HIDE DEF n, f
<1>5. t.fat = v.s.fat /\ t.last = v.s.last /\ t.free = f /\ t.bits = v.s.bits
  BY <1>1 DEF Volumes
<1>6. DOMAIN t = {"fat", "bits", "last", "free"}
  BY <1>1 DEF Volumes
<1> HIDE DEF t
<1>7. r = [ok |-> TRUE, s |-> u]
  <2>1. \A c \in v.scl .. v.scl + n - 1 : c \in t.bits
    BY <1>4, <1>5
  <2>2. r = [ok |-> TRUE, s |-> [t EXCEPT !.bits = t.bits \ (v.scl .. v.scl + n - 1)]]
    BY <2>1, <1>1, <1>4, ClearBlock
  <2> QED BY <2>2, <1>4, <1>5
<1> HIDE DEF b
<1>8. u.fat = v.s.fat /\ u.last = v.s.last /\ u.free = f /\ u.bits = b
  BY <1>5, <1>6
<1> HIDE DEF u, r
<1>9. r.ok = TRUE /\ r.s = u
  BY <1>7
<1> HIDE DEF x
<1>10. CASE nxt = v.clst + 1
  <2>1. x = [s |-> t, scl |-> v.scl, clst |-> nxt]
    BY <1>2, <1>3, <1>10
  <2>2. x.s = t /\ x.scl = v.scl /\ x.clst = nxt
    BY <2>1
  <2> QED BY <2>2, <1>1, <1>5, <1>10 DEF Turned, x, f
<1>11. CASE nxt # v.clst + 1
  <2>0. ~(v.clst \notin Clusters) /\ ~(nxt < 2)
    BY <1>2
  <2> DEFINE e == IF r.ok THEN nxt ELSE 1
  <2>1. x = [s |-> r.s, scl |-> nxt, clst |-> e]
    BY <2>0, <1>3, <1>11
  <2>2. e = nxt
    BY <1>9
  <2> HIDE DEF e
  <2>3. x.s = u /\ x.scl = nxt /\ x.clst = nxt
    BY <2>1, <2>2, <1>9
  <2> QED BY <2>3, <1>1, <1>8, <1>11 DEF Turned, x, f, b
<1> QED BY <1>10, <1>11

LEMMA StraightLonger ==
    ASSUME NEW ch \in Seq(Clusters), NEW a \in 1 .. Len(ch), NEW b \in a .. Len(ch) - 1,
           Straight(ch, a, b), ch[b + 1] = ch[b] + 1
    PROVE  Straight(ch, a, b + 1)
<1>1. /\ a \in Nat /\ b \in Nat /\ a <= b /\ b \in a .. b
      /\ \A i \in a .. b + 1 : i \in Nat /\ i \in 1 .. Len(ch)
  OBVIOUS
<1>2. \A i \in a .. b + 1 : ch[i] \in Nat
  BY <1>1, Sizes
<1>3. \A i \in a .. b : ch[i] - ch[b] = i - b /\ ch[b] - ch[i] = b - i
  BY <1>1 DEF Straight
<1>4. SUFFICES ASSUME NEW i \in a .. b + 1, NEW j \in a .. b + 1
               PROVE  ch[j] - ch[i] = j - i
  BY DEF Straight
<1>5. (i \in a .. b \/ i = b + 1) /\ (j \in a .. b \/ j = b + 1)
  BY <1>1
<1>6. CASE i \in a .. b /\ j \in a .. b
  BY <1>6 DEF Straight
<1>7. CASE i \in a .. b /\ j = b + 1
  <2>1. ch[i] \in Nat /\ ch[b] \in Nat /\ ch[b] - ch[i] = b - i /\ ch[j] = ch[b] + 1 /\ i \in Nat
    BY <1>1, <1>2, <1>3, <1>7
  <2> QED BY <2>1, <1>1, <1>7
<1>8. CASE i = b + 1 /\ j \in a .. b
  <2>1. ch[j] \in Nat /\ ch[b] \in Nat /\ ch[j] - ch[b] = j - b /\ ch[i] = ch[b] + 1 /\ j \in Nat
    BY <1>1, <1>2, <1>3, <1>8
  <2> QED BY <2>1, <1>1, <1>8
<1>9. CASE i = b + 1 /\ j = b + 1
  BY <1>2, <1>9
<1> QED BY <1>5, <1>6, <1>7, <1>8, <1>9

(* v is where the loop is after k turns along ch, which are fewer than its *)
(* clusters; number b is the first of those not cleared yet.               *)
Counted(s, k, u) ==
    /\ u.fat = s.fat /\ u.last = s.last
    /\ u.free = IF s.free = Unknown THEN Unknown ELSE s.free + k
Upto(s, ch, k, b, v) ==
    /\ v \in Turns /\ Counted(s, k, v.s)
    /\ b \in 1 .. k + 1 /\ v.scl = ch[b] /\ v.clst = ch[k + 1]
    /\ Straight(ch, b, k + 1)
    /\ \A c : c \in v.s.bits <=> c \in s.bits /\ \A i \in 1 .. b - 1 : c # ch[i]
(* The loop is at the end of the chain.                                    *)
ChainCleared(s, ch, v) ==
    /\ v \in Turns /\ Counted(s, Len(ch), v.s) /\ v.clst = EOC
    /\ v.s.bits = s.bits \ Members(ch)
(* ch is a chain of clusters in use that get_fat tells.                    *)
Told(s, o, ch) ==
    /\ s \in Volumes /\ o \in ObjRec
    /\ ch \in Seq(Clusters) /\ ch # <<>> /\ Distinct(ch)
    /\ Members(ch) \subseteq s.bits
    /\ s.free # Unknown => s.free + Len(ch) <= NClusters
    /\ \A i \in 1 .. Len(ch) : get_fat(s, o, ch[i]) = Behind(ch, i)

LEMMA GetFatSame ==
    ASSUME NEW s, NEW u, u.fat = s.fat, NEW o, NEW c
    PROVE  get_fat(u, o, c) = get_fat(s, o, c)
BY DEF get_fat

LEMMA ClearStep ==
    ASSUME NEW s, NEW o, NEW ch, Told(s, o, ch), NEW k \in 0 .. Len(ch) - 1, NEW b, NEW v,
           Upto(s, ch, k, b, v)
    PROVE  IF k + 1 = Len(ch) THEN ChainCleared(s, ch, ClearTurn(o, v))
           ELSE \E d : Upto(s, ch, k + 1, d, ClearTurn(o, v))
<1> DEFINE n == Len(ch)
           x == ClearTurn(o, v)
           nxt == Behind(ch, k + 1)
<1>1. /\ ch \in Seq(Clusters) /\ Distinct(ch) /\ n \in Nat /\ k \in Nat /\ k + 1 \in 1 .. n
      /\ o \in ObjRec /\ s \in Volumes
      /\ \A i \in 1 .. n : ch[i] \in Clusters /\ ch[i] \in Nat /\ ch[i] \in s.bits
  <2>1. ch \in Seq(Clusters) /\ n \in Nat /\ k \in Nat /\ k + 1 \in 1 .. n
    BY DEF Told
  <2>2. \A i \in 1 .. n : ch[i] \in Members(ch)
    BY <2>1, MembersAre
  <2> QED BY <2>1, <2>2, Sizes DEF Told
<1>2. /\ v \in Turns /\ Counted(s, k, v.s)
      /\ b \in 1 .. k + 1 /\ v.scl = ch[b] /\ v.clst = ch[k + 1]
      /\ Straight(ch, b, k + 1)
      /\ \A c : c \in v.s.bits <=> c \in s.bits /\ \A i \in 1 .. b - 1 : c # ch[i]
  BY DEF Upto
<1>3. b \in Nat /\ b \in 1 .. n /\ k + 1 \in b .. n
  BY <1>1, <1>2
<1>4. /\ ch[b] <= ch[k + 1]
      /\ \A c : c \in ch[b] .. ch[k + 1] <=> \E i \in b .. k + 1 : c = ch[i]
  BY <1>1, <1>2, <1>3, BlockIs
<1>5. \A c \in v.scl .. v.clst : c \in v.s.bits
  <2> SUFFICES ASSUME NEW c \in v.scl .. v.clst PROVE c \in v.s.bits
    OBVIOUS
  <2>1. PICK i \in b .. k + 1 : c = ch[i]
    BY <1>2, <1>4
  <2>2. i \in 1 .. n /\ \A j \in 1 .. b - 1 : j \in 1 .. n /\ j # i
    BY <1>1, <1>3
  <2>3. \A j \in 1 .. b - 1 : ch[i] # ch[j]
    BY <2>2, <1>1 DEF Distinct
  <2> QED BY <2>1, <2>2, <2>3, <1>1, <1>2
<1>6. /\ nxt = IF k + 1 = n THEN EOC ELSE ch[k + 2]
      /\ nxt >= 2 /\ nxt \in Nat
  <2>1. k + 1 # n => k + 1 < n /\ k + 2 \in 1 .. n /\ k + 1 + 1 = k + 2
    BY <1>1
  <2> QED BY <2>1, <1>1, Sizes DEF Behind
<1>7. get_fat(v.s, o, v.clst) = nxt
  <2>1. get_fat(s, o, ch[k + 1]) = nxt
    BY <1>1 DEF Told
  <2>2. v.s.fat = s.fat
    BY <1>2 DEF Counted
  <2> QED BY <2>1, <2>2, <1>2, GetFatSame
<1> HIDE DEF nxt
<1>8. Turned(v, nxt, x)
  <2>1. v.clst \in Clusters /\ v.scl <= v.clst
    BY <1>1, <1>2, <1>4
  <2> QED BY <2>1, <1>1, <1>2, <1>5, <1>6, <1>7, TurnIs
<1> HIDE DEF x
<1>9. Counted(s, k + 1, x.s)
  <2>1. /\ v.s.fat = s.fat /\ v.s.last = s.last
        /\ v.s.free = IF s.free = Unknown THEN Unknown ELSE s.free + k
        /\ x.s.fat = v.s.fat /\ x.s.last = v.s.last
        /\ x.s.free = IF v.s.free < NClusters THEN v.s.free + 1 ELSE v.s.free
    BY <1>2, <1>8 DEF Counted, Turned
  <2>2. NClusters \in Nat /\ Unknown = NClusters + 2 /\ s.free \in 0 .. Unknown
    BY <1>1, Sizes DEF Volumes
  <2>3. s.free # Unknown => s.free + n <= NClusters
    BY DEF Told
  <2>4. CASE s.free = Unknown
    BY <2>1, <2>2, <2>4 DEF Counted
  <2>5. CASE s.free # Unknown
    <3>1. s.free + k < NClusters /\ s.free + k \in Nat
      BY <2>2, <2>3, <2>5, <1>1
    <3>2. x.s.free = s.free + (k + 1)
      <4>1. x.s.free = (s.free + k) + 1
        BY <3>1, <2>1, <2>5
      <4>2. s.free \in Nat
        BY <2>2
      <4> QED BY ONLY <4>1, <4>2, k \in Nat
    <3> QED BY <2>1, <2>5, <3>2 DEF Counted
  <2> QED BY <2>4, <2>5
<1>10. nxt # v.clst + 1 => \A c : c \in x.s.bits <=> c \in s.bits /\ \A i \in 1 .. k + 1 : c # ch[i]
  <2> SUFFICES ASSUME nxt # v.clst + 1, NEW c
               PROVE  c \in x.s.bits <=> c \in s.bits /\ \A i \in 1 .. k + 1 : c # ch[i]
    OBVIOUS
  <2>1. x.s.bits = v.s.bits \ (ch[b] .. ch[k + 1])
    BY <1>2, <1>8 DEF Turned
  <2>2. c \in x.s.bits <=> /\ c \in s.bits /\ \A i \in 1 .. b - 1 : c # ch[i]
                           /\ \A i \in b .. k + 1 : c # ch[i]
    BY <2>1, <1>2, <1>4
  <2>3. /\ \A i \in 1 .. k + 1 : i \in 1 .. b - 1 \/ i \in b .. k + 1
        /\ \A i \in 1 .. b - 1 : i \in 1 .. k + 1
        /\ \A i \in b .. k + 1 : i \in 1 .. k + 1
    BY <1>1, <1>3
  <2> QED BY <2>2, <2>3
<1>11. CASE k + 1 = n
  <2>1. nxt = EOC /\ nxt # v.clst + 1
    BY <1>1, <1>2, <1>6, <1>11, Sizes
  <2>2. \A c : c \in Members(ch) <=> \E i \in 1 .. n : ch[i] = c
    BY <1>1, MembersAre
  <2>3. x.s.bits = s.bits \ Members(ch)
    BY <2>1, <2>2, <1>10, <1>11
  <2>4. x \in Turns /\ x.clst = EOC
    BY <2>1, <1>8 DEF Turned
  <2> QED BY <2>3, <2>4, <1>9, <1>11 DEF ChainCleared, x
<1>12. CASE k + 1 # n
  <2>0. k + 2 \in 1 .. n /\ nxt = ch[k + 2] /\ k + 1 + 1 = k + 2
    BY <1>1, <1>6, <1>12
  <2>1. CASE nxt = v.clst + 1
    <3>1. x \in Turns /\ x.clst = ch[k + 2] /\ x.scl = ch[b] /\ x.s.bits = v.s.bits
      BY <2>0, <2>1, <1>2, <1>8 DEF Turned
    <3>2. Straight(ch, b, k + 2)
      <4>1. k + 1 \in b .. Len(ch) - 1 /\ (k + 1) + 1 = k + 2 /\ ch[k + 2] = ch[k + 1] + 1
        BY <2>0, <2>1, <1>1, <1>2, <1>3, <1>12
      <4> DEFINE m == k + 1
      <4>2. m \in b .. Len(ch) - 1 /\ m + 1 = k + 2 /\ Straight(ch, b, m) /\ ch[m + 1] = ch[m] + 1
        BY <4>1, <1>2
      <4> HIDE DEF m
      <4>3. Straight(ch, b, m + 1)
        BY <4>2, <1>1, <1>3, StraightLonger
      <4> QED BY <4>2, <4>3
    <3>3. b \in 1 .. k + 1 + 1
      BY <1>1, <1>3
    <3>4. Upto(s, ch, k + 1, b, x)
      BY <3>1, <3>2, <3>3, <2>0, <1>2, <1>9 DEF Upto
    <3> QED BY <3>4, <1>12 DEF x
  <2>2. CASE nxt # v.clst + 1
    <3>1. x \in Turns /\ x.clst = ch[k + 2] /\ x.scl = ch[k + 2]
      BY <2>0, <2>2, <1>8 DEF Turned
    <3>2. Straight(ch, k + 2, k + 2)
      BY <2>0, <1>1, StraightOne
    <3>3. k + 2 \in 1 .. k + 1 + 1 /\ k + 2 - 1 = k + 1
      BY <1>1
    <3>4. \A c : c \in x.s.bits <=> c \in s.bits /\ \A i \in 1 .. k + 2 - 1 : c # ch[i]
      BY <3>3, <2>2, <1>10
    <3>5. Upto(s, ch, k + 1, k + 2, x)
      BY <3>1, <3>2, <3>3, <3>4, <2>0, <1>9 DEF Upto
    <3> QED BY <3>5, <1>12 DEF x
  <2> QED BY <2>1, <2>2
<1> QED BY <1>11, <1>12

(* remove_chain's loop gives back the clusters of a chain.                 *)
LEMMA ClearedAlong ==
    ASSUME NEW s, NEW o, NEW ch, Told(s, o, ch)
    PROVE  ChainCleared(s, ch, Cleared(s, o, ch[1]))
<1> DEFINE n == Len(ch)
<1>1. /\ s \in Volumes /\ o \in ObjRec /\ ch \in Seq(Clusters) /\ n \in Nat /\ n >= 1
      /\ Distinct(ch) /\ 1 \in 1 .. n
      /\ \A i \in 1 .. n : ch[i] \in Clusters /\ ch[i] \in Nat
  <2>1. ch \in Seq(Clusters) /\ ch # <<>>
    BY DEF Told
  <2>2. n \in Nat /\ n >= 1
    BY <2>1
  <2> QED BY <2>1, <2>2, Sizes DEF Told
<1>2. PICK w : ClearWalk(s, o, ch[1], w)
  BY <1>1, ClearWalkExists
<1>3. /\ w[0] = [s |-> s, scl |-> ch[1], clst |-> ch[1]]
      /\ \A k \in Nat : w[k + 1] = ClearTurn(o, w[k])
      /\ \A k \in Nat : w[k] \in Turns
  BY <1>2 DEF ClearWalk
<1> DEFINE G == {k \in Nat : k < n => \E b : Upto(s, ch, k, b, w[k])}
<1>4. 0 \in G
  <2>1. w[0] \in Turns /\ w[0].s = s /\ w[0].scl = ch[1] /\ w[0].clst = ch[1]
    BY <1>1, <1>3
  <2>2. Counted(s, 0, s)
    <3>1. s.free \in 0 .. Unknown /\ Unknown \in Nat
      BY <1>1, Sizes DEF Volumes
    <3> QED BY <3>1 DEF Counted
  <2>3. Straight(ch, 1, 1)
    BY <1>1, StraightOne
  <2>4. 1 \in 1 .. 0 + 1 /\ 0 + 1 = 1 /\ 1 .. 1 - 1 = {}
    OBVIOUS
  <2>5. Upto(s, ch, 0, 1, w[0])
    BY <2>1, <2>2, <2>3, <2>4 DEF Upto
  <2> QED BY <2>5
<1>5. ASSUME NEW k \in G PROVE k + 1 \in G
  <2> SUFFICES ASSUME k + 1 < n PROVE \E b : Upto(s, ch, k + 1, b, w[k + 1])
    OBVIOUS
  <2>1. k \in Nat /\ k < n /\ k \in 0 .. Len(ch) - 1 /\ k + 1 # Len(ch)
    BY <1>1
  <2>2. PICK b : Upto(s, ch, k, b, w[k])
    BY <2>1
  <2>3. \E d : Upto(s, ch, k + 1, d, ClearTurn(o, w[k]))
    BY <2>1, <2>2, ClearStep
  <2> QED BY <2>1, <2>3, <1>3
<1>6. G = Nat
  <2>1. G \in SUBSET Nat
    OBVIOUS
  <2> HIDE DEF G
  <2> QED BY <2>1, <1>4, <1>5, Induction
<1>7. n - 1 \in Nat /\ n - 1 < n /\ n - 1 \in 0 .. Len(ch) - 1 /\ (n - 1) + 1 = n
  BY <1>1
<1>8. PICK b : Upto(s, ch, n - 1, b, w[n - 1])
  BY <1>6, <1>7
<1>9. ChainCleared(s, ch, ClearTurn(o, w[n - 1]))
  BY <1>7, <1>8, ClearStep
<1>10. ChainCleared(s, ch, w[n])
  <2>1. w[(n - 1) + 1] = ClearTurn(o, w[n - 1])
    BY <1>3, <1>7
  <2> QED BY <2>1, <1>7, <1>9
<1>11. n \in 0 .. 2 * NFatEnt
  <2>1. Members(ch) \subseteq Clusters
    BY <1>1, MembersAre
  <2>2. Cardinality(Members(ch)) = n /\ Cardinality(Members(ch)) <= Cardinality(Clusters)
    BY <2>1, <1>1, DistinctCount, Sizes, FS_Subset
  <2> QED BY <2>2, <1>1, Sizes
<1>12. w[n].clst \notin Clusters
  BY <1>10, Sizes DEF ChainCleared
<1>13. Cleared(s, o, ch[1]) = w[n]
  BY <1>2, <1>11, <1>12, ClearWalkEnds
<1> QED BY <1>10, <1>13

-----------------------------------------------------------------------------
(* remove_chain as a whole.                                                *)
LEMMA CountFits ==
    ASSUME NEW s \in Volumes, Exact(s), NEW ch \in Seq(Clusters), Distinct(ch),
           Members(ch) \subseteq s.bits
    PROVE  /\ s.free # Unknown => s.free + Len(ch) <= NClusters
           /\ Cardinality(Clusters \ (s.bits \ Members(ch)))
                = Cardinality(Clusters \ s.bits) + Len(ch)
<1> DEFINE B == Members(ch)
<1>1. B \in SUBSET Clusters /\ s.bits \in SUBSET Clusters
  BY MembersAre DEF Volumes
<1>2. Cardinality(B) = Len(ch)
  BY DistinctCount
<1>3. /\ Cardinality(Clusters \ (s.bits \ B)) = Cardinality(Clusters \ s.bits) + Cardinality(B)
  BY <1>1, ClearBits
<1>4. s.bits \ B \in SUBSET Clusters
  BY <1>1
<1>5. Cardinality(Clusters \ (s.bits \ B)) \in 0 .. NClusters
  BY <1>1, <1>4, ClearBits
<1> QED BY <1>2, <1>3, <1>5, Sizes DEF Exact

LEMMA ClearedSound ==
    ASSUME NEW s, Sound(s), NEW ch \in Seq(Clusters), Distinct(ch),
           Members(ch) \subseteq s.bits \ Reserved, NEW v, ChainCleared(s, ch, v)
    PROVE  Sound(v.s) /\ v.s.bits = s.bits \ Members(ch) /\ v.s.fat = s.fat
<1>1. /\ s \in Volumes /\ Exact(s) /\ Reserved \subseteq s.bits
      /\ v.s \in Volumes /\ Counted(s, Len(ch), v.s) /\ v.s.bits = s.bits \ Members(ch)
  BY DEF Sound, ChainCleared, Turns
<1>2. /\ Cardinality(Clusters \ v.s.bits) = Cardinality(Clusters \ s.bits) + Len(ch)
      /\ Members(ch) \subseteq s.bits
  BY <1>1, CountFits
<1>3. Exact(v.s)
  BY <1>1, <1>2 DEF Exact, Counted
<1> QED BY <1>1, <1>3 DEF Sound, Counted

(* After k clusters the chain ends.                                        *)
CutAt(s, o, ch, k, t) ==
    /\ \A c \in Clusters : c # ch[k] => t.fat[c] = s.fat[c]
    /\ o.stat # 2 => t.fat[ch[k]] = EOC
LEMMA CutFat ==
    ASSUME NEW s \in Volumes, NEW o, NEW ch \in Seq(Clusters), NEW k \in 1 .. Len(ch)
    PROVE  LET t == IF ch[k] # 0 /\ o.stat # 2 THEN [s EXCEPT !.fat[ch[k]] = EOC] ELSE s
           IN Wrote({ch[k]}, s, t) /\ CutAt(s, o, ch, k, t)
<1>1. ch[k] \in Clusters /\ ch[k] # 0 /\ EOC \in {EOC} \cup Clusters
  BY Sizes
<1> DEFINE c == ch[k]
           u == [s EXCEPT !.fat[c] = EOC]
<1> HIDE DEF c
<1>2. Wrote({c}, s, u) /\ u.fat[c] = EOC
  BY <1>1, PutFat, ZenonT(60) DEF c
<1> HIDE DEF u
<1>3. Wrote({c}, s, s)
  BY DEF Wrote
<1>4. CASE o.stat = 2
  BY <1>3, <1>4 DEF CutAt, Wrote, c
<1>5. CASE o.stat # 2
  <2>1. CutAt(s, o, ch, k, u)
    BY <1>2 DEF CutAt, Wrote, c
  <2> QED BY <2>1, <1>1, <1>2, <1>5 DEF c, u
<1> QED BY <1>4, <1>5

LEMMA GetFatSameAt ==
    ASSUME NEW s, NEW u, NEW c, u.fat[c] = s.fat[c], NEW o
    PROVE  get_fat(u, o, c) = get_fat(s, o, c)
BY DEF get_fat

LEMMA StraightBy ==
    ASSUME NEW ch \in Seq(Clusters), NEW a \in 1 .. Len(ch), NEW b \in a .. Len(ch),
           \A i \in a .. b - 1 : ch[i + 1] = ch[i] + 1
    PROVE  Straight(ch, a, b)
<1> DEFINE G == {n \in Nat : a + n \in a .. b => Straight(ch, a, a + n)}
<1>1. 0 \in G
  <2>1. a + 0 = a
    OBVIOUS
  <2> QED BY <2>1, StraightOne
<1>2. ASSUME NEW n \in G PROVE n + 1 \in G
  <2> DEFINE m == a + n
  <2>1. n \in Nat /\ n + 1 \in Nat /\ a + (n + 1) = m + 1
    OBVIOUS
  <2>2. SUFFICES ASSUME m + 1 \in a .. b PROVE Straight(ch, a, m + 1)
    BY <2>1
  <2>3. m \in a .. b /\ m \in a .. b - 1 /\ m \in a .. Len(ch) - 1
    BY <2>1, <2>2
  <2>4. Straight(ch, a, m)
    BY <2>3
  <2> HIDE DEF m
  <2> QED BY <2>3, <2>4, StraightLonger
<1>3. G \in SUBSET Nat
  OBVIOUS
<1> HIDE DEF G
<1>4. G = Nat
  BY <1>1, <1>2, <1>3, Induction
<1>5. b - a \in Nat /\ a + (b - a) = b /\ b \in a .. b
  OBVIOUS
<1> QED BY <1>4, <1>5 DEF G

(* Where the contiguous beginning of the chain ends, number k at the latest*)
LEMMA RunEndIs ==
    ASSUME NEW t \in Volumes, NEW o \in ObjRec, NEW ch \in Seq(Clusters), Distinct(ch),
           NEW k \in 1 .. Len(ch), o.sclust = ch[1],
           \A i \in 1 .. k - 1 : get_fat(t, o, ch[i]) = ch[i + 1]
    PROVE  \E m \in 1 .. k : RunEnd(t, o, ch[k]) = ch[m] /\ Straight(ch, 1, m)
<1> DEFINE R == {c \in o.sclust .. NFatEnt : c = ch[k] \/ get_fat(t, o, c) # c + 1}
           I == {i \in 1 .. k : i = k \/ ch[i + 1] # ch[i] + 1}
           m == Least(I)
<1>1. /\ k \in Nat /\ 1 \in 1 .. Len(ch) /\ \A i \in 1 .. k : i \in Nat /\ i \in 1 .. Len(ch)
      /\ \A i \in 1 .. Len(ch) : ch[i] \in Clusters /\ ch[i] \in Nat /\ ch[i] < NFatEnt
  BY Sizes
<1>2. I \in SUBSET Nat /\ I # {}
  <2>1. k \in I
    BY <1>1
  <2> QED BY <2>1, <1>1
<1>3. m \in I /\ \A i \in I : m <= i
  BY <1>2, LeastIs
<1> HIDE DEF m
<1>4. m \in 1 .. k /\ (m = k \/ ch[m + 1] # ch[m] + 1) /\ m \in 1 .. Len(ch)
  BY <1>1, <1>3
<1>5. \A i \in 1 .. m - 1 : i \in 1 .. k - 1 /\ i # k /\ i \in 1 .. Len(ch) /\ ch[i + 1] = ch[i] + 1
  <2> SUFFICES ASSUME NEW i \in 1 .. m - 1
               PROVE  i \in 1 .. k - 1 /\ i # k /\ i \in 1 .. Len(ch) /\ ch[i + 1] = ch[i] + 1
    OBVIOUS
  <2>1. i \in 1 .. k - 1 /\ i # k /\ i \in 1 .. k /\ i \in 1 .. Len(ch) /\ ~(m <= i)
    BY <1>1, <1>4
  <2> QED BY <2>1, <1>3
<1> HIDE DEF I
<1>6. Straight(ch, 1, m)
  BY <1>1, <1>4, <1>5, StraightBy
<1>7. /\ ch[1] <= ch[m]
      /\ \A c : c \in ch[1] .. ch[m] <=> \E i \in 1 .. m : c = ch[i]
  <2>1. m \in 1 .. Len(ch) /\ 1 \in 1 .. Len(ch)
    BY <1>1, <1>4
  <2> QED BY <2>1, <1>6, BlockIs
<1>8. ch[m] \in R
  <2>1. ch[m] \in o.sclust .. NFatEnt
    BY <1>1, <1>4, <1>7, Sizes
  <2>2. CASE m = k
    BY <2>1, <2>2
  <2>3. CASE m # k
    <3>1. m \in 1 .. k - 1
      BY <2>3, <1>1, <1>4
    <3> QED BY <2>1, <2>3, <3>1, <1>4
  <2> QED BY <2>2, <2>3
<1>9. ASSUME NEW c \in R PROVE ch[m] <= c
  <2> SUFFICES ASSUME ~(ch[m] <= c) PROVE FALSE
    OBVIOUS
  <2>1. c \in ch[1] .. ch[m] /\ c # ch[m]
    BY <1>1, <1>4, Sizes, SMTT(30)
  <2>2. PICK i \in 1 .. m : c = ch[i]
    BY <2>1, <1>7
  <2>3. i \in 1 .. m - 1
    BY <2>1, <2>2, <1>1, <1>4
  <2>4. i \in 1 .. k - 1 /\ i # k /\ i \in 1 .. Len(ch) /\ ch[i + 1] = ch[i] + 1
    BY <2>3, <1>5
  <2>5. c # ch[k]
    BY <2>2, <2>4 DEF Distinct
  <2>6. get_fat(t, o, c) = c + 1
    BY <2>2, <2>4
  <2> QED BY <2>5, <2>6
<1>10. R \in SUBSET Nat /\ R # {}
  BY <1>1, <1>8, Sizes
<1>11. RunEnd(t, o, ch[k]) = Least(R)
  BY DEF RunEnd
<1> HIDE DEF R
<1>12. Least(R) \in R /\ \A y \in R : Least(R) <= y
  BY <1>10, LeastIs
<1>13. Least(R) = ch[m]
  <2>1. Least(R) <= ch[m] /\ ch[m] <= Least(R) /\ Least(R) \in Nat /\ ch[m] \in Nat
    BY <1>1, <1>4, <1>8, <1>9, <1>10, <1>12
  <2> QED BY <2>1
<1> QED BY <1>4, <1>6, <1>11, <1>13

(* The object of a chain cut after k clusters.                             *)
ShortObj(p, k) == [p EXCEPT !.objsize = k, !.sclust = IF k = 0 THEN 0 ELSE @]

LEMMA CutSeq ==
    ASSUME NEW ch \in Seq(Clusters), Distinct(ch), NEW k \in 0 .. Len(ch)
    PROVE  LET a == SubSeq(ch, 1, k)
               b == SubSeq(ch, k + 1, Len(ch))
           IN /\ a \in Seq(Clusters) /\ Len(a) = k /\ Distinct(a)
              /\ \A i \in 1 .. k : a[i] = ch[i]
              /\ b \in Seq(Clusters) /\ Len(b) = Len(ch) - k /\ Distinct(b)
              /\ \A i \in 1 .. Len(ch) - k : b[i] = ch[i + k]
              /\ Members(a) \subseteq Members(ch) /\ Members(b) \subseteq Members(ch)
              /\ Members(a) = Members(ch) \ Members(b)
<1> DEFINE a == SubSeq(ch, 1, k)
           b == SubSeq(ch, k + 1, Len(ch))
<1>1. /\ a \in Seq(Clusters) /\ Len(a) = k /\ \A i \in 1 .. k : a[i] = ch[i]
      /\ b \in Seq(Clusters) /\ Len(b) = Len(ch) - k
      /\ \A i \in 1 .. Len(ch) - k : b[i] = ch[i + k]
  BY CutIs
<1>2. Members(ch) = Members(a) \cup Members(b)
  BY CutMembers
<1> HIDE DEF a, b
<1>3. Distinct(a)
  <2>1. \A i \in 1 .. k : i \in 1 .. Len(ch)
    OBVIOUS
  <2> QED BY <2>1, <1>1 DEF Distinct
<1>4. Distinct(b)
  <2> SUFFICES ASSUME NEW i \in 1 .. Len(b), NEW j \in 1 .. Len(b), b[i] = b[j] PROVE i = j
    BY DEF Distinct
  <2>1. i + k \in 1 .. Len(ch) /\ j + k \in 1 .. Len(ch)
    BY <1>1
  <2>2. ch[i + k] = ch[j + k]
    BY <1>1
  <2>3. i + k = j + k
    BY <2>1, <2>2 DEF Distinct
  <2> QED BY <2>3
<1>5. Members(a) \cap Members(b) = {}
  <2> SUFFICES ASSUME NEW x \in Members(a), x \in Members(b) PROVE FALSE
    OBVIOUS
  <2>0. /\ \A y : y \in Members(a) <=> \E i \in 1 .. Len(a) : a[i] = y
        /\ \A y : y \in Members(b) <=> \E i \in 1 .. Len(b) : b[i] = y
    BY <1>1, MembersAre
  <2>1. PICK i \in 1 .. k : a[i] = x
    BY <2>0, <1>1
  <2>2. PICK j \in 1 .. Len(ch) - k : b[j] = x
    BY <2>0, <1>1
  <2>3. i \in 1 .. Len(ch) /\ j + k \in 1 .. Len(ch) /\ i # j + k
    OBVIOUS
  <2>4. ch[i] = ch[j + k]
    BY <2>1, <2>2, <1>1
  <2> QED BY <2>3, <2>4 DEF Distinct
<1> QED BY <1>1, <1>2, <1>3, <1>4, <1>5 DEF a, b

Shorter(t, o, ch, k) ==
    LET p == Settled([o EXCEPT !.stat = Shortened(t, o, IF k = 0 THEN 0 ELSE ch[k])])
    IN /\ Sane(t, o, IF k = 0 THEN 0 ELSE ch[k])
       /\ p \in ObjRec
       /\ Knows(ShortObj(p, k), SubSeq(ch, 1, k), t.fat)

LEMMA ShortObjIs ==
    ASSUME NEW p \in ObjRec, NEW k \in Nat
    PROVE  LET q == ShortObj(p, k)
           IN /\ q \in ObjRec /\ q.objsize = k /\ q.sclust = IF k = 0 THEN 0 ELSE p.sclust
              /\ q.stat = p.stat /\ q.n_cont = p.n_cont /\ q.n_frag = p.n_frag
<1> DEFINE a == IF k = 0 THEN 0 ELSE p.sclust
           q == [p EXCEPT !.objsize = k, !.sclust = a]
<1>1. ShortObj(p, k) = q
  BY DEF ShortObj, ObjRec
<1>2. a \in Nat
  BY DEF ObjRec
<1> HIDE DEF a
<1>3. q \in ObjRec /\ q.objsize = k /\ q.sclust = a /\ q.stat = p.stat /\ q.n_cont = p.n_cont
      /\ q.n_frag = p.n_frag
  BY <1>2 DEF ObjRec
<1> QED BY <1>1, <1>3 DEF a

LEMMA SettledIs ==
    ASSUME NEW o \in ObjRec, NEW v \in {0, 2, 3}
    PROVE  LET p == Settled([o EXCEPT !.stat = v])
           IN /\ p \in ObjRec /\ p.sclust = o.sclust /\ p.objsize = o.objsize
              /\ p.stat = v /\ p.n_cont = (IF v = 3 THEN o.n_cont ELSE 0)
              /\ p.n_frag = o.n_frag
<1> DEFINE x == [o EXCEPT !.stat = v]
<1>1. /\ x \in ObjRec /\ x.sclust = o.sclust /\ x.objsize = o.objsize /\ x.stat = v
      /\ x.n_cont = o.n_cont /\ x.n_frag = o.n_frag
  BY DEF ObjRec
<1> HIDE DEF x
<1>2. [x EXCEPT !.n_cont = 0] \in ObjRec /\ [x EXCEPT !.n_cont = 0].n_cont = 0
      /\ [x EXCEPT !.n_cont = 0].sclust = x.sclust /\ [x EXCEPT !.n_cont = 0].objsize = x.objsize
      /\ [x EXCEPT !.n_cont = 0].stat = x.stat /\ [x EXCEPT !.n_cont = 0].n_frag = x.n_frag
  BY <1>1 DEF ObjRec
<1> QED BY <1>1, <1>2 DEF Settled, x

LEMMA ShorterIs ==
    ASSUME NEW s \in Volumes, NEW o, NEW ch \in Seq(Clusters), Distinct(ch), ch # <<>>,
           Knows(o, ch, s.fat), o.n_frag = 0, NEW k \in 0 .. Len(ch) - 1,
           NEW t, t \in Volumes, k # 0 => CutAt(s, o, ch, k, t)
    PROVE  Shorter(t, o, ch, k)
<1> DEFINE n == Len(ch)
           c == IF k = 0 THEN 0 ELSE ch[k]
           a == SubSeq(ch, 1, k)
           st == Shortened(t, o, c)
           p == Settled([o EXCEPT !.stat = st])
           q == ShortObj(p, k)
<1>1. /\ o.sclust \in Nat /\ o.objsize = n /\ o.stat \in {0, 2, 3} /\ o.n_cont \in Nat
      /\ o \in ObjRec /\ n \in Nat /\ n >= 1 /\ k \in Nat /\ k < n /\ k \in 0 .. n
      /\ \A i \in 1 .. n : ch[i] \in Clusters /\ ch[i] \in Nat /\ ch[i] # 0
      /\ (o.stat # 3 => o.n_cont = 0) /\ o.sclust = ch[1]
      /\ o.stat = 2 => Straight(ch, 1, n)
      /\ o.stat = 3 => n >= o.n_cont + 2 /\ Straight(ch, 1, o.n_cont + 1)
      /\ o.stat # 2 => \A i \in o.n_cont + 1 .. n : s.fat[ch[i]] = Behind(ch, i)
  <2>1. Len(ch) \in Nat /\ Len(ch) >= 1 /\ Len(ch) - 0 = Len(ch)
    OBVIOUS
  <2>2. /\ o.sclust \in Nat /\ o.stat \in {0, 2, 3} /\ o.n_cont \in Nat /\ o \in ObjRec
        /\ \A i \in 1 .. n : ch[i] \in Clusters /\ ch[i] \in Nat /\ ch[i] # 0
    BY KnownParts, Sizes
  <2>3. /\ o.objsize = n /\ (o.stat # 3 => o.n_cont = 0) /\ o.sclust = ch[1]
        /\ o.stat = 2 => Straight(ch, 1, n)
        /\ o.stat = 3 => n >= o.n_cont + 2 /\ Straight(ch, 1, o.n_cont + 1)
        /\ o.stat # 2 => \A i \in o.n_cont + 1 .. n : s.fat[ch[i]] = Behind(ch, i)
    BY <2>1 DEF Knows
  <2>4. k \in Nat /\ k < n /\ k \in 0 .. n
    BY <2>1
  <2> QED BY <2>1, <2>2, <2>3, <2>4
<1>2. /\ a \in Seq(Clusters) /\ Len(a) = k /\ \A i \in 1 .. k : a[i] = ch[i]
  BY <1>1, CutSeq
<1> HIDE DEF a
<1>3. ASSUME st \in {0, 2, 3}, Sane(t, o, c), k = 0 => st = 0,
             st = 2 => Straight(ch, 1, k),
             st = 3 => k >= o.n_cont + 2 /\ Straight(ch, 1, o.n_cont + 1),
             k # 0 /\ st # 2 =>
                 \A i \in (IF st = 3 THEN o.n_cont ELSE 0) + 1 .. k : t.fat[ch[i]] = Behind(a, i)
      PROVE  Shorter(t, o, ch, k)
  <2> HIDE DEF st, c
  <2>1. /\ p \in ObjRec /\ p.sclust = o.sclust /\ p.stat = st
        /\ p.n_cont = (IF st = 3 THEN o.n_cont ELSE 0) /\ p.n_frag = 0
    BY <1>1, <1>3, SettledIs
  <2> HIDE DEF p
  <2>2. /\ q \in ObjRec /\ q.objsize = k /\ q.sclust = (IF k = 0 THEN 0 ELSE o.sclust)
        /\ q.stat = st /\ q.n_cont = (IF st = 3 THEN o.n_cont ELSE 0) /\ q.n_frag = 0
    BY <2>1, <1>1, ShortObjIs, ZenonT(60)
  <2> HIDE DEF q
  <2>3. Knows(q, a, t.fat)
    <3>1. CASE k = 0
      <4>1. a = <<>>
        BY <3>1, <1>2
      <4> QED BY <4>1, <3>1, <2>2, <1>2, <1>3 DEF Knows
    <3>2. CASE k # 0
      <4>1. a # <<>> /\ a[1] = ch[1] /\ 1 \in 1 .. k
        BY <3>2, <1>1, <1>2
      <4>2. \A x, y \in Nat : 1 <= x /\ y <= k /\ Straight(ch, x, y) => Straight(a, x, y)
        <5> SUFFICES ASSUME NEW x \in Nat, NEW y \in Nat, 1 <= x, y <= k, Straight(ch, x, y)
                     PROVE  Straight(a, x, y)
          OBVIOUS
        <5>1. \A i \in x .. y : i \in 1 .. k
          BY <1>1
        <5> QED BY <5>1, <1>2 DEF Straight
      <4>3. st = 2 => Straight(a, 1, k)
        BY <4>2, <1>1, <1>3
      <4>4. st = 3 => Straight(a, 1, o.n_cont + 1)
        <5>1. st = 3 => o.n_cont + 1 \in Nat /\ o.n_cont + 1 <= k
          BY <1>1, <1>3
        <5> QED BY <5>1, <4>2, <1>1, <1>3
      <4>5. Straight(a, k - 0 + 1, k)
        BY <1>1 DEF Straight
      <4>6. st # 2 => \A i \in q.n_cont + 1 .. k - 0 : t.fat[a[i]] = Behind(a, i)
        <5> SUFFICES ASSUME st # 2, NEW i \in q.n_cont + 1 .. k - 0
                     PROVE  t.fat[a[i]] = Behind(a, i)
          OBVIOUS
        <5>1. q.n_cont \in Nat /\ k - 0 = k
          BY <2>2, <1>1
        <5>2. i \in 1 .. k /\ i \in q.n_cont + 1 .. k
          BY <5>1, <1>1
        <5> QED BY <5>2, <3>2, <2>2, <1>2, <1>3
      <4>7. st = 3 => k >= o.n_cont + 1 + 0
        BY <1>1, <1>3
      <4> HIDE DEF n
      <4> QED BY <4>1, <4>3, <4>4, <4>5, <4>6, <4>7, <3>2, <2>2, <1>1, <1>2, <1>3 DEF Knows
    <3> QED BY <3>1, <3>2
  <2> QED BY <2>1, <2>3, <1>3 DEF Shorter, p, q, a, st, c
<1>4. CASE k = 0
  <2>1. st = 0
    BY <1>4 DEF Shortened
  <2>2. Sane(t, o, c)
    BY <1>4 DEF Sane
  <2> HIDE DEF st, c
  <2> QED BY <2>1, <2>2, <1>3, <1>4
<1>5. CASE k # 0
  <2>1. /\ k \in 1 .. n /\ k \in 1 .. Len(ch) /\ k - 1 \in Nat /\ c = ch[k] /\ c # 0
        /\ \A i \in 1 .. k : i \in 1 .. n
        /\ \A i \in 1 .. k - 1 : i \in 1 .. n /\ i \in 1 .. k /\ i < k
    BY <1>1, <1>5
  <2>2. CutAt(s, o, ch, k, t)
    BY <1>5
  <2>3. \A i \in 1 .. n : i # k => t.fat[ch[i]] = s.fat[ch[i]]
    <3> SUFFICES ASSUME NEW i \in 1 .. n, i # k PROVE t.fat[ch[i]] = s.fat[ch[i]]
      OBVIOUS
    <3>1. ch[i] # ch[k] /\ ch[i] \in Clusters
      BY <2>1, <1>1 DEF Distinct
    <3> QED BY <3>1, <2>2 DEF CutAt
  <2>4. o.stat # 2 => \A i \in o.n_cont + 1 .. k : t.fat[ch[i]] = Behind(a, i)
    <3> SUFFICES ASSUME o.stat # 2, NEW i \in o.n_cont + 1 .. k
                 PROVE  t.fat[ch[i]] = Behind(a, i)
      OBVIOUS
    <3>1. i \in 1 .. n /\ i \in o.n_cont + 1 .. n /\ i \in 1 .. k
      BY <1>1
    <3>2. CASE i = k
      <4>1. Behind(a, i) = EOC
        BY <3>2, <1>1, <1>2 DEF Behind
      <4> QED BY <4>1, <3>2, <2>2 DEF CutAt
    <3>3. CASE i # k
      <4>1. Behind(a, i) = ch[i + 1] /\ Behind(ch, i) = ch[i + 1]
        <5>1. i < k /\ i < n /\ i + 1 \in 1 .. k
          BY <3>1, <3>3, <1>1
        <5> QED BY <5>1, <1>2 DEF Behind
      <4> QED BY <4>1, <3>1, <3>3, <2>3, <1>1
    <3> QED BY <3>2, <3>3
  <2>5. \A i \in 1 .. k - 1 : get_fat(t, o, ch[i]) = ch[i + 1]
    <3> SUFFICES ASSUME NEW i \in 1 .. k - 1 PROVE get_fat(t, o, ch[i]) = ch[i + 1]
      OBVIOUS
    <3>1. i \in 1 .. Len(ch) /\ i < Len(ch) /\ i # k
      BY <2>1, <1>1
    <3>2. get_fat(s, o, ch[i]) = ch[i + 1]
      BY <3>1, GetFatOf DEF Behind
    <3>3. t.fat[ch[i]] = s.fat[ch[i]]
      BY <3>1, <2>3
    <3> QED BY <3>2, <3>3, GetFatSameAt
  <2>6. CASE o.stat = 0
    <3>1. PICK m \in 1 .. k : RunEnd(t, o, ch[k]) = ch[m] /\ Straight(ch, 1, m)
      <4>1. o \in ObjRec /\ k \in 1 .. Len(ch) /\ o.sclust = ch[1]
        BY <2>1, <1>1
      <4> QED BY <4>1, <2>5, RunEndIs
    <3>2. st = IF ch[m] = ch[k] THEN 2 ELSE 0
      BY <3>1, <2>1, <2>6 DEF Shortened
    <3>3. m = k <=> ch[m] = ch[k]
      BY <2>1 DEF Distinct
    <3>4. Sane(t, o, c)
      <4>1. CASE m = k
        BY <4>1, <3>1, <2>1 DEF Sane
      <4>2. CASE m # k
        <5>1. m \in 1 .. k - 1 /\ m + 1 \in 1 .. n
          BY <4>2, <1>1
        <5>2. get_fat(t, o, ch[m]) = ch[m + 1] /\ ch[m + 1] >= 2
          BY <5>1, <2>5, <1>1, Sizes
        <5> QED BY <5>2, <3>1, <2>1 DEF Sane
      <4> QED BY <4>1, <4>2
    <3> HIDE DEF st, c
    <3>5. st \in {0, 2} /\ (st = 2 => m = k) /\ st # 3
      BY <3>2, <3>3
    <3>6. \A i \in 0 + 1 .. k : t.fat[ch[i]] = Behind(a, i)
      BY <2>4, <2>6, <1>1
    <3> QED BY <3>1, <3>4, <3>5, <3>6, <1>3, <1>5
  <2>7. CASE o.stat = 2
    <3>1. st = 2
      BY <2>1, <2>7 DEF Shortened
    <3>2. Sane(t, o, c)
      BY <2>7 DEF Sane
    <3>3. Straight(ch, 1, k)
      <4>1. \A i \in 1 .. k : i \in 1 .. n
        BY <1>1
      <4> QED BY <4>1, <2>7, <1>1 DEF Straight
    <3> HIDE DEF st, c
    <3> QED BY <3>1, <3>2, <3>3, <1>3, <1>5
  <2>8. CASE o.stat = 3
    <3> DEFINE e == o.n_cont + 1
    <3>1. /\ e \in Nat /\ e \in 1 .. n /\ 1 \in 1 .. Len(ch) /\ e \in 1 .. Len(ch)
          /\ n >= o.n_cont + 2 /\ Straight(ch, 1, e)
      BY <2>8, <1>1
    <3>2. /\ ch[1] <= ch[e]
          /\ \A x : x \in ch[1] .. ch[e] <=> \E i \in 1 .. e : x = ch[i]
      <4> HIDE DEF e
      <4> QED BY <3>1, BlockIs
    <3>3. ch[e] = o.sclust + o.n_cont
      <4>1. ch[e] - ch[1] = e - 1
        <5>1. 1 \in 1 .. e /\ e \in 1 .. e
          BY <3>1
        <5> QED BY <5>1, <3>1 DEF Straight
      <4>2. ch[e] \in Nat /\ ch[1] \in Nat
        BY <3>1, <1>1
      <4> QED BY <4>1, <4>2, <1>1, SMTT(30)
    <3>4. Sane(t, o, c)
      BY <2>8 DEF Sane
    <3>5. st = IF ch[k] >= o.sclust /\ ch[k] <= o.sclust + o.n_cont THEN 2 ELSE 3
      BY <2>1, <2>8 DEF Shortened
    <3>6. ch[k] >= o.sclust /\ ch[k] <= o.sclust + o.n_cont <=> k \in 1 .. e
      <4>1. ch[k] >= o.sclust /\ ch[k] <= o.sclust + o.n_cont <=> ch[k] \in ch[1] .. ch[e]
        BY <3>3, <2>1, <1>1
      <4>2. ch[k] \in ch[1] .. ch[e] <=> \E i \in 1 .. e : ch[k] = ch[i]
        BY <3>2
      <4>3. \A i \in 1 .. e : i \in 1 .. Len(ch)
        BY <3>1
      <4> HIDE DEF e
      <4> QED BY <4>1, <4>2, <4>3, <2>1 DEF Distinct
    <3> HIDE DEF st, c
    <3>7. CASE k \in 1 .. e
      <4>1. st = 2
        BY <3>5, <3>6, <3>7
      <4>2. Straight(ch, 1, k)
        <5>1. \A i \in 1 .. k : i \in 1 .. e
          BY <3>1, <3>7
        <5> QED BY <5>1, <3>1 DEF Straight
      <4> QED BY <4>1, <4>2, <3>4, <1>3, <1>5
    <3>8. CASE k \notin 1 .. e
      <4>1. st = 3
        BY <3>5, <3>6, <3>8
      <4>2. k >= o.n_cont + 2
        BY <3>1, <3>8, <2>1, <1>1
      <4>3. \A i \in o.n_cont + 1 .. k : t.fat[ch[i]] = Behind(a, i)
        BY <2>4, <2>8
      <4> QED BY <4>1, <4>2, <4>3, <3>1, <3>4, <1>3, <1>5
    <3> QED BY <3>7, <3>8
  <2> QED BY <2>6, <2>7, <2>8, <1>1
<1> QED BY <1>4, <1>5

(* The clusters behind number k are given back.                            *)
Removed(s, o, ch, k, r) ==
    /\ r.ok = TRUE /\ Sound(r.s)
    /\ r.s.bits = s.bits \ Members(SubSeq(ch, k + 1, Len(ch)))
    /\ \A c \in Clusters \ Members(ch) : r.s.fat[c] = s.fat[c]
    /\ r.obj \in ObjRec
    /\ Knows(ShortObj(r.obj, k), SubSeq(ch, 1, k), r.s.fat)

LEMMA RemoveIs ==
    ASSUME NEW s, Sound(s), NEW o, NEW ch \in Seq(Clusters), Distinct(ch), ch # <<>>,
           Knows(o, ch, s.fat), o.n_frag = 0, Members(ch) \subseteq s.bits \ Reserved,
           NEW k \in 0 .. Len(ch) - 1
    PROVE  Removed(s, o, ch, k, remove_chain(s, o, ch[k + 1], IF k = 0 THEN 0 ELSE ch[k]))
<1> DEFINE n == Len(ch)
           c == IF k = 0 THEN 0 ELSE ch[k]
           b == SubSeq(ch, k + 1, n)
           t == IF c # 0 /\ o.stat # 2 THEN [s EXCEPT !.fat[c] = EOC] ELSE s
           v == Cleared(t, o, ch[k + 1])
           p == Settled([o EXCEPT !.stat = Shortened(v.s, o, c)])
           r == remove_chain(s, o, ch[k + 1], c)
<1>1. /\ s \in Volumes /\ n \in Nat /\ n >= 1 /\ k \in Nat /\ k < n /\ k \in 0 .. n
      /\ k + 1 \in 1 .. n /\ o \in ObjRec
      /\ \A i \in 1 .. n : ch[i] \in Clusters /\ ch[i] # 0
  <2>1. Len(ch) \in Nat /\ Len(ch) >= 1
    OBVIOUS
  <2> QED BY <2>1, KnownParts, Sizes DEF Sound
<1>2. /\ b \in Seq(Clusters) /\ Len(b) = n - k /\ Distinct(b)
      /\ \A i \in 1 .. n - k : b[i] = ch[i + k]
      /\ Members(b) \subseteq Members(ch)
  BY <1>1, CutSeq
<1> HIDE DEF b
<1>3. /\ t \in Volumes /\ t.bits = s.bits /\ t.last = s.last /\ t.free = s.free
      /\ \A i \in k + 1 .. n : t.fat[ch[i]] = s.fat[ch[i]]
      /\ \A d \in Clusters \ Members(ch) : t.fat[d] = s.fat[d]
      /\ k # 0 => CutAt(s, o, ch, k, t)
  <2>1. CASE k = 0
    <3>1. t = s
      BY <2>1
    <3> QED BY <3>1, <2>1, <1>1
  <2>2. CASE k # 0
    <3>1. k \in 1 .. Len(ch) /\ c = ch[k] /\ ch[k] \in Clusters
      BY <2>2, <1>1
    <3>2. CutAt(s, o, ch, k, t) /\ Wrote({ch[k]}, s, t)
      BY <3>1, <1>1, CutFat, ZenonT(60)
    <3> HIDE DEF t
    <3>3. Wrote({ch[k]}, s, t)
      BY <3>2
    <3>4. ASSUME NEW i \in k + 1 .. n PROVE t.fat[ch[i]] = s.fat[ch[i]]
      <4>1. i \in 1 .. Len(ch) /\ i # k
        BY <1>1
      <4>2. ch[i] # ch[k] /\ ch[i] \in Clusters
        BY <4>1, <3>1, <1>1 DEF Distinct
      <4> QED BY <4>2, <3>3 DEF Wrote
    <3>5. ch[k] \in Members(ch)
      BY <3>1, MembersAre
    <3> QED BY <3>2, <3>3, <3>4, <3>5 DEF Wrote
  <2> QED BY <2>1, <2>2
<1> HIDE DEF t
<1>4. Sound(t)
  BY <1>3 DEF Sound, Exact
<1>5. Told(t, o, b)
  <2>1. b # <<>>
    BY <1>1, <1>2
  <2>2. Members(b) \subseteq t.bits
    BY <1>2, <1>3
  <2>3. t.free # Unknown => t.free + Len(b) <= NClusters
    BY <2>2, <1>2, <1>4, CountFits DEF Sound
  <2>4. ASSUME NEW i \in 1 .. Len(b) PROVE get_fat(t, o, b[i]) = Behind(b, i)
    <3> DEFINE j == i + k
    <3>1. j \in 1 .. Len(ch) /\ j \in k + 1 .. n /\ b[i] = ch[j]
      BY <1>1, <1>2
    <3> HIDE DEF j
    <3>2. get_fat(s, o, ch[j]) = Behind(ch, j)
      BY <3>1, <1>1, GetFatOf
    <3>3. get_fat(t, o, ch[j]) = Behind(ch, j)
      BY <3>1, <3>2, <1>3, GetFatSameAt
    <3>4. Behind(b, i) = Behind(ch, j)
      <4>1. i < Len(b) <=> j < Len(ch)
        BY <1>1, <1>2 DEF j
      <4>2. i < Len(b) => b[i + 1] = ch[j + 1]
        <5>1. i < Len(b) => i + 1 \in 1 .. n - k /\ (i + 1) + k = j + 1
          BY <1>1, <1>2 DEF j
        <5> QED BY <5>1, <1>2
      <4> QED BY <4>1, <4>2 DEF Behind
    <3> QED BY <3>1, <3>3, <3>4
  <2> QED BY <2>1, <2>2, <2>3, <2>4, <1>1, <1>2, <1>3 DEF Told
<1>6. b[1] = ch[k + 1]
  <2>1. 1 \in 1 .. n - k /\ 1 + k = k + 1
    BY <1>1
  <2> QED BY <2>1, <1>2
<1>7. ChainCleared(t, b, v)
  BY <1>5, <1>6, ClearedAlong
<1> HIDE DEF v
<1>8. Sound(v.s) /\ v.s.bits = t.bits \ Members(b) /\ v.s.fat = t.fat
  <2>1. Members(b) \subseteq t.bits \ Reserved
    BY <1>2, <1>3
  <2> QED BY <2>1, <1>2, <1>4, <1>7, ClearedSound
<1>9. Shorter(v.s, o, ch, k)
  <2>1. k # 0 => CutAt(s, o, ch, k, v.s)
    <3> SUFFICES ASSUME k # 0 PROVE CutAt(s, o, ch, k, v.s)
      OBVIOUS
    <3>1. CutAt(s, o, ch, k, t)
      BY <1>3
    <3> QED BY <3>1, <1>8 DEF CutAt
  <2> QED BY <2>1, <1>1, <1>8, ShorterIs DEF Sound
<1>10. ch[k + 1] \in Clusters /\ v.clst # 1
  BY <1>1, <1>7, Sizes DEF ChainCleared
<1>11. Sane(v.s, o, c) /\ p \in ObjRec /\ Knows(ShortObj(p, k), SubSeq(ch, 1, k), v.s.fat)
  BY <1>9 DEF Shorter
<1> HIDE DEF p
<1>12. r = [s |-> v.s, ok |-> TRUE, obj |-> p]
  BY <1>10, <1>11 DEF remove_chain, t, v, p
<1> HIDE DEF r, c
<1>13. r.s = v.s /\ r.ok = TRUE /\ r.obj = p
  BY <1>12
<1>14. \A d \in Clusters \ Members(ch) : r.s.fat[d] = s.fat[d]
  BY <1>3, <1>8, <1>13
<1> QED BY <1>3, <1>8, <1>11, <1>13, <1>14 DEF Removed, r, c, b

(* f_mkdir's object is not initialised: its cluster is cleared or lost.    *)
LEMMA GarbageCleared ==
    ASSUME NEW s, Sound(s), NEW o \in ObjRec, NEW c \in Clusters, c \in s.bits \ Reserved,
           get_fat(s, o, c) = 1 \/ get_fat(s, o, c) = EOC
    PROVE  LET r == remove_chain(s, o, c, 0)
           IN /\ Sound(r.s) /\ r.s.fat = s.fat
              /\ r.s.bits = s.bits \/ r.s.bits = s.bits \ {c}
<1> DEFINE v == Cleared(s, o, c)
           r == remove_chain(s, o, c, 0)
           ch == <<c>>
<1>1. /\ s \in Volumes /\ c \in Nat
      /\ ch \in Seq(Clusters) /\ Len(ch) = 1 /\ ch[1] = c /\ ch # <<>> /\ Distinct(ch)
      /\ Members(ch) = {c}
  BY Sizes DEF Sound, Distinct, Members
<1> HIDE DEF ch
<1>2. r.s = v.s
  <2> DEFINE t == IF 0 # 0 /\ o.stat # 2 THEN [s EXCEPT !.fat[0] = EOC] ELSE s
             w == Cleared(t, o, c)
             p == Settled([o EXCEPT !.stat = Shortened(w.s, o, 0)])
  <2>1. t = s
    OBVIOUS
  <2>2. r = IF w.clst = 1 \/ ~Sane(w.s, o, 0) THEN [s |-> w.s, obj |-> o, ok |-> FALSE]
            ELSE [s |-> w.s, ok |-> TRUE, obj |-> p]
    BY DEF remove_chain
  <2> HIDE DEF t, p, r
  <2>3. r.s = w.s
    BY <2>2
  <2> QED BY <2>1, <2>3
<1> HIDE DEF r, v
<1>3. CASE get_fat(s, o, c) = EOC
  <2>1. Told(s, o, ch)
    <3>1. Behind(ch, 1) = EOC
      BY <1>1 DEF Behind
    <3>2. \A i \in 1 .. Len(ch) : i = 1
      BY <1>1
    <3>3. s.free # Unknown => s.free + Len(ch) <= NClusters
      BY <1>1, CountFits DEF Sound
    <3> QED BY <3>1, <3>2, <3>3, <1>1, <1>3 DEF Told
  <2>2. ChainCleared(s, ch, v)
    BY <2>1, <1>1, ClearedAlong DEF v
  <2>3. Sound(v.s) /\ v.s.bits = s.bits \ Members(ch) /\ v.s.fat = s.fat
    BY <2>2, <1>1, ClearedSound
  <2> QED BY <2>3, <1>1, <1>2 DEF r
<1>4. CASE get_fat(s, o, c) = 1
  <2>1. PICK w : ClearWalk(s, o, c, w)
    BY <1>1, ClearWalkExists
  <2> DEFINE x == [s |-> s, scl |-> c, clst |-> c]
  <2>2. w[0] = x /\ w[0 + 1] = ClearTurn(o, w[0])
    BY <2>1 DEF ClearWalk
  <2>3. x.s = s /\ x.clst = c
    OBVIOUS
  <2> DEFINE y == [x EXCEPT !.clst = 1]
  <2>4. y.s = s /\ y.clst = 1
    OBVIOUS
  <2>5. ClearTurn(o, x) = y
    <3> HIDE DEF x
    <3> QED BY <2>3, <1>4 DEF ClearTurn
  <2> HIDE DEF x, y
  <2>6. w[1] = y
    BY <2>2, <2>5
  <2>7. w[1].clst \notin Clusters /\ 1 \in 0 .. 2 * NFatEnt
    BY <2>4, <2>6, Sizes
  <2>8. v = w[1]
    BY <2>1, <2>7, ClearWalkEnds DEF v
  <2> QED BY <2>4, <2>6, <2>8, <1>2 DEF r
<1> QED BY <1>3, <1>4

-----------------------------------------------------------------------------
(* dir_register.                                                           *)
PlacesOf(U, E, f) == U = {f[o] : o \in E}
LEMMA PlaceFree ==
    ASSUME NEW U, NEW E \in SUBSET Names, NEW f, PlacesOf(U, E, f), U \subseteq Nat
    PROVE  /\ Least(0 .. Cardinality(Names) \ U) \in Nat
           /\ \A i \in Nat : i < Least(0 .. Cardinality(Names) \ U) => i \in U
<1> DEFINE N == Cardinality(Names)
           S == 0 .. N \ U
           g == [o \in E |-> f[o]]
<1>1. IsFiniteSet(Names)
  BY VolumeAssumption, FS_Union DEF Names
<1>2. N \in Nat /\ IsFiniteSet(E) /\ Cardinality(E) <= N /\ Cardinality(E) \in Nat
  BY <1>1, FS_Subset, FS_CardinalityType
<1>3. g \in Surjection(E, U)
  BY DEF Surjection, PlacesOf
<1>4. IsFiniteSet(U) /\ Cardinality(U) <= Cardinality(E) /\ Cardinality(U) \in Nat
  BY <1>2, <1>3, FS_Surjection, FS_CardinalityType
<1>5. S # {}
  <2> SUFFICES ASSUME S = {} PROVE FALSE
    OBVIOUS
  <2>1. 0 .. N \subseteq U
    OBVIOUS
  <2>2. Cardinality(0 .. N) <= Cardinality(U)
    BY <2>1, <1>4, FS_Subset
  <2>3. Cardinality(0 .. N) = N + 1
    <3>1. 0 \in Int /\ N \in Int /\ ~(0 > N)
      BY <1>2
    <3>2. Cardinality(0 .. N) = N - 0 + 1
      BY <3>1, FS_Interval
    <3> QED BY <3>2, <1>2
  <2> QED BY <2>2, <2>3, <1>2, <1>4
<1>6. S \in SUBSET Nat
  BY <1>2
<1> HIDE DEF N
<1>7. Least(S) \in S /\ \A y \in S : Least(S) <= y
  BY <1>5, <1>6, LeastIs
<1>8. ASSUME NEW i \in Nat, i < Least(S) PROVE i \in U
  <2>1. Least(S) \in 0 .. N
    BY <1>7
  <2> HIDE DEF S
  <2>2. i \notin S
    <3>1. Least(S) \in Nat
      BY <1>6, <1>7
    <3> QED BY <3>1, <1>7, <1>8
  <2>3. i \in 0 .. N
    BY <2>1, <1>2, <1>8
  <2> QED BY <2>2, <2>3 DEF S
<1>9. Least(S) \in Nat
  BY <1>6, <1>7
<1> QED BY <1>8, <1>9 DEF S, N

(* An entry block gets its place in Home, whose chain is ch.               *)
Registers(s, ch, d, reg) ==
    \/ reg.clst = 0 /\ reg.s = s
    \/ /\ reg.clst \in Clusters
       /\ Sound(reg.s)
       /\ \/ reg.new = <<>> /\ reg.s = s
          \/ \E c \in Clusters \ s.bits : reg.new = <<c>> /\ reg.s.bits = s.bits \cup {c}
       /\ \A c \in Clusters : c \notin Members(ch) /\ c \notin Members(reg.new)
                                 => reg.s.fat[c] = s.fat[c]
       /\ Knows(reg.home, ch \o reg.new, reg.s.fat)
       /\ reg.home.n_cont = 0 /\ reg.home.n_frag = 0 /\ reg.home.stat \in {0, 2}
       /\ d.stat = 0 => reg.home.stat = 0
       /\ reg.place \in Nat /\ reg.place < Blocks * Len(ch \o reg.new)

LEMMA FillSized ==
    ASSUME NEW t, NEW x \in ObjRec, NEW m \in Nat, NEW l, NEW v
    PROVE  LET y == [x EXCEPT !.objsize = m]
               a == fill_last_frag(t, x, l, v)
               b == fill_last_frag(t, y, l, v)
           IN b.s = a.s /\ b.obj = [a.obj EXCEPT !.objsize = m] /\ a.obj.objsize = x.objsize
              /\ a.obj \in ObjRec
<1> DEFINE y == [x EXCEPT !.objsize = m]
           a == fill_last_frag(t, x, l, v)
           b == fill_last_frag(t, y, l, v)
<1>1. y.n_frag = x.n_frag
  BY DEF ObjRec
<1>2. CASE x.n_frag = 0
  <2>1. a = [s |-> t, obj |-> x] /\ b = [s |-> t, obj |-> y]
    BY <1>1, <1>2 DEF fill_last_frag
  <2> QED BY <2>1
<1>3. CASE x.n_frag # 0
  <2> DEFINE u == [Joined(t, l - x.n_frag + 1 .. l - 1) EXCEPT !.fat[l] = v]
             f == [x EXCEPT !.n_frag = 0]
             g == [y EXCEPT !.n_frag = 0]
  <2> HIDE DEF y
  <2>1. a = [s |-> u, obj |-> f] /\ b = [s |-> u, obj |-> g]
    BY <1>1, <1>3 DEF fill_last_frag
  <2> HIDE DEF a, b, u
  <2>2. g = [f EXCEPT !.objsize = m] /\ f.objsize = x.objsize /\ f \in ObjRec
    BY DEF y, ObjRec
  <2> HIDE DEF f, g
  <2>3. a.s = u /\ b.s = u /\ a.obj = f /\ b.obj = g
    BY <2>1
  <2> QED BY <2>2, <2>3 DEF a, b, y
<1> QED BY <1>2, <1>3

LEMMA RegisteredIs ==
    ASSUME NEW s, Sound(s), NEW d, NEW ch \in Seq(Clusters), Distinct(ch), ch # <<>>,
           Members(ch) \subseteq s.bits, Knows(d, ch, s.fat), d.stat \in {0, 2}, d.n_frag = 0,
           NEW r, r = create_chain(s, d, ch[Len(ch)]), r.clst >= 2
    PROVE  LET w == Registered(r)
               q == [w.obj EXCEPT !.objsize = @ + 1]
           IN /\ r.clst \in Clusters \ s.bits
              /\ Sound(w.s) /\ w.s.bits = s.bits \cup {r.clst}
              /\ \A c \in Clusters : c \notin Members(ch) /\ c # r.clst => w.s.fat[c] = s.fat[c]
              /\ Knows(q, Append(ch, r.clst), w.s.fat)
              /\ q.n_cont = 0 /\ q.n_frag = 0 /\ q.stat \in {0, 2}
              /\ d.stat = 0 => q.stat = 0
<1> DEFINE w == Registered(r)
           c == r.clst
           e == Append(ch, c)
           p == NewObj(r.obj, ch, c)
           u == r.s
           o == r.obj
           first == fill_first_frag(u, o)
           pfirst == fill_first_frag(u, p)
           plast == fill_last_frag(pfirst.s, pfirst.obj, c, EOC)
           q == [w.obj EXCEPT !.objsize = @ + 1]
<1>1. Extended(s, d, ch, r)
  BY CreateExtends
<1>2. ~(r = [s |-> s, obj |-> d, clst |-> 0, new |-> FALSE])
  <2> SUFFICES ASSUME r = [s |-> s, obj |-> d, clst |-> 0, new |-> FALSE] PROVE FALSE
    OBVIOUS
  <2>1. r.clst = 0
    OBVIOUS
  <2> QED BY <2>1
<1>3. /\ c \in Clusters \ s.bits
      /\ Sound(r.s) /\ r.s.bits = s.bits \cup {c}
      /\ \A x \in Clusters \ Members(ch) : r.s.fat[x] = s.fat[x]
      /\ r.obj \in ObjRec /\ r.obj.sclust = d.sclust /\ r.obj.objsize = d.objsize
      /\ d.stat = 0 => r.obj.stat = 0
      /\ Knows(p, e, r.s.fat)
  BY <1>1, <1>2 DEF Extended
<1>4. /\ e \in Seq(Clusters) /\ Len(e) = Len(ch) + 1 /\ Len(ch) \in Nat /\ e[Len(e)] = c
      /\ Members(e) = Members(ch) \cup {c} /\ Distinct(e)
      /\ r.s \in Volumes /\ e # <<>>
  <2>1. /\ e \in Seq(Clusters) /\ Len(e) = Len(ch) + 1 /\ Len(ch) \in Nat /\ e[Len(e)] = c
        /\ \A i \in 1 .. Len(ch) : e[i] = ch[i]
    BY <1>3, AppendIs
  <2>2. Members(e) = Members(ch) \cup {c}
    BY <1>3, MembersOfAppend
  <2>3. \A i \in 1 .. Len(ch) : ch[i] # c
    <3>1. \A i \in 1 .. Len(ch) : ch[i] \in Members(ch)
      BY MembersAre
    <3> QED BY <3>1, <1>3
  <2> HIDE DEF e
  <2>4. Distinct(e)
    <3> SUFFICES ASSUME NEW i \in 1 .. Len(e), NEW j \in 1 .. Len(e), e[i] = e[j] PROVE i = j
      BY DEF Distinct
    <3>1. (i \in 1 .. Len(ch) \/ i = Len(e)) /\ (j \in 1 .. Len(ch) \/ j = Len(e))
      BY <2>1
    <3> QED BY <3>1, <2>1, <2>3 DEF Distinct
  <2>5. Len(e) # 0
    BY <2>1
  <2> QED BY <2>1, <2>2, <2>4, <2>5, <1>3 DEF Sound
<1> HIDE DEF e
<1>5. p = [r.obj EXCEPT !.objsize = Len(ch) + 1]
  BY DEF NewObj, ObjRec
<1> HIDE DEF p
<1> HIDE DEF u
<1>6. /\ Wrote(Members(e), u, pfirst.s)
      /\ Knows(pfirst.obj, e, pfirst.s.fat)
      /\ pfirst.obj.stat \in {0, 2} /\ pfirst.obj.n_cont = 0
      /\ p.stat # 3 => pfirst.obj = p
  <2>1. u \in Volumes /\ e \in Seq(Clusters) /\ Distinct(e) /\ Knows(p, e, u.fat)
    BY <1>3, <1>4 DEF u
  <2> QED BY <2>1, FirstFilled
<1>7. pfirst.s = first.s /\ pfirst.obj = [first.obj EXCEPT !.objsize = Len(ch) + 1]
  <2>0. p.stat = r.obj.stat /\ p.sclust = r.obj.sclust /\ p.n_cont = r.obj.n_cont
    BY <1>3, <1>5 DEF ObjRec
  <2>1. CASE r.obj.stat # 3
    BY <2>0, <2>1, <1>5 DEF fill_first_frag
  <2>2. CASE r.obj.stat = 3
    <3>1. pfirst.s = first.s
      BY <2>0, <2>2 DEF fill_first_frag
    <3>2. pfirst.obj = [p EXCEPT !.stat = 0, !.n_cont = 0]
      BY <2>0, <2>2 DEF fill_first_frag
    <3>3. first.obj = [r.obj EXCEPT !.stat = 0, !.n_cont = 0]
      BY <2>2 DEF fill_first_frag
    <3>4. [p EXCEPT !.stat = 0, !.n_cont = 0]
            = [[r.obj EXCEPT !.stat = 0, !.n_cont = 0] EXCEPT !.objsize = Len(ch) + 1]
      BY <1>3, <1>5 DEF ObjRec
    <3> QED BY <3>1, <3>2, <3>3, <3>4
  <2> QED BY <2>1, <2>2
<1>8. first.obj \in ObjRec /\ first.obj.objsize = Len(ch)
  <2>1. r.obj.objsize = Len(ch)
    BY <1>3 DEF Knows
  <2>2. CASE r.obj.stat # 3
    BY <2>1, <2>2, <1>3 DEF fill_first_frag
  <2>3. CASE r.obj.stat = 3
    <3>1. first.obj = [r.obj EXCEPT !.stat = 0, !.n_cont = 0]
      BY <2>3 DEF fill_first_frag
    <3> DEFINE g == [o EXCEPT !.stat = 0, !.n_cont = 0]
    <3>2. o \in ObjRec /\ o.objsize = Len(ch) /\ first.obj = g
      BY <3>1, <2>1, <1>3
    <3> HIDE DEF first, o
    <3>3. g \in ObjRec /\ g.objsize = o.objsize
      BY <3>2 DEF ObjRec
    <3> HIDE DEF g
    <3> QED BY <3>2, <3>3
  <2> QED BY <2>2, <2>3
<1> DEFINE x == first.obj
           t == first.s
           m == Len(ch) + 1
           y == [x EXCEPT !.objsize = m]
<1> HIDE DEF x, t, m
<1>9. /\ plast = fill_last_frag(t, y, c, EOC) /\ w = fill_last_frag(t, x, c, EOC)
      /\ x \in ObjRec /\ m \in Nat
  <2>1. pfirst.s = t /\ pfirst.obj = y
    BY <1>7 DEF x, t, m
  <2>2. w = fill_last_frag(t, x, c, EOC)
    BY DEF Registered, x, t, u
  <2>3. x \in ObjRec /\ m \in Nat
    BY <1>4, <1>8 DEF x, m
  <2> HIDE DEF pfirst, y, w
  <2> QED BY <2>1, <2>2, <2>3
<1> HIDE DEF c
<1>10. plast.s = w.s /\ plast.obj = [w.obj EXCEPT !.objsize = m] /\ w.obj.objsize = Len(ch)
  <2>1. w.obj.objsize = x.objsize
    <3>1. LET b == fill_last_frag(t, [x EXCEPT !.objsize = m], c, EOC)
              a == fill_last_frag(t, x, c, EOC)
          IN b.s = a.s /\ b.obj = [a.obj EXCEPT !.objsize = m] /\ a.obj.objsize = x.objsize
              /\ a.obj \in ObjRec
      BY <1>9, FillSized
    <3> HIDE DEF w
    <3> QED BY <3>1, <1>9
  <2>2. plast.s = w.s /\ plast.obj = [w.obj EXCEPT !.objsize = m]
    <3>1. /\ fill_last_frag(t, y, c, EOC).s = fill_last_frag(t, x, c, EOC).s
          /\ fill_last_frag(t, y, c, EOC).obj = [fill_last_frag(t, x, c, EOC).obj EXCEPT !.objsize = m]
      BY <1>9, FillSized
    <3> HIDE DEF plast, w, y
    <3> QED BY <3>1, <1>9
  <2> QED BY <2>1, <2>2, <1>8 DEF x
<1>11. plast.obj = q
  BY <1>10 DEF m
<1> DEFINE f == pfirst.s
           z == pfirst.obj
           a == fill_last_frag(f, z, c, EOC)
<1>12. /\ f \in Volumes /\ Knows(z, e, f.fat) /\ c = e[Len(e)]
  BY <1>4, <1>6 DEF Wrote
<1> HIDE DEF f, z
<1>13. /\ Wrote(Members(e), f, a.s)
       /\ Knows(a.obj, e, a.s.fat)
       /\ a.obj.n_frag = 0 /\ a.obj.stat = z.stat /\ a.obj.n_cont = z.n_cont
  <2>1. /\ f \in Volumes /\ e \in Seq(Clusters) /\ Distinct(e) /\ Knows(z, e, f.fat)
        /\ z.n_frag # 0 => c = e[Len(e)]
    BY <1>4, <1>12
  <2> QED BY ONLY <2>1, LastFilled
<1>14. a = plast /\ a.s = w.s /\ a.obj = q
  BY <1>10, <1>11 DEF f, z
<1>15. /\ Wrote(Members(e), f, w.s)
       /\ Knows(q, e, w.s.fat)
       /\ q.n_frag = 0 /\ q.stat = z.stat /\ q.n_cont = z.n_cont
  BY <1>13, <1>14
<1> HIDE DEF a, q, w
<1>16. /\ w.s \in Volumes /\ w.s.bits = u.bits /\ w.s.last = u.last /\ w.s.free = u.free
       /\ \A j \in Clusters \ Members(e) : w.s.fat[j] = u.fat[j]
  BY <1>6, <1>15 DEF Wrote, f
<1>17. Sound(w.s) /\ w.s.bits = s.bits \cup {c}
  BY <1>3, <1>16 DEF Sound, Exact, u
<1>18. \A j \in Clusters : j \notin Members(ch) /\ j # c => w.s.fat[j] = s.fat[j]
  BY <1>3, <1>4, <1>16 DEF u
<1>19. d.stat = 0 => q.stat = 0
  <2> SUFFICES ASSUME d.stat = 0 PROVE z.stat = 0
    BY <1>15
  <2>1. p.stat = 0
    BY <1>3, <1>5 DEF ObjRec
  <2> QED BY <2>1, <1>6 DEF z
<1>20. q.stat \in {0, 2} /\ q.n_cont = 0
  BY <1>6, <1>15 DEF z
<1> QED BY <1>3, <1>15, <1>17, <1>18, <1>19, <1>20 DEF w, q, e, c

LEMMA JoinIs ==
    ASSUME NEW ch \in Seq(Clusters)
    PROVE  /\ ch \o <<>> = ch
           /\ \A c \in Clusters : ch \o <<c>> = Append(ch, c)
<1>1. ASSUME NEW c \in Clusters PROVE ch \o <<c>> = Append(ch, c)
  <2>1. /\ ch \o <<c>> \in Seq(Clusters) /\ Append(ch, c) \in Seq(Clusters)
        /\ Len(ch \o <<c>>) = Len(ch) + 1 /\ Len(Append(ch, c)) = Len(ch) + 1
    OBVIOUS
  <2>2. \A i \in 1 .. Len(ch) + 1 : (ch \o <<c>>)[i] = Append(ch, c)[i]
    OBVIOUS
  <2> QED BY <2>1, <2>2
<1>2. ch \o <<>> = ch
  <2>1. ch \o <<>> \in Seq(Clusters) /\ Len(ch \o <<>>) = Len(ch)
    OBVIOUS
  <2>2. \A i \in 1 .. Len(ch) : (ch \o <<>>)[i] = ch[i]
    OBVIOUS
  <2> QED BY <2>1, <2>2
<1> QED BY <1>1, <1>2

LEMMA LoadedIs ==
    ASSUME NEW e
    PROVE  LET d == Loaded(e)
           IN /\ d.sclust = e.sclust /\ d.objsize = e.objsize
              /\ d.stat = (IF e.stat \in {2, 3} THEN 2 ELSE 0) /\ d.n_cont = 0 /\ d.n_frag = 0
BY DEF Loaded

LEMMA DirRegister ==
    ASSUME NEW s, Sound(s), NEW ch \in Seq(Clusters), Distinct(ch), ch # <<>>,
           Members(ch) \subseteq s.bits, Knows(Loaded(entry[Home]), ch, s.fat),
           \A o \in Names : entry[o].exists => place[o] \in Nat /\ place[o] < Blocks * Len(ch)
    PROVE  Registers(s, ch, Loaded(entry[Home]), dir_register(s))
<1> DEFINE d == Loaded(entry[Home])
           E == {n \in Names : entry[n].exists}
           U == {place[o] : o \in E}
           p == Least(0 .. Cardinality(Names) \ U)
           r == create_chain(s, d, ch[Len(ch)])
           w == Registered(r)
           q == [w.obj EXCEPT !.objsize = @ + 1]
           reg == dir_register(s)
<1>1. /\ d.stat \in {0, 2} /\ d.n_cont = 0 /\ d.n_frag = 0
  BY LoadedIs
<1>2. reg = IF p < Blocks * Len(ch)
            THEN [clst |-> ch[1], s |-> s, home |-> d, place |-> p, new |-> <<>>]
            ELSE IF r.clst < 2 THEN [clst |-> r.clst, s |-> s]
            ELSE [clst |-> r.clst, s |-> w.s, home |-> q, place |-> p, new |-> <<r.clst>>]
  <2>1. ChainOf(s, d) = ch
    <3>1. s \in Volumes /\ d.n_frag = 0 /\ Knows(d, ch, s.fat)
      BY <1>1 DEF Sound
    <3> HIDE DEF d
    <3> QED BY <3>1, ChainIsFollowed
  <2> QED BY <2>1 DEF dir_register
<1> HIDE DEF reg, q
<1>3. /\ p \in Nat
      /\ \A i \in Nat : i < p => i \in U
  <2>1. U \subseteq Nat
    OBVIOUS
  <2> DEFINE g == [o \in Names |-> place[o]]
  <2>2. PlacesOf(U, E, g)
    BY DEF PlacesOf
  <2>3. E \in SUBSET Names
    OBVIOUS
  <2> HIDE DEF U, E, g
  <2> QED BY <2>1, <2>2, <2>3, PlaceFree
<1>4. Blocks * Len(ch) \in Nat /\ Len(ch) \in Nat
      /\ Blocks * (Len(ch) + 1) = Blocks * Len(ch) + Blocks /\ Blocks \in Nat /\ Blocks >= 1
  BY VolumeAssumption
<1>5. p < Blocks * Len(ch) + Blocks
  <2>1. Blocks * Len(ch) \notin U
    <3> SUFFICES ASSUME NEW o \in E, place[o] = Blocks * Len(ch) PROVE FALSE
      OBVIOUS
    <3>1. place[o] < Blocks * Len(ch) /\ place[o] \in Nat
      OBVIOUS
    <3> QED BY <3>1, <1>4
  <2> HIDE DEF p, U
  <2>2. ~(Blocks * Len(ch) < p)
    BY <2>1, <1>3, <1>4
  <2> QED BY <2>2, <1>3, <1>4
<1> HIDE DEF p, U, E
<1>6. 1 \in 1 .. Len(ch) /\ ch[1] \in Clusters /\ ch \o <<>> = ch /\ s \in Volumes
  BY <1>4, JoinIs DEF Sound
<1>7. CASE p < Blocks * Len(ch)
  <2>1. /\ reg.clst = ch[1] /\ reg.s = s /\ reg.home = d /\ reg.place = p /\ reg.new = <<>>
    BY <1>2, <1>7
  <2>2. Knows(d, ch, s.fat)
    OBVIOUS
  <2> HIDE DEF d
  <2> QED BY <2>1, <2>2, <1>1, <1>3, <1>6, <1>7 DEF Registers, reg, d
<1>8. CASE ~(p < Blocks * Len(ch)) /\ r.clst < 2
  <2>1. reg.clst = r.clst /\ reg.s = s
    BY <1>2, <1>8
  <2>2. Extended(s, d, ch, r)
    <3>1. Knows(d, ch, s.fat)
      OBVIOUS
    <3> HIDE DEF d
    <3> QED BY <3>1, CreateExtends
  <2> HIDE DEF r
  <2>3. r.clst = 0
    <3>1. r.clst \notin Clusters
      BY <1>8, Sizes
    <3> DEFINE y == [s |-> s, obj |-> d, clst |-> 0, new |-> FALSE]
    <3>2. r = y
      BY <2>2, <3>1 DEF Extended
    <3>3. y.clst = 0
      OBVIOUS
    <3> HIDE DEF y
    <3> QED BY <3>2, <3>3
  <2> QED BY <2>1, <2>3 DEF Registers, reg
<1>9. CASE ~(p < Blocks * Len(ch)) /\ ~(r.clst < 2)
  <2>1. /\ reg.clst = r.clst /\ reg.s = w.s /\ reg.home = q /\ reg.place = p /\ reg.new = <<r.clst>>
    BY <1>2, <1>9
  <2>2. /\ r.clst \in Clusters \ s.bits
        /\ Sound(w.s) /\ w.s.bits = s.bits \cup {r.clst}
        /\ \A c \in Clusters : c \notin Members(ch) /\ c # r.clst => w.s.fat[c] = s.fat[c]
        /\ Knows(q, Append(ch, r.clst), w.s.fat)
        /\ q.n_cont = 0 /\ q.n_frag = 0 /\ q.stat \in {0, 2}
        /\ d.stat = 0 => q.stat = 0
    <3>1. r.clst >= 2
      <4>1. Extended(s, d, ch, r)
        <5>1. Knows(d, ch, s.fat)
          OBVIOUS
        <5> HIDE DEF d
        <5> QED BY <5>1, CreateExtends
      <4> HIDE DEF r
      <4>2. r.clst \in Nat
        <5> DEFINE y == [s |-> s, obj |-> d, clst |-> 0, new |-> FALSE]
        <5>1. y.clst = 0
          OBVIOUS
        <5>2. r = y \/ r.clst \in Clusters
          BY <4>1 DEF Extended
        <5> HIDE DEF y
        <5> QED BY <5>1, <5>2, Sizes
      <4> QED BY <4>2, <1>9
    <3>2. Knows(d, ch, s.fat) /\ r = create_chain(s, d, ch[Len(ch)])
      OBVIOUS
    <3> HIDE DEF d, r
    <3> QED BY <3>1, <3>2, <1>1, RegisteredIs DEF q, w
  <2> HIDE DEF r, w, d
  <2>3. ch \o <<r.clst>> = Append(ch, r.clst) /\ Len(Append(ch, r.clst)) = Len(ch) + 1
    BY <2>2, JoinIs, AppendIs
  <2>4. r.clst \in Members(<<r.clst>>)
    BY DEF Members
  <2>5. \A c \in Clusters : c \notin Members(ch) /\ c \notin Members(reg.new)
                                 => reg.s.fat[c] = s.fat[c]
    BY <2>1, <2>2, <2>4
  <2>6. \E c \in Clusters \ s.bits : reg.new = <<c>> /\ reg.s.bits = s.bits \cup {c}
    BY <2>1, <2>2
  <2>7. reg.place \in Nat /\ reg.place < Blocks * Len(ch \o reg.new)
    <3>1. ch \o reg.new = Append(ch, r.clst)
      BY <2>1, <2>3
    <3>2. Len(ch \o reg.new) = Len(ch) + 1
      BY <3>1, <2>3
    <3> HIDE DEF reg
    <3> QED BY <3>2, <2>1, <1>3, <1>4, <1>5
  <2>8. /\ Knows(reg.home, ch \o reg.new, reg.s.fat)
        /\ reg.home.n_cont = 0 /\ reg.home.n_frag = 0 /\ reg.home.stat \in {0, 2}
        /\ d.stat = 0 => reg.home.stat = 0
        /\ reg.clst \in Clusters /\ Sound(reg.s)
    BY <2>1, <2>2, <2>3
  <2> QED BY <2>5, <2>6, <2>7, <2>8 DEF Registers, reg, d
<1> QED BY <1>7, <1>8, <1>9

-----------------------------------------------------------------------------
(* The inductive invariant.                                                *)

(* No cluster is in two chains, and the bitmap marks those in use.         *)
Apart(ch, b, l) ==
    /\ ch \in [Objects -> Seq(Clusters)] /\ l \subseteq Clusters
    /\ \A o \in Objects : Distinct(ch[o]) /\ Members(ch[o]) \cap (Reserved \cup l) = {}
    /\ \A o, p \in Objects : o # p => Members(ch[o]) \cap Members(ch[p]) = {}
    /\ \A x : x \in b <=> x \in Reserved \/ x \in l \/ \E o \in Objects : x \in Members(ch[o])

Fields == {"open", "obj", "fptr", "clust", "modified", "home"}
(* A handle on a file that was given the clusters c.                       *)
HandleOK(h, c, t) ==
    /\ DOMAIN h = Fields
    /\ Knows(h.obj, c, t)
    /\ h.fptr \in 0 .. Len(c)
    /\ h.fptr > 0 => h.clust = c[h.fptr]
    /\ h.obj.n_frag # 0 => h.fptr = Len(c) /\ h.modified
(* What a handle remembers of Home, which has the clusters hc and which the*)
(* root describes as e.                                                    *)
HomeSeen(d, e, hc) ==
    /\ d \in ObjRec /\ d.n_cont = 0 /\ d.n_frag = 0
    /\ d.sclust = hc[1] /\ d.objsize \in 1 .. Len(hc)
    /\ d.stat = 2 => Straight(hc, 1, d.objsize)
    /\ d.stat # 2 => d.stat = 0 /\ e.stat = 0
FileOK(h, c, t, pl, e, hc) ==
    h.open => /\ HandleOK(h, c, t)
              /\ HomeSeen(h.home, e, hc)
              /\ pl < Blocks * h.home.objsize
(* The entry block of an object is right unless a handle knows better.     *)
EntryOK(o, e, hs, c, t) ==
    IF e.exists THEN (o \in Files /\ hs[o].open /\ hs[o].modified) \/ Knows(Loaded(e), c, t)
    ELSE c = <<>> /\ ~(o \in Files /\ hs[o].open)

IInv ==
    /\ DOMAIN entry = Objects /\ DOMAIN handle = Files
    /\ place \in [Names -> Nat] /\ seek \in [Files -> Nat]
    /\ failed = FALSE
    /\ Sound(volume)
    /\ Apart(chain, bits, lost)
    /\ entry[Home].exists /\ chain[Home] # <<>>
    /\ \A o \in Objects : EntryOK(o, entry[o], handle, chain[o], fat)
    /\ \A o \in Names : entry[o].exists => place[o] < Blocks * Len(chain[Home])
    /\ \A f \in Files : FileOK(handle[f], chain[f], fat, place[f], Loaded(entry[Home]), chain[Home])
    /\ \A f \in Files : seek[f] > 0 => handle[f].open /\ handle[f].fptr > 0

-----------------------------------------------------------------------------
LEMMA ApartChanges ==
    ASSUME NEW ch, NEW b, NEW l, Apart(ch, b, l), NEW p \in Objects, NEW c \in Seq(Clusters),
           Distinct(c), Members(c) \cap (b \ Members(ch[p])) = {}
    PROVE  Apart([ch EXCEPT ![p] = c], (b \ Members(ch[p])) \cup Members(c), l)
<1> DEFINE u == [ch EXCEPT ![p] = c]
           d == (b \ Members(ch[p])) \cup Members(c)
<1>1. /\ ch \in [Objects -> Seq(Clusters)] /\ l \subseteq Clusters
      /\ \A o \in Objects : Distinct(ch[o]) /\ Members(ch[o]) \cap (Reserved \cup l) = {}
      /\ \A o, q \in Objects : o # q => Members(ch[o]) \cap Members(ch[q]) = {}
      /\ \A x : x \in b <=> x \in Reserved \/ x \in l \/ \E o \in Objects : x \in Members(ch[o])
  BY DEF Apart
<1>2. u \in [Objects -> Seq(Clusters)] /\ u[p] = c /\ \A o \in Objects \ {p} : u[o] = ch[o]
  BY <1>1
<1> HIDE DEF u
<1>3. \A o \in Objects \ {p} : Members(ch[o]) \cap Members(c) = {}
  BY <1>1
<1>4. Members(c) \cap (Reserved \cup l) = {}
  BY <1>1
<1>5. ASSUME NEW o \in Objects
      PROVE  Distinct(u[o]) /\ Members(u[o]) \cap (Reserved \cup l) = {}
  <2>1. CASE o = p
    BY <2>1, <1>2, <1>4
  <2>2. CASE o # p
    BY <2>2, <1>1, <1>2
  <2> QED BY <2>1, <2>2
<1>6. ASSUME NEW o \in Objects, NEW q \in Objects, o # q
      PROVE  Members(u[o]) \cap Members(u[q]) = {}
  <2>1. CASE o = p
    <3>1. u[o] = c /\ u[q] = ch[q] /\ q \in Objects \ {p}
      BY <2>1, <1>2, <1>6
    <3> QED BY <3>1, <1>3
  <2>2. CASE q = p
    <3>1. u[q] = c /\ u[o] = ch[o] /\ o \in Objects \ {p}
      BY <2>2, <1>2, <1>6
    <3> QED BY <3>1, <1>3
  <2>3. CASE o # p /\ q # p
    <3>1. u[q] = ch[q] /\ u[o] = ch[o]
      BY <2>3, <1>2
    <3> QED BY <3>1, <1>1, <1>6
  <2> QED BY <2>1, <2>2, <2>3
<1>7. ASSUME NEW x
      PROVE  x \in d <=> x \in Reserved \/ x \in l \/ \E o \in Objects : x \in Members(u[o])
  <2>1. ASSUME x \in d
        PROVE  x \in Reserved \/ x \in l \/ \E o \in Objects : x \in Members(u[o])
    <3>1. CASE x \in Members(c)
      BY <3>1, <1>2
    <3>2. CASE x \notin Members(c)
      <4>1. x \in b /\ x \notin Members(ch[p])
        BY <2>1, <3>2
      <4>2. CASE x \in Reserved \/ x \in l
        BY <4>2
      <4>3. CASE ~(x \in Reserved \/ x \in l)
        <5>1. PICK o \in Objects : x \in Members(ch[o])
          BY <4>1, <4>3, <1>1
        <5>2. o # p
          BY <5>1, <4>1
        <5> QED BY <5>1, <5>2, <1>2
      <4> QED BY <4>2, <4>3
    <3> QED BY <3>1, <3>2
  <2>2. ASSUME x \in Reserved \/ x \in l PROVE x \in d
    <3>1. x \in b /\ x \notin Members(ch[p])
      BY <2>2, <1>1
    <3> QED BY <3>1
  <2>3. ASSUME NEW o \in Objects, x \in Members(u[o]) PROVE x \in d
    <3>1. CASE o = p
      BY <2>3, <3>1, <1>2
    <3>2. CASE o # p
      <4>1. x \in Members(ch[o])
        BY <2>3, <3>2, <1>2
      <4>2. x \in b /\ x \notin Members(ch[p])
        BY <4>1, <3>2, <1>1
      <4> QED BY <4>2
    <3> QED BY <3>1, <3>2
  <2> QED BY <2>1, <2>2, <2>3
<1> HIDE DEF d
<1>8. Apart(u, d, l)
  BY <1>1, <1>2, <1>5, <1>6, <1>7 DEF Apart
<1> QED BY <1>8 DEF u, d

LEMMA ApartLost ==
    ASSUME NEW ch, NEW b, NEW l, Apart(ch, b, l), NEW c \in Clusters, c \notin b
    PROVE  Apart(ch, b \cup {c}, l \cup {c})
<1>1. /\ ch \in [Objects -> Seq(Clusters)] /\ l \cup {c} \subseteq Clusters
      /\ \A o, q \in Objects : o # q => Members(ch[o]) \cap Members(ch[q]) = {}
      /\ \A x : x \in b <=> x \in Reserved \/ x \in l \/ \E o \in Objects : x \in Members(ch[o])
  BY DEF Apart
<1>2. ASSUME NEW o \in Objects
      PROVE  Distinct(ch[o]) /\ Members(ch[o]) \cap (Reserved \cup (l \cup {c})) = {}
  <2>1. Distinct(ch[o]) /\ Members(ch[o]) \cap (Reserved \cup l) = {}
    BY DEF Apart
  <2>2. c \notin Members(ch[o])
    BY <1>1
  <2> QED BY <2>1, <2>2
<1>3. \A x : x \in b \cup {c} <=> \/ x \in Reserved \/ x \in l \cup {c}
                                 \/ \E o \in Objects : x \in Members(ch[o])
  BY <1>1
<1> QED BY <1>1, <1>2, <1>3 DEF Apart

(* What a call leaves behind: o is the only name and the only file it      *)
(* works on.                                                               *)
Touches(o) ==
    /\ o \in Names
    /\ DOMAIN entry' = Objects /\ DOMAIN handle' = Files
    /\ place' \in [Names -> Nat] /\ seek' \in [Files -> Nat]
    /\ failed' = FALSE
    /\ Sound(volume')
    /\ Apart(chain', bits', lost')
    /\ \A p \in Names \ {o} : /\ entry'[p] = entry[p] /\ chain'[p] = chain[p]
                              /\ place'[p] = place[p]
    /\ \A f \in Files \ {o} : handle'[f] = handle[f] /\ seek'[f] = seek[f]
    /\ \A x \in Clusters : /\ x \in bits
                           /\ x \notin Members(chain[o]) /\ x \notin Members(chain[Home])
                           => fat'[x] = fat[x]
HomeGoesOn ==
    /\ entry'[Home].exists
    /\ Knows(Loaded(entry'[Home]), chain'[Home], fat')
    /\ Loaded(entry[Home]).stat = 0 => Loaded(entry'[Home]).stat = 0
    /\ Len(chain[Home]) <= Len(chain'[Home])
    /\ \A i \in 1 .. Len(chain[Home]) : chain'[Home][i] = chain[Home][i]
Touched(o) ==
    /\ EntryOK(o, entry'[o], handle', chain'[o], fat')
    /\ entry'[o].exists => place'[o] < Blocks * Len(chain'[Home])
    /\ o \in Files =>
         /\ FileOK(handle'[o], chain'[o], fat', place'[o], Loaded(entry'[Home]), chain'[Home])
         /\ seek'[o] > 0 => handle'[o].open /\ handle'[o].fptr > 0

LEMMA Others ==
    ASSUME IInv, NEW o, Touches(o), HomeGoesOn, Touched(o)
    PROVE  IInv'
<1>1. /\ Home \in Objects /\ Home \notin Names /\ Home \notin Files /\ Names \subseteq Objects
      /\ Files \subseteq Names /\ o \in Names /\ \A p \in Objects : p \in Names \/ p = Home
      /\ Blocks \in Nat
  BY VolumeAssumption DEF Names, Objects, Touches
<1> HIDE DEF Names, Objects
<1>2. /\ Apart(chain, bits, lost) /\ Apart(chain', bits', lost')
      /\ \A p \in Objects : EntryOK(p, entry[p], handle, chain[p], fat)
      /\ \A p \in Names : entry[p].exists => place[p] < Blocks * Len(chain[Home])
      /\ \A f \in Files : FileOK(handle[f], chain[f], fat, place[f], Loaded(entry[Home]), chain[Home])
      /\ \A f \in Files : seek[f] > 0 => handle[f].open /\ handle[f].fptr > 0
      /\ place \in [Names -> Nat] /\ chain[Home] # <<>>
  BY DEF IInv, Touches
<1>3. /\ \A p \in Objects : chain[p] \in Seq(Clusters) /\ chain'[p] \in Seq(Clusters)
      /\ \A p, q \in Objects : p # q => Members(chain[p]) \cap Members(chain[q]) = {}
      /\ \A p \in Objects : \A x : x \in Members(chain[p]) => x \in bits
  BY <1>2 DEF Apart
<1>4. ASSUME NEW p \in Names \ {o}, NEW i \in 1 .. Len(chain[p])
      PROVE  fat'[chain[p][i]] = fat[chain[p][i]]
  <2> DEFINE x == chain[p][i]
  <2>1. p \in Objects /\ o \in Objects /\ p # o /\ p # Home
    BY <1>1
  <2>2. x \in Members(chain[p]) /\ x \in Clusters
    BY <2>1, <1>3, MembersAre
  <2> HIDE DEF x
  <2>3. x \in bits /\ x \notin Members(chain[o]) /\ x \notin Members(chain[Home])
    BY <2>1, <2>2, <1>1, <1>3
  <2> QED BY <2>2, <2>3 DEF Touches, x
<1>5. ASSUME NEW p \in Names \ {o}, NEW d, Knows(d, chain[p], fat)
      PROVE  Knows(d, chain[p], fat')
  BY <1>1, <1>3, <1>4, <1>5, KnowsStays
<1>6. \A p \in Names \ {o} : entry'[p] = entry[p] /\ chain'[p] = chain[p] /\ place'[p] = place[p]
      /\ (p \in Files => handle'[p] = handle[p] /\ seek'[p] = seek[p])
  BY DEF Touches
<1>7. ASSUME NEW p \in Objects PROVE EntryOK(p, entry'[p], handle', chain'[p], fat')
  <2>1. CASE p = o
    BY <2>1 DEF Touched
  <2>2. CASE p = Home
    BY <2>2 DEF HomeGoesOn, EntryOK
  <2>3. CASE p # o /\ p # Home
    <3>1. p \in Names \ {o}
      BY <2>3, <1>1
    <3>2. EntryOK(p, entry[p], handle, chain[p], fat)
      BY <1>2
    <3>3. EntryOK(p, entry[p], handle, chain[p], fat')
      BY <3>1, <3>2, <1>5 DEF EntryOK
    <3> QED BY <3>1, <3>3, <1>6 DEF EntryOK
  <2> QED BY <2>1, <2>2, <2>3
<1>8. Len(chain[Home]) \in Nat /\ Len(chain'[Home]) \in Nat /\ Len(chain[Home]) <= Len(chain'[Home])
      /\ Blocks * Len(chain[Home]) <= Blocks * Len(chain'[Home])
      /\ Blocks * Len(chain[Home]) \in Nat /\ Blocks * Len(chain'[Home]) \in Nat
      /\ 1 \in 1 .. Len(chain[Home]) /\ chain'[Home] # <<>>
  <2> DEFINE m == Len(chain[Home])
             n == Len(chain'[Home])
  <2>1. m \in Nat /\ n \in Nat /\ m <= n /\ m # 0
    BY <1>1, <1>2, <1>3 DEF HomeGoesOn
  <2>2. n # 0 => chain'[Home] # <<>>
    OBVIOUS
  <2> HIDE DEF m, n
  <2>3. Blocks * m <= Blocks * n /\ Blocks * m \in Nat /\ Blocks * n \in Nat
    BY <2>1, <1>1
  <2>4. 1 \in 1 .. m /\ n # 0
    BY <2>1
  <2> QED BY <2>1, <2>2, <2>3, <2>4 DEF m, n
<1>9. ASSUME NEW p \in Names, entry'[p].exists PROVE place'[p] < Blocks * Len(chain'[Home])
  <2>1. CASE p = o
    BY <2>1, <1>9 DEF Touched
  <2>2. CASE p # o
    <3>1. place'[p] = place[p] /\ place[p] \in Nat /\ place[p] < Blocks * Len(chain[Home])
      BY <2>2, <1>2, <1>6, <1>9
    <3> QED BY <3>1, <1>8
  <2> QED BY <2>1, <2>2
<1>10. ASSUME NEW d, HomeSeen(d, Loaded(entry[Home]), chain[Home])
       PROVE  HomeSeen(d, Loaded(entry'[Home]), chain'[Home])
  <2>1. /\ d \in ObjRec /\ d.n_cont = 0 /\ d.n_frag = 0
        /\ d.sclust = chain[Home][1] /\ d.objsize \in 1 .. Len(chain[Home])
        /\ d.stat = 2 => Straight(chain[Home], 1, d.objsize)
        /\ d.stat # 2 => d.stat = 0 /\ Loaded(entry[Home]).stat = 0
    BY <1>10 DEF HomeSeen
  <2>2. \A i \in 1 .. Len(chain[Home]) : chain'[Home][i] = chain[Home][i]
    BY DEF HomeGoesOn
  <2>3. d.stat = 2 => Straight(chain'[Home], 1, d.objsize)
    <3>1. \A i \in 1 .. d.objsize : i \in 1 .. Len(chain[Home])
      BY <2>1, <1>8
    <3> QED BY <3>1, <2>1, <2>2 DEF Straight
  <2>4. d.objsize \in 1 .. Len(chain'[Home])
    BY <2>1, <1>8
  <2>5. d.stat # 2 => d.stat = 0 /\ Loaded(entry'[Home]).stat = 0
    BY <2>1 DEF HomeGoesOn
  <2> QED BY <2>1, <2>2, <2>3, <2>4, <2>5, <1>8 DEF HomeSeen
<1>11. ASSUME NEW f \in Files
       PROVE  /\ FileOK(handle'[f], chain'[f], fat', place'[f], Loaded(entry'[Home]), chain'[Home])
              /\ seek'[f] > 0 => handle'[f].open /\ handle'[f].fptr > 0
  <2>1. CASE f = o
    BY <2>1 DEF Touched
  <2>2. CASE f # o
    <3>1. f \in Names \ {o} /\ f \in Files
      BY <2>2, <1>1
    <3>2. handle'[f] = handle[f] /\ seek'[f] = seek[f] /\ chain'[f] = chain[f] /\ place'[f] = place[f]
      BY <3>1, <1>6
    <3>3. FileOK(handle[f], chain[f], fat, place[f], Loaded(entry[Home]), chain[Home])
      BY <1>2
    <3>4. ASSUME HandleOK(handle[f], chain[f], fat) PROVE HandleOK(handle[f], chain[f], fat')
      BY <3>1, <3>4, <1>5 DEF HandleOK
    <3>5. FileOK(handle[f], chain[f], fat', place[f], Loaded(entry'[Home]), chain'[Home])
      BY <3>3, <3>4, <1>10 DEF FileOK
    <3> QED BY <3>2, <3>5, <1>2
  <2> QED BY <2>1, <2>2
<1>12. entry'[Home].exists
  BY DEF HomeGoesOn
<1> QED BY <1>1, <1>7, <1>8, <1>9, <1>11, <1>12 DEF IInv, Touches

-----------------------------------------------------------------------------
(* What the invariant says of the parts of a state.                        *)
LEMMA VolumeIs ==
    /\ volume.fat = fat /\ volume.bits = bits /\ volume.last = last_clst
    /\ volume.free = free_clst
BY DEF volume

LEMMA BecomesIs ==
    ASSUME NEW s \in Volumes, Becomes(s)
    PROVE  volume' = s /\ fat' = s.fat /\ bits' = s.bits
<1>1. volume' = [fat |-> s.fat, bits |-> s.bits, last |-> s.last, free |-> s.free]
  BY DEF Becomes, volume
<1>2. s = [fat |-> s.fat, bits |-> s.bits, last |-> s.last, free |-> s.free]
  BY DEF Volumes
<1> QED BY <1>1, <1>2 DEF Becomes

LEMMA NamesAre ==
    /\ Home \in Objects /\ Home \notin Names /\ Home \notin Files /\ Names \subseteq Objects
    /\ Files \subseteq Names /\ Subdirs \subseteq Names
    /\ \A f \in Files : f \notin Subdirs
    /\ \A p \in Objects : p \in Names \/ p = Home
BY VolumeAssumption DEF Names, Objects

ChainOK(c, b) == c \in Seq(Clusters) /\ Distinct(c) /\ Members(c) \subseteq b \ Reserved
LEMMA StateIs ==
    ASSUME IInv
    PROVE  /\ Sound(volume) /\ volume \in Volumes /\ failed = FALSE
           /\ \A o \in Objects : ChainOK(chain[o], bits)
           /\ chain \in [Objects -> Seq(Clusters)]
           /\ \A o, p \in Objects : o # p => Members(chain[o]) \cap Members(chain[p]) = {}
           /\ chain[Home] # <<>> /\ entry[Home].exists
           /\ Knows(Loaded(entry[Home]), chain[Home], fat)
<1>1. /\ Sound(volume) /\ Apart(chain, bits, lost) /\ chain[Home] # <<>> /\ entry[Home].exists
      /\ failed = FALSE
  BY DEF IInv
<1>2. volume \in Volumes
  BY <1>1 DEF Sound
<1>3. /\ chain \in [Objects -> Seq(Clusters)]
      /\ \A o, p \in Objects : o # p => Members(chain[o]) \cap Members(chain[p]) = {}
  BY <1>1 DEF Apart
<1>4. ASSUME NEW o \in Objects PROVE ChainOK(chain[o], bits)
  BY <1>1 DEF Apart, ChainOK
<1>5. Knows(Loaded(entry[Home]), chain[Home], fat)
  <2>1. EntryOK(Home, entry[Home], handle, chain[Home], fat)
    BY NamesAre DEF IInv
  <2> QED BY <2>1, <1>1, NamesAre DEF EntryOK
<1> QED BY <1>1, <1>2, <1>3, <1>4, <1>5

(* o's chain becomes c, the volume s.                                      *)
Gives(o, s, c) ==
    /\ Sound(s) /\ c \in Seq(Clusters) /\ Distinct(c)
    /\ Members(c) \cap (bits \ Members(chain[o])) = {}
    /\ s.bits = (bits \ Members(chain[o])) \cup Members(c)
    /\ \A x \in Clusters : x \in bits /\ x \notin Members(chain[o]) => s.fat[x] = fat[x]

LEMMA GivesSame ==
    ASSUME IInv, NEW o \in Objects, NEW s, Sound(s), s.bits = bits,
           \A x \in Clusters \ Members(chain[o]) : s.fat[x] = fat[x]
    PROVE  Gives(o, s, chain[o])
<1>1. ChainOK(chain[o], bits)
  BY StateIs
<1> QED BY <1>1 DEF ChainOK, Gives

LEMMA GrownIs ==
    ASSUME NEW ch \in Seq(Clusters), Distinct(ch), NEW c \in Clusters, c \notin Members(ch)
    PROVE  /\ Append(ch, c) \in Seq(Clusters) /\ Distinct(Append(ch, c))
           /\ Members(Append(ch, c)) = Members(ch) \cup {c}
           /\ Len(Append(ch, c)) = Len(ch) + 1
<1> DEFINE e == Append(ch, c)
<1>1. /\ e \in Seq(Clusters) /\ Len(e) = Len(ch) + 1 /\ Len(ch) \in Nat /\ e[Len(e)] = c
      /\ \A i \in 1 .. Len(ch) : e[i] = ch[i]
  BY AppendIs
<1>2. Members(e) = Members(ch) \cup {c}
  BY MembersOfAppend
<1>3. \A i \in 1 .. Len(ch) : ch[i] # c
  <2>1. \A i \in 1 .. Len(ch) : ch[i] \in Members(ch)
    BY MembersAre
  <2> QED BY <2>1
<1> HIDE DEF e
<1>4. Distinct(e)
  <2> SUFFICES ASSUME NEW i \in 1 .. Len(e), NEW j \in 1 .. Len(e), e[i] = e[j] PROVE i = j
    BY DEF Distinct
  <2>1. (i \in 1 .. Len(ch) \/ i = Len(e)) /\ (j \in 1 .. Len(ch) \/ j = Len(e))
    BY <1>1
  <2> QED BY <2>1, <1>1, <1>3 DEF Distinct
<1> QED BY <1>1, <1>2, <1>4 DEF e

LEMMA GivesMore ==
    ASSUME IInv, NEW o \in Objects, NEW p, NEW r, Extended(volume, p, chain[o], r), r.clst # 0
    PROVE  /\ Gives(o, r.s, Append(chain[o], r.clst)) /\ r.clst \in Clusters
           /\ chain[o] \o <<r.clst>> = Append(chain[o], r.clst)
           /\ Len(Append(chain[o], r.clst)) = Len(chain[o]) + 1
           /\ r.new = TRUE /\ Given(r) = <<r.clst>>
           /\ r.obj \in ObjRec /\ r.obj.sclust = p.sclust /\ r.obj.objsize = p.objsize
           /\ Knows(NewObj(r.obj, chain[o], r.clst), Append(chain[o], r.clst), r.s.fat)
<1> DEFINE ch == chain[o]
<1>1. ch \in Seq(Clusters) /\ Distinct(ch) /\ Members(ch) \subseteq bits
  BY StateIs DEF ChainOK
<1> DEFINE y == [s |-> volume, obj |-> p, clst |-> 0, new |-> FALSE]
<1>2. y.clst = 0
  OBVIOUS
<1> HIDE DEF y, ch
<1>3. /\ r.new = TRUE
      /\ r.clst \in Clusters \ bits
      /\ Sound(r.s) /\ r.s.bits = bits \cup {r.clst}
      /\ \A c \in Clusters \ Members(ch) : r.s.fat[c] = fat[c]
      /\ r.obj \in ObjRec /\ r.obj.sclust = p.sclust /\ r.obj.objsize = p.objsize
      /\ Knows(NewObj(r.obj, ch, r.clst), Append(ch, r.clst), r.s.fat)
  BY <1>2, VolumeIs DEF Extended, y, ch
<1>4. /\ Append(ch, r.clst) \in Seq(Clusters) /\ Distinct(Append(ch, r.clst))
      /\ Members(Append(ch, r.clst)) = Members(ch) \cup {r.clst}
      /\ Len(Append(ch, r.clst)) = Len(ch) + 1
  BY <1>1, <1>3, GrownIs
<1>5. ch \o <<r.clst>> = Append(ch, r.clst)
  BY <1>1, <1>3, JoinIs
<1>6. Gives(o, r.s, Append(ch, r.clst))
  BY <1>1, <1>3, <1>4 DEF Gives, ch
<1>7. Given(r) = <<r.clst>>
  BY <1>3 DEF Given
<1> QED BY <1>3, <1>4, <1>5, <1>6, <1>7 DEF ch

LEMMA GivesLess ==
    ASSUME IInv, NEW o \in Objects, NEW p, NEW k \in 0 .. Len(chain[o]), NEW r,
           Removed(volume, p, chain[o], k, r)
    PROVE  Gives(o, r.s, SubSeq(chain[o], 1, k))
<1> DEFINE ch == chain[o]
           a == SubSeq(ch, 1, k)
           b == SubSeq(ch, k + 1, Len(ch))
<1>1. ch \in Seq(Clusters) /\ Distinct(ch) /\ Members(ch) \subseteq bits
  BY StateIs DEF ChainOK
<1>2. /\ a \in Seq(Clusters) /\ Distinct(a) /\ Members(b) \subseteq Members(ch)
      /\ Members(a) = Members(ch) \ Members(b)
  <2>1. k \in 0 .. Len(ch)
    OBVIOUS
  <2> HIDE DEF ch
  <2> QED BY <2>1, <1>1, CutSeq
<1>3. /\ Sound(r.s) /\ r.s.bits = bits \ Members(b)
      /\ \A c \in Clusters \ Members(ch) : r.s.fat[c] = fat[c]
  BY VolumeIs DEF Removed
<1> HIDE DEF ch, a, b
<1>4. Gives(o, r.s, a)
  BY <1>1, <1>2, <1>3 DEF Gives, ch
<1> QED BY <1>4 DEF a, ch

(* A call that works on one name, and leaves Home alone.                   *)
OnlyOn(o) ==
    /\ DOMAIN entry' = Objects /\ DOMAIN handle' = Files
    /\ place' \in [Names -> Nat] /\ seek' \in [Files -> Nat]
    /\ failed' = FALSE /\ lost' = lost
    /\ \A p \in Objects \ {o} : entry'[p] = entry[p]
    /\ \A p \in Names \ {o} : place'[p] = place[p]
    /\ \A f \in Files \ {o} : handle'[f] = handle[f] /\ seek'[f] = seek[f]
LEMMA OneName ==
    ASSUME IInv, NEW o \in Names, NEW s, NEW c, Gives(o, s, c), Becomes(s),
           chain' = [chain EXCEPT ![o] = c], OnlyOn(o), Touched(o)
    PROVE  IInv'
<1>1. /\ o \in Objects /\ o # Home /\ Home \in Objects /\ Names \subseteq Objects
  BY NamesAre
<1>2. /\ Sound(s) /\ s \in Volumes /\ c \in Seq(Clusters) /\ Distinct(c)
      /\ Members(c) \cap (bits \ Members(chain[o])) = {}
      /\ s.bits = (bits \ Members(chain[o])) \cup Members(c)
      /\ \A x \in Clusters : x \in bits /\ x \notin Members(chain[o]) => s.fat[x] = fat[x]
  BY DEF Gives, Sound
<1>3. volume' = s /\ fat' = s.fat /\ bits' = s.bits
  BY <1>2, BecomesIs
<1>4. /\ chain \in [Objects -> Seq(Clusters)] /\ Apart(chain, bits, lost)
      /\ Knows(Loaded(entry[Home]), chain[Home], fat) /\ entry[Home].exists
      /\ ChainOK(chain[Home], bits) /\ Members(chain[o]) \cap Members(chain[Home]) = {}
  BY <1>1, StateIs DEF IInv
<1>5. chain'[o] = c /\ \A p \in Objects \ {o} : chain'[p] = chain[p]
  BY <1>1, <1>4
<1>6. Apart(chain', bits', lost')
  <2>1. Apart([chain EXCEPT ![o] = c], (bits \ Members(chain[o])) \cup Members(c), lost)
    BY <1>1, <1>2, <1>4, ApartChanges
  <2> QED BY <2>1, <1>2, <1>3 DEF OnlyOn
<1>7. Touches(o)
  <2>1. \A p \in Names \ {o} : entry'[p] = entry[p] /\ chain'[p] = chain[p] /\ place'[p] = place[p]
    BY <1>1, <1>5 DEF OnlyOn
  <2>2. \A x \in Clusters : /\ x \in bits
                            /\ x \notin Members(chain[o]) /\ x \notin Members(chain[Home])
                            => fat'[x] = fat[x]
    BY <1>2, <1>3
  <2> QED BY <2>1, <2>2, <1>2, <1>3, <1>6 DEF Touches, OnlyOn
<1>8. HomeGoesOn
  <2> DEFINE hc == chain[Home]
  <2>1. entry'[Home] = entry[Home] /\ chain'[Home] = hc
    BY <1>1, <1>5 DEF OnlyOn
  <2>2. hc \in Seq(Clusters) /\ Members(hc) \subseteq bits /\ Members(chain[o]) \cap Members(hc) = {}
    BY <1>4 DEF ChainOK
  <2> HIDE DEF hc
  <2>3. ASSUME NEW i \in 1 .. Len(hc) PROVE fat'[hc[i]] = fat[hc[i]]
    <3>1. hc[i] \in Members(hc) /\ hc[i] \in Clusters
      BY <2>2, MembersAre
    <3> QED BY <3>1, <2>2, <1>2, <1>3
  <2>4. Knows(Loaded(entry[Home]), hc, fat)
    BY <1>4 DEF hc
  <2>5. Knows(Loaded(entry[Home]), hc, fat')
    BY <2>2, <2>3, <2>4, KnowsStays
  <2>6. Len(hc) \in Nat
    BY <2>2
  <2> QED BY <2>1, <2>5, <2>6, <1>4 DEF HomeGoesOn, hc
<1> QED BY <1>7, <1>8, Others

-----------------------------------------------------------------------------
(* Calls on an open file.                                                  *)
LEMMA FileIs ==
    ASSUME IInv, NEW f \in Files, handle[f].open
    PROVE  /\ HandleOK(handle[f], chain[f], fat) /\ Knows(handle[f].obj, chain[f], fat)
           /\ HomeSeen(handle[f].home, Loaded(entry[Home]), chain[Home])
           /\ place[f] < Blocks * handle[f].home.objsize
           /\ entry[f].exists /\ f \in Names /\ f \in Objects
           /\ chain[f] \in Seq(Clusters) /\ Distinct(chain[f])
           /\ Members(chain[f]) \subseteq bits \ Reserved
<1>1. f \in Names /\ f \in Objects
  BY NamesAre
<1>2. EntryOK(f, entry[f], handle, chain[f], fat)
      /\ FileOK(handle[f], chain[f], fat, place[f], Loaded(entry[Home]), chain[Home])
  BY <1>1 DEF IInv
<1>3. ChainOK(chain[f], bits)
  BY <1>1, StateIs
<1> QED BY <1>1, <1>2, <1>3 DEF EntryOK, FileOK, HandleOK, ChainOK

(* The volume becomes s, the chain of f c and its handle h.                *)
FileBecomes(f, s, c, h) ==
    /\ Gives(f, s, c) /\ Becomes(s)
    /\ chain' = [chain EXCEPT ![f] = c] /\ handle' = [handle EXCEPT ![f] = h]
    /\ entry' = entry /\ place' = place /\ lost' = lost /\ failed' = FALSE
    /\ seek' \in [Files -> Nat] /\ \A g \in Files \ {f} : seek'[g] = seek[g]
    /\ seek'[f] > 0 => h.fptr > 0
(* The handle h after h0 is fit for the clusters c, and says so when it    *)
(* knows more than the entry block.                                        *)
StillOpen(h, h0, c, c0, t, t0) ==
    /\ HandleOK(h, c, t) /\ h.open /\ h.home = h0.home
    /\ \/ h.modified
       \/ (h0.modified => h.modified) /\ c = c0 /\ \A i \in 1 .. Len(c) : t[c[i]] = t0[c[i]]

LEMMA FileGoesOn ==
    ASSUME IInv, NEW f \in Files, handle[f].open, NEW s, NEW c, NEW h,
           FileBecomes(f, s, c, h), StillOpen(h, handle[f], c, chain[f], s.fat, fat)
    PROVE  IInv'
<1>1. /\ HomeSeen(handle[f].home, Loaded(entry[Home]), chain[Home])
      /\ place[f] < Blocks * handle[f].home.objsize
      /\ entry[f].exists /\ f \in Names /\ f \in Objects
      /\ chain[f] \in Seq(Clusters)
  BY FileIs
<1>2. /\ DOMAIN entry = Objects /\ DOMAIN handle = Files /\ place \in [Names -> Nat]
      /\ EntryOK(f, entry[f], handle, chain[f], fat)
      /\ place[f] < Blocks * Len(chain[Home])
  BY <1>1 DEF IInv
<1>3. chain \in [Objects -> Seq(Clusters)] /\ f # Home /\ Home \in Objects
  BY <1>1, StateIs, NamesAre
<1>4. /\ Gives(f, s, c) /\ Becomes(s) /\ s \in Volumes
      /\ chain' = [chain EXCEPT ![f] = c] /\ handle' = [handle EXCEPT ![f] = h]
      /\ entry' = entry /\ place' = place /\ lost' = lost /\ failed' = FALSE
      /\ seek' \in [Files -> Nat] /\ \A g \in Files \ {f} : seek'[g] = seek[g]
      /\ seek'[f] > 0 => h.fptr > 0
  BY DEF FileBecomes, Gives, Sound
<1>5. /\ handle'[f] = h /\ chain'[f] = c /\ chain'[Home] = chain[Home] /\ fat' = s.fat
      /\ DOMAIN handle' = Files /\ \A g \in Files \ {f} : handle'[g] = handle[g]
  BY <1>2, <1>3, <1>4, <1>1, BecomesIs
<1>6. /\ HandleOK(h, c, fat') /\ h.open /\ h.home = handle[f].home
      /\ \/ h.modified
         \/ /\ handle[f].modified => h.modified
            /\ c = chain[f] /\ \A i \in 1 .. Len(c) : fat'[c[i]] = fat[c[i]]
  BY <1>5 DEF StillOpen
<1>7. OnlyOn(f)
  BY <1>2, <1>4, <1>5 DEF OnlyOn
<1>8. EntryOK(f, entry'[f], handle', chain'[f], fat')
  <2>1. CASE h.modified
    BY <2>1, <1>1, <1>4, <1>5, <1>6 DEF EntryOK
  <2>2. CASE ~h.modified
    <3>1. Knows(Loaded(entry[f]), chain[f], fat)
      BY <2>2, <1>1, <1>2, <1>6 DEF EntryOK
    <3>2. c = chain[f] /\ \A i \in 1 .. Len(c) : fat'[c[i]] = fat[c[i]]
      BY <2>2, <1>6
    <3>3. Knows(Loaded(entry[f]), chain[f], fat')
      BY <3>1, <3>2, <1>1, KnowsStays
    <3> QED BY <3>2, <3>3, <1>1, <1>4, <1>5 DEF EntryOK
  <2> QED BY <2>1, <2>2
<1>9. FileOK(handle'[f], chain'[f], fat', place'[f], Loaded(entry'[Home]), chain'[Home])
  BY <1>1, <1>4, <1>5, <1>6 DEF FileOK
<1>10. Touched(f)
  BY <1>2, <1>4, <1>5, <1>6, <1>8, <1>9 DEF Touched
<1> QED BY <1>1, <1>4, <1>7, <1>10, OneName

LEMMA LeftIs ==
    ASSUME IInv, NEW f \in Files, NEW h, NEW new, Left(f, h, new, TRUE)
    PROVE  /\ chain' = [chain EXCEPT ![f] = chain[f] \o new]
           /\ handle' = [handle EXCEPT ![f] = h]
           /\ entry' = entry /\ place' = place /\ lost' = lost /\ failed' = FALSE
<1>1. failed = FALSE
  BY DEF IInv
<1> QED BY <1>1 DEF Left, Ends

LEMMA IdleSeek ==
    ASSUME IInv, Idle, seek' = seek
    PROVE  seek' \in [Files -> Nat] /\ \A f \in Files : seek'[f] = 0 /\ seek'[f] = seek[f]
BY DEF IInv, Idle

LEMMA ReadKeeps ==
    ASSUME IInv, Idle, seek' = seek, NEW f \in Files, f_read(f)
    PROVE  IInv'
<1> DEFINE h == handle[f]
           ch == chain[f]
           g == [h EXCEPT !.clust = ch[h.fptr + 1], !.fptr = @ + 1]
<1>1. h.open /\ h.fptr < h.obj.objsize
  BY DEF f_read, IsOpen
<1>2. /\ HandleOK(h, ch, fat) /\ Knows(h.obj, ch, fat)
      /\ ch \in Seq(Clusters) /\ Distinct(ch) /\ f \in Objects
  BY <1>1, FileIs
<1>3. /\ DOMAIN h = Fields /\ h.fptr \in 0 .. Len(ch) /\ h.obj.objsize = Len(ch)
      /\ h.fptr > 0 => h.clust = ch[h.fptr]
      /\ h.obj.n_frag # 0 => h.fptr = Len(ch)
      /\ Len(ch) \in Nat /\ volume \in Volumes /\ Sound(volume) /\ volume.fat = fat
      /\ volume.bits = bits
  BY <1>2, KnownParts, StateIs, VolumeIs DEF HandleOK, Knows
<1>4. h.fptr \in 0 .. Len(ch) - 1 /\ h.obj.n_frag = 0 /\ ch # <<>>
      /\ h.fptr + 1 \in 1 .. Len(ch)
  BY <1>1, <1>3, <1>2, KnownParts
<1> DEFINE clst == IF h.fptr = 0 THEN h.obj.sclust ELSE get_fat(volume, h.obj, h.clust)
<1>5. clst = ch[h.fptr + 1]
  <2>1. CASE h.fptr = 0
    BY <2>1, <1>2, <1>4 DEF Knows
  <2>2. CASE h.fptr # 0
    <3>1. h.fptr \in 1 .. Len(ch) /\ h.clust = ch[h.fptr] /\ h.fptr < Len(ch)
      BY <2>2, <1>3, <1>4
    <3> DEFINE i == h.fptr
               o == h.obj
    <3>2. i \in 1 .. Len(ch) /\ o.n_frag = 0 /\ Knows(o, ch, volume.fat)
      BY <3>1, <1>2, <1>3, <1>4
    <3> HIDE DEF h, ch, i, o
    <3>3. get_fat(volume, o, ch[i]) = Behind(ch, i)
      BY <3>2, <1>2, <1>3, GetFatOf
    <3> QED BY <2>2, <3>1, <3>3 DEF Behind, i, o
  <2> QED BY <2>1, <2>2
<1>6. ch[h.fptr + 1] \in Clusters
  BY <1>2, <1>4
<1>7. Becomes(volume) /\ Left(f, g, <<>>, TRUE)
  <2>1. /\ Becomes(volume)
        /\ IF clst \in Clusters
           THEN Left(f, [h EXCEPT !.clust = clst, !.fptr = @ + 1], <<>>, TRUE)
           ELSE Left(f, h, <<>>, FALSE)
    BY DEF f_read
  <2> QED BY <2>1, <1>5, <1>6
<1>8. ch \o <<>> = ch
  BY <1>2, JoinIs
<1>9. g.obj = h.obj /\ g.fptr = h.fptr + 1 /\ g.clust = ch[h.fptr + 1] /\ g.home = h.home
      /\ DOMAIN g = Fields /\ (g.open <=> h.open) /\ (g.modified <=> h.modified)
  BY <1>3 DEF Fields
<1>10. Gives(f, volume, ch)
  BY <1>2, <1>3, GivesSame
<1> HIDE DEF h, ch, g
<1>11. FileBecomes(f, volume, ch, g)
  <2>1. /\ chain' = [chain EXCEPT ![f] = ch] /\ handle' = [handle EXCEPT ![f] = g]
        /\ entry' = entry /\ place' = place /\ lost' = lost /\ failed' = FALSE
    BY <1>7, <1>8, LeftIs DEF ch
  <2>2. seek' \in [Files -> Nat] /\ seek'[f] = 0 /\ \A e \in Files \ {f} : seek'[e] = seek[e]
    BY IdleSeek
  <2> QED BY <2>1, <2>2, <1>7, <1>10 DEF FileBecomes
<1>12. StillOpen(g, handle[f], ch, chain[f], volume.fat, fat)
  <2>1. HandleOK(g, ch, fat)
    BY <1>2, <1>3, <1>4, <1>9 DEF HandleOK
  <2> QED BY <2>1, <1>1, <1>3, <1>9 DEF StillOpen, h, ch
<1> QED BY <1>1, <1>11, <1>12, FileGoesOn DEF h

(* The cluster at the offset of f: the next one of its chain, or a new one *)
(* behind the last.                                                        *)
Stepped(f, r) ==
    \/ /\ r = [s |-> volume, obj |-> handle[f].obj, clst |-> chain[f][handle[f].fptr + 1],
               new |-> FALSE]
       /\ handle[f].fptr < Len(chain[f]) /\ handle[f].obj.n_frag = 0
    \/ handle[f].fptr = Len(chain[f]) /\ Extended(volume, handle[f].obj, chain[f], r)

LEMMA StepIs ==
    ASSUME IInv, NEW f \in Files, handle[f].open,
           handle[f].fptr = 0 => handle[f].obj.sclust = 0
    PROVE  Stepped(f, create_chain(volume, handle[f].obj,
                                   IF handle[f].fptr = 0 THEN 0 ELSE handle[f].clust))
<1> DEFINE h == handle[f]
           o == handle[f].obj
           ch == chain[f]
           i == handle[f].fptr
           r == create_chain(volume, o, IF i = 0 THEN 0 ELSE h.clust)
<1>1. /\ HandleOK(h, ch, fat) /\ Knows(o, ch, fat)
      /\ ch \in Seq(Clusters) /\ Distinct(ch)
  BY FileIs
<1>2. /\ i \in 0 .. Len(ch) /\ Len(ch) \in Nat
      /\ i > 0 => h.clust = ch[i]
      /\ o.n_frag # 0 => i = Len(ch)
      /\ (ch = <<>>) <=> (Len(ch) = 0)
      /\ (ch = <<>>) <=> (o.sclust = 0)
      /\ i = 0 => o.sclust = 0
  BY <1>1, KnownParts DEF HandleOK
<1>3. volume \in Volumes /\ Sound(volume) /\ Knows(o, ch, volume.fat)
  BY <1>1, StateIs, VolumeIs
<1> HIDE DEF h, ch, i, o
<1>4. CASE i < Len(ch)
  <2>1. i \in 1 .. Len(ch) - 1 /\ o.n_frag = 0 /\ h.clust = ch[i]
    BY <1>4, <1>2
  <2>2. create_chain(volume, o, ch[i]) =
           [s |-> volume, obj |-> o, clst |-> ch[i + 1], new |-> FALSE]
    BY <2>1, <1>1, <1>3, CreateFollows
  <2>3. r = [s |-> volume, obj |-> o, clst |-> ch[i + 1], new |-> FALSE]
    BY <2>1, <2>2
  <2> HIDE DEF r
  <2>4. Stepped(f, r)
    BY <2>1, <2>3, <1>4 DEF Stepped, i, ch, o
  <2> QED BY <2>4 DEF r, o, i, h
<1>5. CASE i = Len(ch)
  <2>1. (IF i = 0 THEN 0 ELSE h.clust) = IF ch = <<>> THEN 0 ELSE ch[Len(ch)]
    BY <1>5, <1>2
  <2>2. Extended(volume, o, ch, create_chain(volume, o, IF ch = <<>> THEN 0 ELSE ch[Len(ch)]))
    BY <1>1, <1>3, CreateExtends
  <2>3. Extended(volume, o, ch, r)
    BY <2>1, <2>2
  <2> HIDE DEF r
  <2>4. Stepped(f, r)
    BY <2>3, <1>5 DEF Stepped, i, ch, o
  <2> QED BY <2>4 DEF r, o, i, h
<1> QED BY <1>2, <1>4, <1>5

(* The handle g of f when it has moved on by the cluster of r.             *)
Moved(f, r, g) ==
    /\ DOMAIN g = Fields /\ g.open /\ g.home = handle[f].home
    /\ g.fptr = handle[f].fptr + 1 /\ g.clust = r.clst
    /\ g.obj = IF r.new THEN NewObj(r.obj, chain[f], r.clst) ELSE handle[f].obj
    /\ r.new => g.modified
    /\ handle[f].modified => g.modified
LEMMA MovesOn ==
    ASSUME IInv, NEW f \in Files, handle[f].open, NEW r, Stepped(f, r), r.clst # 0,
           NEW g, Moved(f, r, g)
    PROVE  /\ Gives(f, r.s, chain[f] \o Given(r))
           /\ StillOpen(g, handle[f], chain[f] \o Given(r), chain[f], r.s.fat, fat)
<1> DEFINE h == handle[f]
           o == handle[f].obj
           ch == chain[f]
           i == handle[f].fptr
<1>1. /\ HandleOK(h, ch, fat) /\ Knows(o, ch, fat) /\ f \in Objects
      /\ ch \in Seq(Clusters) /\ Distinct(ch)
  BY FileIs
<1>2. /\ i \in 0 .. Len(ch) /\ Len(ch) \in Nat /\ ch \o <<>> = ch
  BY <1>1, JoinIs DEF HandleOK
<1>3. Sound(volume) /\ volume.fat = fat /\ volume.bits = bits
  BY StateIs, VolumeIs
<1>4. CASE /\ r = [s |-> volume, obj |-> o, clst |-> ch[i + 1], new |-> FALSE]
           /\ i < Len(ch) /\ o.n_frag = 0
  <2>1. /\ r.s = volume /\ r.clst = ch[i + 1] /\ r.new = FALSE /\ Given(r) = <<>>
        /\ i < Len(ch) /\ o.n_frag = 0
    BY <1>4 DEF Given
  <2>2. /\ DOMAIN g = Fields /\ g.open /\ g.home = h.home /\ g.fptr = i + 1
        /\ g.clust = ch[i + 1] /\ g.obj = o /\ (h.modified => g.modified)
    BY <2>1 DEF Moved
  <2>3. Gives(f, volume, ch)
    BY <1>1, <1>3, GivesSame
  <2> HIDE DEF h, o, ch, i
  <2>4. HandleOK(g, ch, fat)
    BY <1>1, <1>2, <2>1, <2>2 DEF HandleOK
  <2>5. StillOpen(g, h, ch, ch, fat, fat)
    BY <2>2, <2>4 DEF StillOpen
  <2> QED BY <2>1, <2>3, <2>5, <1>2, <1>3 DEF ch, h
<1>5. CASE i = Len(ch) /\ Extended(volume, o, ch, r)
  <2>1. /\ Gives(f, r.s, Append(ch, r.clst))
        /\ ch \o <<r.clst>> = Append(ch, r.clst)
        /\ Len(Append(ch, r.clst)) = Len(ch) + 1
        /\ r.new = TRUE /\ Given(r) = <<r.clst>> /\ r.clst \in Clusters
        /\ Knows(NewObj(r.obj, ch, r.clst), Append(ch, r.clst), r.s.fat)
    BY <1>1, <1>5, GivesMore
  <2>2. /\ DOMAIN g = Fields /\ g.open /\ g.home = h.home /\ g.fptr = Len(ch) + 1
        /\ g.clust = r.clst /\ g.obj = NewObj(r.obj, ch, r.clst) /\ g.modified
    BY <2>1, <1>5 DEF Moved
  <2>3. Append(ch, r.clst)[Len(ch) + 1] = r.clst
    BY <1>1, <2>1, AppendIs
  <2> HIDE DEF h, o, ch, i
  <2>4. HandleOK(g, Append(ch, r.clst), r.s.fat)
    BY <1>1, <1>2, <2>1, <2>2, <2>3 DEF HandleOK
  <2>5. StillOpen(g, h, Append(ch, r.clst), ch, r.s.fat, fat)
    BY <2>2, <2>4 DEF StillOpen
  <2> QED BY <2>1, <2>5 DEF ch, h
<1> QED BY <1>4, <1>5 DEF Stepped

(* A call that ends as Left says.                                          *)
SeekGoesOn(f, h) ==
    /\ seek' \in [Files -> Nat] /\ \A g \in Files \ {f} : seek'[g] = seek[g]
    /\ seek'[f] > 0 => h.fptr > 0
LEMMA LeftGoesOn ==
    ASSUME IInv, NEW f \in Files, handle[f].open, NEW s, NEW h, NEW new,
           Becomes(s), Left(f, h, new, TRUE), Gives(f, s, chain[f] \o new),
           StillOpen(h, handle[f], chain[f] \o new, chain[f], s.fat, fat),
           SeekGoesOn(f, h)
    PROVE  IInv'
<1> DEFINE c == chain[f] \o new
<1>1. /\ chain' = [chain EXCEPT ![f] = c] /\ handle' = [handle EXCEPT ![f] = h]
      /\ entry' = entry /\ place' = place /\ lost' = lost /\ failed' = FALSE
  BY LeftIs
<1>2. Gives(f, s, c) /\ StillOpen(h, handle[f], c, chain[f], s.fat, fat)
  OBVIOUS
<1> HIDE DEF c
<1>3. FileBecomes(f, s, c, h)
  BY <1>1, <1>2 DEF FileBecomes, SeekGoesOn
<1> QED BY <1>2, <1>3, FileGoesOn

(* Nothing but that f says it is modified.                                 *)
LEMMA StaysOpen ==
    ASSUME IInv, NEW f \in Files, handle[f].open, NEW g, DOMAIN g = Fields, g.open,
           g.home = handle[f].home, g.obj = handle[f].obj, g.fptr = handle[f].fptr,
           g.fptr > 0 => g.clust = handle[f].clust, handle[f].modified => g.modified
    PROVE  /\ Gives(f, volume, chain[f] \o <<>>)
           /\ StillOpen(g, handle[f], chain[f] \o <<>>, chain[f], volume.fat, fat)
<1> DEFINE h == handle[f]
           ch == chain[f]
<1>1. /\ HandleOK(h, ch, fat) /\ f \in Objects /\ ch \in Seq(Clusters)
  BY FileIs
<1>2. ch \o <<>> = ch
  BY <1>1, JoinIs
<1>3. Sound(volume) /\ volume.fat = fat /\ volume.bits = bits
  BY StateIs, VolumeIs
<1>4. Gives(f, volume, ch)
  BY <1>1, <1>3, GivesSame
<1>5. g.home = h.home /\ g.obj = h.obj /\ g.fptr = h.fptr /\ (g.fptr > 0 => g.clust = h.clust)
      /\ (h.modified => g.modified)
  OBVIOUS
<1> HIDE DEF h, ch
<1>6. HandleOK(g, ch, fat)
  BY <1>1, <1>5 DEF HandleOK
<1>7. StillOpen(g, h, ch, ch, fat, fat)
  BY <1>5, <1>6 DEF StillOpen
<1> QED BY <1>2, <1>3, <1>4, <1>7 DEF h, ch

(* The object written is the one of Moved.                                 *)
LEMMA WrittenIs ==
    ASSUME NEW p \in ObjRec, NEW c \in Nat, NEW m \in Nat, NEW ch \in Seq(Clusters),
           p.objsize = Len(ch), (ch = <<>>) <=> (p.sclust = 0), m <= Len(ch),
           c \in Clusters
    PROVE  [p EXCEPT !.sclust = IF @ = 0 THEN c ELSE @, !.objsize = Larger(@, m + 1)]
             = IF m = Len(ch) THEN NewObj(p, ch, c) ELSE p
<1>1. Len(ch) \in Nat /\ p.objsize \in Nat /\ p.sclust \in Nat
  BY DEF ObjRec
<1>2. CASE m = Len(ch)
  <2>1. Larger(p.objsize, m + 1) = Len(ch) + 1
    BY <1>1, <1>2 DEF Larger
  <2> QED BY <2>1, <1>2 DEF NewObj
<1>3. CASE m # Len(ch)
  <2>1. m + 1 <= Len(ch) /\ Len(ch) # 0
    BY <1>1, <1>3
  <2>2. Larger(p.objsize, m + 1) = p.objsize
    BY <1>1, <2>1 DEF Larger
  <2>3. p.sclust # 0
    <3>1. ch # <<>>
      BY <2>1
    <3> QED BY <3>1
  <2>4. p = [sclust |-> p.sclust, objsize |-> p.objsize, stat |-> p.stat,
             n_cont |-> p.n_cont, n_frag |-> p.n_frag]
    BY DEF ObjRec
  <2> QED BY <2>2, <2>3, <2>4, <1>3
<1> QED BY <1>2, <1>3

LEMMA WriteKeeps ==
    ASSUME IInv, Idle, seek' = seek, NEW f \in Files, f_write(f)
    PROVE  IInv'
<1> DEFINE h == handle[f]
           ch == chain[f]
           o == handle[f].obj
           i == handle[f].fptr
           r == IF i = 0 /\ o.sclust # 0
                THEN [s |-> volume, obj |-> o, clst |-> o.sclust, new |-> FALSE]
                ELSE create_chain(volume, o, IF i = 0 THEN 0 ELSE h.clust)
           q(x) == [x.obj EXCEPT !.sclust = IF @ = 0 THEN x.clst ELSE @,
                                 !.objsize = Larger(@, h.fptr + 1)]
<1>1. h.open
  BY DEF f_write, IsOpen
<1> DEFINE Full == Left(f, [h EXCEPT !.obj = r.obj, !.modified = TRUE], <<>>, TRUE)
           Bad == Left(f, h, <<>>, FALSE)
           Good == Left(f, [h EXCEPT !.obj = q(r), !.clust = r.clst, !.fptr = @ + 1,
                                     !.modified = TRUE], Given(r), TRUE)
<1>2. /\ Becomes(r.s)
      /\ r.clst = 0 => Full
      /\ r.clst # 0 /\ r.clst # 1 => Good
  <2>1. Becomes(r.s) /\ CASE r.clst = 0 -> Full [] r.clst = 1 -> Bad [] OTHER -> Good
    BY DEF f_write
  <2> HIDE DEF Full, Bad, Good, r
  <2>2. 0 # 1
    OBVIOUS
  <2>3. r.clst = 0 => r.clst # 1
    BY <2>2
  <2>4. r.clst = 0 => Full
    BY <2>1, <2>3
  <2>5. r.clst # 0 /\ r.clst # 1 => Good
    BY <2>1
  <2> QED BY <2>1, <2>4, <2>5
<1>3. /\ HandleOK(h, ch, fat) /\ Knows(o, ch, fat)
      /\ ch \in Seq(Clusters) /\ Distinct(ch) /\ f \in Objects
  BY <1>1, FileIs
<1>4. /\ DOMAIN h = Fields /\ i \in 0 .. Len(ch) /\ o.objsize = Len(ch) /\ Len(ch) \in Nat
      /\ (ch = <<>>) <=> (o.sclust = 0)
      /\ (ch = <<>>) <=> (Len(ch) = 0)
      /\ o.n_frag # 0 => i = Len(ch)
      /\ o \in ObjRec
      /\ \A k \in 1 .. Len(ch) : ch[k] \in Clusters
      /\ ch # <<>> => o.sclust = ch[1]
  <2>1. DOMAIN h = Fields /\ i \in 0 .. Len(ch) /\ (o.n_frag # 0 => i = Len(ch))
    BY <1>3 DEF HandleOK
  <2>2. o.objsize = Len(ch) /\ o \in ObjRec /\ (ch # <<>> => o.sclust = ch[1])
    BY <1>3 DEF Knows
  <2> HIDE DEF h, o, i, ch
  <2>3. /\ Len(ch) \in Nat /\ \A k \in 1 .. Len(ch) : ch[k] \in Clusters
        /\ (ch = <<>>) <=> (o.sclust = 0)
        /\ (ch = <<>>) <=> (Len(ch) = 0)
    BY <1>3, KnownParts
  <2> QED BY <2>1, <2>2, <2>3
<1>5. Stepped(f, r)
  <2>1. CASE i = 0 /\ o.sclust # 0
    <3>1. o.sclust = ch[i + 1] /\ i < Len(ch) /\ o.n_frag = 0
      BY <2>1, <1>4
    <3>2. r = [s |-> volume, obj |-> o, clst |-> ch[i + 1], new |-> FALSE]
      BY <2>1, <3>1
    <3> HIDE DEF r
    <3> QED BY <3>1, <3>2 DEF Stepped
  <2>2. CASE ~(i = 0 /\ o.sclust # 0)
    <3>1. r = create_chain(volume, o, IF i = 0 THEN 0 ELSE h.clust)
      BY <2>2
    <3> HIDE DEF r
    <3> QED BY <2>2, <3>1, <1>1, StepIs
  <2> QED BY <2>1, <2>2
<1>6. ASSUME NEW x PROVE SeekGoesOn(f, x)
  BY IdleSeek DEF SeekGoesOn
<1> HIDE DEF r, q, Full, Good
<1>7. CASE r.clst = 0
  <2> DEFINE g == [h EXCEPT !.obj = r.obj, !.modified = TRUE]
  <2>1. r = [s |-> volume, obj |-> o, clst |-> 0, new |-> FALSE]
    <3>1. i + 1 \in 1 .. Len(ch) => ch[i + 1] # 0
      BY <1>4, Sizes
    <3>2. r.clst = ch[i + 1] /\ i < Len(ch) => FALSE
      BY <3>1, <1>4, <1>7
    <3>3. Extended(volume, o, ch, r)
      BY <1>5, <3>2 DEF Stepped
    <3> QED BY <1>7, <3>3, Sizes DEF Extended
  <2>2. Left(f, g, <<>>, TRUE) /\ Becomes(volume)
    <3>1. r.s = volume
      BY <2>1
    <3> HIDE DEF h, o, ch, i
    <3>2. Full
      BY <1>2, <1>7
    <3> QED BY <1>2, <3>1, <3>2 DEF Full
  <2>3. /\ DOMAIN g = Fields /\ g.open /\ g.home = handle[f].home /\ g.obj = handle[f].obj
        /\ g.fptr = handle[f].fptr /\ g.clust = handle[f].clust /\ g.modified
    BY <1>1, <1>4, <2>1 DEF Fields
  <2> HIDE DEF g, h, ch
  <2>4. /\ Gives(f, volume, chain[f] \o <<>>)
        /\ StillOpen(g, handle[f], chain[f] \o <<>>, chain[f], volume.fat, fat)
    BY <1>1, <2>3, StaysOpen DEF h
  <2>5. handle[f].open /\ SeekGoesOn(f, g)
    BY <1>1, <1>6 DEF h
  <2> DEFINE new == <<>>
  <2>6. Left(f, g, new, TRUE) /\ Gives(f, volume, chain[f] \o new)
        /\ StillOpen(g, handle[f], chain[f] \o new, chain[f], volume.fat, fat)
    BY <2>2, <2>4
  <2> HIDE DEF new
  <2> QED BY <2>2, <2>5, <2>6, LeftGoesOn
<1>8. CASE r.clst # 0
  <2> DEFINE g == [h EXCEPT !.obj = q(r), !.clust = r.clst, !.fptr = @ + 1, !.modified = TRUE]
  <2>1. r.clst \in Clusters /\ r.obj \in ObjRec /\ r.obj.sclust = o.sclust
        /\ r.obj.objsize = o.objsize /\ (r.new <=> i = Len(ch)) /\ (~r.new => r.obj = o)
    <3>1. CASE i < Len(ch) /\ r = [s |-> volume, obj |-> o, clst |-> ch[i + 1], new |-> FALSE]
      <4>1. i + 1 \in 1 .. Len(ch) /\ i # Len(ch)
        BY <3>1, <1>4
      <4> QED BY <3>1, <4>1, <1>4
    <3>2. CASE i = Len(ch) /\ Extended(volume, o, ch, r)
      <4>1. /\ Gives(f, r.s, Append(ch, r.clst))
            /\ r.new = TRUE /\ Given(r) = <<r.clst>> /\ r.clst \in Clusters
            /\ r.obj \in ObjRec /\ r.obj.sclust = o.sclust /\ r.obj.objsize = o.objsize
            /\ Knows(NewObj(r.obj, ch, r.clst), Append(ch, r.clst), r.s.fat)
        <5> DEFINE p == o
        <5>1. f \in Objects /\ Extended(volume, p, chain[f], r) /\ r.clst # 0
          BY <1>3, <1>8, <3>2
        <5> HIDE DEF p, h, i
        <5>2. /\ Gives(f, r.s, Append(chain[f], r.clst)) /\ r.clst \in Clusters
              /\ chain[f] \o <<r.clst>> = Append(chain[f], r.clst)
              /\ Len(Append(chain[f], r.clst)) = Len(chain[f]) + 1
              /\ r.new = TRUE /\ Given(r) = <<r.clst>>
              /\ r.obj \in ObjRec /\ r.obj.sclust = p.sclust /\ r.obj.objsize = p.objsize
              /\ Knows(NewObj(r.obj, chain[f], r.clst), Append(chain[f], r.clst), r.s.fat)
          BY <5>1, GivesMore
        <5> QED BY <5>2 DEF p
      <4> QED BY <4>1, <3>2
    <3> QED BY <1>5, <3>1, <3>2 DEF Stepped
  <2>2. q(r) = IF r.new THEN NewObj(r.obj, ch, r.clst) ELSE o
    <3> DEFINE p == r.obj
               c == r.clst
    <3>1. /\ p \in ObjRec /\ c \in Nat /\ i \in Nat /\ p.objsize = Len(ch) /\ i <= Len(ch)
          /\ (ch = <<>>) <=> (p.sclust = 0)
          /\ c \in Clusters
      BY <2>1, <1>4, Sizes
    <3> HIDE DEF p, c, h, ch, o, i
    <3>2. [p EXCEPT !.sclust = IF @ = 0 THEN c ELSE @, !.objsize = Larger(@, i + 1)]
             = IF i = Len(ch) THEN NewObj(p, ch, c) ELSE p
      BY <3>1, <1>3, WrittenIs
    <3>3. q(r) = [p EXCEPT !.sclust = IF @ = 0 THEN c ELSE @, !.objsize = Larger(@, i + 1)]
      BY DEF p, c, i, h, q
    <3> QED BY <3>2, <3>3, <2>1 DEF p, c
  <2> HIDE DEF q
  <2>3. Left(f, g, Given(r), TRUE)
    <3>1. r.clst # 1 /\ r.clst # 0
      BY <2>1, Sizes
    <3>2. Good
      BY <1>2, <3>1
    <3> QED BY <3>2 DEF Good
  <2>4. Moved(f, r, g)
    <3>1. /\ DOMAIN g = Fields /\ g.open /\ g.home = handle[f].home
          /\ g.fptr = handle[f].fptr + 1 /\ g.clust = r.clst /\ g.obj = q(r) /\ g.modified
      BY <1>1, <1>4 DEF Fields
    <3> HIDE DEF g
    <3> QED BY <3>1, <2>2 DEF Moved
  <2> HIDE DEF g, h, ch
  <2>5. /\ Gives(f, r.s, chain[f] \o Given(r))
        /\ StillOpen(g, handle[f], chain[f] \o Given(r), chain[f], r.s.fat, fat)
    BY <1>1, <1>5, <1>8, <2>4, MovesOn DEF h
  <2> DEFINE s == r.s
             new == Given(r)
  <2>6. /\ Becomes(s) /\ Left(f, g, new, TRUE) /\ Gives(f, s, chain[f] \o new)
        /\ StillOpen(g, handle[f], chain[f] \o new, chain[f], s.fat, fat)
    BY <1>2, <2>3, <2>5
  <2>7. handle[f].open /\ SeekGoesOn(f, g)
    BY <1>1, <1>6 DEF h
  <2> HIDE DEF s, new
  <2> QED BY <2>6, <2>7, LeftGoesOn
<1> QED BY <1>7, <1>8

(* f_lseek writes down the last fragment.                                  *)
Filled(f) == fill_last_frag(volume, handle[f].obj, handle[f].clust, EOC)
FilledOf(f) ==
    /\ Sound(Filled(f).s) /\ Filled(f).s.bits = bits
    /\ \A c \in Clusters \ Members(chain[f]) : Filled(f).s.fat[c] = fat[c]
    /\ Knows(Filled(f).obj, chain[f], Filled(f).s.fat)
    /\ Filled(f).obj.n_frag = 0 /\ Filled(f).obj.sclust = handle[f].obj.sclust
    /\ handle[f].modified \/ Filled(f) = [s |-> volume, obj |-> handle[f].obj]
    /\ chain[f] = <<>> => Filled(f) = [s |-> volume, obj |-> handle[f].obj]
LEMMA FilledIs ==
    ASSUME IInv, NEW f \in Files, handle[f].open
    PROVE  FilledOf(f)
<1> DEFINE h == handle[f]
           ch == chain[f]
           o == h.obj
           l == h.clust
<1>1. /\ HandleOK(h, ch, fat) /\ Knows(o, ch, fat)
      /\ ch \in Seq(Clusters) /\ Distinct(ch)
  BY FileIs
<1>2. /\ volume \in Volumes /\ Sound(volume) /\ volume.fat = fat /\ volume.bits = bits
      /\ Knows(o, ch, volume.fat)
  BY <1>1, StateIs, VolumeIs
<1>3. o.n_frag # 0 => l = ch[Len(ch)] /\ h.modified /\ ch # <<>>
  <2>1. /\ o.n_frag # 0 => h.fptr = Len(ch) /\ h.modified
        /\ h.fptr > 0 => l = ch[h.fptr]
    BY <1>1 DEF HandleOK
  <2>2. o.n_frag \in Nat /\ o.n_frag <= Len(ch) /\ Len(ch) \in Nat
    <3>1. o.n_frag <= Len(ch)
      BY <1>1 DEF Knows
    <3> HIDE DEF o, ch
    <3> QED BY <3>1, <1>1, KnownParts
  <2>3. ch = <<>> => Len(ch) = 0
    BY <1>1
  <2> HIDE DEF o, l
  <2> QED BY <2>1, <2>2, <2>3
<1> HIDE DEF h, ch, o, l
<1> DEFINE r == fill_last_frag(volume, o, l, EOC)
<1>4. /\ Wrote(Members(ch), volume, r.s) /\ Knows(r.obj, ch, r.s.fat)
      /\ r.obj.n_frag = 0 /\ r.obj.stat = o.stat /\ r.obj.sclust = o.sclust
      /\ r.obj.n_cont = o.n_cont /\ r.obj.objsize = o.objsize
      /\ o.n_frag = 0 => r.obj = o
  <2>1. /\ volume \in Volumes /\ ch \in Seq(Clusters) /\ Distinct(ch)
        /\ Knows(o, ch, volume.fat) /\ (o.n_frag # 0 => l = ch[Len(ch)])
    BY <1>1, <1>2, <1>3
  <2> QED BY ONLY <2>1, LastFilled
<1>5. o.n_frag = 0 => r = [s |-> volume, obj |-> o]
  BY DEF fill_last_frag
<1>6. r = Filled(f)
  BY DEF Filled, o, l, h
<1> HIDE DEF r
<1>7. Sound(r.s) /\ r.s.bits = bits /\ \A c \in Clusters \ Members(ch) : r.s.fat[c] = fat[c]
  BY <1>2, <1>4 DEF Wrote, Sound, Exact
<1>8. /\ h.modified \/ r = [s |-> volume, obj |-> o]
      /\ ch = <<>> => r = [s |-> volume, obj |-> o]
  BY <1>3, <1>5
<1> QED BY <1>4, <1>6, <1>7, <1>8 DEF FilledOf, h, o, ch

(* The handle g is as f_lseek leaves it somewhere in the chain.            *)
Within(f, g) ==
    /\ DOMAIN g = Fields /\ g.open /\ g.home = handle[f].home
    /\ g.obj = Filled(f).obj /\ g.fptr \in 0 .. Len(chain[f])
    /\ g.fptr > 0 => g.clust = chain[f][g.fptr]
    /\ handle[f].modified => g.modified
LEMMA WithinIsOpen ==
    ASSUME IInv, NEW f \in Files, handle[f].open, NEW g, Within(f, g)
    PROVE  /\ Gives(f, Filled(f).s, chain[f] \o <<>>)
           /\ StillOpen(g, handle[f], chain[f] \o <<>>, chain[f], Filled(f).s.fat, fat)
<1> DEFINE h == handle[f]
           ch == chain[f]
           r == Filled(f)
<1>1. /\ f \in Objects /\ ch \in Seq(Clusters)
  BY FileIs
<1>2. ch \o <<>> = ch /\ volume.fat = fat
  BY <1>1, JoinIs, VolumeIs
<1>3. /\ Sound(r.s) /\ r.s.bits = bits /\ Knows(r.obj, ch, r.s.fat) /\ r.obj.n_frag = 0
      /\ \A c \in Clusters \ Members(ch) : r.s.fat[c] = fat[c]
      /\ h.modified \/ r.s.fat = fat
  BY <1>2, FilledIs DEF FilledOf
<1> DEFINE s == r.s
<1>4. Gives(f, s, ch)
  <2>1. Sound(s) /\ s.bits = bits /\ \A c \in Clusters \ Members(chain[f]) : s.fat[c] = fat[c]
    BY <1>3
  <2> HIDE DEF s
  <2> QED BY <1>1, <2>1, GivesSame
<1>5. /\ DOMAIN g = Fields /\ g.open /\ g.home = h.home
      /\ g.obj = r.obj /\ g.fptr \in 0 .. Len(ch)
      /\ g.fptr > 0 => g.clust = ch[g.fptr]
      /\ h.modified => g.modified
  BY DEF Within
<1> HIDE DEF h, ch, r
<1>6. HandleOK(g, ch, s.fat)
  BY <1>3, <1>5 DEF HandleOK
<1>7. StillOpen(g, h, ch, ch, s.fat, fat)
  BY <1>3, <1>5, <1>6 DEF StillOpen
<1> QED BY <1>2, <1>4, <1>7 DEF h, ch, r

LEMMA SizedIs ==
    ASSUME NEW x, DOMAIN x = Fields, x.obj \in ObjRec, x.fptr \in Nat
    PROVE  LET y == Sized(x)
           IN /\ DOMAIN y = Fields /\ y.fptr = x.fptr /\ y.clust = x.clust
              /\ y.home = x.home /\ (x.open => y.open) /\ (x.modified => y.modified)
              /\ x.fptr <= x.obj.objsize => y = x
              /\ ~(x.fptr <= x.obj.objsize) => /\ y.modified
                                               /\ y.obj = [x.obj EXCEPT !.objsize = x.fptr]
<1> DEFINE y == [x EXCEPT !.obj.objsize = x.fptr, !.modified = TRUE]
<1>1. /\ DOMAIN y = Fields /\ y.fptr = x.fptr /\ y.clust = x.clust
      /\ y.home = x.home /\ (x.open => y.open) /\ y.modified
      /\ y.obj = [x.obj EXCEPT !.objsize = x.fptr]
  BY DEF Fields
<1>2. Sized(x) = IF x.fptr <= x.obj.objsize THEN x ELSE y
  BY DEF Sized
<1> HIDE DEF y
<1> QED BY <1>1, <1>2

(* A new cluster raises the size by one.                                   *)
LEMMA RaisedIs ==
    ASSUME NEW p \in ObjRec, NEW c \in Clusters, NEW ch \in Seq(Clusters),
           (ch = <<>>) => p.sclust = c \/ p.sclust = 0, NEW m, m = Len(ch) + 1
    PROVE  /\ ch # <<>> => [p EXCEPT !.objsize = m] = NewObj(p, ch, c)
           /\ ch = <<>> => [[p EXCEPT !.sclust = c] EXCEPT !.objsize = m] = NewObj(p, ch, c)
<1> DEFINE x == [p EXCEPT !.objsize = m]
           y == [[p EXCEPT !.sclust = c] EXCEPT !.objsize = m]
           q == NewObj(p, ch, c)
<1>1. m \in Nat /\ c \in Nat
  BY Sizes
<1>2. /\ x \in ObjRec /\ x.objsize = m
      /\ x.sclust = p.sclust /\ x.stat = p.stat /\ x.n_cont = p.n_cont /\ x.n_frag = p.n_frag
  BY <1>1 DEF ObjRec
<1>3. /\ y \in ObjRec /\ y.objsize = m
      /\ y.sclust = c /\ y.stat = p.stat /\ y.n_cont = p.n_cont /\ y.n_frag = p.n_frag
  BY <1>1 DEF ObjRec
<1>4. /\ q \in ObjRec /\ q.objsize = m /\ q.sclust = IF ch = <<>> THEN c ELSE p.sclust
      /\ q.stat = p.stat /\ q.n_cont = p.n_cont /\ q.n_frag = p.n_frag
  BY NewObjIs
<1> HIDE DEF x, y, q
<1>5. ch # <<>> => x = q
  BY <1>2, <1>4 DEF ObjRec
<1>6. ch = <<>> => y = q
  BY <1>3, <1>4 DEF ObjRec
<1> QED BY <1>5, <1>6 DEF x, y, q

(* A handle that moves on and has its size raised.                         *)
LEMMA RaisedMoves ==
    ASSUME IInv, NEW f \in Files, handle[f].open, NEW r, Stepped(f, r), r.clst # 0,
           NEW x, DOMAIN x = Fields, x.open, x.home = handle[f].home,
           x.fptr = handle[f].fptr + 1, x.clust = r.clst,
           handle[f].modified => x.modified,
           \/ chain[f] # <<>> /\ x.obj = r.obj
           \/ chain[f] = <<>> /\ x.obj = [r.obj EXCEPT !.sclust = r.clst]
    PROVE  Moved(f, r, Sized(x)) /\ r.clst \in Clusters /\ Sized(x).fptr = x.fptr
<1> DEFINE h == handle[f]
           o == handle[f].obj
           ch == chain[f]
           i == handle[f].fptr
           c == r.clst
           p == r.obj
<1>1. /\ HandleOK(h, ch, fat) /\ Knows(o, ch, fat) /\ f \in Objects /\ ch \in Seq(Clusters)
  BY FileIs
<1>2. i \in 0 .. Len(ch)
  BY <1>1 DEF HandleOK
<1>3. o.objsize = Len(ch) /\ o \in ObjRec
  BY <1>1 DEF Knows
<1>4. /\ Len(ch) \in Nat /\ \A k \in 1 .. Len(ch) : ch[k] \in Clusters
      /\ (ch = <<>>) <=> (Len(ch) = 0)
      /\ (ch = <<>>) <=> (o.sclust = 0)
  <2> HIDE DEF h, o, ch
  <2> QED BY <1>1, KnownParts
<1>5. /\ x.fptr = i + 1 /\ x.clust = c /\ (h.modified => x.modified)
      /\ \/ ch # <<>> /\ x.obj = p
         \/ ch = <<>> /\ x.obj = [p EXCEPT !.sclust = c]
      /\ x.home = h.home
  OBVIOUS
<1>6. CASE r = [s |-> volume, obj |-> o, clst |-> ch[i + 1], new |-> FALSE] /\ i < Len(ch)
  <2>1. r.new = FALSE /\ p = o /\ c = ch[i + 1] /\ i + 1 \in 1 .. Len(ch) /\ ch # <<>>
    BY <1>2, <1>4, <1>6
  <2>2. c \in Clusters /\ x.obj = o /\ x.fptr <= x.obj.objsize /\ x.fptr \in Nat /\ x.obj \in ObjRec
    BY <2>1, <1>2, <1>3, <1>4, <1>5
  <2>3. Sized(x) = x
    BY <2>2, SizedIs
  <2> HIDE DEF h, o, ch, i
  <2>4. Moved(f, r, x)
    BY <2>1, <2>2, <1>5 DEF Moved, h, o, ch, i, c
  <2> QED BY <2>2, <2>3, <2>4 DEF c
<1>7. CASE i = Len(ch) /\ Extended(volume, o, ch, r)
  <2>1. /\ Gives(f, r.s, Append(chain[f], r.clst)) /\ r.clst \in Clusters
        /\ chain[f] \o <<r.clst>> = Append(chain[f], r.clst)
        /\ Len(Append(chain[f], r.clst)) = Len(chain[f]) + 1
        /\ r.new = TRUE /\ Given(r) = <<r.clst>>
        /\ r.obj \in ObjRec /\ r.obj.sclust = o.sclust /\ r.obj.objsize = o.objsize
        /\ Knows(NewObj(r.obj, chain[f], r.clst), Append(chain[f], r.clst), r.s.fat)
    <3>1. f \in Objects /\ Extended(volume, o, chain[f], r) /\ r.clst # 0
      BY <1>1, <1>7
    <3> HIDE DEF o, i, h
    <3> QED BY <3>1, GivesMore
  <2>2. c \in Clusters /\ r.new = TRUE /\ p \in ObjRec /\ p.sclust = o.sclust /\ p.objsize = Len(ch)
    BY <2>1, <1>3
  <2>3. /\ x.obj \in ObjRec /\ x.obj.objsize = Len(ch) /\ x.fptr = Len(ch) + 1
    <3>1. CASE ch # <<>>
      BY <3>1, <2>2, <1>5, <1>7
    <3>2. CASE ch = <<>>
      <4>1. x.obj = [p EXCEPT !.sclust = c] /\ c \in Nat
        BY <3>2, <1>5, <2>2, Sizes
      <4> HIDE DEF p, c, ch, o
      <4>2. [p EXCEPT !.sclust = c] \in ObjRec /\ [p EXCEPT !.sclust = c].objsize = p.objsize
        BY <4>1, <2>2 DEF ObjRec
      <4> QED BY <4>1, <4>2, <2>2, <1>5, <1>7
    <3> QED BY <3>1, <3>2
  <2> DEFINE y == Sized(x)
             m == x.fptr
  <2>4. /\ DOMAIN y = Fields /\ y.fptr = m /\ y.clust = c
        /\ y.home = h.home /\ y.open /\ y.modified
        /\ y.obj = [x.obj EXCEPT !.objsize = m]
    <3>1. ~(x.fptr <= x.obj.objsize) /\ x.fptr \in Nat
      BY <2>3, <1>4
    <3> QED BY <3>1, <2>3, <1>5, SizedIs
  <2>5. y.obj = NewObj(p, ch, c)
    <3>0. m = Len(ch) + 1
      BY <2>3
    <3> HIDE DEF y, p, c, ch, o, m
    <3>1. /\ ch = <<>> => p.sclust = c \/ p.sclust = 0
          /\ m = Len(ch) + 1
      <4>1. ch = <<>> => o.sclust = 0
        BY <1>4
      <4> QED BY <4>1, <3>0, <2>2
    <3> HIDE DEF m
    <3>2. /\ ch # <<>> => [p EXCEPT !.objsize = m] = NewObj(p, ch, c)
          /\ ch = <<>> => [[p EXCEPT !.sclust = c] EXCEPT !.objsize = m] = NewObj(p, ch, c)
      BY <3>1, <2>2, <1>1, RaisedIs, ZenonT(60)
    <3> QED BY <3>2, <2>4, <1>5
  <2> HIDE DEF y, m, h, o, ch, i
  <2>6. m = i + 1
    BY <1>5 DEF m
  <2>7. Moved(f, r, y)
    BY <2>2, <2>4, <2>5, <2>6 DEF Moved, h, i, c, p, ch
  <2> QED BY <2>2, <2>4, <2>7 DEF y, m, c
<1> QED BY <1>6, <1>7 DEF Stepped

LEMMA TurnKeeps ==
    ASSUME IInv, NEW f \in Files, LseekTurn(f)
    PROVE  IInv'
<1> DEFINE h == handle[f]
           r == create_chain(volume, h.obj, h.clust)
           x == [h EXCEPT !.obj = r.obj, !.clust = r.clst, !.fptr = @ + 1]
<1> DEFINE Bad == Left(f, h, <<>>, r.clst = 0) /\ seek' = [seek EXCEPT ![f] = 0]
           Good == Left(f, Sized(x), Given(r), TRUE) /\ seek' = [seek EXCEPT ![f] = @ - 1]
<1>1. seek[f] > 0 /\ Becomes(r.s) /\ IF r.clst < 2 THEN Bad ELSE Good
  BY DEF LseekTurn
<1>2. h.open /\ h.fptr > 0 /\ seek \in [Files -> Nat]
  BY <1>1 DEF IInv
<1>3. /\ HandleOK(h, chain[f], fat) /\ chain[f] \in Seq(Clusters)
  BY <1>2, FileIs
<1>4. DOMAIN h = Fields /\ h.fptr \in Nat /\ h.fptr # 0 /\ Len(chain[f]) \in Nat
      /\ h.fptr <= Len(chain[f])
  BY <1>2, <1>3 DEF HandleOK
<1>5. chain[f] # <<>>
  BY <1>4
<1>6. Stepped(f, r)
  <2>1. Stepped(f, create_chain(volume, handle[f].obj,
                                IF handle[f].fptr = 0 THEN 0 ELSE handle[f].clust))
    BY <1>2, <1>4, StepIs
  <2> QED BY <2>1, <1>4
<1> HIDE DEF r, Bad, Good
<1>7. CASE r.clst = 0
  <2>1. r.s = volume
    <3>1. handle[f].fptr < Len(chain[f]) => chain[f][handle[f].fptr + 1] # 0
      <4>1. handle[f].fptr < Len(chain[f]) => handle[f].fptr + 1 \in 1 .. Len(chain[f])
        BY <1>4
      <4> QED BY <4>1, <1>3, Sizes
    <3>2. Extended(volume, handle[f].obj, chain[f], r) \/ r.clst # 0
      BY <3>1, <1>6 DEF Stepped
    <3> QED BY <3>2, <1>7, Sizes DEF Extended
  <2>2. Left(f, h, <<>>, TRUE) /\ seek' = [seek EXCEPT ![f] = 0] /\ Becomes(volume)
    <3>1. Bad
      BY <1>1, <1>7
    <3> HIDE DEF h
    <3>2. Left(f, h, <<>>, TRUE)
      BY <3>1, <1>7 DEF Bad, Left, Ends
    <3> QED BY <3>1, <3>2, <2>1, <1>1 DEF Bad
  <2>3. SeekGoesOn(f, h)
    BY <2>2, <1>2 DEF SeekGoesOn
  <2> DEFINE new == <<>>
  <2>4. Left(f, h, new, TRUE) /\ Gives(f, volume, chain[f] \o new)
        /\ StillOpen(h, handle[f], chain[f] \o new, chain[f], volume.fat, fat)
    <3>1. /\ DOMAIN h = Fields /\ h.open /\ h.home = handle[f].home /\ h.obj = handle[f].obj
          /\ h.fptr = handle[f].fptr /\ (h.fptr > 0 => h.clust = handle[f].clust)
          /\ (handle[f].modified => h.modified)
      BY <1>2, <1>4
    <3>2. handle[f].open
      BY <1>2
    <3> HIDE DEF h
    <3> QED BY <2>2, <3>1, <3>2, StaysOpen
  <2>5. handle[f].open
    BY <1>2
  <2> HIDE DEF new, h
  <2> QED BY <2>2, <2>3, <2>4, <2>5, LeftGoesOn
<1>8. CASE r.clst # 0
  <2> DEFINE g == Sized(x)
             s == r.s
             new == Given(r)
  <2>1. /\ handle[f].open
        /\ DOMAIN x = Fields /\ x.open /\ x.home = handle[f].home
        /\ x.fptr = handle[f].fptr + 1 /\ x.clust = r.clst
        /\ (handle[f].modified => x.modified)
        /\ chain[f] # <<>> /\ x.obj = r.obj
    BY <1>2, <1>4, <1>5 DEF Fields
  <2> HIDE DEF x, h
  <2>2. Moved(f, r, g) /\ r.clst \in Clusters /\ g.fptr = x.fptr
    BY <2>1, <1>6, <1>8, RaisedMoves
  <2> HIDE DEF g
  <2>3. Gives(f, s, chain[f] \o new)
        /\ StillOpen(g, handle[f], chain[f] \o new, chain[f], s.fat, fat)
    BY <2>1, <2>2, <1>6, <1>8, MovesOn
  <2>4. Left(f, g, new, TRUE) /\ seek' = [seek EXCEPT ![f] = @ - 1] /\ Becomes(s)
    <3>1. ~(r.clst < 2)
      BY <2>2, Sizes
    <3> QED BY <3>1, <1>1 DEF Good, g
  <2>5. SeekGoesOn(f, g)
    <3>1. seek[f] - 1 \in Nat /\ g.fptr > 0
      BY <1>1, <1>2, <1>4, <2>1, <2>2 DEF h
    <3> QED BY <3>1, <2>4, <1>2 DEF SeekGoesOn
  <2> HIDE DEF s, new
  <2> QED BY <2>1, <2>3, <2>4, <2>5, LeftGoesOn
<1> QED BY <1>7, <1>8

(* f_lseek at its end: a handle somewhere in the chain, nothing allocated. *)
LEMMA WithinGoesOn ==
    ASSUME IInv, NEW f \in Files, handle[f].open, NEW g, Within(f, g),
           Becomes(Filled(f).s), Left(f, g, <<>>, TRUE), SeekGoesOn(f, g)
    PROVE  IInv'
<1> DEFINE s == Filled(f).s
           new == <<>>
<1>1. Gives(f, s, chain[f] \o new)
      /\ StillOpen(g, handle[f], chain[f] \o new, chain[f], s.fat, fat)
  BY WithinIsOpen
<1>2. Becomes(s) /\ Left(f, g, new, TRUE)
  OBVIOUS
<1> HIDE DEF s, new
<1> QED BY <1>1, <1>2, LeftGoesOn

LEMMA LseekKeeps ==
    ASSUME IInv, Idle, NEW f \in Files, NEW ofs \in Nat, f_lseek(f, ofs)
    PROVE  IInv'
<1> DEFINE h == handle[f]
           ch == chain[f]
           fl == Filled(f)
           k == [h EXCEPT !.obj = fl.obj]
           st == Started(fl.s, k, ofs)
           z == [h EXCEPT !.obj = fl.obj, !.fptr = 0, !.clust = 0]
           Zero == Becomes(fl.s) /\ Left(f, z, <<>>, TRUE) /\ seek' = seek
           Far == /\ Becomes(st.s) /\ Left(f, Sized(st.h), st.new, TRUE)
                  /\ seek' = [seek EXCEPT ![f] = IF st.clst = 0 THEN 0 ELSE ofs - st.h.fptr]
<1>1. h.open /\ IF ofs = 0 THEN Zero ELSE Far
  BY DEF f_lseek, IsOpen, Filled
<1>2. handle[f].open /\ HandleOK(h, ch, fat) /\ Knows(h.obj, ch, fat) /\ ch \in Seq(Clusters)
  BY <1>1, FileIs
<1>3. /\ DOMAIN h = Fields /\ h.fptr \in 0 .. Len(ch) /\ (h.fptr > 0 => h.clust = ch[h.fptr])
      /\ seek \in [Files -> Nat] /\ seek[f] = 0 /\ Len(ch) \in Nat
      /\ (ch = <<>>) <=> (Len(ch) = 0)
      /\ \A i \in 1 .. Len(ch) : ch[i] \in Clusters /\ ch[i] \in Nat /\ ch[i] # 0
  BY <1>2, Sizes DEF HandleOK, IInv, Idle
<1>4. /\ Knows(fl.obj, ch, fl.s.fat) /\ fl.obj.sclust = h.obj.sclust
      /\ ch = <<>> => fl = [s |-> volume, obj |-> h.obj]
      /\ fl.obj \in ObjRec /\ fl.obj.objsize = Len(ch)
      /\ ch = <<>> => fl.obj.sclust = 0
      /\ ch # <<>> => fl.obj.sclust = ch[1] /\ fl.obj.sclust # 0
  <2>1. /\ Knows(fl.obj, ch, fl.s.fat) /\ fl.obj.sclust = h.obj.sclust
        /\ ch = <<>> => fl = [s |-> volume, obj |-> h.obj]
    BY <1>2, FilledIs DEF FilledOf
  <2> HIDE DEF fl, h, ch
  <2>2. fl.obj \in ObjRec /\ fl.obj.objsize = Len(ch) /\ (ch = <<>> => fl.obj.sclust = 0)
        /\ (ch # <<>> => fl.obj.sclust = ch[1])
    BY <2>1 DEF Knows
  <2>3. ch # <<>> => ch[1] # 0
    BY <1>3
  <2> QED BY <2>1, <2>2, <2>3
<1>5. /\ DOMAIN k = Fields /\ k.obj = fl.obj /\ k.fptr = h.fptr /\ k.clust = h.clust /\ k.open
      /\ k.home = h.home /\ (h.modified => k.modified)
  BY <1>1, <1>3 DEF Fields
<1>6. CASE ofs = 0
  <2>1. /\ DOMAIN z = Fields /\ z.open /\ z.home = handle[f].home
        /\ z.obj = fl.obj /\ z.fptr = 0
        /\ (handle[f].modified => z.modified)
    BY <1>1, <1>3 DEF Fields
  <2>2. Becomes(fl.s) /\ Left(f, z, <<>>, TRUE) /\ seek' = seek
    BY <1>1, <1>6
  <2> HIDE DEF z, fl
  <2>3. Within(f, z)
    BY <2>1, <1>3 DEF Within, fl
  <2>4. SeekGoesOn(f, z)
    BY <2>2, <1>3 DEF SeekGoesOn
  <2> QED BY <1>2, <2>2, <2>3, <2>4, WithinGoesOn DEF fl
<1>7. CASE ofs # 0 /\ k.fptr > 0 /\ ofs >= k.fptr
  <2>1. st = [s |-> fl.s, clst |-> k.clust, new |-> <<>>, h |-> k]
    BY <1>7 DEF Started
  <2>2. Far
    BY <1>1, <1>7
  <2>3. Sized(k) = k
    <3>1. k.fptr <= k.obj.objsize /\ k.fptr \in Nat /\ k.obj \in ObjRec /\ DOMAIN k = Fields
      BY <1>3, <1>4, <1>5
    <3> HIDE DEF k
    <3> QED BY <3>1, SizedIs
  <2> HIDE DEF k, fl, st
  <2>4. /\ Becomes(fl.s) /\ Left(f, k, <<>>, TRUE)
        /\ seek' = [seek EXCEPT ![f] = IF k.clust = 0 THEN 0 ELSE ofs - k.fptr]
    BY <2>1, <2>2, <2>3
  <2>5. Within(f, k)
    BY <1>2, <1>3, <1>5 DEF Within, fl
  <2>6. SeekGoesOn(f, k)
    <3>1. ofs - k.fptr \in Nat /\ k.fptr > 0
      BY <1>3, <1>5, <1>7
    <3> QED BY <2>4, <3>1, <1>3 DEF SeekGoesOn
  <2> QED BY <1>2, <2>4, <2>5, <2>6, WithinGoesOn DEF fl
<1> DEFINE r == IF k.obj.sclust = 0 THEN create_chain(fl.s, k.obj, 0)
                ELSE [s |-> fl.s, obj |-> k.obj, clst |-> k.obj.sclust, new |-> FALSE]
           x == [k EXCEPT !.obj = [r.obj EXCEPT !.sclust = r.clst],
                          !.clust = r.clst, !.fptr = IF r.clst = 0 THEN 0 ELSE 1]
<1>8. ASSUME ofs # 0, ~(k.fptr > 0 /\ ofs >= k.fptr)
      PROVE  /\ st = [s |-> r.s, clst |-> r.clst, new |-> Given(r), h |-> x]
             /\ Becomes(r.s) /\ Left(f, Sized(x), Given(r), TRUE)
             /\ seek' = [seek EXCEPT ![f] = IF r.clst = 0 THEN 0 ELSE ofs - x.fptr]
  <2>1. st = [s |-> r.s, clst |-> r.clst, new |-> Given(r), h |-> x]
    <3> HIDE DEF k, fl
    <3> QED BY <1>8 DEF Started
  <2>2. Far
    BY <1>1, <1>8
  <2> HIDE DEF st, r, x
  <2> QED BY <2>1, <2>2
<1>9. CASE ofs # 0 /\ ~(k.fptr > 0 /\ ofs >= k.fptr) /\ ch # <<>>
  <2>1. r = [s |-> fl.s, obj |-> fl.obj, clst |-> ch[1], new |-> FALSE]
    BY <1>9, <1>4, <1>5
  <2> HIDE DEF r, fl, k
  <2>2. r.s = fl.s /\ r.obj = fl.obj /\ r.clst = ch[1] /\ r.clst # 0 /\ Given(r) = <<>>
        /\ 1 \in 1 .. Len(ch)
    BY <2>1, <1>3, <1>9 DEF Given
  <2>3. [fl.obj EXCEPT !.sclust = ch[1]] = fl.obj
    BY <1>4, <1>9 DEF ObjRec
  <2>4. /\ DOMAIN x = Fields /\ x.open /\ x.home = h.home /\ x.obj = fl.obj /\ x.fptr = 1
        /\ x.clust = ch[1] /\ (h.modified => x.modified)
    BY <2>2, <2>3, <1>5 DEF Fields
  <2> HIDE DEF x
  <2>5. Sized(x) = x
    <3>1. x.fptr <= x.obj.objsize /\ x.fptr \in Nat /\ x.obj \in ObjRec
      BY <1>3, <1>4, <2>2, <2>4
    <3> QED BY <3>1, <2>4, SizedIs
  <2>6. /\ Becomes(fl.s) /\ Left(f, x, <<>>, TRUE)
        /\ seek' = [seek EXCEPT ![f] = ofs - 1]
    BY <1>8, <1>9, <2>2, <2>4, <2>5
  <2>7. Within(f, x)
    BY <2>2, <2>4 DEF Within, fl
  <2>8. SeekGoesOn(f, x)
    <3>1. ofs - 1 \in Nat
      BY <1>9
    <3> QED BY <2>4, <2>6, <3>1, <1>3 DEF SeekGoesOn
  <2> QED BY <1>2, <2>6, <2>7, <2>8, WithinGoesOn DEF fl
<1>10. CASE ofs # 0 /\ ~(k.fptr > 0 /\ ofs >= k.fptr) /\ ch = <<>>
  <2>1. /\ fl.s = volume /\ fl.obj = h.obj /\ h.obj.sclust = 0 /\ h.fptr = 0
        /\ h.obj \in ObjRec /\ h.obj.objsize = 0
    BY <1>3, <1>4, <1>10
  <2>2. r = create_chain(volume, h.obj, 0)
    BY <2>1, <1>5
  <2>3. Stepped(f, r)
    <3> HIDE DEF r
    <3>1. Stepped(f, create_chain(volume, handle[f].obj,
                                  IF handle[f].fptr = 0 THEN 0 ELSE handle[f].clust))
      BY <1>2, <2>1, StepIs
    <3> QED BY <3>1, <2>1, <2>2
  <2> HIDE DEF r, fl, k, st
  <2>4. /\ Becomes(r.s) /\ Left(f, Sized(x), Given(r), TRUE)
        /\ seek' = [seek EXCEPT ![f] = IF r.clst = 0 THEN 0 ELSE ofs - x.fptr]
    BY <1>8, <1>10
  <2>5. /\ DOMAIN x = Fields /\ x.open /\ x.home = h.home
        /\ x.obj = [r.obj EXCEPT !.sclust = r.clst] /\ x.clust = r.clst
        /\ x.fptr = (IF r.clst = 0 THEN 0 ELSE 1) /\ (h.modified => x.modified)
    BY <1>5 DEF Fields
  <2> HIDE DEF x
  <2>6. CASE r.clst = 0
    <3>1. r = [s |-> volume, obj |-> h.obj, clst |-> 0, new |-> FALSE]
      <4>1. ~(handle[f].fptr < Len(chain[f]))
        BY <2>1, <1>3, <1>10
      <4>2. Extended(volume, h.obj, chain[f], r)
        BY <4>1, <2>3 DEF Stepped
      <4> QED BY <4>2, <2>6, Sizes DEF Extended
    <3>2. x.obj = h.obj
      <4>1. x.obj = [h.obj EXCEPT !.sclust = 0]
        BY <3>1, <2>5
      <4> QED BY <4>1, <2>1 DEF ObjRec
    <3>3. Sized(x) = x
      <4>1. x.fptr <= x.obj.objsize /\ x.fptr \in Nat /\ x.obj \in ObjRec
        BY <3>2, <2>1, <2>5, <2>6
      <4> QED BY <4>1, <2>5, SizedIs
    <3>4. Becomes(fl.s) /\ Left(f, x, <<>>, TRUE) /\ seek' = [seek EXCEPT ![f] = 0]
      BY <2>1, <2>4, <2>6, <3>1, <3>3 DEF Given
    <3>5. Within(f, x)
      BY <2>1, <2>5, <2>6, <3>2, <1>3 DEF Within, fl
    <3>6. SeekGoesOn(f, x)
      BY <3>4, <1>3 DEF SeekGoesOn
    <3> QED BY <1>2, <3>4, <3>5, <3>6, WithinGoesOn DEF fl
  <2>7. CASE r.clst # 0
    <3> DEFINE g == Sized(x)
               s == r.s
               new == Given(r)
    <3>1. Moved(f, r, g) /\ r.clst \in Clusters /\ g.fptr = x.fptr
      <4>1. /\ handle[f].open
            /\ DOMAIN x = Fields /\ x.open /\ x.home = handle[f].home
            /\ x.fptr = handle[f].fptr + 1 /\ x.clust = r.clst
            /\ (handle[f].modified => x.modified)
            /\ chain[f] = <<>> /\ x.obj = [r.obj EXCEPT !.sclust = r.clst]
        BY <1>2, <2>1, <2>5, <2>7, <1>10
      <4> HIDE DEF h, ch
      <4> QED BY <4>1, <2>3, <2>7, RaisedMoves
    <3> HIDE DEF g
    <3>2. Gives(f, s, chain[f] \o new)
          /\ StillOpen(g, handle[f], chain[f] \o new, chain[f], s.fat, fat)
      BY <1>2, <2>3, <2>7, <3>1, MovesOn
    <3>3. Left(f, g, new, TRUE) /\ seek' = [seek EXCEPT ![f] = ofs - 1] /\ Becomes(s)
      BY <2>4, <2>5, <2>7 DEF g
    <3>4. SeekGoesOn(f, g)
      <4>1. ofs - 1 \in Nat /\ g.fptr > 0
        BY <1>10, <2>5, <2>7, <3>1
      <4> QED BY <4>1, <3>3, <1>3 DEF SeekGoesOn
    <3> HIDE DEF s, new
    <3> QED BY <1>2, <3>2, <3>3, <3>4, LeftGoesOn
  <2> QED BY <2>6, <2>7
<1> QED BY <1>6, <1>7, <1>9, <1>10

LEMMA TruncateKeeps ==
    ASSUME IInv, Idle, seek' = seek, NEW f \in Files, f_truncate(f)
    PROVE  IInv'
<1> DEFINE h == handle[f]
           ch == chain[f]
           o == handle[f].obj
           i == handle[f].fptr
           ncl == get_fat(volume, o, h.clust)
           r == IF i # 0 /\ ncl >= NFatEnt THEN [s |-> volume, obj |-> o, ok |-> TRUE]
                ELSE remove_chain(volume, o, IF i = 0 THEN o.sclust ELSE ncl,
                                  IF i = 0 THEN 0 ELSE h.clust)
           a == SubSeq(ch, 1, i)
           g == [h EXCEPT !.obj = ShortObj(r.obj, i), !.modified = TRUE]
<1>1. /\ h.open /\ i < o.objsize
      /\ Becomes(r.s)
      /\ handle' = [handle EXCEPT ![f].obj = ShortObj(r.obj, i), ![f].modified = TRUE]
      /\ chain' = [chain EXCEPT ![f] = a]
      /\ Ends(r.ok) /\ entry' = entry /\ place' = place /\ lost' = lost
  BY ZenonT(60) DEF f_truncate, IsOpen, ShortObj
<1>2. /\ HandleOK(h, ch, fat) /\ Knows(o, ch, fat)
      /\ ch \in Seq(Clusters) /\ Distinct(ch) /\ f \in Objects
      /\ Members(ch) \subseteq bits \ Reserved
  BY <1>1, FileIs
<1>3. /\ DOMAIN h = Fields /\ i \in 0 .. Len(ch) /\ (o.n_frag # 0 => i = Len(ch))
      /\ (i > 0 => h.clust = ch[i]) /\ o.objsize = Len(ch)
      /\ (ch # <<>> => o.sclust = ch[1])
  BY <1>2 DEF HandleOK, Knows
<1>4. /\ i \in 0 .. Len(ch) - 1 /\ o.n_frag = 0 /\ ch # <<>> /\ Len(ch) \in Nat
      /\ \A j \in 1 .. Len(ch) : ch[j] \in Clusters /\ ch[j] < NFatEnt
  <2>1. \A j \in 1 .. Len(ch) : ch[j] \in Clusters
    BY <1>2
  <2>2. i < o.objsize
    BY <1>1
  <2> HIDE DEF h, ch, o, i
  <2>3. Len(ch) \in Nat /\ (ch = <<>> => Len(ch) = 0)
    BY <1>2
  <2> QED BY <2>1, <2>2, <2>3, <1>3, Sizes
<1>5. /\ Sound(volume) /\ volume \in Volumes /\ volume.fat = fat /\ volume.bits = bits
      /\ Knows(o, ch, volume.fat) /\ failed = FALSE
  BY <1>2, StateIs, VolumeIs
<1>6. r = remove_chain(volume, o, ch[i + 1], IF i = 0 THEN 0 ELSE ch[i])
  <2>1. CASE i = 0
    BY <2>1, <1>3, <1>4
  <2>2. CASE i # 0
    <3>1. i \in 1 .. Len(ch) /\ i < Len(ch) /\ i + 1 \in 1 .. Len(ch) /\ h.clust = ch[i]
      BY <2>2, <1>3, <1>4
    <3>2. get_fat(volume, o, ch[i]) = Behind(ch, i)
      <4> HIDE DEF h, ch, o, i
      <4> QED BY <3>1, <1>2, <1>4, <1>5, GetFatOf
    <3>3. ncl = ch[i + 1] /\ ncl \in Clusters /\ ncl < NFatEnt
      BY <3>1, <3>2, <1>4 DEF Behind
    <3>4. ~(ncl >= NFatEnt)
      BY <3>3, Sizes
    <3> HIDE DEF ncl
    <3> QED BY <2>2, <3>1, <3>3, <3>4
  <2> QED BY <2>1, <2>2
<1> HIDE DEF r
<1>7. Removed(volume, o, ch, i, r)
  <2> HIDE DEF h, ch, o, i
  <2>1. Removed(volume, o, ch, i, remove_chain(volume, o, ch[i + 1], IF i = 0 THEN 0 ELSE ch[i]))
    BY <1>2, <1>4, <1>5, RemoveIs
  <2> QED BY <2>1, <1>6
<1>8. /\ r.ok = TRUE /\ Knows(ShortObj(r.obj, i), a, r.s.fat)
  BY <1>7 DEF Removed
<1> DEFINE s == r.s
<1>9. Gives(f, s, a)
  <2>1. i \in 0 .. Len(chain[f]) /\ Removed(volume, o, chain[f], i, r) /\ f \in Objects
    BY <1>2, <1>4, <1>7
  <2> HIDE DEF i, o, h, ch
  <2>2. Gives(f, r.s, SubSeq(chain[f], 1, i))
    BY <2>1, GivesLess
  <2> QED BY <2>2 DEF ch
<1>10. Len(a) = i /\ \A j \in 1 .. i : a[j] = ch[j]
  <2>1. i \in 0 .. Len(ch)
    BY <1>4
  <2> HIDE DEF ch, i
  <2> QED BY <2>1, <1>2, CutSeq
<1>11. handle' = [handle EXCEPT ![f] = g]
  BY <1>1
<1>12. /\ DOMAIN g = Fields /\ g.open /\ g.home = h.home /\ g.modified /\ g.fptr = i
       /\ g.clust = h.clust /\ g.obj = ShortObj(r.obj, i)
  BY <1>1, <1>3 DEF Fields
<1>13. failed' = FALSE
  BY <1>1, <1>5, <1>8 DEF Ends
<1> HIDE DEF g, a, s
<1>14. FileBecomes(f, s, a, g)
  <2>1. seek' \in [Files -> Nat] /\ seek'[f] = 0 /\ \A e \in Files \ {f} : seek'[e] = seek[e]
    BY IdleSeek
  <2> HIDE DEF h, ch
  <2>2. /\ Becomes(s) /\ chain' = [chain EXCEPT ![f] = a]
        /\ entry' = entry /\ place' = place /\ lost' = lost
    BY <1>1 DEF s
  <2> QED BY ONLY <2>1, <2>2, <1>9, <1>11, <1>13 DEF FileBecomes
<1>15. HandleOK(g, a, s.fat)
  <2>1. g.fptr > 0 => g.clust = a[g.fptr]
    BY <1>3, <1>4, <1>10, <1>12
  <2>2. g.fptr \in 0 .. Len(a) /\ g.fptr = Len(a)
    BY <1>4, <1>10, <1>12
  <2> QED BY <2>1, <2>2, <1>8, <1>12 DEF HandleOK, s
<1>16. StillOpen(g, handle[f], a, chain[f], s.fat, fat)
  BY <1>12, <1>15 DEF StillOpen
<1> QED BY <1>1, <1>14, <1>16, FileGoesOn

(* What f_sync and f_close write.                                          *)
SyncObj(f) ==
    LET first == fill_first_frag(volume, handle[f].obj)
    IN fill_last_frag(first.s, first.obj, handle[f].clust, EOC)
LEMMA SyncedIs ==
    ASSUME IInv, NEW f \in Files, handle[f].open
    PROVE  /\ Gives(f, SyncObj(f).s, chain[f])
           /\ Knows(SyncObj(f).obj, chain[f], SyncObj(f).s.fat)
           /\ SyncObj(f).obj.n_frag = 0
           /\ Loaded(Stored(SyncObj(f).obj)) = SyncObj(f).obj
<1> DEFINE h == handle[f]
           ch == chain[f]
           o == handle[f].obj
           l == handle[f].clust
           first == fill_first_frag(volume, o)
           u == first.s
           p == first.obj
           second == fill_last_frag(u, p, l, EOC)
<1>1. /\ HandleOK(h, ch, fat) /\ Knows(o, ch, fat) /\ f \in Objects
      /\ ch \in Seq(Clusters) /\ Distinct(ch)
  BY FileIs
<1>2. /\ volume \in Volumes /\ Sound(volume) /\ volume.fat = fat /\ volume.bits = bits
      /\ Knows(o, ch, volume.fat)
  BY <1>1, StateIs, VolumeIs
<1>3. o.n_frag # 0 => l = ch[Len(ch)]
  <2>1. /\ o.n_frag # 0 => h.fptr = Len(ch)
        /\ h.fptr > 0 => l = ch[h.fptr]
    BY <1>1 DEF HandleOK
  <2>2. o.n_frag \in Nat /\ o.n_frag <= Len(ch) /\ Len(ch) \in Nat
    <3>1. o.n_frag <= Len(ch)
      BY <1>1 DEF Knows
    <3> HIDE DEF o, ch
    <3> QED BY <3>1, <1>1, KnownParts
  <2> HIDE DEF o, l
  <2> QED BY <2>1, <2>2
<1> HIDE DEF h, ch, o, l
<1>4. /\ Wrote(Members(ch), volume, u)
      /\ Knows(p, ch, u.fat)
      /\ p.stat \in {0, 2} /\ p.n_frag = o.n_frag /\ p.sclust = o.sclust
      /\ p.n_cont = 0 /\ p.objsize = o.objsize
      /\ o.stat # 3 => p = o
  <2>1. volume \in Volumes /\ ch \in Seq(Clusters) /\ Distinct(ch) /\ Knows(o, ch, volume.fat)
    BY <1>1, <1>2
  <2> QED BY ONLY <2>1, FirstFilled
<1> HIDE DEF u, p
<1>5. /\ Wrote(Members(ch), u, second.s) /\ Knows(second.obj, ch, second.s.fat)
      /\ second.obj.n_frag = 0 /\ second.obj.stat = p.stat /\ second.obj.sclust = p.sclust
      /\ second.obj.n_cont = p.n_cont /\ second.obj.objsize = p.objsize
      /\ p.n_frag = 0 => second.obj = p
  <2>1. u \in Volumes /\ ch \in Seq(Clusters) /\ Distinct(ch) /\ Knows(p, ch, u.fat)
        /\ (p.n_frag # 0 => l = ch[Len(ch)])
    BY <1>1, <1>3, <1>4 DEF Wrote
  <2> QED BY ONLY <2>1, LastFilled
<1>6. second = SyncObj(f)
  BY DEF SyncObj, u, p, o, l
<1> DEFINE s == second.s
           q == second.obj
<1> HIDE DEF second
<1>7. Sound(s) /\ s.bits = bits /\ \A c \in Clusters \ Members(ch) : s.fat[c] = fat[c]
  BY <1>2, <1>4, <1>5 DEF Wrote, Sound, Exact
<1>8. Gives(f, s, ch)
  <2> HIDE DEF s
  <2> QED BY <1>1, <1>7, GivesSame DEF ch
<1>9. q \in ObjRec /\ q.stat \in {0, 2} /\ q.n_cont = 0 /\ q.n_frag = 0
  BY <1>4, <1>5 DEF Knows
<1>10. Loaded(Stored(q)) = q
  <2> HIDE DEF q
  <2>1. Loaded(Stored(q)) = [sclust |-> q.sclust, objsize |-> q.objsize, stat |-> q.stat,
                             n_cont |-> 0, n_frag |-> 0]
    BY <1>9 DEF Loaded, Stored
  <2> QED BY <2>1, <1>9 DEF ObjRec
<1> QED BY <1>5, <1>6, <1>8, <1>10 DEF ch

LEMMA SyncKeeps ==
    ASSUME IInv, Idle, seek' = seek, NEW f \in Files, f_sync(f)
    PROVE  IInv'
<1> DEFINE h == handle[f]
           ch == chain[f]
           s == SyncObj(f).s
           q == SyncObj(f).obj
           g == [h EXCEPT !.obj = q, !.modified = FALSE]
<1>1. /\ h.open /\ h.modified /\ Becomes(s)
      /\ entry' = [entry EXCEPT ![f] = Stored(q)]
      /\ handle' = [handle EXCEPT ![f].obj = q, ![f].modified = FALSE]
      /\ Ends(TRUE) /\ place' = place /\ chain' = chain /\ lost' = lost
  BY DEF f_sync, Synced, IsOpen, SyncObj
<1>2. /\ HandleOK(h, ch, fat) /\ f \in Objects /\ f \in Names
      /\ HomeSeen(h.home, Loaded(entry[Home]), chain[Home])
      /\ place[f] < Blocks * h.home.objsize
  BY <1>1, FileIs
<1>3. /\ Gives(f, s, ch) /\ Knows(q, ch, s.fat) /\ q.n_frag = 0 /\ Loaded(Stored(q)) = q
  BY <1>1, SyncedIs
<1>4. handle' = [handle EXCEPT ![f] = g] /\ failed' = FALSE
  BY <1>1, StateIs DEF Ends
<1>5. /\ DOMAIN h = Fields /\ h.fptr \in 0 .. Len(ch) /\ (h.fptr > 0 => h.clust = ch[h.fptr])
  BY <1>2 DEF HandleOK
<1>6. /\ DOMAIN g = Fields /\ g.open /\ g.home = h.home /\ ~g.modified /\ g.fptr = h.fptr
      /\ g.clust = h.clust /\ g.obj = q
  BY <1>1, <1>5 DEF Fields
<1> HIDE DEF g, s, q
<1>7. chain' = [chain EXCEPT ![f] = ch] /\ s \in Volumes
  BY <1>1, <1>2, <1>3, StateIs DEF Gives, Sound
<1>8. /\ DOMAIN entry = Objects /\ DOMAIN handle = Files /\ place \in [Names -> Nat]
      /\ Home \in Objects /\ Home # f /\ entry[f].exists => place[f] < Blocks * Len(chain[Home])
  BY <1>2, NamesAre DEF IInv
<1>9. /\ entry'[f] = Stored(q) /\ entry'[Home] = entry[Home] /\ DOMAIN entry' = Objects
      /\ \A p \in Objects \ {f} : entry'[p] = entry[p]
      /\ handle'[f] = g /\ DOMAIN handle' = Files
      /\ \A e \in Files \ {f} : handle'[e] = handle[e]
      /\ fat' = s.fat
  <2>1. fat' = s.fat
    BY <1>1, <1>7, BecomesIs
  <2>2. entry' = [entry EXCEPT ![f] = Stored(q)] /\ f \in Objects
    BY <1>1, <1>2
  <2>3. /\ DOMAIN entry = Objects /\ DOMAIN handle = Files /\ Home \in Objects /\ Home # f
    BY <1>2, NamesAre DEF IInv
  <2> QED BY ONLY <2>1, <2>2, <2>3, <1>4
<1>10. OnlyOn(f)
  BY <1>1, <1>4, <1>8, <1>9, IdleSeek DEF OnlyOn
<1>11. HandleOK(g, ch, fat')
  BY <1>3, <1>5, <1>6, <1>9 DEF HandleOK
<1>12. FileOK(handle'[f], chain'[f], fat', place'[f], Loaded(entry'[Home]), chain'[Home])
  BY <1>1, <1>2, <1>6, <1>9, <1>11 DEF FileOK
<1>13. EntryOK(f, entry'[f], handle', chain'[f], fat')
  BY <1>1, <1>3, <1>9 DEF EntryOK, Stored
<1>14. entry[f].exists /\ place[f] < Blocks * Len(chain[Home])
  <2>1. entry[f].exists
    BY <1>1, FileIs
  <2> QED BY <2>1, <1>2 DEF IInv
<1>15. Touched(f)
  <2>1. seek'[f] = 0
    BY IdleSeek
  <2> QED BY <2>1, <1>1, <1>12, <1>13, <1>14 DEF Touched
<1> QED BY <1>1, <1>2, <1>3, <1>7, <1>10, <1>15, OneName

(* A handle that is closed, or an entry that is removed.                   *)
LEMMA ClosedIs ==
    /\ ~Closed.open
    /\ \A c, t, pl, e, hc : FileOK(Closed, c, t, pl, e, hc)
BY DEF Closed, FileOK

LEMMA CloseKeeps ==
    ASSUME IInv, Idle, seek' = seek, NEW f \in Files, f_close(f)
    PROVE  IInv'
<1> DEFINE h == handle[f]
           ch == chain[f]
<1>1. /\ h.open /\ Synced(f)
      /\ handle' = [handle EXCEPT ![f] = Closed]
      /\ Ends(TRUE) /\ place' = place /\ chain' = chain /\ lost' = lost
  BY DEF f_close, IsOpen
<1>2. f \in Objects /\ f \in Names /\ entry[f].exists /\ ch \in Seq(Clusters)
      /\ EntryOK(f, entry[f], handle, ch, fat)
  <2>1. f \in Objects /\ f \in Names /\ entry[f].exists /\ ch \in Seq(Clusters)
    BY <1>1, FileIs
  <2> QED BY <2>1 DEF IInv
<1>3. PICK s, e : /\ Becomes(s) /\ Gives(f, s, ch)
                  /\ entry'[f] = e /\ DOMAIN entry' = Objects
                  /\ \A p \in Objects \ {f} : entry'[p] = entry[p]
                  /\ e.exists /\ Knows(Loaded(e), ch, s.fat)
  <2>1. CASE h.modified
    <3>1. /\ Gives(f, SyncObj(f).s, ch) /\ Knows(SyncObj(f).obj, ch, SyncObj(f).s.fat)
          /\ Loaded(Stored(SyncObj(f).obj)) = SyncObj(f).obj
      BY <1>1, SyncedIs
    <3>2. Becomes(SyncObj(f).s) /\ entry' = [entry EXCEPT ![f] = Stored(SyncObj(f).obj)]
      BY <1>1, <2>1 DEF Synced, SyncObj
    <3> DEFINE s == SyncObj(f).s
               e == Stored(SyncObj(f).obj)
    <3>3. e.exists
      BY DEF Stored
    <3> HIDE DEF s, e, h, ch
    <3>4. /\ Becomes(s) /\ Gives(f, s, ch) /\ entry' = [entry EXCEPT ![f] = e]
          /\ e.exists /\ Knows(Loaded(e), ch, s.fat)
      BY <3>1, <3>2, <3>3 DEF s, e
    <3>5. /\ entry'[f] = e /\ DOMAIN entry' = Objects
          /\ \A p \in Objects \ {f} : entry'[p] = entry[p]
      BY <3>4, <1>2 DEF IInv
    <3> QED BY <3>4, <3>5
  <2>2. CASE ~h.modified
    <3>1. Becomes(volume) /\ entry' = entry
      BY <1>1, <2>2 DEF Synced
    <3>2. Gives(f, volume, ch)
      BY <1>2, StateIs, VolumeIs, GivesSame
    <3>3. Knows(Loaded(entry[f]), ch, volume.fat)
      BY <1>2, <2>2, VolumeIs DEF EntryOK
    <3> DEFINE e == entry[f]
    <3>5. /\ entry'[f] = e /\ DOMAIN entry' = Objects
          /\ \A p \in Objects \ {f} : entry'[p] = entry[p]
          /\ e.exists /\ Knows(Loaded(e), ch, volume.fat)
      BY <1>2, <3>1, <3>3 DEF IInv
    <3> HIDE DEF e, h, ch
    <3> QED BY <3>1, <3>2, <3>5
  <2> QED BY <2>1, <2>2
<1>4. failed' = FALSE
  BY <1>1, StateIs DEF Ends
<1> HIDE DEF h
<1>5. s \in Volumes /\ chain' = [chain EXCEPT ![f] = ch]
  BY <1>1, <1>2, <1>3, StateIs DEF Gives, Sound
<1>6. /\ handle'[f] = Closed /\ DOMAIN handle' = Files
      /\ \A x \in Files \ {f} : handle'[x] = handle[x]
      /\ fat' = s.fat
  <2>1. fat' = s.fat
    BY <1>3, <1>5, BecomesIs
  <2>2. DOMAIN handle = Files
    BY DEF IInv
  <2> QED BY <2>1, <2>2, <1>1
<1>7. place \in [Names -> Nat] /\ place[f] < Blocks * Len(chain[Home])
  BY <1>2 DEF IInv
<1>8. OnlyOn(f)
  BY <1>1, <1>3, <1>4, <1>6, <1>7, IdleSeek DEF OnlyOn
<1>9. FileOK(handle'[f], chain'[f], fat', place'[f], Loaded(entry'[Home]), chain'[Home])
  BY <1>6, ClosedIs
<1>10. EntryOK(f, entry'[f], handle', chain'[f], fat')
  BY <1>1, <1>3, <1>6 DEF EntryOK
<1>11. Touched(f)
  <2>1. seek'[f] = 0
    BY IdleSeek
  <2> QED BY <2>1, <1>1, <1>7, <1>9, <1>10 DEF Touched
<1> QED BY <1>1, <1>2, <1>3, <1>5, <1>8, <1>11, OneName

-----------------------------------------------------------------------------
(* Calls that leave every chain as it is.                                  *)
LEMMA Unmoved ==
    ASSUME IInv, entry' = entry, place' = place, handle' = handle, seek' = seek,
           chain' = chain, lost' = lost, fat' = fat, bits' = bits, failed' = FALSE,
           Sound(volume')
    PROVE  IInv'
BY DEF IInv

LEMMA FailsKeeps ==
    ASSUME IInv, seek' = seek, Fails(0)
    PROVE  IInv'
<1>1. failed' = FALSE
  <2> DEFINE ok == 0 # 1
  <2>1. Ends(ok)
    BY DEF Fails
  <2>2. ok = TRUE
    OBVIOUS
  <2> HIDE DEF ok
  <2>3. Ends(TRUE)
    BY <2>1, <2>2
  <2> QED BY <2>3, StateIs DEF Ends
<1>2. volume' = volume
  BY DEF Fails, volume
<1>3. Sound(volume')
  BY <1>2, StateIs
<1> QED BY <1>1, <1>3, Unmoved DEF Fails

LEMMA GetfreeKeeps ==
    ASSUME IInv, seek' = seek, f_getfree
    PROVE  IInv'
<1>1. failed' = FALSE
  BY StateIs DEF f_getfree, Ends
<1>2. Sound(volume)
  BY StateIs
<1> DEFINE n == Cardinality(Clusters \ bits)
<1>3. n \in 0 .. NClusters /\ n # Unknown /\ n \in 0 .. Unknown
  <2>1. bits \in SUBSET Clusters
    BY <1>2, VolumeIs DEF Sound, Volumes
  <2> DEFINE B == {}
  <2>2. B \in SUBSET Clusters
    OBVIOUS
  <2> HIDE DEF B
  <2>3. Cardinality(Clusters \ bits) \in 0 .. NClusters /\ Cardinality(B) \in Nat
    BY <2>1, <2>2, ClearBits
  <2> QED BY <2>3, Sizes
<1>4. volume' = [fat |-> fat, bits |-> bits, last |-> last_clst, free |-> n]
  BY DEF f_getfree, volume
<1>5. fat \in FatType /\ bits \in SUBSET Clusters /\ last_clst \in Nat /\ Reserved \subseteq bits
  BY <1>2, VolumeIs DEF Sound, Volumes
<1> HIDE DEF n
<1>6. Sound(volume')
  <2>1. volume'.free = n /\ volume'.bits = bits /\ volume' \in Volumes
    BY <1>3, <1>4, <1>5 DEF Volumes
  <2> QED BY <2>1, <1>5 DEF Sound, Exact, n
<1> QED BY <1>1, <1>6, Unmoved DEF f_getfree

-----------------------------------------------------------------------------
(* Calls on closed files and on sub-directories.                           *)
LEMMA HomeSeenFrom ==
    ASSUME NEW d, NEW hc \in Seq(Clusters), NEW t, Knows(d, hc, t), hc # <<>>,
           d.n_cont = 0, d.n_frag = 0, d.stat \in {0, 2}
    PROVE  HomeSeen(d, d, hc) /\ d.objsize = Len(hc)
<1>1. d \in ObjRec /\ d.objsize = Len(hc) /\ d.sclust = hc[1]
      /\ (d.stat = 2 => Straight(hc, 1, Len(hc)))
  BY DEF Knows
<1>2. Len(hc) \in Nat /\ Len(hc) # 0
  OBVIOUS
<1> QED BY <1>1, <1>2 DEF HomeSeen

LEMMA HomeNow ==
    ASSUME IInv
    PROVE  /\ HomeSeen(Loaded(entry[Home]), Loaded(entry[Home]), chain[Home])
           /\ Loaded(entry[Home]).objsize = Len(chain[Home])
<1> DEFINE d == Loaded(entry[Home])
           hc == chain[Home]
<1>1. Knows(d, hc, fat) /\ hc # <<>> /\ hc \in Seq(Clusters)
  BY StateIs, NamesAre
<1>2. d.n_cont = 0 /\ d.n_frag = 0 /\ d.stat \in {0, 2}
  BY LoadedIs
<1> HIDE DEF d, hc
<1>3. HomeSeen(d, d, hc) /\ d.objsize = Len(hc)
  BY <1>1, <1>2, HomeSeenFrom
<1> QED BY <1>3 DEF d, hc

(* The entry block of an object that is not open says all of it.           *)
LEMMA ShutIs ==
    ASSUME IInv, NEW o \in Names, entry[o].exists, ~IsOpen(o)
    PROVE  /\ Knows(Loaded(entry[o]), chain[o], fat) /\ o \in Objects
           /\ chain[o] \in Seq(Clusters) /\ Distinct(chain[o])
           /\ Members(chain[o]) \subseteq bits \ Reserved
           /\ Loaded(entry[o]).n_frag = 0
           /\ place[o] \in Nat /\ place[o] < Blocks * Len(chain[Home])
<1>1. o \in Objects /\ EntryOK(o, entry[o], handle, chain[o], fat)
      /\ place[o] \in Nat /\ place[o] < Blocks * Len(chain[Home])
  BY NamesAre DEF IInv
<1>2. ChainOK(chain[o], bits)
  BY <1>1, StateIs
<1>3. Knows(Loaded(entry[o]), chain[o], fat)
  BY <1>1 DEF EntryOK, IsOpen
<1> QED BY <1>1, <1>2, <1>3, LoadedIs DEF ChainOK

LEMMA OpenedIs ==
    ASSUME NEW obj, NEW home, NEW m
    PROVE  LET h == Opened(obj, home, m)
           IN /\ DOMAIN h = Fields /\ h.open /\ h.obj = obj /\ h.fptr = 0 /\ h.home = home
              /\ h.modified = m
BY DEF Opened, Fields

LEMMA OpenKeeps ==
    ASSUME IInv, Idle, seek' = seek, NEW f \in Files, NEW append \in BOOLEAN,
           f_open_existing(f, append)
    PROVE  IInv'
<1> DEFINE obj == Loaded(entry[f])
           home == Loaded(entry[Home])
           ch == chain[f]
           h == Opened(obj, home, FALSE)
           g == [h EXCEPT !.fptr = obj.objsize, !.clust = ch[obj.objsize]]
           Passed == ChainOf(volume, obj)
           p == [h EXCEPT !.fptr = obj.objsize, !.clust = Passed[obj.objsize]]
<1>1. /\ entry[f].exists /\ ~IsOpen(f)
      /\ IF ~append \/ obj.objsize = 0
         THEN handle' = [handle EXCEPT ![f] = h] /\ Ends(TRUE)
         ELSE IF Len(Passed) < obj.objsize THEN Ends(FALSE) /\ UNCHANGED handle
         ELSE handle' = [handle EXCEPT ![f] = p] /\ Ends(TRUE)
      /\ fat' = fat /\ bits' = bits /\ last_clst' = last_clst /\ free_clst' = free_clst
      /\ entry' = entry /\ place' = place /\ chain' = chain /\ lost' = lost
  BY DEF f_open_existing
<1>2. f \in Names
  BY NamesAre
<1>3. /\ Knows(obj, ch, fat) /\ f \in Objects
      /\ ch \in Seq(Clusters) /\ Distinct(ch) /\ obj.n_frag = 0
      /\ place[f] < Blocks * Len(chain[Home])
  BY <1>1, <1>2, ShutIs
<1>4. Sound(volume) /\ volume \in Volumes /\ volume.fat = fat /\ volume.bits = bits
      /\ failed = FALSE
  BY StateIs, VolumeIs
<1>5. Passed = ch
  <2> HIDE DEF obj, ch
  <2> QED BY <1>3, <1>4, ChainIsFollowed
<1>6. obj.objsize = Len(ch) /\ Len(ch) \in Nat
  BY <1>3 DEF Knows
<1>7. (handle' = [handle EXCEPT ![f] = h] \/ handle' = [handle EXCEPT ![f] = g]) /\ Ends(TRUE)
  <2>1. p = g /\ ~(Len(Passed) < obj.objsize)
    BY <1>5, <1>6
  <2> HIDE DEF Passed, p, g, h, obj
  <2> QED BY <1>1, <2>1
<1>8. failed' = FALSE
  BY <1>4, <1>7 DEF Ends
<1>9. /\ DOMAIN h = Fields /\ h.open /\ h.obj = obj /\ h.fptr = 0 /\ h.home = home
      /\ h.modified = FALSE
  <2> HIDE DEF obj, home
  <2> QED BY DEF Opened, Fields
<1> DEFINE x == IF handle' = [handle EXCEPT ![f] = h] THEN h ELSE g
<1>10. /\ handle' = [handle EXCEPT ![f] = x]
       /\ DOMAIN x = Fields /\ x.open /\ x.obj = obj /\ x.home = home
       /\ x.fptr \in 0 .. Len(ch) /\ (x.fptr > 0 => x.clust = ch[x.fptr])
  <2>1. CASE handle' = [handle EXCEPT ![f] = h]
    <3> x = h
      BY <2>1
    <3> HIDE DEF h, x
    <3> QED BY <2>1, <1>6, <1>9
  <2>2. CASE handle' # [handle EXCEPT ![f] = h]
    <3>1. /\ DOMAIN g = Fields /\ g.open /\ g.obj = obj /\ g.home = home
          /\ g.fptr = obj.objsize /\ g.clust = ch[obj.objsize]
      <4> HIDE DEF h
      <4> QED BY <1>9 DEF Fields
    <3>2. x = g /\ handle' = [handle EXCEPT ![f] = g]
      BY <2>2, <1>7
    <3> HIDE DEF g, x, ch, obj
    <3> QED BY <3>1, <3>2, <1>6
  <2> QED BY <2>1, <2>2
<1> HIDE DEF h, g, p, x, Passed
<1>11. HandleOK(x, ch, fat)
  <2>1. x.obj.n_frag = 0
    BY <1>3, <1>10
  <2> HIDE DEF obj, ch
  <2> QED BY <2>1, <1>3, <1>10 DEF HandleOK
<1>12. /\ HomeSeen(home, home, chain[Home]) /\ home.objsize = Len(chain[Home])
  BY HomeNow
<1>13. /\ DOMAIN entry = Objects /\ DOMAIN handle = Files /\ place \in [Names -> Nat]
       /\ chain \in [Objects -> Seq(Clusters)]
  BY StateIs DEF IInv
<1>14. /\ handle'[f] = x /\ DOMAIN handle' = Files
       /\ \A e \in Files \ {f} : handle'[e] = handle[e]
       /\ chain' = [chain EXCEPT ![f] = ch]
  BY <1>1, <1>3, <1>10, <1>13
<1>15. Gives(f, volume, ch)
  BY <1>3, <1>4, GivesSame
<1>16. Becomes(volume)
  BY <1>1, VolumeIs DEF Becomes
<1>17. OnlyOn(f)
  BY <1>1, <1>8, <1>13, <1>14, IdleSeek DEF OnlyOn
<1>18. FileOK(handle'[f], chain'[f], fat', place'[f], Loaded(entry'[Home]), chain'[Home])
  BY <1>1, <1>3, <1>10, <1>11, <1>12, <1>14 DEF FileOK
<1>19. EntryOK(f, entry'[f], handle', chain'[f], fat')
  BY <1>1, <1>3 DEF EntryOK
<1>20. Touched(f)
  <2>1. seek'[f] = 0
    BY IdleSeek
  <2> QED BY <2>1, <1>1, <1>3, <1>18, <1>19 DEF Touched
<1> QED BY <1>2, <1>14, <1>15, <1>16, <1>17, <1>20, OneName

(* Giving up a whole chain.                                                *)
LEMMA EmptyIs ==
    /\ Empty = [sclust |-> 0, objsize |-> 0, stat |-> 0, n_cont |-> 0, n_frag |-> 0]
    /\ Empty \in ObjRec /\ Loaded(Stored(Empty)) = Empty /\ Stored(Empty).exists
    /\ \A t : Knows(Empty, <<>>, t)
<1>1. Empty = [sclust |-> 0, objsize |-> 0, stat |-> 0, n_cont |-> 0, n_frag |-> 0]
  BY DEF Empty, Loaded, None
<1>2. Empty \in ObjRec /\ Stored(Empty).exists
  BY <1>1 DEF ObjRec, Stored
<1>3. Loaded(Stored(Empty)) = Empty
  <2> DEFINE e == Empty
  <2>1. e = [sclust |-> 0, objsize |-> 0, stat |-> 0, n_cont |-> 0, n_frag |-> 0]
    BY <1>1
  <2> HIDE DEF e
  <2>2. Loaded(Stored(e)) = e
    BY <2>1 DEF Loaded, Stored
  <2> QED BY <2>2 DEF e
<1>4. ASSUME NEW t PROVE Knows(Empty, <<>>, t)
  BY <1>1, <1>2 DEF Knows
<1> QED BY <1>1, <1>2, <1>3, <1>4

LEMMA GivenUp ==
    ASSUME IInv, NEW o \in Names, entry[o].exists, ~IsOpen(o)
    PROVE  LET old == Loaded(entry[o])
               r == remove_chain(volume, old, old.sclust, 0)
           IN IF old.sclust = 0 THEN Gives(o, volume, <<>>)
              ELSE r.ok = TRUE /\ Gives(o, r.s, <<>>) /\ old.sclust - 1 \in Nat
<1> DEFINE old == Loaded(entry[o])
           r == remove_chain(volume, old, old.sclust, 0)
           ch == chain[o]
<1>1. /\ Knows(old, ch, fat) /\ o \in Objects
      /\ ch \in Seq(Clusters) /\ Distinct(ch) /\ old.n_frag = 0
      /\ Members(ch) \subseteq bits \ Reserved
  BY ShutIs
<1>2. /\ Sound(volume) /\ volume.fat = fat /\ volume.bits = bits /\ Knows(old, ch, volume.fat)
  BY <1>1, StateIs, VolumeIs
<1>3. CASE ch = <<>>
  <2>1. old.sclust = 0
    BY <1>1, <1>3 DEF Knows
  <2>2. Gives(o, volume, ch)
    BY <1>1, <1>2, GivesSame
  <2> QED BY <2>1, <2>2, <1>3
<1>4. CASE ch # <<>>
  <2>1. /\ old.sclust = ch[1] /\ 0 \in 0 .. Len(ch) - 1 /\ 0 \in 0 .. Len(ch)
        /\ ch[1] \in Clusters
    BY <1>1, <1>4 DEF Knows
  <2> HIDE DEF old, r, ch
  <2> DEFINE k == 0
  <2>2. k \in 0 .. Len(ch) - 1
    BY <2>1
  <2> HIDE DEF k
  <2>3. Removed(volume, old, ch, k, remove_chain(volume, old, ch[k + 1], IF k = 0 THEN 0 ELSE ch[k]))
    BY <1>1, <1>2, <1>4, <2>2, RemoveIs
  <2>4. Removed(volume, old, ch, k, r)
    <3>1. k = 0
      BY DEF k
    <3>2. ch[k + 1] = old.sclust /\ (IF k = 0 THEN 0 ELSE ch[k]) = 0
      BY <3>1, <2>1
    <3> QED BY <2>3, <3>2 DEF r
  <2>5. Gives(o, r.s, SubSeq(ch, 1, k))
    <3>1. k \in 0 .. Len(chain[o]) /\ Removed(volume, old, chain[o], k, r)
      BY <2>1, <2>4 DEF k, ch
    <3> QED BY <3>1, <1>1, GivesLess DEF ch
  <2>6. SubSeq(ch, 1, k) = <<>>
    BY <1>1 DEF k
  <2>7. r.ok = TRUE
    BY <2>4 DEF Removed
  <2>8. old.sclust - 1 \in Nat /\ old.sclust # 0
    BY <2>1, Sizes
  <2> QED BY <2>5, <2>6, <2>7, <2>8 DEF r, old
<1> QED BY <1>3, <1>4

LEMMA OverwriteKeeps ==
    ASSUME IInv, Idle, seek' = seek, NEW f \in Files, f_open_overwrite(f)
    PROVE  IInv'
<1> DEFINE old == Loaded(entry[f])
           home == Loaded(entry[Home])
           r == remove_chain(volume, old, old.sclust, 0)
           t == [r.s EXCEPT !.last = old.sclust - 1]
           h == Opened(Empty, home, TRUE)
           s == IF old.sclust = 0 THEN volume ELSE t
           c == <<>>
<1>1. /\ entry[f].exists /\ ~IsOpen(f)
      /\ IF old.sclust = 0 THEN Becomes(volume) ELSE Becomes(t)
      /\ entry' = [entry EXCEPT ![f] = Stored(Empty)]
      /\ IF old.sclust = 0 \/ r.ok
         THEN /\ handle' = [handle EXCEPT ![f] = h]
              /\ chain' = [chain EXCEPT ![f] = <<>>]
              /\ Ends(TRUE)
         ELSE Ends(FALSE) /\ UNCHANGED <<handle, chain>>
      /\ place' = place /\ lost' = lost
  BY DEF f_open_overwrite
<1>2. f \in Names /\ f \in Objects
  BY NamesAre
<1>3. place[f] < Blocks * Len(chain[Home])
  BY <1>1, <1>2, ShutIs
<1>4. IF old.sclust = 0 THEN Gives(f, volume, <<>>)
      ELSE r.ok = TRUE /\ Gives(f, r.s, <<>>) /\ old.sclust - 1 \in Nat
  BY <1>1, <1>2, GivenUp
<1>5. Gives(f, s, c) /\ Becomes(s)
  <2>1. CASE old.sclust = 0
    <3>1. s = volume
      BY <2>1
    <3> HIDE DEF s
    <3> QED BY <2>1, <3>1, <1>1, <1>4
  <2>2. CASE old.sclust # 0
    <3>1. s = t /\ Becomes(t)
      BY <2>2, <1>1
    <3>2. Gives(f, r.s, <<>>) /\ old.sclust - 1 \in Nat
      BY <2>2, <1>4
    <3> DEFINE u == r.s
               n == old.sclust - 1
    <3>3. Sound(u) /\ Gives(f, u, c) /\ n \in Nat
      BY <3>2 DEF Gives
    <3>4. t = [u EXCEPT !.last = n]
      OBVIOUS
    <3> HIDE DEF s, r, t, u, n, old
    <3>5. /\ Sound(t) /\ t.fat = u.fat /\ t.bits = u.bits
      BY <3>3, <3>4 DEF Sound, Volumes, Exact
    <3>6. Gives(f, t, c)
      BY <3>3, <3>5 DEF Gives
    <3> QED BY <3>1, <3>6
  <2> QED BY <2>1, <2>2
<1>6. /\ handle' = [handle EXCEPT ![f] = h]
      /\ chain' = [chain EXCEPT ![f] = c]
      /\ Ends(TRUE)
  BY <1>1, <1>4
<1>7. failed' = FALSE
  BY <1>6, StateIs DEF Ends
<1>8. /\ DOMAIN h = Fields /\ h.open /\ h.obj = Empty /\ h.fptr = 0 /\ h.home = home
      /\ h.modified = TRUE
  <2> HIDE DEF home
  <2> QED BY DEF Opened, Fields
<1> HIDE DEF r, t, s, old, h
<1>9. /\ DOMAIN entry = Objects /\ DOMAIN handle = Files /\ place \in [Names -> Nat]
      /\ chain \in [Objects -> Seq(Clusters)] /\ Home # f /\ Home \in Objects
  BY <1>2, StateIs, NamesAre DEF IInv
<1>10. /\ entry'[f] = Stored(Empty) /\ DOMAIN entry' = Objects
       /\ \A p \in Objects \ {f} : entry'[p] = entry[p]
       /\ entry'[Home] = entry[Home]
       /\ handle'[f] = h /\ DOMAIN handle' = Files
       /\ \A e \in Files \ {f} : handle'[e] = handle[e]
       /\ chain'[f] = c /\ chain'[Home] = chain[Home]
  BY <1>1, <1>2, <1>6, <1>9
<1>11. OnlyOn(f)
  BY <1>1, <1>7, <1>9, <1>10, IdleSeek DEF OnlyOn
<1>12. HandleOK(h, c, fat')
  <2>1. Knows(Empty, c, fat') /\ Empty.n_frag = 0 /\ Len(c) = 0
    BY EmptyIs
  <2> HIDE DEF c
  <2> QED BY <2>1, <1>8 DEF HandleOK
<1>13. /\ HomeSeen(home, home, chain[Home]) /\ home.objsize = Len(chain[Home])
  BY HomeNow
<1>14. FileOK(handle'[f], chain'[f], fat', place'[f], Loaded(entry'[Home]), chain'[Home])
  BY <1>1, <1>3, <1>8, <1>10, <1>12, <1>13 DEF FileOK
<1>15. EntryOK(f, entry'[f], handle', chain'[f], fat')
  BY <1>8, <1>10, EmptyIs DEF EntryOK
<1>16. Touched(f)
  <2>1. seek'[f] = 0
    BY IdleSeek
  <2> QED BY <2>1, <1>1, <1>3, <1>10, <1>14, <1>15 DEF Touched
<1> QED BY <1>2, <1>5, <1>6, <1>11, <1>16, OneName

LEMMA UnlinkKeeps ==
    ASSUME IInv, Idle, seek' = seek, NEW o \in Names, f_unlink(o)
    PROVE  IInv'
<1> DEFINE old == Loaded(entry[o])
           r == remove_chain(volume, old, old.sclust, 0)
           s == IF old.sclust = 0 THEN volume ELSE r.s
           c == <<>>
<1>1. /\ entry[o].exists /\ ~IsOpen(o)
      /\ entry' = [entry EXCEPT ![o] = None]
      /\ IF old.sclust = 0 THEN Becomes(volume) ELSE Becomes(r.s)
      /\ Ends(old.sclust = 0 \/ r.ok)
      /\ chain' = [chain EXCEPT ![o] = <<>>]
      /\ place' = [place EXCEPT ![o] = 0]
      /\ handle' = handle /\ lost' = lost
  BY DEF f_unlink
<1>2. o \in Objects
  BY NamesAre
<1>3. IF old.sclust = 0 THEN Gives(o, volume, <<>>)
      ELSE r.ok = TRUE /\ Gives(o, r.s, <<>>) /\ old.sclust - 1 \in Nat
  BY <1>1, GivenUp
<1>4. Gives(o, s, c) /\ Becomes(s)
  BY <1>1, <1>3
<1>5. failed' = FALSE
  <2> DEFINE ok == old.sclust = 0 \/ r.ok
  <2>1. Ends(ok) /\ ok = TRUE
    <3>1. ok
      BY <1>3
    <3>2. ok \in BOOLEAN
      OBVIOUS
    <3>3. Ends(ok)
      BY <1>1
    <3> HIDE DEF ok
    <3> QED BY <3>1, <3>2, <3>3
  <2> HIDE DEF ok
  <2>2. Ends(TRUE)
    BY <2>1
  <2> QED BY <2>2, StateIs DEF Ends
<1> HIDE DEF r, s, old
<1>6. /\ DOMAIN entry = Objects /\ DOMAIN handle = Files /\ place \in [Names -> Nat]
      /\ chain \in [Objects -> Seq(Clusters)] /\ Home # o /\ Home \in Objects
  BY StateIs, NamesAre DEF IInv
<1>7. /\ entry'[o] = None /\ DOMAIN entry' = Objects
      /\ \A p \in Objects \ {o} : entry'[p] = entry[p]
      /\ chain'[o] = c /\ chain'[Home] = chain[Home]
      /\ place' \in [Names -> Nat] /\ \A p \in Names \ {o} : place'[p] = place[p]
  BY <1>1, <1>2, <1>6
<1>8. OnlyOn(o)
  BY <1>1, <1>5, <1>6, <1>7, IdleSeek DEF OnlyOn
<1>9. ~(o \in Files /\ handle'[o].open)
  BY <1>1 DEF IsOpen
<1>10. EntryOK(o, entry'[o], handle', chain'[o], fat') /\ ~entry'[o].exists
  BY <1>7, <1>9 DEF EntryOK, None
<1>11. Touched(o)
  <2>1. o \in Files => seek'[o] = 0
    BY IdleSeek
  <2>2. o \in Files => FileOK(handle'[o], chain'[o], fat', place'[o], Loaded(entry'[Home]), chain'[Home])
    BY <1>9 DEF FileOK
  <2> QED BY <2>1, <2>2, <1>10 DEF Touched
<1> HIDE DEF c
<1>12. chain' = [chain EXCEPT ![o] = c]
  BY <1>1 DEF c
<1> QED BY <1>4, <1>8, <1>11, <1>12, OneName

-----------------------------------------------------------------------------
(* f_expand: a block of clusters for an empty file.                        *)
BlockOf(c, n) == [k \in 1 .. n |-> c + k - 1]
LEMMA BlockOfIs ==
    ASSUME NEW c \in Nat, NEW n \in Nat \ {0}, \A k \in 0 .. n - 1 : c + k \in Clusters
    PROVE  LET b == BlockOf(c, n)
           IN /\ b \in Seq(Clusters) /\ Len(b) = n /\ b[1] = c /\ b # <<>>
              /\ Distinct(b) /\ Straight(b, 1, n)
              /\ Members(b) = c .. c + n - 1 /\ Cardinality(Members(b)) = n
              /\ Members(b) \subseteq Clusters
<1> DEFINE b == BlockOf(c, n)
<1>1. \A k \in 1 .. n : c + k - 1 \in Clusters
  <2> SUFFICES ASSUME NEW k \in 1 .. n PROVE c + k - 1 \in Clusters
    OBVIOUS
  <2> DEFINE j == k - 1
  <2>1. j \in 0 .. n - 1 /\ c + j = c + k - 1
    OBVIOUS
  <2> HIDE DEF j
  <2>2. c + j \in Clusters
    BY <2>1
  <2> QED BY <2>1, <2>2
<1>2. \A k \in 1 .. n : b[k] = c + k - 1 /\ b[k] \in Clusters
  BY <1>1 DEF BlockOf
<1>3. b \in Seq(Clusters) /\ Len(b) = n
  BY <1>1 DEF BlockOf
<1> HIDE DEF b
<1>4. Distinct(b) /\ Straight(b, 1, n)
  BY <1>2, <1>3 DEF Distinct, Straight
<1>5. Members(b) = c .. c + n - 1
  <2>1. \A x : x \in Members(b) <=> \E k \in 1 .. n : b[k] = x
    BY <1>3, MembersAre
  <2>2. ASSUME NEW x \in Members(b) PROVE x \in c .. c + n - 1
    BY <2>1, <2>2, <1>2
  <2>3. ASSUME NEW x \in c .. c + n - 1 PROVE x \in Members(b)
    <3> DEFINE k == x - c + 1
    <3>1. k \in 1 .. n /\ c + k - 1 = x
      OBVIOUS
    <3> HIDE DEF k
    <3>2. b[k] = x
      BY <3>1, <1>2
    <3> QED BY <3>1, <3>2, <2>1
  <2> QED BY <2>2, <2>3
<1>6. Cardinality(Members(b)) = n
  BY <1>3, <1>4, DistinctCount
<1>7. b[1] = c /\ b # <<>> /\ Members(b) \subseteq Clusters
  BY <1>2, <1>3, MembersAre
<1> QED BY <1>3, <1>4, <1>5, <1>6, <1>7 DEF b

LEMMA ExpandKeeps ==
    ASSUME IInv, Idle, seek' = seek, NEW f \in Files, NEW n \in Nat \ {0}, NEW now \in BOOLEAN,
           f_expand(f, n, now)
    PROVE  IInv'
<1> DEFINE h == handle[f]
           o == handle[f].obj
           scl == find_bitmap(volume, last_clst, n)
           r == change_bitmap(volume, scl, n, TRUE)
           free == IF r.s.free <= NClusters THEN r.s.free - n ELSE r.s.free
           taken == [r.s EXCEPT !.last = scl + n - 1,
                                !.free = IF @ <= NClusters THEN @ - n ELSE @]
           hint == [volume EXCEPT !.last = scl - 1]
           g == [h EXCEPT !.obj.sclust = scl, !.obj.objsize = n, !.obj.stat = 2,
                          !.modified = TRUE]
           Full == Fails(0)
           Hint == Becomes(hint) /\ Left(f, h, <<>>, TRUE)
           Now == Becomes(taken) /\ Left(f, g, BlockOf(scl, n), TRUE)
<1>1. /\ h.open /\ o.objsize = 0
      /\ CASE scl = 0 -> Full [] scl # 0 /\ ~now -> Hint [] OTHER -> Now
  BY DEF f_expand, IsOpen, BlockOf
<1>2. /\ h.open /\ o.objsize = 0
      /\ scl = 0 => Full
      /\ scl # 0 => Hint \/ Now
  <2> HIDE DEF Full, Hint, Now, scl
  <2>1. scl = 0 => Full
    BY <1>1
  <2>2. scl # 0 => Hint \/ Now
    BY <1>1
  <2> QED BY <1>1, <2>1, <2>2
<1>3. CASE scl = 0
  <2>1. Full
    BY <1>2, <1>3
  <2> QED BY <2>1, FailsKeeps
<1>4. /\ HandleOK(h, chain[f], fat) /\ Knows(o, chain[f], fat) /\ f \in Objects
      /\ chain[f] \in Seq(Clusters)
  BY <1>2, FileIs
<1>5. /\ chain[f] = <<>> /\ o \in ObjRec /\ o.stat = 0 /\ o.n_cont = 0 /\ o.n_frag = 0
      /\ DOMAIN h = Fields /\ h.fptr = 0
  <2>1. o.objsize = Len(chain[f]) /\ o \in ObjRec /\ o.n_frag <= Len(chain[f])
        /\ (o.stat # 3 => o.n_cont = 0) /\ (chain[f] = <<>> => o.stat = 0)
    BY <1>4 DEF Knows
  <2>2. chain[f] = <<>> /\ Len(chain[f]) = 0
    BY <1>2, <1>4, <2>1
  <2>3. DOMAIN h = Fields /\ h.fptr \in 0 .. Len(chain[f])
    BY <1>4 DEF HandleOK
  <2>4. o.n_frag \in Nat
    BY <2>1 DEF ObjRec
  <2> HIDE DEF o
  <2> QED BY <2>1, <2>2, <2>3, <2>4
<1>6. /\ Sound(volume) /\ volume \in Volumes /\ volume.fat = fat /\ volume.bits = bits
      /\ 2 \in volume.bits /\ last_clst \in Nat
  BY StateIs, VolumeIs, VolumeAssumption DEF Sound, Volumes
<1>7. ASSUME scl # 0
      PROVE  scl \in Clusters /\ \A k \in 0 .. n - 1 : scl + k \in Clusters \ volume.bits
  <2>1. \/ scl = 0
        \/ /\ scl \in Clusters
           /\ \A k \in 0 .. n - 1 : scl + k \in Clusters \ volume.bits
    BY <1>6, FindBitmap
  <2> QED BY <1>7, <2>1
<1>8. ASSUME NEW x PROVE SeekGoesOn(f, x)
  BY IdleSeek DEF SeekGoesOn
<1>9. CASE scl # 0 /\ Hint
  <2> DEFINE m == scl - 1
             s == [volume EXCEPT !.last = m]
             new == <<>>
  <2>1. m \in Nat
    BY <1>7, <1>9, Sizes
  <2>2. Becomes(s) /\ Left(f, h, new, TRUE)
    BY <1>9
  <2> HIDE DEF m, scl, h
  <2>3. Sound(s) /\ s.fat = fat /\ s.bits = bits
    BY <2>1, <1>6 DEF Sound, Exact, Volumes
  <2> HIDE DEF s
  <2>4. Gives(f, s, chain[f] \o new)
    <3>1. Gives(f, s, chain[f])
      BY <2>3, <1>4, GivesSame
    <3> QED BY <3>1, <1>4, JoinIs
  <2>5. StillOpen(h, handle[f], chain[f] \o new, chain[f], s.fat, fat)
    <3>1. chain[f] \o new = chain[f]
      BY <1>4, JoinIs
    <3> QED BY <3>1, <2>3, <1>2, <1>4 DEF StillOpen, h
  <2>6. handle[f].open
    BY <1>2 DEF h
  <2> HIDE DEF new
  <2> QED BY <2>2, <2>4, <2>5, <2>6, <1>8, LeftGoesOn
<1>10. CASE scl # 0 /\ Now
  <2> DEFINE b == BlockOf(scl, n)
             B == scl .. scl + n - 1
             u == [volume EXCEPT !.bits = @ \cup B]
  <2>1. /\ b \in Seq(Clusters) /\ Len(b) = n /\ b[1] = scl /\ b # <<>>
        /\ Distinct(b) /\ Straight(b, 1, n)
        /\ Members(b) = B /\ Cardinality(Members(b)) = n /\ B \subseteq Clusters
    <3>1. scl \in Nat /\ \A k \in 0 .. n - 1 : scl + k \in Clusters
      BY <1>7, <1>10, Sizes
    <3> HIDE DEF scl
    <3>2. /\ b \in Seq(Clusters) /\ Len(b) = n /\ b[1] = scl /\ b # <<>>
          /\ Distinct(b) /\ Straight(b, 1, n)
          /\ Members(b) = scl .. scl + n - 1 /\ Cardinality(Members(b)) = n
          /\ Members(b) \subseteq Clusters
      BY <3>1, BlockOfIs
    <3> QED BY <3>2
  <2>2. scl \in Clusters /\ scl \in Nat /\ B \cap bits = {}
    <3>1. scl \in Clusters /\ scl \in Nat /\ \A k \in 0 .. n - 1 : scl + k \notin bits
      BY <1>6, <1>7, <1>10, Sizes
    <3> HIDE DEF scl
    <3>2. ASSUME NEW x \in B PROVE x \notin bits
      <4> DEFINE k == x - scl
      <4>1. k \in 0 .. n - 1 /\ scl + k = x
        BY <3>1
      <4> HIDE DEF k
      <4> QED BY <4>1, <3>1
    <3> QED BY <3>1, <3>2
  <2>3. r = [ok |-> TRUE, s |-> u]
    <3>1. \A k \in B : k \notin volume.bits
      BY <2>2, <1>6
    <3> HIDE DEF scl
    <3> QED BY <3>1, <2>2, MarkBlock
  <2> DEFINE s == taken
  <2>4. /\ s.fat = fat /\ s.bits = bits \cup B /\ s.last = scl + n - 1
        /\ s.free = IF free_clst <= NClusters THEN free_clst - n ELSE free_clst
        /\ s = [fat |-> s.fat, bits |-> s.bits, last |-> s.last, free |-> s.free]
    <3> HIDE DEF r, scl, B
    <3>1. r.s = u
      BY <2>3
    <3>2. u = [fat |-> fat, bits |-> bits \cup B, last |-> last_clst, free |-> free_clst]
      BY SMTT(30) DEF volume
    <3> DEFINE e == r.s
    <3>3. e = [fat |-> fat, bits |-> bits \cup B, last |-> last_clst, free |-> free_clst]
      BY <3>1, <3>2
    <3>4. s = [e EXCEPT !.last = scl + n - 1, !.free = IF @ <= NClusters THEN @ - n ELSE @]
      OBVIOUS
    <3> HIDE DEF u, e, s
    <3> QED BY <3>3, <3>4
  <2> HIDE DEF s
  <2>5. Sound(s)
    <3>1. /\ free_clst \in 0 .. Unknown /\ bits \in SUBSET Clusters /\ fat \in FatType
          /\ Reserved \subseteq bits
          /\ free_clst # Unknown => free_clst = Cardinality(Clusters \ bits)
      BY <1>6, VolumeIs DEF Sound, Volumes, Exact
    <3>2. Cardinality(B) = n
      BY <2>1
    <3> HIDE DEF B, scl
    <3>3. B \in SUBSET Clusters /\ bits \in SUBSET Clusters
      BY <2>1, <3>1
    <3>4. /\ Cardinality(Clusters \ bits) \in 0 .. NClusters
          /\ Cardinality(Clusters \ (bits \cup B)) = Cardinality(Clusters \ bits) - n
          /\ Cardinality(Clusters \ (bits \cup B)) \in 0 .. NClusters
      <4>1. /\ Cardinality(Clusters \ bits) \in 0 .. NClusters /\ Cardinality(B) \in Nat
            /\ B \cap bits = {} => Cardinality(Clusters \ (bits \cup B))
                                     = Cardinality(Clusters \ bits) - Cardinality(B)
        BY <3>3, ClearBits
      <4> DEFINE e == bits \cup B
      <4>2. e \in SUBSET Clusters
        BY <3>3
      <4> HIDE DEF e
      <4>3. Cardinality(Clusters \ e) \in 0 .. NClusters
        BY <3>3, <4>2, ClearBits
      <4> QED BY <4>1, <4>3, <3>2, <2>2 DEF e
    <3> DEFINE x == Cardinality(Clusters \ bits)
               y == Cardinality(Clusters \ (bits \cup B))
    <3>5. x \in 0 .. NClusters /\ y = x - n /\ y \in 0 .. NClusters
          /\ (free_clst # Unknown => free_clst = x)
      BY <3>1, <3>4
    <3> HIDE DEF x, y
    <3>6. s.free \in 0 .. Unknown /\ (s.free # Unknown => s.free = y)
      BY <3>1, <3>5, <2>4, Sizes
    <3>7. scl + n - 1 \in Nat
      BY <2>2
    <3>8. s \in Volumes
      BY <3>1, <3>3, <3>6, <3>7, <2>4 DEF Volumes
    <3> QED BY <3>1, <3>6, <3>8, <2>4 DEF Sound, Exact, y
  <2>6. Gives(f, s, b)
    <3>1. Members(chain[f]) = {}
      BY <1>5, EmptyHasNone
    <3> HIDE DEF b, B
    <3> QED BY <3>1, <2>1, <2>2, <2>4, <2>5 DEF Gives
  <2>7. chain[f] \o b = b
    <3> HIDE DEF b
    <3> QED BY <1>5, <2>1
  <2> DEFINE q == [o EXCEPT !.sclust = scl, !.objsize = n, !.stat = 2]
  <2>8. /\ DOMAIN g = Fields /\ g.open /\ g.home = h.home /\ g.modified /\ g.fptr = 0
        /\ g.obj = q
    <3> HIDE DEF scl
    <3> QED BY <1>2, <1>5 DEF Fields
  <2>9. q \in ObjRec /\ q.sclust = scl /\ q.objsize = n /\ q.stat = 2 /\ q.n_cont = 0 /\ q.n_frag = 0
    <3> HIDE DEF scl, o
    <3> QED BY <1>5, <2>2 DEF ObjRec
  <2> HIDE DEF g, q, b, B, scl
  <2>10. Knows(q, b, s.fat)
    <3>1. Straight(b, n - 0 + 1, n)
      BY <2>1 DEF Straight
    <3> QED BY <2>1, <2>9, <3>1 DEF Knows
  <2>11. HandleOK(g, b, s.fat)
    BY <2>1, <2>8, <2>9, <2>10 DEF HandleOK
  <2>12. StillOpen(g, handle[f], b, chain[f], s.fat, fat)
    BY <2>8, <2>11 DEF StillOpen
  <2>13. Becomes(s) /\ Left(f, g, b, TRUE)
    BY <1>10 DEF s, b
  <2>14. /\ Gives(f, s, chain[f] \o b)
         /\ StillOpen(g, handle[f], chain[f] \o b, chain[f], s.fat, fat)
    BY <2>6, <2>7, <2>12
  <2>15. handle[f].open
    BY <1>2
  <2> HIDE DEF h
  <2> QED BY <2>13, <2>14, <2>15, <1>8, LeftGoesOn
<1> QED BY <1>2, <1>3, <1>9, <1>10

-----------------------------------------------------------------------------
(* Calls that need a block in Home.                                        *)

(* What dir_register says when there is room.                              *)
RegSays(s, hc, d, reg) ==
    /\ Sound(reg.s) /\ hc \o reg.new \in Seq(Clusters) /\ Distinct(hc \o reg.new)
    /\ Members(hc \o reg.new) \cap (s.bits \ Members(hc)) = {}
    /\ reg.s.bits = (s.bits \ Members(hc)) \cup Members(hc \o reg.new)
    /\ \A x \in Clusters : x \in s.bits /\ x \notin Members(hc) => reg.s.fat[x] = s.fat[x]
    /\ Len(hc) <= Len(hc \o reg.new) /\ \A i \in 1 .. Len(hc) : (hc \o reg.new)[i] = hc[i]
    /\ Knows(reg.home, hc \o reg.new, reg.s.fat)
    /\ Stored(reg.home).exists /\ Loaded(Stored(reg.home)) = reg.home
    /\ HomeSeen(reg.home, reg.home, hc \o reg.new)
    /\ d.stat = 0 => reg.home.stat = 0
    /\ reg.place \in Nat /\ reg.place < Blocks * Len(hc \o reg.new)
    /\ reg.place < Blocks * reg.home.objsize
LEMMA RegIs ==
    ASSUME NEW s, NEW hc \in Seq(Clusters), Distinct(hc), hc # <<>>, Members(hc) \subseteq s.bits,
           NEW d, NEW reg, Registers(s, hc, d, reg), reg.clst # 0
    PROVE  RegSays(s, hc, d, reg) /\ reg.clst \in Clusters
<1> DEFINE hn == hc \o reg.new
<1>1. /\ reg.clst \in Clusters
      /\ Sound(reg.s)
      /\ \/ reg.new = <<>> /\ reg.s = s
         \/ \E c \in Clusters \ s.bits : reg.new = <<c>> /\ reg.s.bits = s.bits \cup {c}
      /\ \A c \in Clusters : c \notin Members(hc) /\ c \notin Members(reg.new)
                                => reg.s.fat[c] = s.fat[c]
      /\ Knows(reg.home, hn, reg.s.fat)
      /\ reg.home.n_cont = 0 /\ reg.home.n_frag = 0 /\ reg.home.stat \in {0, 2}
      /\ d.stat = 0 => reg.home.stat = 0
      /\ reg.place \in Nat /\ reg.place < Blocks * Len(hn)
  BY DEF Registers
<1>2. /\ hn \in Seq(Clusters) /\ Distinct(hn) /\ hn # <<>>
      /\ Members(hn) \cap (s.bits \ Members(hc)) = {}
      /\ reg.s.bits = (s.bits \ Members(hc)) \cup Members(hn)
      /\ Len(hc) <= Len(hn) /\ \A i \in 1 .. Len(hc) : hn[i] = hc[i]
      /\ \A x \in s.bits : x \notin Members(reg.new)
  <2>0. hc \o <<>> = hc /\ Len(hc) \in Nat /\ \A c \in Clusters : hc \o <<c>> = Append(hc, c)
    BY JoinIs
  <2>1. CASE reg.new = <<>> /\ reg.s = s
    <3>1. hn = hc /\ Members(reg.new) = {}
      BY <2>0, <2>1, EmptyHasNone
    <3> HIDE DEF hn
    <3> QED BY <2>0, <2>1, <3>1
  <2>2. CASE \E c \in Clusters \ s.bits : reg.new = <<c>> /\ reg.s.bits = s.bits \cup {c}
    <3>1. PICK c \in Clusters \ s.bits : reg.new = <<c>> /\ reg.s.bits = s.bits \cup {c}
      BY <2>2
    <3>2. hn = Append(hc, c)
      BY <2>0, <3>1
    <3>3. c \notin Members(hc) /\ c \in Clusters
      BY <3>1
    <3>4. /\ Append(hc, c) \in Seq(Clusters) /\ Distinct(Append(hc, c))
          /\ Members(Append(hc, c)) = Members(hc) \cup {c}
          /\ Len(Append(hc, c)) = Len(hc) + 1
      BY <3>3, GrownIs
    <3>5. /\ \A i \in 1 .. Len(hc) : Append(hc, c)[i] = hc[i]
          /\ Append(hc, c) # <<>>
      BY <3>3, AppendIs
    <3>6. Members(reg.new) = {c}
      <4>1. <<c>> \in Seq(Clusters) /\ Len(<<c>>) = 1 /\ <<c>>[1] = c
        BY <3>3
      <4>2. \A x : x \in Members(<<c>>) <=> \E i \in 1 .. Len(<<c>>) : <<c>>[i] = x
        BY <4>1, MembersAre
      <4>3. Members(<<c>>) = {c}
        BY <4>1, <4>2
      <4> QED BY <4>3, <3>1
    <3> HIDE DEF hn
    <3> QED BY <2>0, <3>1, <3>2, <3>3, <3>4, <3>5, <3>6
  <2> QED BY <1>1, <2>1, <2>2
<1> DEFINE q == reg.home
<1> HIDE DEF hn, q
<1>3. HomeSeen(q, q, hn) /\ q.objsize = Len(hn)
  BY <1>1, <1>2, HomeSeenFrom, ZenonT(60) DEF q
<1>4. Stored(q).exists /\ Loaded(Stored(q)) = q
  <2>1. q \in ObjRec /\ q.stat \in {0, 2} /\ q.n_cont = 0 /\ q.n_frag = 0
    BY <1>1 DEF Knows, q
  <2>2. Loaded(Stored(q)) = [sclust |-> q.sclust, objsize |-> q.objsize, stat |-> q.stat,
                             n_cont |-> 0, n_frag |-> 0]
    BY <2>1 DEF Loaded, Stored
  <2> QED BY <2>1, <2>2 DEF ObjRec, Stored
<1>5. \A x \in Clusters : x \in s.bits /\ x \notin Members(hc) => reg.s.fat[x] = s.fat[x]
  BY <1>1, <1>2
<1> QED BY <1>1, <1>2, <1>3, <1>4, <1>5 DEF RegSays, hn, q

(* dir_register on a volume where Home is as it was.                       *)
LEMMA RegisterNow ==
    ASSUME IInv, NEW s, Sound(s), bits \subseteq s.bits,
           \A x \in Clusters : x \in Members(chain[Home]) => s.fat[x] = fat[x]
    PROVE  LET reg == dir_register(s)
           IN \/ reg.clst = 0 /\ reg.s = s
              \/ /\ reg.clst \in Clusters /\ reg.clst # 0 /\ reg.clst >= 2
                 /\ RegSays(s, chain[Home], Loaded(entry[Home]), reg)
<1> DEFINE hc == chain[Home]
           d == Loaded(entry[Home])
           reg == dir_register(s)
<1>1. /\ hc \in Seq(Clusters) /\ Distinct(hc) /\ hc # <<>> /\ Members(hc) \subseteq bits
      /\ Knows(d, hc, fat)
  BY StateIs, NamesAre DEF ChainOK
<1>2. Knows(d, hc, s.fat)
  <2>1. \A i \in 1 .. Len(hc) : hc[i] \in Members(hc) /\ hc[i] \in Clusters
    BY <1>1, MembersAre
  <2>2. \A i \in 1 .. Len(hc) : s.fat[hc[i]] = fat[hc[i]]
    BY <2>1
  <2> HIDE DEF hc, d
  <2> QED BY <1>1, <2>2, KnowsStays
<1>3. \A o \in Names : entry[o].exists => place[o] \in Nat /\ place[o] < Blocks * Len(hc)
  BY DEF IInv
<1>4. Members(hc) \subseteq s.bits
  BY <1>1
<1>5. Registers(s, hc, d, reg)
  <2> HIDE DEF hc
  <2> QED BY <1>1, <1>2, <1>3, <1>4, DirRegister
<1> HIDE DEF hc, d, reg
<1>6. CASE reg.clst = 0
  BY <1>5, <1>6, Sizes DEF Registers, reg
<1>7. CASE reg.clst # 0
  <2>1. RegSays(s, hc, d, reg) /\ reg.clst \in Clusters
    BY <1>1, <1>4, <1>5, <1>7, RegIs
  <2>2. reg.clst >= 2
    BY <2>1, Sizes
  <2> QED BY <2>1, <2>2, <1>7 DEF hc, d, reg
<1> QED BY <1>6, <1>7

(* o gets the chain c and the entry block e at the place reg of Home.      *)
EntersAt(o, e, c, reg) ==
    /\ Becomes(reg.s) /\ Entered(o, e, reg)
    /\ chain' = [chain EXCEPT ![o] = c, ![Home] = chain[Home] \o reg.new]
    /\ DOMAIN handle' = Files /\ \A f \in Files \ {o} : handle'[f] = handle[f]
    /\ lost' = lost /\ failed' = FALSE /\ seek' = seek
LEMMA Enters ==
    ASSUME IInv, NEW o \in Names, NEW e, NEW s, NEW c, Gives(o, s, c),
           NEW reg, RegSays(s, chain[Home], Loaded(entry[Home]), reg), EntersAt(o, e, c, reg)
    PROVE  /\ entry'[o] = e /\ chain'[o] = c /\ place'[o] = reg.place
           /\ entry'[Home] = Stored(reg.home) /\ chain'[Home] = chain[Home] \o reg.new
           /\ fat' = reg.s.fat
           /\ Touched(o) => IInv'
<1> DEFINE hc == chain[Home]
           hn == chain[Home] \o reg.new
           d == Loaded(entry[Home])
<1>1. /\ o \in Objects /\ Home \in Objects /\ o # Home /\ Names \subseteq Objects
      /\ DOMAIN entry = Objects /\ place \in [Names -> Nat] /\ seek \in [Files -> Nat]
      /\ chain \in [Objects -> Seq(Clusters)] /\ Apart(chain, bits, lost)
      /\ Members(chain[o]) \cap Members(hc) = {} /\ Members(hc) \subseteq bits
  BY NamesAre, StateIs DEF IInv, ChainOK
<1>2. /\ Sound(reg.s) /\ hn \in Seq(Clusters) /\ Distinct(hn)
      /\ Members(hn) \cap (s.bits \ Members(hc)) = {}
      /\ reg.s.bits = (s.bits \ Members(hc)) \cup Members(hn)
      /\ \A x \in Clusters : x \in s.bits /\ x \notin Members(hc) => reg.s.fat[x] = s.fat[x]
      /\ Len(hc) <= Len(hn) /\ \A i \in 1 .. Len(hc) : hn[i] = hc[i]
      /\ Knows(reg.home, hn, reg.s.fat)
      /\ Stored(reg.home).exists /\ Loaded(Stored(reg.home)) = reg.home
      /\ d.stat = 0 => reg.home.stat = 0
      /\ reg.place \in Nat
  BY DEF RegSays
<1>3. /\ Sound(s) /\ c \in Seq(Clusters) /\ Distinct(c)
      /\ Members(c) \cap (bits \ Members(chain[o])) = {}
      /\ s.bits = (bits \ Members(chain[o])) \cup Members(c)
      /\ \A x \in Clusters : x \in bits /\ x \notin Members(chain[o]) => s.fat[x] = fat[x]
  BY DEF Gives
<1>4. /\ Becomes(reg.s) /\ chain' = [chain EXCEPT ![o] = c, ![Home] = hn]
      /\ entry' = [entry EXCEPT ![o] = e, ![Home] = Stored(reg.home)]
      /\ place' = [place EXCEPT ![o] = reg.place]
      /\ DOMAIN handle' = Files /\ \A f \in Files \ {o} : handle'[f] = handle[f]
      /\ lost' = lost /\ failed' = FALSE /\ seek' = seek
  BY DEF EntersAt, Entered
<1> HIDE DEF hc, hn, d
<1>5. volume' = reg.s /\ fat' = reg.s.fat /\ bits' = reg.s.bits
  <2> DEFINE u == reg.s
  <2>1. u \in Volumes /\ Becomes(u)
    BY <1>2, <1>4 DEF Sound
  <2> HIDE DEF u
  <2>2. volume' = u /\ fat' = u.fat /\ bits' = u.bits
    BY <2>1, BecomesIs
  <2> QED BY <2>2 DEF u
<1>6. /\ chain'[o] = c /\ chain'[Home] = hn
      /\ \A p \in Names \ {o} : chain'[p] = chain[p]
      /\ entry'[o] = e /\ entry'[Home] = Stored(reg.home) /\ DOMAIN entry' = Objects
      /\ \A p \in Names \ {o} : entry'[p] = entry[p]
      /\ place'[o] = reg.place /\ place' \in [Names -> Nat]
      /\ \A p \in Names \ {o} : place'[p] = place[p]
  <2>1. \A p \in Names : p # Home /\ p \in Objects
    BY NamesAre
  <2>2. /\ chain'[o] = c /\ chain'[Home] = hn
        /\ \A p \in Names \ {o} : chain'[p] = chain[p]
    BY <2>1, <1>1, <1>4
  <2>3. /\ entry'[o] = e /\ entry'[Home] = Stored(reg.home) /\ DOMAIN entry' = Objects
        /\ \A p \in Names \ {o} : entry'[p] = entry[p]
    BY <2>1, <1>1, <1>4
  <2>4. /\ place'[o] = reg.place /\ place' \in [Names -> Nat]
        /\ \A p \in Names \ {o} : place'[p] = place[p]
    BY <1>1, <1>2, <1>4
  <2> QED BY <2>2, <2>3, <2>4
<1>7. Apart(chain', bits', lost')
  <2> DEFINE u == [chain EXCEPT ![o] = c]
             b == s.bits
  <2>1. Apart(u, b, lost)
    <3>1. Apart([chain EXCEPT ![o] = c], (bits \ Members(chain[o])) \cup Members(c), lost)
      BY <1>1, <1>3, ApartChanges
    <3> QED BY <3>1, <1>3
  <2>2. u[Home] = hc
    BY <1>1 DEF hc
  <2>3. chain' = [u EXCEPT ![Home] = hn]
    BY <1>4
  <2> HIDE DEF u
  <2>4. Apart([u EXCEPT ![Home] = hn], (b \ Members(u[Home])) \cup Members(hn), lost)
    BY <1>1, <1>2, <2>1, <2>2, ApartChanges
  <2> QED BY <2>2, <2>3, <2>4, <1>2, <1>4, <1>5
<1>8. Touches(o)
  <2>1. \A x \in Clusters : /\ x \in bits
                            /\ x \notin Members(chain[o]) /\ x \notin Members(hc)
                            => fat'[x] = fat[x]
    BY <1>2, <1>3, <1>5
  <2>2. \A p \in Names \ {o} : entry'[p] = entry[p] /\ chain'[p] = chain[p] /\ place'[p] = place[p]
    BY <1>6
  <2>3. Sound(volume') /\ seek' \in [Files -> Nat] /\ \A f \in Files \ {o} : seek'[f] = seek[f]
    BY <1>1, <1>2, <1>4, <1>5
  <2> QED BY <2>1, <2>2, <2>3, <1>4, <1>6, <1>7 DEF Touches, hc
<1>9. HomeGoesOn
  BY <1>2, <1>5, <1>6 DEF HomeGoesOn, hc, d
<1>10. Touched(o) => IInv'
  BY <1>8, <1>9, Others
<1> QED BY <1>5, <1>6, <1>10 DEF hn

LEMMA NotThere ==
    ASSUME IInv, NEW o \in Names, ~entry[o].exists
    PROVE  chain[o] = <<>> /\ ~(o \in Files /\ handle[o].open) /\ o \in Objects
<1>1. o \in Objects /\ EntryOK(o, entry[o], handle, chain[o], fat)
  BY NamesAre DEF IInv
<1> QED BY <1>1 DEF EntryOK

LEMMA FailedIsFalse ==
    ASSUME IInv, Ends(TRUE)
    PROVE  failed' = FALSE
BY StateIs DEF Ends

LEMMA OpenNewKeeps ==
    ASSUME IInv, Idle, seek' = seek, NEW f \in Files, f_open_new(f)
    PROVE  IInv'
<1> DEFINE reg == dir_register(volume)
           hc == chain[Home]
           h == Opened(Empty, reg.home, TRUE)
           e == Stored(Empty)
           Bad == Fails(reg.clst)
           Good == /\ Becomes(reg.s) /\ Entered(f, e, reg)
                   /\ handle' = [handle EXCEPT ![f] = h]
                   /\ chain' = [chain EXCEPT ![Home] = @ \o reg.new]
                   /\ Ends(TRUE) /\ lost' = lost
<1>1. ~entry[f].exists /\ IF reg.clst < 2 THEN Bad ELSE Good
  BY DEF f_open_new
<1>2. f \in Names /\ f \in Objects /\ f # Home /\ Home \in Objects /\ chain[f] = <<>>
  BY <1>1, NamesAre, NotThere
<1>3. /\ Sound(volume) /\ volume.fat = fat /\ volume.bits = bits
      /\ chain \in [Objects -> Seq(Clusters)]
  BY StateIs, VolumeIs
<1>4. \/ reg.clst = 0 /\ reg.s = volume
      \/ /\ reg.clst \in Clusters /\ reg.clst # 0 /\ reg.clst >= 2
         /\ RegSays(volume, hc, Loaded(entry[Home]), reg)
  BY <1>3, RegisterNow
<1> HIDE DEF reg, Bad, Good, e
<1>5. CASE reg.clst = 0
  <2>1. Bad
    BY <1>1, <1>5
  <2>2. Fails(0)
    BY <2>1, <1>5 DEF Bad
  <2> QED BY <2>2, FailsKeeps
<1>6. CASE reg.clst # 0
  <2>1. RegSays(volume, hc, Loaded(entry[Home]), reg)
    BY <1>4, <1>6
  <2>2. Good
    <3>1. ~(reg.clst < 2)
      BY <1>4, <1>6, Sizes
    <3> QED BY <1>1, <3>1
  <2> DEFINE c == <<>>
  <2>3. Gives(f, volume, c)
    BY <1>2, <1>3, GivesSame
  <2>4. chain' = [chain EXCEPT ![f] = c, ![Home] = hc \o reg.new]
    BY <2>2, <1>2, <1>3 DEF Good
  <2>5. failed' = FALSE
    BY <2>2, FailedIsFalse DEF Good
  <2>6. /\ DOMAIN handle' = Files /\ handle'[f] = h
        /\ \A g \in Files \ {f} : handle'[g] = handle[g]
    BY <2>2 DEF Good, IInv
  <2>7. EntersAt(f, e, c, reg)
    BY <2>2, <2>4, <2>5, <2>6 DEF Good, EntersAt
  <2> HIDE DEF h
  <2>8. /\ entry'[f] = e /\ chain'[f] = c /\ place'[f] = reg.place
        /\ entry'[Home] = Stored(reg.home) /\ chain'[Home] = chain[Home] \o reg.new
        /\ fat' = reg.s.fat
        /\ Touched(f) => IInv'
    <3> DEFINE s == volume
    <3>1. Gives(f, s, c) /\ RegSays(s, chain[Home], Loaded(entry[Home]), reg) /\ f \in Names
      BY <1>2, <2>1, <2>3
    <3> HIDE DEF s, c
    <3> QED BY <3>1, <2>7, Enters
  <2>9. /\ Stored(reg.home).exists /\ Loaded(Stored(reg.home)) = reg.home
        /\ HomeSeen(reg.home, reg.home, hc \o reg.new)
        /\ reg.place < Blocks * Len(hc \o reg.new)
        /\ reg.place < Blocks * reg.home.objsize
    BY <2>1 DEF RegSays
  <2>10. HandleOK(h, c, fat') /\ h.home = reg.home /\ h.modified
    <3>1. /\ DOMAIN h = Fields /\ h.open /\ h.obj = Empty /\ h.fptr = 0 /\ h.home = reg.home
          /\ h.modified
      BY DEF h, Opened, Fields
    <3>2. Knows(Empty, c, fat') /\ Empty.n_frag = 0 /\ Len(c) = 0
      BY EmptyIs
    <3> HIDE DEF c
    <3> QED BY <3>1, <3>2 DEF HandleOK
  <2>11. FileOK(handle'[f], chain'[f], fat', place'[f], Loaded(entry'[Home]), chain'[Home])
    BY <2>6, <2>8, <2>9, <2>10 DEF FileOK
  <2>12. EntryOK(f, entry'[f], handle', chain'[f], fat')
    BY <2>8, EmptyIs DEF EntryOK, e
  <2>13. Touched(f)
    <3>1. seek'[f] = 0
      BY IdleSeek
    <3>2. place'[f] < Blocks * Len(chain'[Home])
      BY <2>8, <2>9
    <3> QED BY ONLY <3>1, <3>2, <2>11, <2>12 DEF Touched
  <2> QED BY <2>8, <2>13
<1> QED BY <1>5, <1>6

LEMMA RenameKeeps ==
    ASSUME IInv, Idle, seek' = seek, NEW o \in Names, f_rename(o)
    PROVE  IInv'
<1> DEFINE reg == dir_register(volume)
           hc == chain[Home]
           e == entry[o]
           c == chain[o]
           Bad == Fails(reg.clst)
           Good == /\ Becomes(reg.s) /\ Entered(o, e, reg)
                   /\ chain' = [chain EXCEPT ![Home] = @ \o reg.new]
                   /\ Ends(TRUE) /\ handle' = handle /\ lost' = lost
<1>1. e.exists /\ ~IsOpen(o) /\ IF reg.clst < 2 THEN Bad ELSE Good
  BY DEF f_rename
<1>2. o \in Objects /\ o # Home /\ Home \in Objects
  BY NamesAre
<1>3. /\ Sound(volume) /\ volume.fat = fat /\ volume.bits = bits
      /\ chain \in [Objects -> Seq(Clusters)]
  BY StateIs, VolumeIs
<1>4. \/ reg.clst = 0 /\ reg.s = volume
      \/ /\ reg.clst \in Clusters /\ reg.clst # 0 /\ reg.clst >= 2
         /\ RegSays(volume, hc, Loaded(entry[Home]), reg)
  BY <1>3, RegisterNow
<1> HIDE DEF reg, Bad, Good
<1>5. CASE reg.clst = 0
  <2>1. Bad
    BY <1>1, <1>5
  <2>2. Fails(0)
    BY <2>1, <1>5 DEF Bad
  <2> QED BY <2>2, FailsKeeps
<1>6. CASE reg.clst # 0
  <2>1. RegSays(volume, hc, Loaded(entry[Home]), reg)
    BY <1>4, <1>6
  <2>2. Good
    <3>1. ~(reg.clst < 2)
      BY <1>4, <1>6, Sizes
    <3> QED BY <1>1, <3>1
  <2>3. Gives(o, volume, c)
    BY <1>2, <1>3, GivesSame
  <2>4. chain' = [chain EXCEPT ![o] = c, ![Home] = hc \o reg.new]
    BY <2>2, <1>2, <1>3 DEF Good
  <2>5. failed' = FALSE
    BY <2>2, FailedIsFalse DEF Good
  <2>6. DOMAIN handle' = Files /\ \A g \in Files \ {o} : handle'[g] = handle[g]
    BY <2>2 DEF Good, IInv
  <2>7. EntersAt(o, e, c, reg)
    BY <2>2, <2>4, <2>5, <2>6 DEF Good, EntersAt
  <2>8. /\ entry'[o] = e /\ chain'[o] = c /\ place'[o] = reg.place
        /\ entry'[Home] = Stored(reg.home) /\ chain'[Home] = chain[Home] \o reg.new
        /\ fat' = reg.s.fat
        /\ Touched(o) => IInv'
    <3> DEFINE s == volume
    <3>1. Gives(o, s, c) /\ RegSays(s, chain[Home], Loaded(entry[Home]), reg)
      BY <2>1, <2>3
    <3> HIDE DEF s, c, e
    <3> QED BY <3>1, <2>7, Enters
  <2>9. /\ reg.place < Blocks * Len(hc \o reg.new)
        /\ \A x \in Clusters : x \in bits /\ x \notin Members(hc) => reg.s.fat[x] = fat[x]
    BY <2>1, <1>3 DEF RegSays
  <2>10. Knows(Loaded(e), c, fat')
    <3>1. Knows(Loaded(e), c, fat) /\ c \in Seq(Clusters) /\ Members(c) \subseteq bits
      BY <1>1, ShutIs
    <3>2. Members(c) \cap Members(hc) = {}
      BY <1>2, StateIs
    <3> HIDE DEF c, e, hc
    <3>3. ASSUME NEW i \in 1 .. Len(c) PROVE fat'[c[i]] = fat[c[i]]
      <4>1. c[i] \in Members(c) /\ c[i] \in Clusters
        BY <3>1, MembersAre
      <4> QED BY <4>1, <3>1, <3>2, <2>8, <2>9
    <3> QED BY <3>1, <3>3, KnowsStays
  <2>11. ~(o \in Files /\ handle'[o].open)
    BY <1>1, <2>2 DEF IsOpen, Good
  <2>12. Touched(o)
    <3>1. o \in Files => seek'[o] = 0
      BY IdleSeek
    <3>2. EntryOK(o, entry'[o], handle', chain'[o], fat')
      <4> HIDE DEF e, c
      <4> QED BY <1>1, <2>8, <2>10 DEF EntryOK
    <3>3. o \in Files => FileOK(handle'[o], chain'[o], fat', place'[o], Loaded(entry'[Home]), chain'[Home])
      BY <2>11 DEF FileOK
    <3>4. place'[o] < Blocks * Len(chain'[Home])
      BY <2>8, <2>9
    <3> QED BY ONLY <3>1, <3>2, <3>3, <3>4 DEF Touched
  <2> QED BY <2>8, <2>12
<1> QED BY <1>5, <1>6

(* The uninitialised object that is to give the cluster back tells that it *)
(* is the last one, or nothing, if not that the next one follows.          *)
LEMMA GarbageTells ==
    ASSUME NEW s \in Volumes, NEW n \in ObjRec, NEW c \in Clusters,
           Knows(NewObj(n, <<>>, c), <<c>>, s.fat), NEW g \in Garbage,
           ~Misled(s, [n EXCEPT !.sclust = g.sclust, !.objsize = g.objsize], c)
    PROVE  LET o == [n EXCEPT !.sclust = g.sclust, !.objsize = g.objsize]
           IN o \in ObjRec /\ (get_fat(s, o, c) = 1 \/ get_fat(s, o, c) = EOC)
<1> DEFINE o == [n EXCEPT !.sclust = g.sclust, !.objsize = g.objsize]
           ch == <<c>>
           q == NewObj(n, <<>>, c)
<1>1. g.sclust \in Nat /\ g.objsize \in Nat /\ c \in Nat
  BY VolumeAssumption, Sizes
<1>2. /\ o \in ObjRec /\ o.sclust = g.sclust /\ o.objsize = g.objsize
      /\ o.stat = n.stat /\ o.n_cont = n.n_cont /\ o.n_frag = n.n_frag
  BY <1>1 DEF ObjRec
<1>3. q.stat = n.stat /\ q.n_cont = n.n_cont /\ q.n_frag = n.n_frag
  <2> DEFINE e == <<>>
  <2>1. e \in Seq(Clusters)
    OBVIOUS
  <2> HIDE DEF e
  <2>2. LET p == NewObj(n, e, c)
        IN /\ p \in ObjRec /\ p.objsize = Len(e) + 1
           /\ p.sclust = IF e = <<>> THEN c ELSE n.sclust
           /\ p.stat = n.stat /\ p.n_cont = n.n_cont /\ p.n_frag = n.n_frag
    BY <2>1, NewObjIs
  <2> QED BY <2>2 DEF e
<1>4. Len(ch) = 1 /\ ch[1] = c /\ ch # <<>>
  OBVIOUS
<1> HIDE DEF o, q, ch
<1>5. /\ q \in ObjRec /\ (q.stat # 3 => q.n_cont = 0)
      /\ (q.stat = 3 => 1 >= q.n_cont + 2)
      /\ q.stat # 2 => \A i \in q.n_cont + 1 .. 1 - q.n_frag : s.fat[ch[i]] = Behind(ch, i)
  <2>1. Knows(q, ch, s.fat)
    BY DEF q, ch
  <2> QED BY ONLY <2>1, <1>4 DEF Knows
<1>6. /\ n.stat \in {0, 2, 3} /\ n.n_cont \in Nat /\ n.n_frag \in Nat
  BY DEF ObjRec
<1>7. CASE n.stat = 2
  <2>1. get_fat(s, o, c) # c + 1
    BY DEF o, Misled
  <2>2. o.stat = 2
    BY <1>2, <1>7
  <2> HIDE DEF Clusters, EOC
  <2>3. get_fat(s, o, c) = 1 \/ get_fat(s, o, c) = EOC
    BY ONLY <2>1, <2>2 DEF get_fat
  <2> QED BY <2>3, <1>2 DEF o
<1>8. CASE n.stat = 0
  <2>1. get_fat(s, o, c) = IF o.n_frag # 0 THEN EOC ELSE s.fat[c]
    BY <1>2, <1>8 DEF get_fat
  <2>2. o.n_frag = 0 => s.fat[c] = EOC
    <3>1. o.n_frag = 0 => 1 \in q.n_cont + 1 .. 1 - q.n_frag
      BY <1>2, <1>3, <1>5, <1>8
    <3>2. Behind(ch, 1) = EOC
      BY <1>4 DEF Behind
    <3>3. q.stat # 2
      BY <1>3, <1>8
    <3> QED BY <3>1, <3>2, <3>3, <1>4, <1>5
  <2> QED BY <2>1, <2>2, <1>2 DEF o
<1>9. CASE n.stat = 3
  BY <1>3, <1>5, <1>6, <1>9
<1> QED BY <1>6, <1>7, <1>8, <1>9

(* Chains are as they were.                                                *)
LEMMA ChainsStay ==
    ASSUME IInv, entry' = entry, place' = place, handle' = handle, seek' = seek,
           chain' = chain, fat' = fat, failed' = FALSE,
           Sound(volume'), Apart(chain', bits', lost')
    PROVE  IInv'
BY DEF IInv

LEMMA MkdirKeeps ==
    ASSUME IInv, Idle, seek' = seek, NEW o \in Subdirs, f_mkdir(o), ~stray'
    PROVE  IInv'
<1> DEFINE new == create_chain(volume, Empty, 0)
           t == new.s
           n == new.obj
           c == new.clst
           reg == dir_register(t)
           hc == chain[Home]
           e == [sclust |-> c, objsize |-> 1, stat |-> 2, exists |-> TRUE]
           b == <<c>>
           sobj(g) == [n EXCEPT !.sclust = g.sclust, !.objsize = g.objsize]
           r(g) == remove_chain(reg.s, sobj(g), c, 0)
           Full == Fails(0)
           Good == /\ Becomes(reg.s) /\ Entered(o, e, reg)
                   /\ chain' = [chain EXCEPT ![o] = b, ![Home] = @ \o reg.new]
                   /\ Ends(TRUE) /\ handle' = handle /\ lost' = lost
           Back == \E g \in Garbage :
                     /\ Becomes(r(g).s)
                     /\ lost' = lost \cup ({c} \cap r(g).s.bits)
                     /\ IF Misled(reg.s, sobj(g), c) THEN stray' = TRUE ELSE stray' = stray
                     /\ Ends(reg.clst # 1)
                     /\ entry' = entry /\ place' = place /\ handle' = handle /\ chain' = chain
<1>1. ~entry[o].exists /\ IF c = 0 THEN Full ELSE IF reg.clst >= 2 THEN Good ELSE Back
  BY DEF f_mkdir
<1>2. o \in Names /\ o \in Objects /\ o # Home /\ Home \in Objects /\ chain[o] = <<>> /\ o \notin Files
  BY <1>1, NamesAre, NotThere
<1>3. /\ Sound(volume) /\ volume.fat = fat /\ volume.bits = bits
      /\ chain \in [Objects -> Seq(Clusters)]
  BY StateIs, VolumeIs
<1>4. Extended(volume, Empty, <<>>, new)
  <2> DEFINE ch == <<>>
             p == Empty
  <2>1. ch \in Seq(Clusters) /\ Distinct(ch) /\ Knows(p, ch, volume.fat) /\ ch = <<>>
    BY EmptyIs DEF Distinct
  <2> HIDE DEF ch, p
  <2>2. Extended(volume, p, ch, create_chain(volume, p, IF ch = <<>> THEN 0 ELSE ch[Len(ch)]))
    BY <2>1, <1>3, CreateExtends
  <2> QED BY <2>1, <2>2 DEF p
<1> HIDE DEF new
<1>5. CASE c = 0
  <2>1. Full
    BY <1>1, <1>5
  <2> QED BY <2>1, FailsKeeps
<1>6. ASSUME c # 0
      PROVE  /\ c \in Clusters \ bits /\ Sound(t) /\ t.bits = bits \cup {c}
             /\ \A x \in Clusters : t.fat[x] = fat[x]
             /\ n \in ObjRec /\ Knows(NewObj(n, <<>>, c), Append(<<>>, c), t.fat)
  <2> DEFINE ch == <<>>
             y == [s |-> volume, obj |-> Empty, clst |-> 0, new |-> FALSE]
  <2>1. y.clst = 0 /\ Members(ch) = {} /\ Extended(volume, Empty, ch, new)
    BY <1>4, EmptyHasNone
  <2> HIDE DEF y, ch
  <2>2. /\ c \in Clusters \ bits /\ Sound(t) /\ t.bits = bits \cup {c}
        /\ \A x \in Clusters \ Members(ch) : t.fat[x] = fat[x]
        /\ n \in ObjRec /\ Knows(NewObj(n, ch, c), Append(ch, c), t.fat)
    BY <2>1, <1>3, <1>6 DEF Extended, y
  <2> QED BY <2>1, <2>2 DEF ch
<1>7. ASSUME c # 0
      PROVE  /\ Gives(o, t, b)
             /\ Append(<<>>, c) = b /\ b \in Seq(Clusters) /\ Len(b) = 1 /\ b[1] = c /\ Members(b) = {c}
  <2>1. c \in Clusters
    BY <1>6, <1>7
  <2>2. Append(<<>>, c) = b /\ b \in Seq(Clusters) /\ Len(b) = 1 /\ b[1] = c
    BY <2>1
  <2>3. Members(b) = {c} /\ Distinct(b)
    <3> HIDE DEF b
    <3>1. \A x : x \in Members(b) <=> \E i \in 1 .. Len(b) : b[i] = x
      BY <2>2, MembersAre
    <3> QED BY <3>1, <2>2 DEF Distinct
  <2>4. Members(chain[o]) = {}
    BY <1>2, EmptyHasNone
  <2> HIDE DEF b
  <2>5. Gives(o, t, b)
    BY <1>6, <1>7, <2>2, <2>3, <2>4 DEF Gives
  <2> QED BY <2>2, <2>3, <2>5
<1>8. ASSUME c # 0
      PROVE  \/ reg.clst = 0 /\ reg.s = t
             \/ /\ reg.clst \in Clusters /\ reg.clst # 0 /\ reg.clst >= 2
                /\ RegSays(t, hc, Loaded(entry[Home]), reg)
  <2>1. /\ Sound(t) /\ bits \subseteq t.bits
        /\ \A x \in Clusters : x \in Members(chain[Home]) => t.fat[x] = fat[x]
    BY <1>6, <1>8
  <2> HIDE DEF t
  <2> QED BY <2>1, RegisterNow
<1> HIDE DEF reg, Good, Back, Full, c, n
<1>9. CASE c # 0 /\ reg.clst # 0
  <2>1. RegSays(t, hc, Loaded(entry[Home]), reg)
    BY <1>8, <1>9
  <2>2. Good
    <3>1. reg.clst >= 2
      BY <1>8, <1>9
    <3> QED BY <1>1, <1>9, <3>1
  <2>3. Gives(o, t, b)
    BY <1>7, <1>9
  <2>4. failed' = FALSE
    BY <2>2, FailedIsFalse DEF Good
  <2>5. DOMAIN handle' = Files /\ \A g \in Files \ {o} : handle'[g] = handle[g]
    BY <2>2 DEF Good, IInv
  <2>6. EntersAt(o, e, b, reg)
    BY <2>2, <2>4, <2>5 DEF Good, EntersAt
  <2> HIDE DEF t, b, e
  <2>7. /\ entry'[o] = e /\ chain'[o] = b /\ place'[o] = reg.place
        /\ entry'[Home] = Stored(reg.home) /\ chain'[Home] = chain[Home] \o reg.new
        /\ fat' = reg.s.fat
        /\ Touched(o) => IInv'
    BY <1>2, <2>1, <2>3, <2>6, Enters
  <2>8. reg.place < Blocks * Len(hc \o reg.new)
    BY <2>1 DEF RegSays
  <2>9. Knows(Loaded(e), b, fat')
    <3>1. /\ b \in Seq(Clusters) /\ Len(b) = 1 /\ b[1] = c /\ c \in Clusters /\ b # <<>>
      <4>1. b \in Seq(Clusters) /\ Len(b) = 1 /\ b[1] = c /\ c \in Clusters
        BY <1>6, <1>7, <1>9
      <4>2. b = <<>> => Len(b) = 0
        OBVIOUS
      <4> QED BY <4>1, <4>2
    <3>2. Loaded(e) = [sclust |-> c, objsize |-> 1, stat |-> 2, n_cont |-> 0, n_frag |-> 0]
      BY DEF Loaded, e
    <3> DEFINE q == Loaded(e)
    <3>3. /\ q \in ObjRec /\ q.sclust = c /\ q.objsize = 1 /\ q.stat = 2 /\ q.n_cont = 0
          /\ q.n_frag = 0
      BY <3>1, <3>2, Sizes DEF ObjRec
    <3> HIDE DEF q
    <3>4. Straight(b, 1, Len(b)) /\ Straight(b, Len(b) - 0 + 1, Len(b))
      <4>1. b[1] \in Nat
        BY <3>1, Sizes
      <4> QED BY <3>1, <4>1 DEF Straight
    <3>5. Knows(q, b, fat')
      BY <3>1, <3>3, <3>4 DEF Knows
    <3> QED BY <3>5 DEF q
  <2>10. Touched(o)
    <3>1. EntryOK(o, entry'[o], handle', chain'[o], fat')
      BY <2>7, <2>9, <1>2 DEF EntryOK, e
    <3>2. place'[o] < Blocks * Len(chain'[Home])
      BY <2>7, <2>8
    <3> QED BY ONLY <3>1, <3>2, <1>2 DEF Touched
  <2> QED BY <2>7, <2>10
<1>10. CASE c # 0 /\ reg.clst = 0
  <2>1. reg.s = t
    BY <1>8, <1>10
  <2>2. Back
    <3>1. ~(reg.clst >= 2)
      BY <1>10
    <3> QED BY <1>1, <1>10, <3>1
  <2>3. PICK g \in Garbage :
            /\ Becomes(r(g).s)
            /\ lost' = lost \cup ({c} \cap r(g).s.bits)
            /\ IF Misled(reg.s, sobj(g), c) THEN stray' = TRUE ELSE stray' = stray
            /\ Ends(reg.clst # 1)
            /\ entry' = entry /\ place' = place /\ handle' = handle /\ chain' = chain
    BY <2>2 DEF Back
  <2>4. failed' = FALSE
    <3> DEFINE ok == reg.clst # 1
    <3>1. ok = TRUE
      BY <1>10
    <3>2. Ends(ok)
      BY <2>3
    <3> HIDE DEF ok
    <3>3. Ends(TRUE)
      BY <3>1, <3>2
    <3> QED BY <3>3, FailedIsFalse
  <2> DEFINE k == sobj(g)
             u == remove_chain(t, k, c, 0)
             w == u.s
  <2>5. /\ c \in Clusters \ bits /\ Sound(t) /\ t \in Volumes /\ t.bits = bits \cup {c}
        /\ \A x \in Clusters : t.fat[x] = fat[x]
        /\ n \in ObjRec /\ Knows(NewObj(n, <<>>, c), <<c>>, t.fat)
        /\ Reserved \subseteq bits
    BY <1>3, <1>6, <1>7, <1>10 DEF Sound
  <2>6. k \in ObjRec /\ (get_fat(t, k, c) = 1 \/ get_fat(t, k, c) = EOC)
    <3> HIDE DEF t
    <3>1. ~Misled(t, [n EXCEPT !.sclust = g.sclust, !.objsize = g.objsize], c)
      BY <2>1, <2>3
    <3> QED BY <2>5, <3>1, GarbageTells
  <2>7. Sound(w) /\ w.fat = t.fat /\ (w.bits = t.bits \/ w.bits = t.bits \ {c})
    <3>1. c \in Clusters /\ c \in t.bits \ Reserved
      BY <2>5
    <3> HIDE DEF t, k
    <3> QED BY <2>5, <2>6, <3>1, GarbageCleared
  <2>8. Becomes(w) /\ lost' = lost \cup ({c} \cap w.bits)
    BY <2>1, <2>3
  <2> HIDE DEF w, t, k, u
  <2>9. volume' = w /\ fat' = w.fat /\ bits' = w.bits
    <3>1. w \in Volumes
      BY <2>7 DEF Sound
    <3> QED BY <3>1, <2>8, BecomesIs
  <2>10. fat' = fat
    <3>1. fat \in FatType /\ fat' \in FatType
      BY <1>3, <2>7, <2>9, VolumeIs DEF Sound, Volumes
    <3>2. \A x \in Clusters : fat'[x] = fat[x]
      BY <2>5, <2>7, <2>9
    <3> QED BY <3>1, <3>2 DEF FatType
  <2>11. Apart(chain', bits', lost')
    <3>1. Apart(chain, bits, lost) /\ c \notin bits /\ c \in Clusters
      BY <2>5 DEF IInv
    <3>2. CASE w.bits = t.bits
      <4>1. bits' = bits \cup {c} /\ lost' = lost \cup {c}
        BY <3>2, <2>5, <2>8, <2>9
      <4>2. Apart(chain, bits \cup {c}, lost \cup {c})
        BY <3>1, ApartLost
      <4> QED BY <4>1, <4>2, <2>3
    <3>3. CASE w.bits = t.bits \ {c}
      <4>1. bits' = bits /\ lost' = lost
        BY <3>1, <3>3, <2>5, <2>8, <2>9
      <4> QED BY <4>1, <3>1, <2>3
    <3> QED BY <3>2, <3>3, <2>7
  <2>12. Sound(volume')
    BY <2>7, <2>9
  <2> QED BY <2>3, <2>4, <2>10, <2>11, <2>12, ChainsStay
<1> QED BY <1>5, <1>9, <1>10

-----------------------------------------------------------------------------
(* The volume just mounted.                                                *)
LEMMA MountedIs ==
    ASSUME Init
    PROVE  Sound(volume) /\ Apart(chain, bits, lost)
<1>1. HomeClust \in Clusters /\ HomeClust \notin Reserved /\ Reserved \subseteq Clusters
  BY VolumeAssumption
<1>2. bits = Reserved \cup {HomeClust} /\ lost = {} /\ Home \in Objects
  BY NamesAre DEF Init
<1>3. Sound(volume)
  <2>1. fat \in FatType
    BY DEF Init, FatType
  <2>2. bits \in SUBSET Clusters
    BY <1>1, <1>2
  <2>3. last_clst = Unknown /\ free_clst = Unknown /\ Unknown \in Nat /\ Unknown \in 0 .. Unknown
    BY Sizes DEF Init
  <2>4. volume \in Volumes
    BY <2>1, <2>2, <2>3 DEF volume, Volumes
  <2> QED BY <2>3, <2>4, <1>2, VolumeIs DEF Sound, Exact
<1>4. Apart(chain, bits, lost)
  <2> DEFINE b == <<HomeClust>>
             e == <<>>
  <2>1. chain = [o \in Objects |-> IF o = Home THEN b ELSE e]
    BY DEF Init
  <2>2. b \in Seq(Clusters) /\ Len(b) = 1 /\ b[1] = HomeClust
    BY <1>1
  <2>3. e \in Seq(Clusters) /\ Len(e) = 0
    OBVIOUS
  <2> HIDE DEF b, e
  <2>4. \A x : x \in Members(b) <=> \E i \in 1 .. Len(b) : b[i] = x
    BY <2>2, MembersAre
  <2>5. \A x : x \in Members(e) <=> \E i \in 1 .. Len(e) : e[i] = x
    BY <2>3, MembersAre
  <2>6. Distinct(b) /\ Distinct(e) /\ Members(b) = {HomeClust} /\ Members(e) = {}
    BY <2>2, <2>3, <2>4, <2>5 DEF Distinct
  <2>7. chain[Home] = b /\ \A o \in Objects : (chain[o] = b /\ o = Home) \/ chain[o] = e
    BY <2>1, <1>2
  <2>8. chain \in [Objects -> Seq(Clusters)]
    BY <2>1, <2>2, <2>3
  <2>9. \A o \in Objects : Distinct(chain[o]) /\ Members(chain[o]) \cap (Reserved \cup lost) = {}
    BY <2>6, <2>7, <1>1, <1>2
  <2>10. \A o, p \in Objects : o # p => Members(chain[o]) \cap Members(chain[p]) = {}
    BY <2>6, <2>7
  <2>11. \A x : x \in bits <=> \/ x \in Reserved \/ x \in lost
                               \/ \E o \in Objects : x \in Members(chain[o])
    BY <2>6, <2>7, <1>2
  <2> QED BY <2>8, <2>9, <2>10, <2>11, <1>2 DEF Apart
<1> QED BY <1>3, <1>4

LEMMA InitInv ==
    ASSUME Init
    PROVE  IInv
<1>1. Sound(volume) /\ Apart(chain, bits, lost)
  BY MountedIs
<1> DEFINE b == <<HomeClust>>
           e == [sclust |-> HomeClust, objsize |-> 1, stat |-> 2, exists |-> TRUE]
           q == Loaded(e)
<1>2. /\ \A o \in Objects : entry[o] = IF o = Home THEN e ELSE None
      /\ \A o \in Objects : chain[o] = IF o = Home THEN b ELSE <<>>
      /\ \A f \in Files : handle[f] = Closed /\ seek[f] = 0
      /\ DOMAIN entry = Objects /\ DOMAIN handle = Files
      /\ place \in [Names -> Nat] /\ seek \in [Files -> Nat] /\ failed = FALSE
  BY DEF Init
<1>3. HomeClust \in Clusters /\ HomeClust \in Nat
  BY VolumeAssumption, Sizes
<1>4. b \in Seq(Clusters) /\ Len(b) = 1 /\ b[1] = HomeClust /\ (b = <<>> => Len(b) = 0)
  BY <1>3
<1>5. e.exists /\ ~None.exists /\ ~Closed.open
  BY DEF None, Closed
<1>6. Knows(q, b, fat)
  <2>1. q = [sclust |-> HomeClust, objsize |-> 1, stat |-> 2, n_cont |-> 0, n_frag |-> 0]
    BY DEF Loaded
  <2>2. /\ q \in ObjRec /\ q.sclust = HomeClust /\ q.objsize = 1 /\ q.stat = 2
        /\ q.n_cont = 0 /\ q.n_frag = 0
    BY <1>3, <2>1 DEF ObjRec
  <2> HIDE DEF q, b
  <2>3. Straight(b, 1, Len(b)) /\ Straight(b, Len(b) - 0 + 1, Len(b))
    BY <1>3, <1>4 DEF Straight
  <2> QED BY <1>4, <2>2, <2>3 DEF Knows
<1> HIDE DEF e, q
<1>7. entry[Home] = e /\ chain[Home] = b /\ b # <<>>
  BY <1>2, <1>4, NamesAre
<1> HIDE DEF b
<1>8. ASSUME NEW o \in Objects
      PROVE  EntryOK(o, entry[o], handle, chain[o], fat)
  <2>1. CASE o = Home
    BY <2>1, <1>5, <1>6, <1>7 DEF EntryOK, q
  <2>2. CASE o # Home
    BY <2>2, <1>2, <1>5 DEF EntryOK
  <2> QED BY <2>1, <2>2
<1>9. \A o \in Names : ~entry[o].exists
  BY <1>2, <1>5, NamesAre
<1>10. \A f \in Files : ~handle[f].open /\ ~(seek[f] > 0)
  BY <1>2, <1>5
<1>11. \A f \in Files :
          FileOK(handle[f], chain[f], fat, place[f], Loaded(entry[Home]), chain[Home])
  BY <1>10 DEF FileOK
<1> QED BY <1>1, <1>2, <1>5, <1>7, <1>8, <1>9, <1>10, <1>11 DEF IInv

(* Every call, and every turn of f_lseek's loop, keeps the invariant.      *)
LEMMA NextKeeps ==
    ASSUME IInv, [Next]_vars, ~stray'
    PROVE  IInv'
<1>1. CASE UNCHANGED vars
  <2>1. /\ entry' = entry /\ place' = place /\ handle' = handle /\ seek' = seek
        /\ chain' = chain /\ lost' = lost /\ fat' = fat /\ bits' = bits /\ failed' = failed
        /\ last_clst' = last_clst /\ free_clst' = free_clst
    BY <1>1 DEF vars
  <2>2. volume' = volume
    BY <2>1 DEF volume
  <2>3. Sound(volume') /\ failed' = FALSE
    BY <2>1, <2>2, StateIs
  <2> QED BY <2>1, <2>3, Unmoved
<1>2. CASE Idle /\ Call /\ UNCHANGED <<seek, stray>>
  <2>1. seek' = seek
    BY <1>2
  <2>2. ASSUME NEW o \in Names, f_unlink(o) PROVE IInv'
    BY <1>2, <2>1, <2>2, UnlinkKeeps
  <2>3. ASSUME NEW o \in Names, f_rename(o) PROVE IInv'
    BY <1>2, <2>1, <2>3, RenameKeeps
  <2>4. ASSUME NEW f \in Files, f_open_new(f) PROVE IInv'
    BY <1>2, <2>1, <2>4, OpenNewKeeps
  <2>5. ASSUME NEW f \in Files, f_open_overwrite(f) PROVE IInv'
    BY <1>2, <2>1, <2>5, OverwriteKeeps
  <2>6. ASSUME NEW f \in Files, NEW append \in BOOLEAN, f_open_existing(f, append) PROVE IInv'
    BY <1>2, <2>1, <2>6, OpenKeeps
  <2>7. ASSUME NEW f \in Files, f_write(f) PROVE IInv'
    BY <1>2, <2>1, <2>7, WriteKeeps
  <2>8. ASSUME NEW f \in Files, f_read(f) PROVE IInv'
    BY <1>2, <2>1, <2>8, ReadKeeps
  <2>9. ASSUME NEW f \in Files, f_truncate(f) PROVE IInv'
    BY <1>2, <2>1, <2>9, TruncateKeeps
  <2>10. ASSUME NEW f \in Files, f_sync(f) PROVE IInv'
    BY <1>2, <2>1, <2>10, SyncKeeps
  <2>11. ASSUME NEW f \in Files, f_close(f) PROVE IInv'
    BY <1>2, <2>1, <2>11, CloseKeeps
  <2>12. ASSUME NEW f \in Files, NEW n \in 2 .. MaxSize, NEW now \in BOOLEAN, f_expand(f, n, now)
         PROVE  IInv'
    <3>1. n \in Nat \ {0}
      BY VolumeAssumption
    <3> QED BY <1>2, <2>1, <2>12, <3>1, ExpandKeeps
  <2>13. ASSUME f_getfree PROVE IInv'
    BY <2>1, <2>13, GetfreeKeeps
  <2>14. Call
    BY <1>2
  <2> QED BY ONLY <2>2, <2>3, <2>4, <2>4, <2>5, <2>6, <2>7, <2>8, <2>9, <2>10, <2>11, <2>12,
                  <2>13, <2>14 DEF Call
<1>3. ASSUME Idle, NEW f \in Files, NEW ofs \in 0 .. MaxSize, f_lseek(f, ofs)
      PROVE  IInv'
  <2>1. ofs \in Nat
    BY VolumeAssumption
  <2> QED BY <1>3, <2>1, LseekKeeps
<1>4. ASSUME NEW f \in Files, LseekTurn(f)
      PROVE  IInv'
  BY <1>4, TurnKeeps
<1>5. ASSUME Idle, seek' = seek, NEW d \in Subdirs, f_mkdir(d)
      PROVE  IInv'
  BY <1>5, MkdirKeeps
<1> QED BY <1>1, <1>2, <1>3, <1>4, <1>5 DEF Next

(* What f_mkdir has given back too much stays so.                          *)
LEMMA StrayStays ==
    ASSUME stray \in BOOLEAN, [Next]_vars
    PROVE  stray' \in BOOLEAN /\ (stray => stray')
<1>1. ASSUME NEW d \in Subdirs, f_mkdir(d)
      PROVE  stray' \in BOOLEAN /\ (stray => stray')
  BY <1>1 DEF f_mkdir
<1>2. CASE UNCHANGED stray
  BY <1>2
<1>3. \/ UNCHANGED vars
      \/ Call /\ UNCHANGED <<seek, stray>>
      \/ \E d \in Subdirs : f_mkdir(d)
      \/ UNCHANGED stray
  BY DEF Next
<1>4. UNCHANGED vars => UNCHANGED stray
  BY DEF vars
<1> QED BY <1>1, <1>2, <1>3, <1>4

(* The invariant is inductive as long as no f_mkdir has given back more    *)
(* than its own cluster: whatever the volume, the names and the calls are, *)
(* every state reached until then satisfies it.                            *)
Invariant == stray \in BOOLEAN /\ (~stray => IInv)
THEOREM InvariantHolds == Spec => []Invariant
<1>1. Init => Invariant
  BY InitInv DEF Init, Invariant
<1>2. Invariant /\ [Next]_vars => Invariant'
  BY NextKeeps, StrayStays DEF Invariant
<1> QED BY <1>1, <1>2, PTL DEF Spec

-----------------------------------------------------------------------------
(* What the invariant says of the properties that the runs check.          *)
LEMMA BlockFound ==
    ASSUME IInv, NEW f \in Files, handle[f].open
    PROVE  HomeFound(f)
<1> DEFINE d == handle[f].home
           e == Loaded(entry[Home])
           hc == chain[Home]
           i == place[f] \div Blocks + 1
<1>1. /\ volume \in Volumes /\ volume.fat = fat
      /\ hc \in Seq(Clusters) /\ Distinct(hc) /\ hc # <<>> /\ Knows(e, hc, fat)
  BY StateIs, NamesAre, VolumeIs DEF ChainOK
<1>2. HomeSeen(d, e, hc) /\ place[f] < Blocks * d.objsize /\ place[f] \in Nat
  <2>1. FileOK(handle[f], chain[f], fat, place[f], e, hc)
    BY DEF IInv
  <2>2. place[f] \in Nat
    BY NamesAre DEF IInv
  <2> QED BY <2>1, <2>2 DEF FileOK
<1>3. e.stat \in {0, 2} /\ e.n_cont = 0 /\ e.n_frag = 0
  BY LoadedIs
<1>4. HomeFound(f) <=> i <= Len(ChainOf(volume, d)) /\ ChainOf(volume, d)[i] = hc[i]
  BY DEF HomeFound
<1>5. Blocks \in Nat \ {0}
  BY VolumeAssumption
<1> DEFINE p == place[f]
<1> HIDE DEF d, e, hc, p
<1>6. /\ d \in ObjRec /\ d.n_cont = 0 /\ d.n_frag = 0
      /\ d.sclust = hc[1] /\ d.objsize \in 1 .. Len(hc)
      /\ d.stat = 2 => Straight(hc, 1, d.objsize)
      /\ d.stat # 2 => d.stat = 0 /\ e.stat = 0
  BY <1>2 DEF HomeSeen
<1> DEFINE n == d.objsize
<1>7. n \in Nat /\ n >= 1 /\ n <= Len(hc) /\ Len(hc) \in Nat
  BY <1>1, <1>6
<1>8. p \div Blocks \in Nat /\ p \div Blocks < n
  <2>1. p \in Nat /\ p < Blocks * n
    BY <1>2 DEF p
  <2> HIDE DEF n
  <2>2. p \div Blocks \in Nat
    BY <2>1, <1>5, DivMod
  <2>3. p \div Blocks < n
    BY <2>1, <1>5, <1>7, DivLess
  <2> QED BY <2>2, <2>3
<1>9. i \in 1 .. n
  BY <1>7, <1>8 DEF p
<1> HIDE DEF i, n
<1>10. CASE d.stat = 2
  <2> DEFINE q == SubSeq(hc, 1, n)
  <2>1. q \in Seq(Clusters) /\ Len(q) = n /\ \A k \in 1 .. n : q[k] = hc[k]
    BY <1>1, <1>7
  <2>2. Distinct(q)
    BY <2>1, <1>1, <1>7 DEF Distinct
  <2>3. Straight(q, 1, Len(q)) /\ Straight(q, Len(q) - 0 + 1, Len(q)) /\ q # <<>>
    <3> HIDE DEF q
    <3>1. Straight(q, 1, Len(q))
      BY <2>1, <1>6, <1>10 DEF Straight, n
    <3>2. Straight(q, Len(q) - 0 + 1, Len(q))
      BY <2>1, <1>7 DEF Straight
    <3>3. q = <<>> => Len(q) = 0
      OBVIOUS
    <3> QED BY <3>1, <3>2, <3>3, <2>1, <1>7
  <2> HIDE DEF q
  <2>4. 1 \in 1 .. n /\ q[1] = hc[1]
    BY <1>7, <2>1
  <2>5. Knows(d, q, fat)
    BY <1>6, <1>7, <1>10, <2>1, <2>3, <2>4 DEF Knows, n
  <2>6. ChainOf(volume, d) = q
    BY <1>1, <1>6, <2>1, <2>2, <2>5, ChainIsFollowed
  <2> QED BY <1>4, <1>7, <1>9, <2>1, <2>6
<1>11. CASE d.stat # 2
  <2>1. d.stat = 0 /\ e.stat = 0 /\ e.n_frag = 0 /\ d.n_frag = 0
    BY <1>3, <1>6, <1>11
  <2>2. e.sclust = hc[1] /\ e.sclust = d.sclust
    BY <1>1, <1>6 DEF Knows
  <2>3. \A c \in Clusters : get_fat(volume, d, c) = volume.fat[c]
    BY <2>1 DEF get_fat
  <2>4. \A c \in Clusters : get_fat(volume, e, c) = volume.fat[c]
    BY <2>1 DEF get_fat
  <2>5. [c \in Clusters |-> get_fat(volume, d, c)] = [c \in Clusters |-> get_fat(volume, e, c)]
    BY <2>3, <2>4
  <2>6. ChainOf(volume, d) = ChainOf(volume, e)
    BY <2>2, <2>5 DEF ChainOf
  <2>7. ChainOf(volume, e) = hc
    BY <1>1, <1>3, ChainIsFollowed
  <2> QED BY <1>4, <1>7, <1>9, <2>6, <2>7
<1> QED BY <1>10, <1>11

LEMMA InvKnown ==
    ASSUME IInv
    PROVE  ChainKnown
<1> SUFFICES ASSUME NEW f \in Files, handle[f].open
             PROVE  /\ handle[f].obj.objsize = Len(chain[f])
                    /\ handle[f].fptr > 0 => handle[f].clust = chain[f][handle[f].fptr]
                    /\ IF handle[f].obj.n_frag = 0
                       THEN ChainOf(volume, handle[f].obj) = chain[f]
                       ELSE handle[f].fptr = handle[f].obj.objsize
                    /\ HomeFound(f)
  BY DEF ChainKnown, IsOpen
<1> DEFINE h == handle[f]
           c == chain[f]
<1>1. HandleOK(h, c, fat)
  BY DEF IInv, FileOK
<1>2. volume \in Volumes /\ volume.fat = fat /\ c \in Seq(Clusters) /\ Distinct(c)
  BY StateIs, NamesAre, VolumeIs DEF ChainOK
<1> HIDE DEF h, c
<1>3. /\ Knows(h.obj, c, fat) /\ h.obj.objsize = Len(c)
      /\ h.fptr > 0 => h.clust = c[h.fptr]
      /\ h.obj.n_frag # 0 => h.fptr = Len(c)
  BY <1>1 DEF HandleOK, Knows
<1>4. h.obj.n_frag = 0 => ChainOf(volume, h.obj) = c
  BY <1>2, <1>3, ChainIsFollowed
<1>5. HomeFound(f)
  BY BlockFound
<1> QED BY <1>3, <1>4, <1>5 DEF h, c

LEMMA InvRecorded ==
    ASSUME IInv
    PROVE  Recorded
<1> SUFFICES ASSUME NEW o \in Objects, entry[o].exists, IsOpen(o) => ~handle[o].modified
             PROVE  /\ ChainOf(volume, Loaded(entry[o])) = chain[o]
                    /\ entry[o].objsize = Len(chain[o])
  BY DEF Recorded
<1> DEFINE q == Loaded(entry[o])
           c == chain[o]
<1>1. volume \in Volumes /\ volume.fat = fat /\ c \in Seq(Clusters) /\ Distinct(c)
  BY StateIs, VolumeIs DEF ChainOK
<1>2. Knows(q, c, fat)
  <2>1. EntryOK(o, entry[o], handle, chain[o], fat)
    BY DEF IInv
  <2> QED BY <2>1 DEF EntryOK, IsOpen
<1>3. q.n_frag = 0 /\ q.objsize = entry[o].objsize
  BY DEF Loaded
<1> HIDE DEF q, c
<1>4. ChainOf(volume, q) = c
  BY <1>1, <1>2, <1>3, ChainIsFollowed
<1>5. q.objsize = Len(c)
  BY <1>2 DEF Knows
<1> QED BY <1>3, <1>4, <1>5 DEF q, c

LEMMA InvAccounted ==
    ASSUME IInv, stray \in BOOLEAN
    PROVE  BitmapAccounted
<1>1. /\ Sound(volume) /\ Apart(chain, bits, lost) /\ failed = FALSE
      /\ volume.fat = fat /\ volume.bits = bits /\ volume.free = free_clst
  BY VolumeIs DEF IInv
<1>2. TypeOK
  <2>1. fat \in FatType /\ bits \subseteq Clusters /\ free_clst \in 0 .. Unknown
    BY <1>1 DEF Sound, Volumes
  <2>2. ASSUME NEW f \in Files, IsOpen(f)
        PROVE  entry[f].exists /\ handle[f].obj.stat \in {0, 2, 3}
    <3>1. /\ FileOK(handle[f], chain[f], fat, place[f], Loaded(entry[Home]), chain[Home])
          /\ EntryOK(f, entry[f], handle, chain[f], fat) /\ handle[f].open
      BY <2>2, NamesAre DEF IInv, IsOpen
    <3>2. handle[f].obj \in ObjRec
      BY <3>1 DEF FileOK, HandleOK, Knows
    <3>3. entry[f].exists
      BY <3>1 DEF EntryOK
    <3> QED BY <3>2, <3>3 DEF ObjRec
  <2> QED BY <2>1, <2>2, <1>1 DEF TypeOK, FatType
<1>3. bits = Reserved \cup lost \cup UNION {Members(chain[o]) : o \in Objects}
  BY <1>1 DEF Apart
<1>4. /\ \A o \in Objects : Members(chain[o]) \cap (Reserved \cup lost) = {}
      /\ \A o, p \in Objects : o # p => Members(chain[o]) \cap Members(chain[p]) = {}
  BY <1>1 DEF Apart
<1>5. free_clst # Unknown => free_clst = Cardinality(Clusters \ bits)
  BY <1>1 DEF Sound, Exact
<1> QED BY <1>2, <1>3, <1>4, <1>5 DEF BitmapAccounted, Members

-----------------------------------------------------------------------------
(* On a volume of any size, with any names and any sequence of calls, and  *)
(* whatever the stack holds when f_mkdir is called, as long as it has not  *)
(* led an f_mkdir to give back more than its own cluster (~stray, which    *)
(* each property states itself):                                           *)

(* Whatever an open file keeps to itself of its chain (the contiguous part,*)
(* the last fragment), get_fat tells exactly the clusters create_chain     *)
(* gave it, in order, and its entry block is found again from what the     *)
(* handle remembers of its directory.                                      *)
THEOREM ChainAlwaysKnown == Spec => []ChainKnown
<1>1. Spec => []Invariant
  BY InvariantHolds
<1>2. Invariant => ChainKnown
  BY InvKnown DEF Invariant, ChainKnown
<1> QED BY <1>1, <1>2, PTL

(* What f_sync and f_close have written on the volume is enough to find    *)
(* every cluster of an object again: the entry block with the FAT, without *)
(* the handle.                                                             *)
THEOREM AlwaysRecorded == Spec => []Recorded
<1>1. Spec => []Invariant
  BY InvariantHolds
<1>2. Invariant => Recorded
  BY InvRecorded DEF Invariant, Recorded
<1> QED BY <1>1, <1>2, PTL

(* Every cluster the allocation bitmap marks is reserved, or belongs to    *)
(* exactly one object, or is one that a failed f_mkdir took and did not    *)
(* give back (lost), and all of these are marked; a free count that is     *)
(* known is the number of the clear bits.                                  *)
THEOREM BitmapAlwaysAccounted == Spec => []BitmapAccounted
<1>1. Spec => []Invariant
  BY InvariantHolds
<1>2. Invariant => BitmapAccounted
  BY InvAccounted DEF Invariant, BitmapAccounted
<1> QED BY <1>1, <1>2, PTL

(* No call answers FR_INT_ERR.  The driver's checks of its own bookkeeping *)
(* find a contradiction in one place only, when remove_chain is to give    *)
(* back f_mkdir's cluster, and that answer is not looked at.               *)
THEOREM InternalErrorNever == Spec => []NeverInternal
<1>1. Spec => []Invariant
  BY InvariantHolds
<1>2. Invariant => NeverInternal
  BY DEF Invariant, IInv, NeverInternal
<1> QED BY <1>1, <1>2, PTL
=============================================================================
