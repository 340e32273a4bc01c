---------------------------- MODULE FileIOProofs ----------------------------
(* Theorems about FileIO.                                                  *)
EXTENDS FileIO, BasicLemmas

-----------------------------------------------------------------------------
(* Where byte i of a file is: in cluster Q(i) of its chain, in sector K(i) *)
(* of that, at place B(i).                                                 *)
Q(i) == i \div BCS
K(i) == (i % BCS) \div SS
B(i) == i % SS

LEMMA Sizes == SS \in Nat \ {0} /\ CSize \in Nat \ {0} /\ BCS \in Nat \ {0}
<1>1. SS \in Nat \ {0} /\ CSize \in Nat \ {0}
  BY GeometryAssumption
<1>2. CSize * SS \in Nat \ {0}
  BY <1>1
<1> QED BY <1>1, <1>2 DEF BCS

LEMMA Times ==
    ASSUME NEW q \in Nat
    PROVE  BCS * q = SS * (CSize * q) /\ CSize * q \in Nat
<1>1. SS \in Nat \ {0} /\ CSize \in Nat \ {0}
  BY Sizes
<1>2. (CSize * SS) * q = SS * (CSize * q) /\ CSize * q \in Nat
  BY <1>1
<1> QED BY <1>2 DEF BCS

(* The three determine the byte, and the byte determines them.             *)
LEMMA PlaceIs ==
    ASSUME NEW q \in Nat, NEW k \in 0 .. CSize - 1, NEW b \in 0 .. SS - 1,
           NEW i, i = BCS * q + SS * k + b
    PROVE  i \in Nat /\ Q(i) = q /\ K(i) = k /\ B(i) = b
<1>1. SS \in Nat \ {0} /\ CSize \in Nat \ {0} /\ BCS \in Nat \ {0}
  BY Sizes
<1>2. k \in Nat /\ b \in Nat /\ SS * k \in Nat /\ BCS * q \in Nat
  BY <1>1
<1>3. i \in Nat
  BY <1>2
<1>4. SS * k + b \in 0 .. BCS - 1
  <2>1. SS * k + SS <= SS * CSize
    <3>1. k + 1 <= CSize /\ SS * (k + 1) = SS * k + SS
      BY <1>1
    <3> QED BY <1>1, <3>1
  <2>2. SS * CSize = BCS
    BY <1>1 DEF BCS
  <2> QED BY <1>1, <1>2, <2>1, <2>2
<1>5. q = i \div BCS /\ SS * k + b = i % BCS
  <2>1. /\ i \div BCS \in Nat /\ i % BCS \in 0 .. BCS - 1
        /\ i = BCS * (i \div BCS) + (i % BCS)
    BY <1>1, <1>3, DivMod
  <2>2. BCS * q + (SS * k + b) = BCS * (i \div BCS) + (i % BCS)
    BY <1>1, <1>2, <2>1
  <2>3. q \in Int /\ i \div BCS \in Int
    BY <2>1
  <2> DEFINE r == SS * k + b
             v == i \div BCS
             w == i % BCS
  <2>4. r \in 0 .. BCS - 1 /\ w \in 0 .. BCS - 1 /\ v \in Int /\ BCS * q + r = BCS * v + w
    BY <1>4, <2>1, <2>2, <2>3
  <2> HIDE DEF r, v, w
  <2>5. q = v /\ r = w
    BY <1>1, <2>3, <2>4, DivUnique
  <2> QED BY <2>5 DEF r, v, w
<1>6. k = (i % BCS) \div SS
  <2>1. i % BCS \in Nat
    BY <1>2, <1>5
  <2>2. /\ (i % BCS) \div SS \in Nat /\ (i % BCS) % SS \in 0 .. SS - 1
        /\ i % BCS = SS * ((i % BCS) \div SS) + ((i % BCS) % SS)
    BY <1>1, <2>1, DivMod
  <2>3. SS * k + b = SS * ((i % BCS) \div SS) + ((i % BCS) % SS)
    BY <1>5, <2>2
  <2>4. k \in Int /\ (i % BCS) \div SS \in Int
    BY <1>2, <2>2
  <2> QED BY <1>1, <2>2, <2>3, <2>4, DivUnique
<1>7. b = i % SS
  <2>1. /\ i \div SS \in Nat /\ i % SS \in 0 .. SS - 1
        /\ i = SS * (i \div SS) + (i % SS)
    BY <1>1, <1>3, DivMod
  <2>2. BCS * q = SS * (CSize * q) /\ CSize * q \in Nat
    BY Times
  <2>3. i = SS * (CSize * q + k) + b /\ CSize * q + k \in Int
    BY <1>1, <1>2, <2>2
  <2>4. SS * (CSize * q + k) + b = SS * (i \div SS) + (i % SS)
    BY <2>1, <2>3
  <2> DEFINE u == CSize * q + k
             v == i \div SS
             w == i % SS
  <2>5. w \in 0 .. SS - 1 /\ u \in Int /\ v \in Int /\ SS * u + b = SS * v + w
    BY <2>1, <2>3, <2>4
  <2> HIDE DEF u, v, w
  <2>6. b = w
    BY <1>1, <2>5, DivUnique
  <2> QED BY <2>6 DEF w
<1> QED BY <1>3, <1>5, <1>6, <1>7 DEF Q, K, B

LEMMA Place ==
    ASSUME NEW i \in Nat
    PROVE  /\ Q(i) \in Nat /\ K(i) \in 0 .. CSize - 1 /\ B(i) \in 0 .. SS - 1
           /\ i = BCS * Q(i) + SS * K(i) + B(i)
           /\ i % BCS = SS * K(i) + B(i)
<1>1. SS \in Nat \ {0} /\ CSize \in Nat \ {0} /\ BCS \in Nat \ {0}
  BY Sizes
<1>2. /\ i \div BCS \in Nat /\ i % BCS \in 0 .. BCS - 1 /\ i % BCS \in Nat
      /\ i = BCS * (i \div BCS) + (i % BCS)
  <2>1. /\ i \div BCS \in Nat /\ i % BCS \in 0 .. BCS - 1
        /\ i = BCS * (i \div BCS) + (i % BCS)
    BY <1>1, DivMod
  <2> QED BY <1>1, <2>1
<1>3. /\ (i % BCS) \div SS \in Nat /\ (i % BCS) % SS \in 0 .. SS - 1
      /\ i % BCS = SS * ((i % BCS) \div SS) + ((i % BCS) % SS)
  BY <1>1, <1>2, DivMod
<1>4. (i % BCS) \div SS < CSize
  <2>1. i % BCS < SS * CSize
    BY <1>1, <1>2 DEF BCS
  <2> QED BY <1>1, <1>2, <2>1, DivLess
<1> DEFINE q == i \div BCS
           k == (i % BCS) \div SS
           b == (i % BCS) % SS
<1>5. q \in Nat /\ k \in 0 .. CSize - 1 /\ b \in 0 .. SS - 1
  BY <1>1, <1>2, <1>3, <1>4
<1>6. i = BCS * q + SS * k + b /\ i % BCS = SS * k + b
  BY <1>1, <1>2, <1>3
<1> HIDE DEF q, k, b
<1>7. Q(i) = q /\ K(i) = k /\ B(i) = b
  BY <1>5, <1>6, PlaceIs
<1> QED BY <1>5, <1>6, <1>7

(* The bytes behind p in its sector.                                       *)
LEMMA InSector ==
    ASSUME NEW p \in Nat, NEW m \in Nat, B(p) + m < SS
    PROVE  Q(p + m) = Q(p) /\ K(p + m) = K(p) /\ B(p + m) = B(p) + m
<1>1. /\ Q(p) \in Nat /\ K(p) \in 0 .. CSize - 1 /\ B(p) \in 0 .. SS - 1
      /\ p = BCS * Q(p) + SS * K(p) + B(p)
  BY Place
<1>2. SS \in Nat /\ CSize \in Nat /\ BCS \in Nat
  BY Sizes
<1> DEFINE q == Q(p)
           k == K(p)
           b == B(p) + m
<1>3. q \in Nat /\ k \in 0 .. CSize - 1 /\ b \in 0 .. SS - 1
  BY <1>1, <1>2
<1>4. p + m = BCS * q + SS * k + b
  <2>1. SS * K(p) \in Nat /\ BCS * Q(p) \in Nat
    BY <1>1, <1>2
  <2> QED BY <1>1, <1>2, <2>1
<1> HIDE DEF q, k, b
<1>5. Q(p + m) = q /\ K(p + m) = k /\ B(p + m) = b
  BY <1>3, <1>4, PlaceIs
<1> QED BY <1>5 DEF q, k, b

(* Those in whole sectors behind p, up to the end of its cluster.          *)
LEMMA InCluster ==
    ASSUME NEW p \in Nat, B(p) = 0, NEW j \in Nat, K(p) + j < CSize, NEW b \in 0 .. SS - 1
    PROVE  LET i == p + SS * j + b
           IN i \in Nat /\ Q(i) = Q(p) /\ K(i) = K(p) + j /\ B(i) = b
<1>1. /\ Q(p) \in Nat /\ K(p) \in 0 .. CSize - 1
      /\ p = BCS * Q(p) + SS * K(p)
  BY Place, Sizes
<1>2. SS \in Nat /\ CSize \in Nat /\ BCS \in Nat
  BY Sizes
<1> DEFINE q == Q(p)
           k == K(p) + j
           i == p + SS * j + b
<1>3. q \in Nat /\ k \in 0 .. CSize - 1
  BY <1>1, <1>2
<1>4. i = BCS * q + SS * k + b
  <2>1. SS * (K(p) + j) = SS * K(p) + SS * j
    BY <1>1, <1>2
  <2>2. SS * j \in Nat /\ SS * K(p) \in Nat /\ BCS * Q(p) \in Nat
    BY <1>1, <1>2
  <2> QED BY <1>1, <2>1, <2>2
<1> HIDE DEF q, k, i
<1>5. i \in Nat /\ Q(i) = q /\ K(i) = k /\ B(i) = b
  BY <1>3, <1>4, PlaceIs
<1> QED BY <1>5 DEF q, k, i

-----------------------------------------------------------------------------
(* The volume: the first clusters h of the files and the FAT t.  Links     *)
(* lead to clusters in use, none to the same or to a first cluster; what   *)
(* is in use and nobody's is lost.                                         *)
Volume(h, t) ==
    /\ t \in [Cluster -> Value]
    /\ h \in [File -> Cluster \cup {None}]
    /\ OneLink(t, Cluster)
    /\ \A x \in Cluster : t[x] \in Cluster => t[t[x]] # None
    /\ \A f \in File : NoLinkTo(h[f], t, Cluster)
    /\ \A f \in File : h[f] # None => t[h[f]] # None
    /\ \A f, g \in File : h[f] # None /\ h[f] = h[g] => f = g

Heads == [f \in File |-> First(f)]

LEMMA Marks ==
    None \notin Cluster /\ EOC \notin Cluster /\ None # EOC /\ IsFiniteSet(Cluster)
BY GeometryAssumption

(* A chain read to its end, with no cluster twice and none that is free.   *)
Good(s, a, t) ==
    /\ Whole(s, a, t, Cluster)
    /\ Distinct(s)
    /\ s \in Seq(Cluster) /\ Len(s) \in Nat
    /\ \A x \in Members(s) : x \in Cluster /\ t[x] # None

LEMMA ChainIsGood ==
    ASSUME NEW t, NEW a, OneLink(t, Cluster), NoLinkTo(a, t, Cluster),
           \A x \in Cluster : t[x] \in Cluster => t[t[x]] # None,
           a \in Cluster => t[a] # None
    PROVE  Good(Chain(a, t), a, t)
<1> DEFINE s == Chain(a, t)
<1>1. Whole(s, a, t, Cluster)
  BY Marks, FollowIsWhole DEF Chain
<1> HIDE DEF s
<1>2. Distinct(s)
  BY <1>1, PathsApart DEF Whole, Distinct
<1>3. s \in Seq(Cluster) /\ Len(s) \in Nat
  BY <1>1 DEF Whole, Path
<1>4. ASSUME NEW x \in Members(s) PROVE x \in Cluster /\ t[x] # None
  <2>1. PICK i \in 1 .. Len(s) : s[i] = x
    BY <1>3, MembersAre
  <2>2. x \in Cluster
    BY <1>3, <2>1
  <2>3. x = IF i = 1 THEN a ELSE t[s[i - 1]]
    BY <1>1, <2>1 DEF Whole, Path
  <2>4. CASE i = 1
    BY <2>2, <2>3, <2>4
  <2>5. CASE i # 1
    <3>1. i - 1 \in 1 .. Len(s)
      BY <1>3, <2>5
    <3>2. s[i - 1] \in Cluster
      BY <1>3, <3>1
    <3> QED BY <2>2, <2>3, <2>5, <3>2
  <2> QED BY <2>2, <2>4, <2>5
<1> QED BY <1>1, <1>2, <1>3, <1>4 DEF Good, s

LEMMA NoChain ==
    ASSUME NEW t
    PROVE  Chain(None, t) = <<>>
<1> DEFINE s == Chain(None, t)
<1>1. Path(s, None, t, Cluster)
  BY Marks, FollowIsPath DEF Chain
<1>2. s \in Seq(Cluster) /\ Len(s) \in Nat
  BY <1>1 DEF Path
<1>3. 1 \in 1 .. Len(s) => s[1] = None
  BY <1>1 DEF Path
<1> HIDE DEF s
<1>4. CASE Len(s) = 0
  BY <1>2, <1>4 DEF s
<1>5. CASE Len(s) # 0
  BY <1>2, <1>3, <1>5, Marks
<1> QED BY <1>4, <1>5

LEMMA Apart ==
    ASSUME NEW t, NEW a, NEW b, OneLink(t, Cluster),
           NoLinkTo(a, t, Cluster), NoLinkTo(b, t, Cluster), a # b
    PROVE  Members(Chain(a, t)) \cap Members(Chain(b, t)) = {}
<1> DEFINE s == Chain(a, t)
           u == Chain(b, t)
<1>1. Whole(s, a, t, Cluster) /\ Whole(u, b, t, Cluster)
  BY Marks, FollowIsWhole DEF Chain
<1> HIDE DEF s, u
<1>2. \A i \in 1 .. Len(s), j \in 1 .. Len(u) : s[i] = u[j] => i = j /\ a = b
  BY <1>1, PathsApart DEF Whole
<1>3. s \in Seq(Cluster) /\ u \in Seq(Cluster)
  BY <1>1 DEF Whole, Path
<1>4. ASSUME NEW x \in Members(s), x \in Members(u) PROVE FALSE
  <2>1. PICK i \in 1 .. Len(s) : s[i] = x
    BY <1>3, MembersAre
  <2>2. PICK j \in 1 .. Len(u) : u[j] = x
    BY <1>3, <1>4, MembersAre
  <2> QED BY <1>2, <2>1, <2>2
<1> QED BY <1>4 DEF s, u

LEMMA VolumeChains ==
    ASSUME NEW h, NEW t, Volume(h, t)
    PROVE  /\ \A f \in File : Good(Chain(h[f], t), h[f], t)
           /\ \A f, g \in File : f # g =>
                 Members(Chain(h[f], t)) \cap Members(Chain(h[g], t)) = {}
<1>1. /\ OneLink(t, Cluster)
      /\ \A f \in File : NoLinkTo(h[f], t, Cluster)
      /\ \A x \in Cluster : t[x] \in Cluster => t[t[x]] # None
      /\ \A f \in File : h[f] \in Cluster => t[h[f]] # None
  BY Marks DEF Volume
<1>2. ASSUME NEW f \in File PROVE Good(Chain(h[f], t), h[f], t)
  BY <1>1, ChainIsGood
<1>3. ASSUME NEW f \in File, NEW g \in File, f # g
      PROVE  Members(Chain(h[f], t)) \cap Members(Chain(h[g], t)) = {}
  <2>1. CASE h[f] = None
    BY <2>1, NoChain, EmptyHasNone
  <2>2. CASE h[f] # None
    <3>1. h[f] # h[g]
      BY <1>3, <2>2 DEF Volume
    <3> QED BY <1>1, <3>1, Apart
  <2> QED BY <2>1, <2>2
<1> QED BY <1>2, <1>3

(* A sequence that is whole in a FAT is the chain.                         *)
LEMMA ChainBecomes ==
    ASSUME NEW h, NEW t, Volume(h, t), NEW f \in File, NEW s, Whole(s, h[f], t, Cluster)
    PROVE  Chain(h[f], t) = s
<1>1. OneLink(t, Cluster) /\ NoLinkTo(h[f], t, Cluster)
  BY DEF Volume
<1> QED BY <1>1, Marks, WholeIsFollow DEF Chain

(* A chain with the same first cluster and entries stays.                  *)
LEMMA ChainStays ==
    ASSUME NEW h, NEW t, Volume(h, t), NEW k, NEW u, Volume(k, u), NEW f \in File,
           k[f] = h[f], \A x \in Members(Chain(h[f], t)) : u[x] = t[x]
    PROVE  Chain(k[f], u) = Chain(h[f], t)
<1> DEFINE s == Chain(h[f], t)
<1>1. Good(s, h[f], t)
  BY VolumeChains
<1>2. \A x \in Members(s) : u[x] = t[x]
  OBVIOUS
<1> HIDE DEF s
<1>3. \A i \in 1 .. Len(s) : u[s[i]] = t[s[i]]
  BY <1>1, <1>2, MembersAre DEF Good
<1>4. Whole(s, h[f], u, Cluster)
  BY <1>1, <1>3, WholeStays DEF Good
<1>5. Chain(k[f], u) = s
  BY <1>4, ChainBecomes
<1> QED BY <1>5 DEF s

LEMMA FreeIsNobodys ==
    ASSUME NEW h, NEW t, Volume(h, t), NEW n, t[n] = None, NEW f \in File
    PROVE  n \notin Members(Chain(h[f], t))
<1>1. Good(Chain(h[f], t), h[f], t)
  BY VolumeChains
<1> QED BY <1>1 DEF Good

-----------------------------------------------------------------------------
(* What the calls of f do to the volume h, t, which becomes k, u.          *)
Others(f, h, t, k, u) ==
    \A g \in File : g # f => k[g] = h[g] /\ Chain(k[g], u) = Chain(h[g], t)

LEMMA OthersStay ==
    ASSUME NEW h, NEW t, Volume(h, t), NEW k, NEW u, Volume(k, u), NEW f \in File,
           \A g \in File : g # f => k[g] = h[g],
           \A x \in Cluster : t[x] # None /\ x \notin Members(Chain(h[f], t)) => u[x] = t[x]
    PROVE  Others(f, h, t, k, u)
<1>1. ASSUME NEW g \in File, g # f PROVE Chain(k[g], u) = Chain(h[g], t)
  <2>1. Good(Chain(h[g], t), h[g], t)
    BY VolumeChains
  <2>2. Members(Chain(h[f], t)) \cap Members(Chain(h[g], t)) = {}
    BY <1>1, VolumeChains
  <2>3. \A x \in Members(Chain(h[g], t)) : u[x] = t[x]
    BY <2>1, <2>2 DEF Good
  <2>4. k[g] = h[g]
    BY <1>1
  <2> QED BY <2>3, <2>4, ChainStays
<1> QED BY <1>1 DEF Others

(* An entry, or a first cluster, has got the value v.                      *)
Put(f, x, v, g) == g = [f EXCEPT ![x] = v]

(* A free cluster becomes the first of f.                                  *)
LEMMA Created ==
    ASSUME NEW h, NEW t, Volume(h, t), NEW f \in File, h[f] = None,
           NEW n \in Cluster, t[n] = None,
           NEW k, Put(h, f, n, k), NEW u, Put(t, n, EOC, u)
    PROVE  Volume(k, u) /\ Chain(k[f], u) = <<n>> /\ Others(f, h, t, k, u)
<1>1. /\ t \in [Cluster -> Value] /\ h \in [File -> Cluster \cup {None}]
      /\ u \in [Cluster -> Value] /\ k \in [File -> Cluster \cup {None}]
      /\ u[n] = EOC /\ \A x \in Cluster : x # n => u[x] = t[x]
      /\ k[f] = n /\ \A g \in File : g # f => k[g] = h[g]
  BY DEF Volume, Put, Value
<1>2. \A x \in Cluster : u[x] \in Cluster => u[x] = t[x] /\ t[x] # n
  BY <1>1, Marks DEF Volume
<1>3. OneLink(u, Cluster)
  BY <1>1, <1>2, Marks DEF Volume, OneLink
<1>4. \A x \in Cluster : u[x] \in Cluster => u[u[x]] # None
  BY <1>1, <1>2, Marks DEF Volume
<1>5. \A g \in File : NoLinkTo(k[g], u, Cluster)
  BY <1>1, <1>2 DEF Volume, NoLinkTo
<1>6. \A g \in File : k[g] # None => u[k[g]] # None
  BY <1>1, Marks DEF Volume
<1>7. \A g, i \in File : k[g] # None /\ k[g] = k[i] => g = i
  <2>1. \A g \in File : g # f => k[g] # n
    BY <1>1, Marks DEF Volume
  <2> QED BY <1>1, <2>1 DEF Volume
<1>8. Volume(k, u)
  BY <1>1, <1>3, <1>4, <1>5, <1>6, <1>7 DEF Volume
<1>9. Chain(k[f], u) = <<n>>
  <2>1. Whole(<<n>>, n, u, Cluster)
    BY <1>1, Marks, WholeOfOne
  <2> QED BY <1>1, <1>8, <2>1, ChainBecomes
<1>10. \A x \in Cluster : t[x] # None /\ x \notin Members(Chain(h[f], t)) => u[x] = t[x]
  BY <1>1
<1>11. Others(f, h, t, k, u)
  BY <1>1, <1>8, <1>10, OthersStay
<1> QED BY <1>8, <1>9, <1>11

(* A free cluster is taken and not linked: it is lost.                     *)
LEMMA Lost ==
    ASSUME NEW h, NEW t, Volume(h, t), NEW f \in File,
           NEW n \in Cluster, t[n] = None, NEW u, Put(t, n, EOC, u)
    PROVE  Volume(h, u) /\ Chain(h[f], u) = Chain(h[f], t) /\ Others(f, h, t, h, u)
<1>1. /\ t \in [Cluster -> Value] /\ h \in [File -> Cluster \cup {None}]
      /\ u \in [Cluster -> Value]
      /\ u[n] = EOC /\ \A x \in Cluster : x # n => u[x] = t[x]
  BY DEF Volume, Put, Value
<1>2. \A x \in Cluster : u[x] \in Cluster => u[x] = t[x] /\ t[x] # n
  BY <1>1, Marks DEF Volume
<1>3. OneLink(u, Cluster)
  BY <1>1, <1>2, Marks DEF Volume, OneLink
<1>4. \A x \in Cluster : u[x] \in Cluster => u[u[x]] # None
  BY <1>1, <1>2, Marks DEF Volume
<1>5. \A g \in File : NoLinkTo(h[g], u, Cluster)
  BY <1>1, <1>2 DEF Volume, NoLinkTo
<1>6. \A g \in File : h[g] # None => u[h[g]] # None
  BY <1>1, Marks DEF Volume
<1>7. \A g, i \in File : h[g] # None /\ h[g] = h[i] => g = i
  BY DEF Volume
<1>8. Volume(h, u)
  BY <1>1, <1>3, <1>4, <1>5, <1>6, <1>7 DEF Volume
<1>9. Chain(h[f], u) = Chain(h[f], t)
  <2>1. Good(Chain(h[f], t), h[f], t)
    BY VolumeChains
  <2>2. \A x \in Members(Chain(h[f], t)) : u[x] = t[x]
    BY <1>1, <2>1 DEF Good
  <2> QED BY <1>8, <2>2, ChainStays
<1>10. \A x \in Cluster : t[x] # None /\ x \notin Members(Chain(h[f], t)) => u[x] = t[x]
  BY <1>1
<1>11. Others(f, h, t, h, u)
  BY <1>8, <1>10, OthersStay
<1> QED BY <1>8, <1>9, <1>11

(* The cluster c, the last of f, has got n behind it.                      *)
Linking(c, n, t, u) == u = [t EXCEPT ![n] = EOC, ![c] = n]

LEMMA Stretched ==
    ASSUME NEW h, NEW t, Volume(h, t), NEW f \in File,
           NEW c \in Members(Chain(h[f], t)), t[c] = EOC,
           NEW n \in Cluster, t[n] = None, NEW u, Linking(c, n, t, u)
    PROVE  /\ Volume(h, u) /\ Others(f, h, t, h, u)
           /\ Chain(h[f], u) = Append(Chain(h[f], t), n)
<1> DEFINE s == Chain(h[f], t)
<1>0. Good(s, h[f], t)
  BY VolumeChains
<1>1. /\ t \in [Cluster -> Value] /\ h \in [File -> Cluster \cup {None}]
      /\ c \in Cluster /\ c # n /\ n \notin Members(s)
  BY <1>0, Marks DEF Volume, Good
<1>2. /\ u \in [Cluster -> Value]
      /\ u[n] = EOC /\ u[c] = n /\ \A x \in Cluster : x # n /\ x # c => u[x] = t[x]
  BY <1>1 DEF Linking, Value
<1>3. \A x \in Cluster : t[x] # n
  BY <1>1 DEF Volume
<1>4. \A x \in Cluster : u[x] \in Cluster => (x = c /\ u[x] = n) \/ (u[x] = t[x] /\ t[x] # n)
  BY <1>1, <1>2, <1>3, Marks
<1>5. OneLink(u, Cluster)
  BY <1>1, <1>2, <1>4, Marks DEF Volume, OneLink
<1>6. \A x \in Cluster : u[x] \in Cluster => u[u[x]] # None
  BY <1>1, <1>2, <1>4, Marks DEF Volume
<1>7. \A g \in File : h[g] # n
  BY Marks DEF Volume
<1>8. \A g \in File : NoLinkTo(h[g], u, Cluster)
  BY <1>1, <1>4, <1>7 DEF Volume, NoLinkTo
<1>9. \A g \in File : h[g] # None => u[h[g]] # None
  BY <1>1, <1>2, Marks DEF Volume
<1>10. \A g, i \in File : h[g] # None /\ h[g] = h[i] => g = i
  BY DEF Volume
<1>11. Volume(h, u)
  BY <1>1, <1>2, <1>5, <1>6, <1>8, <1>9, <1>10 DEF Volume
<1>12. Whole(Append(s, n), h[f], u, Cluster)
  <2>0. c \in Members(s) /\ t[c] \notin Cluster
    BY Marks
  <2> HIDE DEF s
  <2>1. s \in Seq(Cluster) /\ Len(s) \in Nat /\ Whole(s, h[f], t, Cluster) /\ Distinct(s)
    BY <1>0 DEF Good
  <2>2. PICK i \in 1 .. Len(s) : s[i] = c
    BY <2>0, <2>1, MembersAre
  <2>3. i = Len(s) /\ s # <<>>
    <3>1. CASE i + 1 \in 1 .. Len(s)
      <4>1. PICK j \in 1 .. Len(s) : j = i + 1
        BY <3>1
      <4>2. s[j] = IF j = 1 THEN h[f] ELSE t[s[j - 1]]
        BY <2>1 DEF Whole, Path
      <4>3. j # 1 /\ j - 1 = i
        BY <4>1
      <4>4. s[j] \in Cluster
        BY <2>1
      <4> QED BY <2>0, <2>2, <4>2, <4>3, <4>4
    <3>2. CASE i + 1 \notin 1 .. Len(s)
      BY <2>1, <3>2
    <3> QED BY <3>1, <3>2
  <2>4. \A j \in 1 .. Len(s) : s[j] \in Cluster /\ s[j] # n
    <3>1. \A j \in 1 .. Len(s) : s[j] \in Members(s)
      BY <2>1, MembersAre
    <3> QED BY <1>1, <2>1, <3>1
  <2>5. u[s[Len(s)]] = n /\ u[n] \notin Cluster
    BY <1>2, <2>2, <2>3, Marks
  <2>6. \A j \in 1 .. Len(s) : s[j] # s[Len(s)] => u[s[j]] = t[s[j]]
    BY <1>2, <2>2, <2>3, <2>4
  <2>7. LinkedTo(n, s, t, u)
    BY <2>5, <2>6 DEF LinkedTo
  <2> QED BY <2>1, <2>3, <2>5, <2>7, WholeGrows
<1>13. Chain(h[f], u) = Append(s, n)
  BY <1>11, <1>12, ChainBecomes
<1>14. \A x \in Cluster : t[x] # None /\ x \notin Members(Chain(h[f], t)) => u[x] = t[x]
  BY <1>2
<1>15. Others(f, h, t, h, u)
  BY <1>11, <1>14, OthersStay
<1> QED BY <1>11, <1>13, <1>15

(* The clusters S are freed and p becomes an end of chain.                 *)
Frees(S, p, t, u) ==
    u = [x \in Cluster |-> IF x \in S THEN None ELSE IF x = p THEN EOC ELSE t[x]]

LEMMA Freed ==
    ASSUME NEW h, NEW t, Volume(h, t), NEW S \in SUBSET Cluster, NEW p,
           \A x \in Cluster : t[x] \in S => x \in S \/ x = p,
           NEW k \in [File -> Cluster \cup {None}],
           \A g \in File : k[g] \notin S /\ (k[g] = h[g] \/ k[g] = None),
           NEW u, Frees(S, p, t, u)
    PROVE  Volume(k, u)
<1>1. /\ t \in [Cluster -> Value] /\ u \in [Cluster -> Value]
      /\ \A x \in S : u[x] = None
      /\ \A x \in Cluster : x \notin S => u[x] = IF x = p THEN EOC ELSE t[x]
  BY DEF Volume, Frees, Value
<1>2. \A x \in Cluster : u[x] \in Cluster => x # p /\ u[x] = t[x] /\ t[x] \notin S
  BY <1>1, Marks
<1>3. OneLink(u, Cluster)
  BY <1>2 DEF Volume, OneLink
<1>4. \A x \in Cluster : u[x] \in Cluster => u[u[x]] # None
  BY <1>1, <1>2, Marks DEF Volume
<1>5. \A g \in File : NoLinkTo(k[g], u, Cluster)
  BY <1>2, Marks DEF Volume, NoLinkTo
<1>6. \A g \in File : k[g] # None => u[k[g]] # None
  <2>1. ASSUME NEW g \in File, k[g] # None PROVE u[k[g]] # None
    <3>1. k[g] = h[g] /\ k[g] \notin S /\ k[g] \in Cluster /\ t[k[g]] # None
      BY <2>1 DEF Volume
    <3> QED BY <1>1, <3>1, Marks
  <2> QED BY <2>1
<1>7. \A g, i \in File : k[g] # None /\ k[g] = k[i] => g = i
  BY DEF Volume
<1> QED BY <1>1, <1>3, <1>4, <1>5, <1>6, <1>7 DEF Volume

FirstOf(s, j) == {s[i] : i \in 1 .. j}

(* Nothing but its predecessor refers to the beginning of a chain.         *)
LEMMA Behind ==
    ASSUME NEW t, OneLink(t, Cluster), NEW c, NEW s, Path(s, c, t, Cluster),
           NEW j \in 0 .. Len(s), NEW x \in Cluster, t[x] \in FirstOf(s, j)
    PROVE  x \in FirstOf(s, j) \/ t[x] = c
<1>1. s \in Seq(Cluster) /\ Len(s) \in Nat
  BY DEF Path
<1>2. PICK i \in 1 .. j : s[i] = t[x]
  BY DEF FirstOf
<1>3. i \in 1 .. Len(s) /\ s[i] = IF i = 1 THEN c ELSE t[s[i - 1]]
  BY <1>1 DEF Path
<1>4. CASE i = 1
  BY <1>2, <1>3, <1>4
<1>5. CASE i # 1
  <2>1. i - 1 \in 1 .. j /\ i - 1 \in 1 .. Len(s) /\ s[i - 1] \in Cluster /\ s[i] \in Cluster
    BY <1>1, <1>3, <1>5
  <2>2. t[x] \in Cluster /\ t[x] = t[s[i - 1]]
    BY <1>2, <1>3, <1>5, <2>1
  <2>3. x = s[i - 1]
    BY <2>1, <2>2 DEF OneLink
  <2> QED BY <2>1, <2>3 DEF FirstOf
<1> QED BY <1>4, <1>5

LEMMA FirstAreMembers ==
    ASSUME NEW s \in Seq(Cluster), NEW j \in 0 .. Len(s)
    PROVE  FirstOf(s, j) \subseteq Members(s) /\ FirstOf(s, j) \in SUBSET Cluster
BY DEF FirstOf, Members

(* The chain of f is removed, as far as that gets, and f has none.         *)
LEMMA Removed ==
    ASSUME NEW h, NEW t, Volume(h, t), NEW f \in File,
           NEW j \in 0 .. Len(Chain(h[f], t)),
           NEW k, Put(h, f, None, k), NEW u, Frees(FirstOf(Chain(h[f], t), j), None, t, u)
    PROVE  Volume(k, u) /\ Chain(k[f], u) = <<>> /\ Others(f, h, t, k, u)
<1> DEFINE s == Chain(h[f], t)
           S == FirstOf(s, j)
<1>1. Good(s, h[f], t)
  BY VolumeChains
<1>2. /\ h \in [File -> Cluster \cup {None}] /\ k \in [File -> Cluster \cup {None}]
      /\ k[f] = None /\ \A g \in File : g # f => k[g] = h[g]
      /\ OneLink(t, Cluster) /\ NoLinkTo(h[f], t, Cluster)
  BY DEF Volume, Put
<1>3. S \subseteq Members(s) /\ S \in SUBSET Cluster /\ j \in 0 .. Len(s) /\ Frees(S, None, t, u)
  BY <1>1, FirstAreMembers DEF Good
<1> HIDE DEF s
<1>4. ASSUME NEW x \in Cluster, t[x] \in S PROVE x \in S
  <2>1. x \in S \/ t[x] = h[f]
    BY <1>1, <1>2, <1>3, <1>4, Behind DEF Good, Whole
  <2>2. t[x] \in Cluster
    BY <1>3, <1>4
  <2> QED BY <1>2, <2>1, <2>2 DEF NoLinkTo
<1>5. ASSUME NEW g \in File PROVE k[g] \notin S
  <2>1. CASE g = f
    BY <1>2, <1>3, <2>1, Marks
  <2>2. CASE g # f
    <3>1. SUFFICES ASSUME k[g] \in S PROVE FALSE
      OBVIOUS
    <3>2. k[g] = h[g] /\ h[g] \in Cluster /\ h[g] # None /\ h[g] \in Members(s)
      BY <1>2, <1>3, <2>2, <3>1, Marks
    <3>3. Good(Chain(h[g], t), h[g], t)
      BY VolumeChains
    <3>4. h[g] \in Members(Chain(h[g], t))
      <4> DEFINE r == Chain(h[g], t)
      <4>1. Whole(r, h[g], t, Cluster) /\ r \in Seq(Cluster) /\ Len(r) \in Nat
        BY <3>3 DEF Good
      <4> HIDE DEF r
      <4>2. r # <<>> /\ r[1] = h[g] /\ Len(r) >= 1
        BY <3>2, <4>1, EmptyIsWhole
      <4>3. h[g] \in Members(r)
        BY <4>1, <4>2, MembersAre
      <4> QED BY <4>3 DEF r
    <3>5. Members(Chain(h[f], t)) \cap Members(Chain(h[g], t)) = {}
      BY <2>2, VolumeChains
    <3> QED BY <3>2, <3>4, <3>5 DEF s
  <2> QED BY <2>1, <2>2
<1>6. \A g \in File : k[g] = h[g] \/ k[g] = None
  BY <1>2
<1>7. Volume(k, u)
  <2>1. \A x \in Cluster : t[x] \in S => x \in S \/ x = None
    BY <1>4
  <2>2. \A g \in File : k[g] \notin S /\ (k[g] = h[g] \/ k[g] = None)
    BY <1>5, <1>6
  <2>3. S \in SUBSET Cluster /\ k \in [File -> Cluster \cup {None}] /\ Frees(S, None, t, u)
    BY <1>2, <1>3
  <2> HIDE DEF S
  <2> QED BY <2>1, <2>2, <2>3, Freed
<1>8. Chain(k[f], u) = <<>>
  BY <1>2, NoChain
<1>9. \A x \in Cluster : t[x] # None /\ x \notin Members(Chain(h[f], t)) => u[x] = t[x]
  BY <1>3, Marks DEF Frees, s
<1>10. Others(f, h, t, k, u)
  BY <1>2, <1>7, <1>9, OthersStay
<1> QED BY <1>7, <1>8, <1>10

(* What is read behind cluster m of the chain.                             *)
IsRest(w, s, m, t) ==
    /\ Path(w, t[s[m]], t, Cluster)
    /\ w \in Seq(Cluster) /\ Len(w) = Len(s) - m
    /\ Members(w) \subseteq Members(s)
    /\ \A i \in 1 .. m : s[i] \notin Members(w)

LEMMA TailIsRead ==
    ASSUME NEW h, NEW t, Volume(h, t), NEW f \in File, NEW m \in 1 .. Len(Chain(h[f], t)) - 1
    PROVE  IsRest(Chain(t[Chain(h[f], t)[m]], t), Chain(h[f], t), m, t)
<1> DEFINE s == Chain(h[f], t)
           w == Chain(t[s[m]], t)
           v == SubSeq(s, m + 1, Len(s))
           u == [t EXCEPT ![s[m]] = EOC]
<1>1. Good(s, h[f], t)
  BY VolumeChains
<1>2. t \in [Cluster -> Value]
  BY DEF Volume
<1>3. m \in 1 .. Len(s) - 1
  OBVIOUS
<1> HIDE DEF s
<1>4. /\ s \in Seq(Cluster) /\ Len(s) \in Nat /\ m \in 1 .. Len(s) /\ m \in 0 .. Len(s)
      /\ Whole(s, h[f], t, Cluster)
      /\ \A i, j \in 1 .. Len(s) : s[i] = s[j] => i = j
  BY <1>1, <1>3 DEF Good, Distinct
<1>5. \A i \in 1 .. Len(s) : s[i] \in Cluster
  BY <1>4
<1>6. u[s[m]] = EOC /\ \A i \in 1 .. Len(s) : i # m => u[s[i]] = t[s[i]]
  BY <1>2, <1>4, <1>5
<1>7. Whole(v, t[s[m]], u, Cluster)
  <2>1. ChangedAt(m, s, t, u) /\ u[s[m]] \notin Cluster
    BY <1>6, Marks DEF ChangedAt
  <2> HIDE DEF u
  <2> QED BY <1>3, <1>4, <2>1, WholeIsCut
<1>8. /\ v \in Seq(Cluster) /\ Len(v) = Len(s) - m
      /\ \A i \in 1 .. Len(s) - m : v[i] = s[i + m]
  BY <1>4, CutIs
<1> HIDE DEF v, u
<1>9. \A i \in 1 .. Len(v) : i + m \in 1 .. Len(s) /\ i + m > m /\ v[i] = s[i + m]
  BY <1>3, <1>4, <1>8
<1>10. \A i \in 1 .. Len(v) : t[v[i]] = u[v[i]]
  BY <1>6, <1>9
<1>11. Whole(v, t[s[m]], t, Cluster)
  BY <1>7, <1>10, WholeStays
<1>12. Distinct(v)
  <2>1. ASSUME NEW i \in 1 .. Len(v), NEW j \in 1 .. Len(v), v[i] = v[j] PROVE i = j
    <3>1. i + m = j + m
      BY <1>4, <1>9, <2>1
    <3> QED BY <1>3, <1>8, <3>1
  <2> QED BY <2>1 DEF Distinct
<1>13. w = v
  BY <1>11, <1>12, Marks, DistinctIsFollow DEF Chain
<1>14. \A x \in Members(v) : \E i \in 1 .. Len(v) : x = s[i + m]
  BY <1>8, <1>9, MembersAre
<1>15. Members(v) \subseteq Members(s)
  BY <1>4, <1>9, <1>14, MembersAre
<1>16. ASSUME NEW i \in 1 .. m, s[i] \in Members(v) PROVE FALSE
  <2>1. PICK j \in 1 .. Len(v) : s[i] = s[j + m]
    BY <1>14, <1>16
  <2>2. i \in 1 .. Len(s) /\ j + m \in 1 .. Len(s) /\ j + m > i
    BY <1>4, <1>9
  <2>3. i = j + m
    BY <1>4, <2>1, <2>2
  <2> QED BY <1>4, <2>2, <2>3
<1>17. Path(v, t[s[m]], t, Cluster)
  BY <1>11 DEF Whole
<1> HIDE DEF w
<1>18. IsRest(w, s, m, t)
  BY <1>8, <1>13, <1>15, <1>16, <1>17 DEF IsRest
<1> QED BY <1>18 DEF w, s

(* From t to u, j of the clusters that follow p, cluster m of the chain of  *)
(* f, are removed.                                                         *)
Cutting(f, h, t, m, p, j, u) ==
    /\ m \in 1 .. Len(Chain(h[f], t)) - 1 /\ p = Chain(h[f], t)[m]
    /\ j \in 0 .. Len(Chain(t[p], t))
    /\ Frees(FirstOf(Chain(t[p], t), j), p, t, u)

(* What follows cluster m of the chain of f is removed, as far as that gets.*)
LEMMA CutShort ==
    ASSUME NEW h, NEW t, Volume(h, t), NEW f \in File,
           NEW m, NEW p, NEW j, NEW u, Cutting(f, h, t, m, p, j, u)
    PROVE  /\ Volume(h, u) /\ Others(f, h, t, h, u)
           /\ Chain(h[f], u) = SubSeq(Chain(h[f], t), 1, m)
<1>0. /\ m \in 1 .. Len(Chain(h[f], t)) - 1 /\ p = Chain(h[f], t)[m]
      /\ j \in 0 .. Len(Chain(t[p], t))
      /\ Frees(FirstOf(Chain(t[p], t), j), p, t, u)
  BY DEF Cutting
<1> USE <1>0
<1> DEFINE s == Chain(h[f], t)
           w == Chain(t[p], t)
           S == FirstOf(w, j)
<1>1. Good(s, h[f], t)
  BY VolumeChains
<1>2. /\ h \in [File -> Cluster \cup {None}] /\ t \in [Cluster -> Value]
      /\ OneLink(t, Cluster) /\ \A g \in File : NoLinkTo(h[g], t, Cluster)
  BY DEF Volume
<1>3. /\ Path(w, t[p], t, Cluster) /\ w \in Seq(Cluster) /\ Len(w) = Len(s) - m
      /\ Members(w) \subseteq Members(s) /\ \A i \in 1 .. m : s[i] \notin Members(w)
  <2>1. IsRest(Chain(t[Chain(h[f], t)[m]], t), Chain(h[f], t), m, t)
    BY TailIsRead
  <2>2. IsRest(w, s, m, t) /\ p = s[m]
    BY <2>1
  <2> HIDE DEF s, w
  <2> QED BY <2>2 DEF IsRest
<1>4. j \in 0 .. Len(w) /\ m \in 1 .. Len(s) - 1 /\ p = s[m] /\ Frees(S, p, t, u)
  OBVIOUS
<1> HIDE DEF w
<1>5. S \subseteq Members(w) /\ S \in SUBSET Cluster
  BY <1>3, <1>4, FirstAreMembers
<1> HIDE DEF s
<1>6. /\ s \in Seq(Cluster) /\ Len(s) \in Nat /\ m \in 1 .. Len(s)
      /\ Whole(s, h[f], t, Cluster) /\ Distinct(s)
  BY <1>1, <1>4 DEF Good
<1>7. p \in Cluster /\ p \in Members(s) /\ t[p] = s[m + 1] /\ t[p] \in Cluster
  <2>1. PICK i \in 1 .. Len(s) : i = m + 1
    BY <1>4, <1>6
  <2>2. s[i] = IF i = 1 THEN h[f] ELSE t[s[i - 1]]
    BY <1>6 DEF Whole, Path
  <2>3. i # 1 /\ i - 1 = m
    BY <1>4, <2>1
  <2>4. s[i] \in Cluster /\ s[m] \in Cluster
    BY <1>6
  <2>5. s[m] \in Members(s)
    BY <1>6, MembersAre
  <2> QED BY <1>4, <2>1, <2>2, <2>3, <2>4, <2>5
<1>8. ASSUME NEW x \in Cluster, t[x] \in S PROVE x \in S \/ x = p
  <2>1. x \in S \/ t[x] = t[p]
    BY <1>2, <1>3, <1>4, <1>8, Behind
  <2>2. CASE t[x] = t[p]
    BY <1>2, <1>7, <2>2 DEF OneLink
  <2> QED BY <2>1, <2>2
<1>9. ASSUME NEW g \in File, h[g] \in S PROVE FALSE
  <2>1. PICK i \in 1 .. Len(w) : w[i] = h[g]
    BY <1>3, <1>5, <1>9, MembersAre
  <2>2. w[i] = IF i = 1 THEN t[p] ELSE t[w[i - 1]]
    BY <1>3, <2>1 DEF Path
  <2>3. h[g] \in Cluster
    BY <1>5, <1>9
  <2>4. NoLinkTo(h[g], t, Cluster)
    BY <1>2
  <2>5. CASE i = 1
    BY <1>7, <2>1, <2>2, <2>3, <2>4, <2>5 DEF NoLinkTo
  <2>6. CASE i # 1
    <3>1. i - 1 \in 1 .. Len(w) /\ w[i - 1] \in Cluster
      BY <1>3, <1>6, <2>6
    <3> QED BY <2>1, <2>2, <2>3, <2>4, <2>6, <3>1 DEF NoLinkTo
  <2> QED BY <2>5, <2>6
<1>10. Volume(h, u)
  <2>1. \A x \in Cluster : t[x] \in S => x \in S \/ x = p
    BY <1>8
  <2>2. \A g \in File : h[g] \notin S /\ (h[g] = h[g] \/ h[g] = None)
    BY <1>9
  <2>3. S \in SUBSET Cluster /\ Frees(S, p, t, u)
    BY <1>4, <1>5
  <2> HIDE DEF S
  <2> QED BY <1>2, <2>1, <2>2, <2>3, Freed
<1>11. /\ u[p] = EOC
       /\ \A x \in Cluster : x \notin Members(s) => u[x] = t[x]
       /\ \A i \in 1 .. m : i # m => u[s[i]] = t[s[i]]
  <2>1. p \notin S
    BY <1>3, <1>4, <1>5
  <2>2. u[p] = EOC
    BY <1>4, <1>7, <2>1 DEF Frees
  <2>3. \A x \in Cluster : x \notin Members(s) => u[x] = t[x]
    BY <1>3, <1>4, <1>5, <1>7 DEF Frees
  <2>4. ASSUME NEW i \in 1 .. m, i # m PROVE u[s[i]] = t[s[i]]
    <3>1. i \in 1 .. Len(s) /\ s[i] \in Cluster
      BY <1>6
    <3>2. s[i] # p /\ s[i] \notin S
      BY <1>3, <1>4, <1>5, <1>6, <2>4, <3>1 DEF Distinct
    <3> QED BY <1>4, <3>1, <3>2 DEF Frees
  <2> QED BY <2>2, <2>3, <2>4
<1>12. Whole(SubSeq(s, 1, m), h[f], u, Cluster)
  <2> DEFINE a == SubSeq(s, 1, m)
  <2>1. a \in Seq(Cluster) /\ Len(a) = m /\ \A i \in 1 .. m : a[i] = s[i]
    <3>1. m \in 0 .. Len(s)
      BY <1>6
    <3> QED BY <1>6, <3>1, CutIs
  <2> HIDE DEF a
  <2>2. ASSUME NEW i \in 1 .. Len(a) PROVE a[i] = IF i = 1 THEN h[f] ELSE u[a[i - 1]]
    <3>1. i \in 1 .. m /\ i \in 1 .. Len(s) /\ a[i] = s[i]
      BY <1>6, <2>1
    <3>2. s[i] = IF i = 1 THEN h[f] ELSE t[s[i - 1]]
      BY <1>6, <3>1 DEF Whole, Path
    <3>3. CASE i # 1
      <4>1. i - 1 \in 1 .. m /\ i - 1 # m
        BY <3>1, <3>3
      <4>2. a[i - 1] = s[i - 1] /\ u[s[i - 1]] = t[s[i - 1]]
        BY <1>11, <2>1, <4>1
      <4> QED BY <3>1, <3>2, <3>3, <4>2
    <3> QED BY <3>1, <3>2, <3>3
  <2>3. a # <<>> /\ a[Len(a)] = p
    BY <1>4, <2>1
  <2>4. After(a, h[f], u) \notin Cluster
    BY <1>11, <2>3, Marks DEF After
  <2> QED BY <2>1, <2>2, <2>4 DEF Whole, Path, a
<1>13. Chain(h[f], u) = SubSeq(s, 1, m)
  BY <1>10, <1>12, ChainBecomes
<1>14. \A x \in Cluster : t[x] # None /\ x \notin Members(Chain(h[f], t)) => u[x] = t[x]
  BY <1>11 DEF s
<1>15. Others(f, h, t, h, u)
  BY <1>2, <1>10, <1>14, OthersStay
<1> QED BY <1>10, <1>13, <1>15 DEF s

-----------------------------------------------------------------------------
(* A file object r, the chain ch of its file f, the data area d and the    *)
(* offsets u without a value.                                              *)
Disk == [Sector -> Content]
FilRec == [open : BOOLEAN, wr : BOOLEAN, fptr : 0 .. MaxSize,
           objsize : 0 .. MaxSize, sclust : Cluster \cup {None},
           clust : Cluster \cup {None}, sect : Sector \cup {None},
           buf : Content \cup {None}, dirty : BOOLEAN, mod : BOOLEAN,
           err : {"none", "disk", "int", "stream"}]

(* What Stored says of an open file, and of a closed one that has n bytes. *)
Sound(f, r, ch, d, u) ==
    \A i \in (0 .. r.objsize - 1) \ u :
        /\ r.sect = SectorAt(ch, i) /\ (r.dirty \/ r.err = "none") => r.buf[B(i)] = <<f, i>>
        /\ ~(r.sect = SectorAt(ch, i) /\ r.dirty) => d[SectorAt(ch, i)][B(i)] = <<f, i>>

Safe(f, n, ch, d, u) ==
    \A i \in (0 .. n - 1) \ u : d[SectorAt(ch, i)][B(i)] = <<f, i>>

(* The chain has a cluster for each of n bytes.                            *)
Covers(ch, n) == ch \in Seq(Cluster) /\ Len(ch) \in Nat /\ n \in Nat /\ n <= BCS * Len(ch)

LEMMA HasCluster ==
    ASSUME NEW ch, NEW n, Covers(ch, n), NEW i \in 0 .. n - 1
    PROVE  /\ i \in Nat /\ Q(i) + 1 \in 1 .. Len(ch)
           /\ SectorAt(ch, i) = <<ch[Q(i) + 1], K(i)>>
           /\ SectorAt(ch, i) \in Sector /\ SectorAt(ch, i)[1] \in Members(ch)
           /\ B(i) \in 0 .. SS - 1
<1>1. i \in Nat /\ i < BCS * Len(ch) /\ ch \in Seq(Cluster) /\ Len(ch) \in Nat
  BY Sizes DEF Covers
<1>2. Q(i) \in Nat /\ K(i) \in 0 .. CSize - 1 /\ B(i) \in 0 .. SS - 1
  BY <1>1, Place
<1>3. Q(i) < Len(ch)
  BY <1>1, Sizes, DivLess DEF Q
<1>4. Q(i) + 1 \in 1 .. Len(ch)
  BY <1>1, <1>2, <1>3
<1>5. SectorAt(ch, i) = <<ch[Q(i) + 1], K(i)>>
  BY DEF SectorAt, Q, K
<1>6. ch[Q(i) + 1] \in Cluster /\ ch[Q(i) + 1] \in Members(ch)
  BY <1>1, <1>4, MembersAre
<1> QED BY <1>1, <1>2, <1>4, <1>5, <1>6 DEF Sector

(* Two bytes of a file are in one place only if they are one.              *)
LEMMA OwnPlace ==
    ASSUME NEW ch, NEW n, Covers(ch, n), Distinct(ch),
           NEW i \in 0 .. n - 1, NEW j \in 0 .. n - 1, SectorAt(ch, i) = SectorAt(ch, j)
    PROVE  Q(i) = Q(j) /\ K(i) = K(j)
<1>1. /\ Q(i) + 1 \in 1 .. Len(ch) /\ SectorAt(ch, i) = <<ch[Q(i) + 1], K(i)>>
      /\ Q(j) + 1 \in 1 .. Len(ch) /\ SectorAt(ch, j) = <<ch[Q(j) + 1], K(j)>>
      /\ i \in Nat /\ j \in Nat
  BY HasCluster
<1>2. ch[Q(i) + 1] = ch[Q(j) + 1] /\ K(i) = K(j)
  <2> DEFINE a == ch[Q(i) + 1]
             b == ch[Q(j) + 1]
             k == K(i)
             l == K(j)
  <2>1. <<a, k>> = <<b, l>>
    BY <1>1
  <2> HIDE DEF a, b, k, l
  <2>2. a = b /\ k = l
    BY <2>1
  <2> QED BY <2>2 DEF a, b, k, l
<1>3. Q(i) + 1 = Q(j) + 1
  BY <1>1, <1>2 DEF Distinct
<1>4. Q(i) \in Nat /\ Q(j) \in Nat
  BY <1>1, Place
<1> QED BY <1>2, <1>3, <1>4

(* From d to e, only bytes of f and clusters of M have changed.            *)
Clean(f, M, d, e) ==
    \A s \in Sector : s[1] \notin M =>
        \A b \in 0 .. SS - 1, g \in File, i \in Nat :
            g # f /\ d[s][b] = <<g, i>> => e[s][b] = <<g, i>>

LEMMA CleanTwice ==
    ASSUME NEW f, NEW M, NEW d, NEW e, NEW x, Clean(f, M, d, e), Clean(f, M, e, x)
    PROVE  Clean(f, M, d, x)
BY DEF Clean

LEMMA CleanSame ==
    ASSUME NEW f, NEW M, NEW d
    PROVE  Clean(f, M, d, d)
BY DEF Clean

LEMMA OtherSafe ==
    ASSUME NEW f, NEW M, NEW d, NEW e, Clean(f, M, d, e), NEW g \in File, g # f,
           NEW ch, NEW n, Covers(ch, n), Members(ch) \cap M = {}, NEW u
    PROVE  Safe(g, n, ch, d, u) => Safe(g, n, ch, e, u)
<1> SUFFICES ASSUME Safe(g, n, ch, d, u), NEW i \in (0 .. n - 1) \ u
             PROVE  e[SectorAt(ch, i)][B(i)] = <<g, i>>
  BY DEF Safe
<1>1. /\ SectorAt(ch, i) \in Sector /\ SectorAt(ch, i)[1] \notin M
      /\ B(i) \in 0 .. SS - 1 /\ i \in Nat
  BY HasCluster
<1>2. d[SectorAt(ch, i)][B(i)] = <<g, i>>
  BY DEF Safe
<1> QED BY <1>1, <1>2 DEF Clean

LEMMA OtherSound ==
    ASSUME NEW f, NEW M, NEW d, NEW e, Clean(f, M, d, e), NEW g \in File, g # f,
           NEW ch, NEW r, Covers(ch, r.objsize), Members(ch) \cap M = {}, NEW u
    PROVE  Sound(g, r, ch, d, u) => Sound(g, r, ch, e, u)
<1> SUFFICES ASSUME Sound(g, r, ch, d, u), NEW i \in (0 .. r.objsize - 1) \ u,
                    ~(r.sect = SectorAt(ch, i) /\ r.dirty)
             PROVE  e[SectorAt(ch, i)][B(i)] = <<g, i>>
  BY DEF Sound
<1>1. /\ SectorAt(ch, i) \in Sector /\ SectorAt(ch, i)[1] \notin M
      /\ B(i) \in 0 .. SS - 1 /\ i \in Nat
  BY HasCluster
<1>2. d[SectorAt(ch, i)][B(i)] = <<g, i>>
  BY DEF Sound
<1> QED BY <1>1, <1>2 DEF Clean

(* An error asks for less.                                                 *)
LEMMA SoundInError ==
    ASSUME NEW f, NEW r \in FilRec, NEW ch, NEW d, NEW u, Sound(f, r, ch, d, u),
           NEW e \in {"disk", "int", "stream"}
    PROVE  Sound(f, [r EXCEPT !.err = e], ch, d, u)
<1> DEFINE x == [r EXCEPT !.err = e]
<1>1. /\ x.objsize = r.objsize /\ x.sect = r.sect /\ x.dirty = r.dirty /\ x.buf = r.buf
      /\ x.err # "none"
  BY DEF FilRec
<1> HIDE DEF x
<1>2. Sound(f, x, ch, d, u)
  BY <1>1 DEF Sound
<1> QED BY <1>2 DEF x

-----------------------------------------------------------------------------
(* The sector buffer.  M holds the clusters the object may write to.       *)
Fine(M, r, d) ==
    /\ r \in FilRec /\ d \in Disk /\ r.buf \in Content
    /\ r.dirty => r.sect \in Sector /\ r.sect[1] \in M

Same(r, x) ==
    /\ x.open = r.open /\ x.wr = r.wr /\ x.fptr = r.fptr /\ x.objsize = r.objsize
    /\ x.sclust = r.sclust /\ x.clust = r.clust /\ x.mod = r.mod /\ x.err = r.err

(* What write-backs and reads come to.                                     *)
Moves(f, M, ch, u, r, d, m) ==
    /\ Fine(M, m.r, m.disk) /\ Same(r, m.r) /\ Clean(f, M, d, m.disk)
    /\ m.res \in {"ok", "disk"} /\ (m.r.dirty => r.dirty)
    /\ Sound(f, r, ch, d, u) =>
         /\ m.res = "ok" => Sound(f, m.r, ch, m.disk, u)
         /\ \A e \in {"disk", "int", "stream"} : Sound(f, [m.r EXCEPT !.err = e], ch, m.disk, u)

LEMMA MovesNot ==
    ASSUME NEW f, NEW M, NEW ch, NEW u, NEW r, NEW d, Fine(M, r, d)
    PROVE  Moves(f, M, ch, u, r, d, Moved("ok", r, d))
<1> DEFINE m == Moved("ok", r, d)
<1>1. m.res = "ok" /\ m.r = r /\ m.disk = d
  BY DEF Moved
<1> HIDE DEF m
<1>2. Same(r, m.r) /\ Clean(f, M, d, m.disk)
  BY <1>1, CleanSame DEF Same
<1>3. r \in FilRec
  BY DEF Fine
<1>4. Sound(f, r, ch, d, u) => \A e \in {"disk", "int", "stream"} : Sound(f, [m.r EXCEPT !.err = e], ch, m.disk, u)
  BY <1>1, <1>3, SoundInError
<1>5. Moves(f, M, ch, u, r, d, m)
  BY <1>1, <1>2, <1>4 DEF Moves
<1> QED BY <1>5 DEF m

LEMMA MovesTwice ==
    ASSUME NEW f, NEW M, NEW ch, NEW u, NEW r, NEW d, NEW m, NEW n,
           Moves(f, M, ch, u, r, d, m), m.res = "ok",
           Moves(f, M, ch, u, m.r, m.disk, n)
    PROVE  Moves(f, M, ch, u, r, d, n)
<1>1. Same(r, n.r)
  BY DEF Moves, Same
<1>2. Clean(f, M, d, n.disk)
  BY CleanTwice DEF Moves
<1> QED BY <1>1, <1>2 DEF Moves

(* Once the buffer is on the disk, or was, nothing of the file is lost.    *)
LEMMA WrittenSound ==
    ASSUME NEW f, NEW ch, NEW u, NEW r, NEW d \in Disk, Covers(ch, r.objsize),
           NEW e, Put(d, r.sect, r.buf, e), r.sect \in Sector, r.dirty = TRUE,
           Sound(f, r, ch, d, u), NEW x,
           x.objsize = r.objsize, x.sect = r.sect, x.buf = r.buf
    PROVE  Sound(f, x, ch, e, u)
<1> SUFFICES ASSUME NEW i \in (0 .. r.objsize - 1) \ u
             PROVE  /\ x.sect = SectorAt(ch, i) => x.buf[B(i)] = <<f, i>>
                    /\ e[SectorAt(ch, i)][B(i)] = <<f, i>>
  BY DEF Sound
<1>1. SectorAt(ch, i) \in Sector
  BY HasCluster
<1>2. /\ r.sect = SectorAt(ch, i) => r.buf[B(i)] = <<f, i>>
      /\ r.sect # SectorAt(ch, i) => d[SectorAt(ch, i)][B(i)] = <<f, i>>
  BY DEF Sound
<1>3. e[SectorAt(ch, i)] = IF r.sect = SectorAt(ch, i) THEN r.buf ELSE d[SectorAt(ch, i)]
  BY <1>1 DEF Put, Disk
<1> QED BY <1>2, <1>3

LEMMA Flushed ==
    ASSUME NEW f, NEW M, NEW ch, NEW u, NEW r, NEW d, Fine(M, r, d), Covers(ch, r.objsize),
           NEW m \in Flush(r, d)
    PROVE  /\ Moves(f, M, ch, u, r, d, m)
           /\ m.r.sect = r.sect /\ m.r.buf = r.buf /\ (m.res = "ok" => ~m.r.dirty)
<1>0. r \in FilRec /\ d \in Disk /\ r.buf \in Content /\ r.dirty \in BOOLEAN
  BY DEF Fine, FilRec
<1>1. CASE ~r.dirty
  <2>1. m = Moved("ok", r, d)
    BY <1>1 DEF Flush
  <2>2. m.r = r
    BY <2>1 DEF Moved
  <2> QED BY <1>1, <2>1, <2>2, MovesNot
<1>2. CASE r.dirty
  <2> DEFINE w == [d EXCEPT ![r.sect] = r.buf]
             y == [r EXCEPT !.dirty = FALSE]
  <2>1. r.sect \in Sector /\ r.sect[1] \in M /\ r.dirty = TRUE
    BY <1>0, <1>2 DEF Fine
  <2>2. Put(d, r.sect, r.buf, w) /\ w \in Disk
    BY <1>0, <2>1 DEF Put, Disk
  <2>3. \A s \in Sector : s # r.sect => w[s] = d[s]
    BY <1>0 DEF Disk
  <2>4. Clean(f, M, d, w)
    BY <2>1, <2>3 DEF Clean
  <2>5. /\ y \in FilRec /\ y.dirty = FALSE /\ Same(r, y)
        /\ y.objsize = r.objsize /\ y.sect = r.sect /\ y.buf = r.buf
    BY <1>0 DEF FilRec, Same
  <2>6. Same(r, r) /\ Clean(f, M, d, d)
    BY CleanSame DEF Same
  <2>7. \/ m = Moved("ok", y, w)
        \/ m = Moved("disk", r, w)
        \/ m = Moved("disk", r, d)
    BY <1>2 DEF Flush
  <2> HIDE DEF w, y
  <2>8. Sound(f, r, ch, d, u) => Sound(f, y, ch, w, u) /\ Sound(f, r, ch, w, u)
    BY <1>0, <2>1, <2>2, <2>5, WrittenSound
  <2>9. CASE m = Moved("ok", y, w)
    <3>1. m.res = "ok" /\ m.r = y /\ m.disk = w
      BY <2>9 DEF Moved
    <3>2. Fine(M, y, w)
      BY <1>0, <2>2, <2>5 DEF Fine
    <3>3. Sound(f, r, ch, d, u) => \A e \in {"disk", "int", "stream"} : Sound(f, [y EXCEPT !.err = e], ch, w, u)
      BY <2>5, <2>8, SoundInError
    <3>4. Moves(f, M, ch, u, r, d, m)
      BY <2>4, <2>5, <2>8, <3>1, <3>2, <3>3 DEF Moves
    <3> QED BY <2>5, <3>1, <3>4
  <2>10. CASE m = Moved("disk", r, w)
    <3>1. m.res = "disk" /\ m.r = r /\ m.disk = w
      BY <2>10 DEF Moved
    <3>2. Fine(M, r, w)
      BY <1>0, <2>1, <2>2 DEF Fine
    <3>3. Sound(f, r, ch, d, u) => \A e \in {"disk", "int", "stream"} : Sound(f, [r EXCEPT !.err = e], ch, w, u)
      BY <1>0, <2>8, SoundInError
    <3>4. Moves(f, M, ch, u, r, d, m)
      BY <2>1, <2>4, <2>6, <3>1, <3>2, <3>3 DEF Moves
    <3> QED BY <3>1, <3>4
  <2>11. CASE m = Moved("disk", r, d)
    <3>1. m.res = "disk" /\ m.r = r /\ m.disk = d
      BY <2>11 DEF Moved
    <3>3. Sound(f, r, ch, d, u) => \A e \in {"disk", "int", "stream"} : Sound(f, [r EXCEPT !.err = e], ch, d, u)
      BY <1>0, SoundInError
    <3>4. Moves(f, M, ch, u, r, d, m)
      BY <2>1, <2>6, <3>1, <3>3 DEF Moves
    <3> QED BY <3>1, <3>4
  <2> QED BY <2>7, <2>9, <2>10, <2>11
<1> QED BY <1>0, <1>1, <1>2

LEMMA Filled ==
    ASSUME NEW f, NEW M, NEW ch, NEW u, NEW r, NEW d, Fine(M, r, d), Covers(ch, r.objsize),
           ~r.dirty, NEW s \in Sector, NEW m \in Fill(r, s, d)
    PROVE  Moves(f, M, ch, u, r, d, m) /\ (m.res = "ok" => m.r.sect = s)
<1>0. r \in FilRec /\ d \in Disk /\ r.dirty = FALSE /\ d[s] \in Content
  BY DEF Fine, FilRec, Disk
<1> DEFINE y == [r EXCEPT !.buf = d[s], !.sect = s]
           z == [r EXCEPT !.buf = All(Old)]
<1>1. /\ y \in FilRec /\ y.dirty = FALSE /\ y.buf = d[s] /\ y.sect = s /\ Same(r, y)
      /\ y.objsize = r.objsize
  BY <1>0 DEF FilRec, Same
<1>2. All(Old) \in Content
  BY DEF All, Content, Byte
<1>3. /\ z \in FilRec /\ z.dirty = FALSE /\ z.buf \in Content /\ Same(r, z)
      /\ z.objsize = r.objsize
  BY <1>0, <1>2 DEF FilRec, Same
<1>4. Clean(f, M, d, d)
  BY CleanSame
<1>5. m = Moved("ok", y, d) \/ m = Moved("disk", z, d)
  BY DEF Fill
<1>6. ASSUME NEW e \in {"disk", "int", "stream"}
      PROVE  /\ [z EXCEPT !.err = e].objsize = r.objsize
             /\ [z EXCEPT !.err = e].dirty = FALSE
             /\ [z EXCEPT !.err = e].err = e
  BY <1>0 DEF FilRec
<1> HIDE DEF y, z
<1>7. ASSUME Sound(f, r, ch, d, u) PROVE Sound(f, y, ch, d, u)
  <2> SUFFICES ASSUME NEW i \in (0 .. r.objsize - 1) \ u
               PROVE  /\ y.sect = SectorAt(ch, i) => y.buf[B(i)] = <<f, i>>
                      /\ d[SectorAt(ch, i)][B(i)] = <<f, i>>
    BY <1>1 DEF Sound
  <2>1. d[SectorAt(ch, i)][B(i)] = <<f, i>>
    BY <1>0, <1>7 DEF Sound
  <2> QED BY <1>1, <2>1
<1>8. ASSUME Sound(f, r, ch, d, u), NEW e \in {"disk", "int", "stream"}
      PROVE  Sound(f, [z EXCEPT !.err = e], ch, d, u)
  <2> DEFINE x == [z EXCEPT !.err = e]
  <2>1. x.objsize = r.objsize /\ x.dirty = FALSE /\ x.err # "none"
    BY <1>6
  <2> HIDE DEF x
  <2>2. \A i \in (0 .. r.objsize - 1) \ u : d[SectorAt(ch, i)][B(i)] = <<f, i>>
    BY <1>0, <1>8 DEF Sound
  <2>3. Sound(f, x, ch, d, u)
    BY <2>1, <2>2 DEF Sound
  <2> QED BY <2>3 DEF x
<1>9. CASE m = Moved("ok", y, d)
  <2>1. m.res = "ok" /\ m.r = y /\ m.disk = d
    BY <1>9 DEF Moved
  <2>2. Fine(M, y, d)
    BY <1>0, <1>1 DEF Fine
  <2>3. Sound(f, r, ch, d, u) => \A e \in {"disk", "int", "stream"} : Sound(f, [y EXCEPT !.err = e], ch, d, u)
    BY <1>1, <1>7, SoundInError
  <2>4. Moves(f, M, ch, u, r, d, m)
    BY <1>1, <1>4, <1>7, <2>1, <2>2, <2>3 DEF Moves
  <2> QED BY <1>1, <2>1, <2>4
<1>10. CASE m = Moved("disk", z, d)
  <2>1. m.res = "disk" /\ m.r = z /\ m.disk = d
    BY <1>10 DEF Moved
  <2>2. Fine(M, z, d)
    BY <1>0, <1>3 DEF Fine
  <2>4. Moves(f, M, ch, u, r, d, m)
    BY <1>3, <1>4, <1>8, <2>1, <2>2 DEF Moves
  <2> QED BY <2>1, <2>4
<1> QED BY <1>5, <1>9, <1>10

LEMMA Brought ==
    ASSUME NEW f, NEW M, NEW ch, NEW u, NEW r, NEW d, Fine(M, r, d), Covers(ch, r.objsize),
           NEW s \in Sector, NEW m \in Bring(r, s, d)
    PROVE  Moves(f, M, ch, u, r, d, m) /\ (m.res = "ok" => m.r.sect = s)
<1>1. CASE r.sect = s
  <2>1. m = Moved("ok", r, d)
    BY <1>1 DEF Bring
  <2>2. m.r = r
    BY <2>1 DEF Moved
  <2> QED BY <1>1, <2>1, <2>2, MovesNot
<1>2. CASE r.sect # s
  <2>1. PICK n \in Flush(r, d) : m \in IF n.res = "ok" THEN Fill(n.r, s, n.disk) ELSE {n}
    BY <1>2 DEF Bring
  <2>2. Moves(f, M, ch, u, r, d, n) /\ (n.res = "ok" => ~n.r.dirty)
    BY Flushed
  <2>3. CASE n.res # "ok"
    BY <2>1, <2>2, <2>3
  <2>4. CASE n.res = "ok"
    <3>1. m \in Fill(n.r, s, n.disk) /\ Fine(M, n.r, n.disk) /\ n.r.objsize = r.objsize
      BY <2>1, <2>2, <2>4 DEF Moves, Same
    <3>2. Covers(ch, n.r.objsize) /\ ~n.r.dirty
      BY <2>2, <2>4, <3>1
    <3>3. Moves(f, M, ch, u, n.r, n.disk, m) /\ (m.res = "ok" => m.r.sect = s)
      BY <3>1, <3>2, Filled
    <3> QED BY <2>2, <2>4, <3>3, MovesTwice
  <2> QED BY <2>3, <2>4
<1> QED BY <1>1, <1>2

(* clust is the cluster of the position.                                   *)
There(r, ch) ==
    /\ ch \in Seq(Cluster) /\ Len(ch) \in Nat
    /\ Q(r.fptr) + 1 \in 1 .. Len(ch) /\ r.clust = ch[Q(r.fptr) + 1]

LEMMA ThereIsSector ==
    ASSUME NEW r \in FilRec, NEW ch, There(r, ch)
    PROVE  /\ SectorOf(r) = <<r.clust, K(r.fptr)>> /\ SectorOf(r) = SectorAt(ch, r.fptr)
           /\ SectorOf(r) \in Sector /\ SectorOf(r)[1] \in Members(ch) /\ r.fptr \in Nat
<1>1. r.fptr \in Nat
  BY DEF FilRec
<1>2. K(r.fptr) \in 0 .. CSize - 1
  BY <1>1, Place
<1>3. r.clust \in Cluster /\ r.clust \in Members(ch)
  BY MembersAre DEF There
<1>4. SectorOf(r) = <<r.clust, K(r.fptr)>> /\ SectorOf(r) = SectorAt(ch, r.fptr)
  BY DEF SectorOf, SectorAt, K, Q, There
<1> QED BY <1>1, <1>2, <1>3, <1>4 DEF Sector

(* A position on a sector at or behind the end of the file is in a sector  *)
(* of none of its bytes.                                                   *)
LEMMA Beyond ==
    ASSUME NEW r \in FilRec, NEW ch, There(r, ch), Distinct(ch), OnSector(r),
           NEW i \in Nat, i < r.fptr
    PROVE  SectorOf(r) # SectorAt(ch, i)
<1> DEFINE p == r.fptr
           n == p + 1
<1>0. p \in Nat /\ p < BCS * Len(ch)
  <2>1. p \in Nat
    BY DEF FilRec
  <2>2. Q(p) \in Nat /\ Len(ch) \in Nat /\ Q(p) + 1 \in 1 .. Len(ch)
    BY <2>1, Place DEF There
  <2>3. Q(p) < Len(ch)
    BY <2>2
  <2> QED BY <2>1, <2>2, <2>3, DivLess, Sizes DEF Q
<1>1. Covers(ch, n)
  <2>1. BCS * Len(ch) \in Nat
    BY Sizes DEF There
  <2> QED BY <1>0, <2>1 DEF Covers, There
<1>2. i \in 0 .. n - 1 /\ p \in 0 .. n - 1
  BY <1>0
<1>3. SectorOf(r) = SectorAt(ch, p) /\ B(p) = 0
  BY ThereIsSector DEF OnSector, B
<1> HIDE DEF p, n
<1>4. SUFFICES ASSUME SectorAt(ch, i) = SectorAt(ch, p) PROVE FALSE
  BY <1>3
<1>5. Q(i) = Q(p) /\ K(i) = K(p)
  BY <1>1, <1>2, <1>4, OwnPlace
<1>6. /\ i = BCS * Q(i) + SS * K(i) + B(i) /\ B(i) \in Nat
      /\ p = BCS * Q(p) + SS * K(p) + B(p)
      /\ Q(p) \in Nat /\ K(p) \in Nat
  <2>1. /\ i = BCS * Q(i) + SS * K(i) + B(i) /\ B(i) \in 0 .. SS - 1
    BY Place
  <2>2. /\ p = BCS * Q(p) + SS * K(p) + B(p) /\ Q(p) \in Nat /\ K(p) \in 0 .. CSize - 1
    BY <1>0, Place
  <2> QED BY <2>1, <2>2, Sizes
<1>7. BCS * Q(p) \in Nat /\ SS * K(p) \in Nat
  BY <1>6, Sizes
<1>8. i >= p
  BY <1>0, <1>3, <1>5, <1>6, <1>7
<1> QED BY <1>0, <1>8 DEF p

LEMMA Prepared ==
    ASSUME NEW f, NEW M, NEW ch, NEW u, NEW r, NEW d, Fine(M, r, d), Covers(ch, r.objsize),
           ~r.dirty, There(r, ch), Distinct(ch), OnSector(r), NEW m \in Prepare(r, d)
    PROVE  Moves(f, M, ch, u, r, d, m) /\ (m.res = "ok" => m.r.sect = SectorOf(r))
<1> DEFINE s == SectorOf(r)
<1>0. r \in FilRec /\ d \in Disk /\ r.dirty = FALSE /\ r.objsize \in Nat
  BY DEF Fine, FilRec
<1>1. s \in Sector
  BY <1>0, ThereIsSector
<1>2. CASE r.sect = s \/ r.fptr >= r.objsize
  <2> DEFINE y == [r EXCEPT !.sect = s]
  <2>1. m = Moved("ok", y, d)
    BY <1>2 DEF Prepare
  <2>2. /\ y \in FilRec /\ y.dirty = FALSE /\ y.sect = s /\ Same(r, y) /\ y.buf = r.buf
        /\ y.objsize = r.objsize /\ y.err = r.err
    BY <1>0, <1>1 DEF FilRec, Same
  <2> HIDE DEF y, s
  <2>3. ASSUME Sound(f, r, ch, d, u) PROVE Sound(f, y, ch, d, u)
    <3> SUFFICES ASSUME NEW i \in (0 .. r.objsize - 1) \ u
                 PROVE  /\ y.sect = SectorAt(ch, i) /\ y.err = "none" => y.buf[B(i)] = <<f, i>>
                        /\ d[SectorAt(ch, i)][B(i)] = <<f, i>>
      BY <2>2 DEF Sound
    <3>1. /\ d[SectorAt(ch, i)][B(i)] = <<f, i>>
          /\ r.sect = SectorAt(ch, i) /\ r.err = "none" => r.buf[B(i)] = <<f, i>>
      BY <1>0, <2>3 DEF Sound
    <3>2. CASE r.sect = s
      BY <2>2, <3>1, <3>2
    <3>3. CASE r.fptr >= r.objsize
      <4>1. i \in Nat /\ i < r.fptr
        BY <1>0, <3>3 DEF FilRec
      <4>2. s # SectorAt(ch, i)
        BY <1>0, <4>1, Beyond DEF s
      <4> QED BY <2>2, <3>1, <4>2
    <3> QED BY <1>2, <3>2, <3>3
  <2>4. Clean(f, M, d, d)
    BY CleanSame
  <2>5. Fine(M, y, d)
    BY <1>0, <2>2 DEF Fine
  <2>6. Sound(f, r, ch, d, u) => \A e \in {"disk", "int", "stream"} : Sound(f, [y EXCEPT !.err = e], ch, d, u)
    BY <2>2, <2>3, SoundInError
  <2>7. m.res = "ok" /\ m.r = y /\ m.disk = d
    BY <2>1 DEF Moved
  <2>8. Moves(f, M, ch, u, r, d, m)
    BY <2>2, <2>3, <2>4, <2>5, <2>6, <2>7 DEF Moves
  <2> QED BY <2>2, <2>7, <2>8 DEF s
<1>3. CASE ~(r.sect = s \/ r.fptr >= r.objsize)
  <2>1. m \in Fill(r, s, d)
    BY <1>3 DEF Prepare
  <2> QED BY <1>1, <2>1, Filled
<1> QED BY <1>2, <1>3

-----------------------------------------------------------------------------
(* Positions in a chain.                                                   *)
LEMMA Step ==
    ASSUME NEW p \in Nat, p > 0
    PROVE  IF p % BCS = 0 THEN Q(p) = Q(p - 1) + 1 ELSE Q(p) = Q(p - 1)
<1> DEFINE a == p - 1
<1>1. a \in Nat /\ a + 1 = p
  OBVIOUS
<1> HIDE DEF a
<1>2. IF (a + 1) % BCS = 0 THEN (a + 1) \div BCS = a \div BCS + 1 /\ a % BCS = BCS - 1
      ELSE (a + 1) \div BCS = a \div BCS /\ (a + 1) % BCS = (a % BCS) + 1
  BY <1>1, Sizes, DivSucc
<1>3. IF p % BCS = 0 THEN Q(p) = Q(a) + 1 ELSE Q(p) = Q(a)
  BY <1>1, <1>2 DEF Q
<1> QED BY <1>3 DEF a

LEMMA Boundaries ==
    ASSUME NEW p \in Nat
    PROVE  /\ p % BCS = 0 => K(p) = 0 /\ B(p) = 0
           /\ K(p) = 0 /\ B(p) = 0 => p % BCS = 0
<1>1. /\ K(p) \in 0 .. CSize - 1 /\ B(p) \in 0 .. SS - 1
      /\ p % BCS = SS * K(p) + B(p)
  BY Place
<1> DEFINE k == K(p)
           b == B(p)
<1>2. k \in Nat /\ b \in Nat /\ SS \in Nat \ {0} /\ p % BCS = SS * k + b
  BY <1>1, Sizes
<1> HIDE DEF k, b
<1>3. k # 0 => SS * k > 0
  BY <1>2
<1>4. k = 0 => SS * k = 0
  BY <1>2
<1>5. SS * k \in Nat
  BY <1>2
<1>6. SS * k + b = 0 => k = 0 /\ b = 0
  BY <1>2, <1>3, <1>5
<1>7. (p % BCS = 0 => k = 0 /\ b = 0) /\ (k = 0 /\ b = 0 => p % BCS = 0)
  BY <1>2, <1>4, <1>6
<1> QED BY <1>7 DEF k, b

LEMMA SectorEnd ==
    ASSUME NEW p \in Nat, NEW n \in Nat, B(p) + n = SS
    PROVE  B(p + n) = 0
<1> DEFINE a == p \div SS
<1>1. a \in Nat /\ p = SS * a + B(p) /\ SS \in Nat \ {0} /\ B(p) \in 0 .. SS - 1
  BY DivMod, Sizes DEF B
<1> HIDE DEF a
<1>2. p + n = SS * (a + 1) + 0
  <2>1. SS * (a + 1) = SS * a + SS
    BY <1>1
  <2>2. SS * a \in Nat
    BY <1>1
  <2> QED BY <1>1, <2>1, <2>2
<1> DEFINE c == p + n
           v == c \div SS
           w == c % SS
           e == a + 1
           z == 0
<1>3. c \in Nat /\ e \in Int /\ z \in 0 .. SS - 1 /\ c = SS * e + z
  BY <1>1, <1>2
<1> HIDE DEF c, e, z
<1>4. v \in Nat /\ w \in 0 .. SS - 1 /\ c = SS * v + w
  BY <1>1, <1>3, DivMod
<1>5. /\ SS \in Nat \ {0} /\ v \in Int /\ e \in Int
      /\ z \in 0 .. SS - 1 /\ w \in 0 .. SS - 1 /\ SS * e + z = SS * v + w
  BY <1>1, <1>3, <1>4
<1> HIDE DEF v, w
<1>6. z = w
  BY <1>5, DivUnique
<1> QED BY <1>6 DEF B, c, w, z

(* n bytes at p that lie in one sector.                                    *)
LEMMA Within ==
    ASSUME NEW p \in Nat, NEW n \in Nat \ {0}, B(p) + n <= SS
    PROVE  /\ \A i \in p .. p + n - 1 :
                i \in Nat /\ Q(i) = Q(p) /\ K(i) = K(p) /\ B(i) = B(p) + (i - p)
           /\ B(p + n) = 0 \/ (Q(p + n) = Q(p) /\ K(p + n) = K(p))
<1>1. B(p) \in 0 .. SS - 1 /\ SS \in Nat
  BY Place, Sizes
<1>2. ASSUME NEW i \in p .. p + n - 1
      PROVE  i \in Nat /\ Q(i) = Q(p) /\ K(i) = K(p) /\ B(i) = B(p) + (i - p)
  <2> DEFINE m == i - p
  <2>1. m \in Nat /\ p + m = i /\ B(p) + m < SS
    BY <1>1
  <2> HIDE DEF m
  <2>2. Q(p + m) = Q(p) /\ K(p + m) = K(p) /\ B(p + m) = B(p) + m
    BY <2>1, InSector
  <2> QED BY <2>1, <2>2 DEF m
<1>3. CASE B(p) + n = SS
  <2>1. n \in Nat
    OBVIOUS
  <2>2. B(p + n) = 0
    BY <1>3, <2>1, SectorEnd
  <2> QED BY <1>2, <2>2
<1>4. CASE B(p) + n # SS
  <2>1. B(p) + n < SS /\ n \in Nat
    BY <1>1, <1>4
  <2>2. Q(p + n) = Q(p) /\ K(p + n) = K(p)
    BY <2>1, InSector
  <2> QED BY <1>2, <2>2
<1> QED BY <1>3, <1>4

(* j whole sectors at p that lie in one cluster.                           *)
LEMMA Across ==
    ASSUME NEW p \in Nat, B(p) = 0, NEW j \in Nat \ {0}, K(p) + j <= CSize
    PROVE  /\ SS * j \in Nat \ {0}
           /\ \A i \in p .. p + SS * j - 1 :
                /\ i \in Nat /\ Q(i) = Q(p)
                /\ \E k \in 0 .. j - 1 : K(i) = K(p) + k
           /\ B(p + SS * j) = 0
<1>1. SS \in Nat \ {0} /\ CSize \in Nat \ {0} /\ K(p) \in 0 .. CSize - 1
  BY Place, Sizes
<1>2. SS * j \in Nat \ {0}
  BY <1>1
<1>3. ASSUME NEW i \in p .. p + SS * j - 1
      PROVE  i \in Nat /\ Q(i) = Q(p) /\ \E k \in 0 .. j - 1 : K(i) = K(p) + k
  <2> DEFINE m == i - p
             k == m \div SS
             b == m % SS
  <2>1. m \in Nat /\ m < SS * j /\ i = p + m /\ i \in Nat
    BY <1>2
  <2> HIDE DEF m
  <2>2. k \in Nat /\ b \in 0 .. SS - 1 /\ m = SS * k + b
    BY <1>1, <2>1, DivMod
  <2>3. k < j
    BY <1>1, <2>1, DivLess
  <2> HIDE DEF k, b
  <2>4. K(p) + k < CSize /\ k \in 0 .. j - 1
    BY <1>1, <2>2, <2>3
  <2>5. LET x == p + SS * k + b
        IN x \in Nat /\ Q(x) = Q(p) /\ K(x) = K(p) + k /\ B(x) = b
    BY <2>2, <2>4, InCluster
  <2>6. i = p + SS * k + b
    <3>1. SS * k \in Nat
      BY <1>1, <2>2
    <3> QED BY <2>1, <2>2, <3>1
  <2> QED BY <2>1, <2>4, <2>5, <2>6
<1>4. B(p + SS * j) = 0
  <2> DEFINE i == p + SS * (j - 1)
  <2>1. j - 1 \in Nat /\ K(p) + (j - 1) < CSize /\ 0 \in 0 .. SS - 1
    BY <1>1
  <2>2. LET x == p + SS * (j - 1) + 0
        IN x \in Nat /\ Q(x) = Q(p) /\ K(x) = K(p) + (j - 1) /\ B(x) = 0
    BY <2>1, InCluster
  <2>3. SS * (j - 1) \in Nat /\ SS * (j - 1) + SS = SS * j
    BY <1>1, <2>1
  <2>4. i \in Nat /\ B(i) = 0 /\ p + SS * j = i + SS
    <3>1. p + SS * (j - 1) + 0 = i
      BY <2>3
    <3>2. B(i) = 0
      BY <2>2, <3>1
    <3> QED BY <1>1, <1>2, <2>3, <3>2
  <2> HIDE DEF i
  <2>5. B(i + SS) = 0
    BY <1>1, <2>4, SectorEnd
  <2> QED BY <2>4, <2>5
<1> QED BY <1>2, <1>3, <1>4

(* The position moves n bytes on in its cluster.                           *)
Placed(r, ch) ==
    /\ ch \in Seq(Cluster) /\ Len(ch) \in Nat
    /\ r.fptr > 0 => Q(r.fptr - 1) + 1 \in 1 .. Len(ch) /\ r.clust = ch[Q(r.fptr - 1) + 1]
    /\ ~OnSector(r) => r.sect = SectorOf(r)

LEMMA CoversBehind ==
    ASSUME NEW ch \in Seq(Cluster), NEW i \in Nat, Q(i) + 1 \in 1 .. Len(ch)
    PROVE  Covers(ch, i + 1)
<1>1. Len(ch) \in Nat /\ Q(i) \in Nat
  BY Place
<1>2. Q(i) < Len(ch)
  BY <1>1
<1>3. i < BCS * Len(ch)
  BY <1>1, <1>2, DivLess, Sizes DEF Q
<1>4. BCS * Len(ch) \in Nat
  BY <1>1, Sizes
<1> QED BY <1>1, <1>3, <1>4 DEF Covers

LEMMA Advance ==
    ASSUME NEW r \in FilRec, NEW ch, There(r, ch), NEW n \in Nat \ {0},
           Q(r.fptr + n - 1) = Q(r.fptr)
    PROVE  /\ Covers(ch, r.fptr + n)
           /\ \A x : /\ x.fptr = r.fptr + n /\ x.clust = r.clust
                     /\ OnSector(x) \/ x.sect = SectorOf(x)
                     => Placed(x, ch)
<1> DEFINE i == r.fptr + n - 1
<1>1. i \in Nat /\ i + 1 = r.fptr + n /\ r.fptr + n > 0 /\ r.fptr + n - 1 = i
  BY DEF FilRec
<1>2. ch \in Seq(Cluster) /\ Len(ch) \in Nat /\ Q(i) + 1 \in 1 .. Len(ch) /\ r.clust = ch[Q(i) + 1]
  BY DEF There
<1> HIDE DEF i
<1>3. Covers(ch, r.fptr + n)
  BY <1>1, <1>2, CoversBehind
<1>4. ASSUME NEW x, x.fptr = r.fptr + n, x.clust = r.clust,
             OnSector(x) \/ x.sect = SectorOf(x)
      PROVE  Placed(x, ch)
  <2>1. x.fptr - 1 = i
    BY <1>1, <1>4
  <2> QED BY <1>2, <1>4, <2>1 DEF Placed
<1> QED BY <1>3, <1>4

(* Inside a cluster the cluster behind is the cluster of the position.     *)
LEMMA Inside ==
    ASSUME NEW r \in FilRec, NEW ch, Placed(r, ch), ~OnCluster(r)
    PROVE  There(r, ch)
<1>1. r.fptr \in Nat
  BY DEF FilRec
<1>2. r.fptr > 0
  <2>1. 0 % BCS = 0
    BY Sizes
  <2> QED BY <1>1, <2>1 DEF OnCluster
<1>3. Q(r.fptr) = Q(r.fptr - 1)
  BY <1>1, <1>2, Step DEF OnCluster
<1> QED BY <1>2, <1>3 DEF Placed, There

LEMMA OnBoth ==
    ASSUME NEW r \in FilRec, OnCluster(r)
    PROVE  OnSector(r)
<1>1. r.fptr \in Nat
  BY DEF FilRec
<1> QED BY <1>1, Boundaries DEF OnCluster, OnSector, B

-----------------------------------------------------------------------------
(* Writing.                                                                *)
LEMMA SameBase ==
    ASSUME NEW i \in Nat, NEW p \in Nat, Q(i) = Q(p), K(i) = K(p)
    PROVE  i - B(i) = p - B(p) /\ B(i) \in 0 .. SS - 1 /\ B(p) \in 0 .. SS - 1
<1>1. /\ Q(i) \in Nat /\ K(i) \in 0 .. CSize - 1 /\ B(i) \in 0 .. SS - 1
      /\ i = BCS * Q(i) + SS * K(i) + B(i)
  BY Place
<1>2. p = BCS * Q(p) + SS * K(p) + B(p) /\ B(p) \in 0 .. SS - 1
  BY Place
<1> DEFINE a == BCS * Q(p)
           c == SS * K(p)
<1>3. a \in Nat /\ c \in Nat /\ SS \in Nat
  BY <1>1, Sizes
<1>4. i = a + c + B(i) /\ p = a + c + B(p)
  BY <1>1, <1>2
<1> HIDE DEF a, c
<1> QED BY <1>1, <1>2, <1>3, <1>4

LEMMA Forgotten ==
    ASSUME NEW f \in File, NEW S, NEW x \in Content
    PROVE  /\ Forget(x, f, S) \in Content
           /\ \A b \in 0 .. SS - 1 : \A g, i :
                x[b] = <<g, i>> /\ (g # f \/ i \notin S) => Forget(x, f, S)[b] = <<g, i>>
<1>1. x \in [0 .. SS - 1 -> Byte] /\ Old \in Byte
  BY DEF Content, Byte
<1>2. Forget(x, f, S) \in Content
  BY <1>1 DEF Forget, Content
<1>3. ASSUME NEW b \in 0 .. SS - 1, NEW g, NEW i, x[b] = <<g, i>>, g # f \/ i \notin S
      PROVE  Forget(x, f, S)[b] = <<g, i>>
  <2>1. <<g, i>> \notin {<<f, j>> : j \in S}
    BY <1>3
  <2> QED BY <1>3, <2>1 DEF Forget
<1> QED BY <1>2, <1>3

Holds(x, b, f, i) == x[b] = <<f, i>>

LEMMA Remembered ==
    ASSUME NEW f, NEW S, NEW x, NEW b \in 0 .. SS - 1, NEW i, i \notin S, Holds(x, b, f, i)
    PROVE  Holds(Forget(x, f, S), b, f, i)
<1>1. <<f, i>> \notin {<<f, j>> : j \in S}
  OBVIOUS
<1> QED BY <1>1 DEF Forget, Holds

LEMMA ForgottenDisk ==
    ASSUME NEW f \in File, NEW S, NEW d \in Disk
    PROVE  /\ ForgetOnDisk(d, f, S) \in Disk
           /\ \A M : Clean(f, M, d, ForgetOnDisk(d, f, S))
           /\ \A s \in Sector, b \in 0 .. SS - 1 : \A i :
                d[s][b] = <<f, i>> /\ i \notin S => ForgetOnDisk(d, f, S)[s][b] = <<f, i>>
<1> DEFINE e == ForgetOnDisk(d, f, S)
<1>1. \A s \in Sector : d[s] \in Content
  BY DEF Disk
<1>2. \A s \in Sector : e[s] = Forget(d[s], f, S)
  BY DEF ForgetOnDisk
<1>3. e \in Disk
  <2>1. \A s \in Sector : Forget(d[s], f, S) \in Content
    <3> TAKE s \in Sector
    <3> DEFINE x == d[s]
    <3>1. x \in Content
      BY <1>1
    <3> HIDE DEF x
    <3>2. Forget(x, f, S) \in Content
      BY <3>1, Forgotten
    <3> QED BY <3>2 DEF x
  <2> QED BY <2>1 DEF ForgetOnDisk, Disk
<1> HIDE DEF e
<1>4. ASSUME NEW s \in Sector, NEW b \in 0 .. SS - 1, NEW g, NEW i,
             d[s][b] = <<g, i>>, g # f \/ i \notin S
      PROVE  e[s][b] = <<g, i>>
  <2> DEFINE x == d[s]
  <2>1. x \in Content /\ x[b] = <<g, i>> /\ e[s] = Forget(x, f, S)
    BY <1>1, <1>2, <1>4
  <2> HIDE DEF x
  <2>2. Forget(x, f, S)[b] = <<g, i>>
    BY <1>4, <2>1, Forgotten
  <2> QED BY <2>1, <2>2
<1>5. \A M : Clean(f, M, d, e)
  BY <1>4 DEF Clean
<1> QED BY <1>3, <1>4, <1>5 DEF e

(* From d to e, nothing but the bytes S of f is forgotten.                 *)
Forgets(f, S, d, e) ==
    \A s \in Sector, b \in 0 .. SS - 1 : \A i :
        d[s][b] = <<f, i>> /\ i \notin S => e[s][b] = <<f, i>>

LEMMA ForgetsOnly ==
    ASSUME NEW f \in File, NEW S, NEW d \in Disk
    PROVE  /\ ForgetOnDisk(d, f, S) \in Disk
           /\ \A M : Clean(f, M, d, ForgetOnDisk(d, f, S))
           /\ Forgets(f, S, d, ForgetOnDisk(d, f, S))
<1>1. \A s \in Sector, b \in 0 .. SS - 1 : \A i :
        d[s][b] = <<f, i>> /\ i \notin S => ForgetOnDisk(d, f, S)[s][b] = <<f, i>>
  BY ForgottenDisk
<1> QED BY <1>1, ForgottenDisk DEF Forgets

(* The buffer r.buf with the bytes new of f at the position.               *)
Patched(f, r, new) ==
    [b \in 0 .. SS - 1 |-> IF r.fptr - (r.fptr % SS) + b \in new
                           THEN <<f, r.fptr - (r.fptr % SS) + b>>
                           ELSE Forget(r.buf, f, new)[b]]

(* The end of the file once n bytes are written.                           *)
EndOf(r, n) == IF r.fptr + n > r.objsize THEN r.fptr + n ELSE r.objsize

LEMMA PatchedSound ==
    ASSUME NEW f \in File, NEW M, NEW r, NEW d, Fine(M, r, d), r.err = "none",
           NEW ch, There(r, ch), Distinct(ch), Covers(ch, r.objsize), r.fptr <= r.objsize,
           r.sect = SectorOf(r), NEW n \in Nat \ {0}, B(r.fptr) + n <= SS,
           r.fptr + n <= MaxSize, NEW new, new = r.fptr .. r.fptr + n - 1
    PROVE  /\ Patched(f, r, new) \in Content
           /\ Covers(ch, EndOf(r, n)) /\ EndOf(r, n) \in 0 .. MaxSize
           /\ \A u, x : /\ Sound(f, r, ch, d, u)
                        /\ x.sect = r.sect /\ x.dirty = TRUE /\ x.objsize = EndOf(r, n)
                        /\ x.buf = Patched(f, r, new)
                        => Sound(f, x, ch, ForgetOnDisk(d, f, new), u \ new)
<1> DEFINE p == r.fptr
           top == p - B(p)
<1>0. /\ r \in FilRec /\ d \in Disk /\ r.buf \in Content
      /\ p \in 0 .. MaxSize /\ r.objsize \in 0 .. MaxSize /\ MaxSize \in Nat
      /\ p \in Nat /\ r.objsize \in Nat /\ SS \in Nat \ {0}
  BY GeometryAssumption DEF Fine, FilRec
<1>1. \A i \in new : /\ i \in Nat /\ Q(i) = Q(p) /\ K(i) = K(p) /\ B(i) = B(p) + (i - p)
                     /\ i \in Offset
  <2>1. \A i \in p .. p + n - 1 : i \in Nat /\ Q(i) = Q(p) /\ K(i) = K(p) /\ B(i) = B(p) + (i - p)
    BY <1>0, Within
  <2> QED BY <1>0, <2>1 DEF Offset
<1>2. Patched(f, r, new) \in Content
  <2>1. \A b \in 0 .. SS - 1 : Forget(r.buf, f, new)[b] \in Byte
    <3>1. Forget(r.buf, f, new) \in Content
      BY <1>0, Forgotten
    <3> QED BY <3>1 DEF Content
  <2>2. \A i \in new : <<f, i>> \in Byte
    BY <1>1 DEF Byte
  <2> QED BY <2>1, <2>2 DEF Patched, Content
<1>3. Covers(ch, p + n) /\ p + n \in Nat /\ p + n <= MaxSize
  <2>1. p + n - 1 \in new
    BY <1>0
  <2>2. Q(p + n - 1) = Q(p)
    BY <1>1, <2>1
  <2> QED BY <1>0, <2>2, Advance
<1>4. Covers(ch, EndOf(r, n)) /\ EndOf(r, n) \in 0 .. MaxSize
  BY <1>0, <1>3 DEF EndOf
<1>5. \A b \in 0 .. SS - 1 :
        Patched(f, r, new)[b] = IF top + b \in new THEN <<f, top + b>>
                                ELSE Forget(r.buf, f, new)[b]
  BY DEF Patched, B
<1>6. SectorOf(r) = SectorAt(ch, p)
  BY <1>0, ThereIsSector
<1>7. ASSUME NEW u, NEW x, Sound(f, r, ch, d, u),
             x.sect = r.sect, x.dirty = TRUE, x.objsize = EndOf(r, n),
             x.buf = Patched(f, r, new)
      PROVE  Sound(f, x, ch, ForgetOnDisk(d, f, new), u \ new)
  <2> SUFFICES ASSUME NEW i \in (0 .. x.objsize - 1) \ (u \ new)
               PROVE  /\ x.sect = SectorAt(ch, i) => x.buf[B(i)] = <<f, i>>
                      /\ x.sect # SectorAt(ch, i) =>
                           ForgetOnDisk(d, f, new)[SectorAt(ch, i)][B(i)] = <<f, i>>
    BY <1>7 DEF Sound
  <2>0. i \in 0 .. EndOf(r, n) - 1 /\ p \in 0 .. EndOf(r, n) - 1 /\ i \in Nat
    BY <1>0, <1>4, <1>7 DEF EndOf
  <2>1. SectorAt(ch, i) \in Sector /\ B(i) \in 0 .. SS - 1
    BY <1>4, <2>0, HasCluster
  <2>2. x.sect = SectorAt(ch, i) <=> SectorAt(ch, i) = SectorAt(ch, p)
    BY <1>6, <1>7
  <2>3. SectorAt(ch, i) = SectorAt(ch, p) => Q(i) = Q(p) /\ K(i) = K(p)
    BY <1>4, <2>0, OwnPlace
  <2>4. Q(i) = Q(p) /\ K(i) = K(p) => top + B(i) = i
    <3>1. SUFFICES ASSUME Q(i) = Q(p), K(i) = K(p) PROVE top + B(i) = i
      OBVIOUS
    <3>2. i - B(i) = p - B(p) /\ B(i) \in 0 .. SS - 1 /\ B(p) \in 0 .. SS - 1
      <4> HIDE DEF p
      <4> QED BY <1>0, <2>0, <3>1, SameBase
    <3> QED BY <1>0, <2>0, <3>2
  <2>5. CASE i \in new
    <3>1. Q(i) = Q(p) /\ K(i) = K(p)
      BY <1>1, <2>5
    <3>2. SectorAt(ch, i) = SectorAt(ch, p)
      BY <3>1 DEF SectorAt, Q, K
    <3>3. Patched(f, r, new)[B(i)] = <<f, i>>
      BY <1>5, <2>1, <2>4, <2>5, <3>1
    <3> QED BY <1>7, <2>2, <3>2, <3>3
  <2>6. CASE i \notin new
    <3>1. i \in (0 .. r.objsize - 1) \ u
      BY <1>0, <1>7, <2>0, <2>6 DEF EndOf
    <3>2. /\ r.sect = SectorAt(ch, i) => r.buf[B(i)] = <<f, i>>
          /\ r.sect # SectorAt(ch, i) => d[SectorAt(ch, i)][B(i)] = <<f, i>>
      BY <1>7, <3>1 DEF Sound
    <3>3. ASSUME x.sect = SectorAt(ch, i) PROVE x.buf[B(i)] = <<f, i>>
      <4>1. top + B(i) = i
        BY <2>2, <2>3, <2>4, <3>3
      <4>2. Patched(f, r, new)[B(i)] = Forget(r.buf, f, new)[B(i)]
        BY <1>5, <2>1, <2>6, <4>1
      <4>3. r.buf[B(i)] = <<f, i>>
        BY <1>7, <3>2, <3>3
      <4>4. Forget(r.buf, f, new)[B(i)] = <<f, i>>
        <5> DEFINE y == r.buf
                   b == B(i)
        <5>1. Holds(y, b, f, i) /\ b \in 0 .. SS - 1
          BY <2>1, <4>3 DEF Holds
        <5> HIDE DEF y, b
        <5>2. Holds(Forget(y, f, new), b, f, i)
          BY <2>6, <5>1, Remembered
        <5> QED BY <5>2 DEF y, b, Holds
      <4> QED BY <1>7, <4>2, <4>4
    <3>4. ASSUME x.sect # SectorAt(ch, i)
          PROVE  ForgetOnDisk(d, f, new)[SectorAt(ch, i)][B(i)] = <<f, i>>
      <4>1. d[SectorAt(ch, i)][B(i)] = <<f, i>>
        BY <1>7, <3>2, <3>4
      <4> QED BY <1>0, <2>1, <2>6, <4>1, ForgottenDisk
    <3> QED BY <3>3, <3>4
  <2> QED BY <2>5, <2>6
<1> QED BY <1>2, <1>4, <1>7

(* The byte at place b of sector k of the cluster of p.                    *)
ByteIn(p, k, b) == p - (p % BCS) + k * SS + b

LEMMA ByteInIs ==
    ASSUME NEW p \in Nat, NEW k \in 0 .. CSize - 1, NEW b \in 0 .. SS - 1
    PROVE  LET i == ByteIn(p, k, b)
           IN i \in Nat /\ Q(i) = Q(p) /\ K(i) = k /\ B(i) = b
<1>1. SS \in Nat /\ CSize \in Nat /\ BCS \in Nat
  BY Sizes
<1>2. /\ Q(p) \in Nat /\ K(p) \in 0 .. CSize - 1 /\ B(p) \in 0 .. SS - 1
      /\ p = BCS * Q(p) + SS * K(p) + B(p) /\ p % BCS = SS * K(p) + B(p)
  BY Place
<1> DEFINE q == Q(p)
           i == ByteIn(p, k, b)
<1>3. i = BCS * q + SS * k + b
  <2> DEFINE a == BCS * Q(p)
             c == SS * K(p)
  <2>1. a \in Nat /\ c \in Nat /\ k * SS = SS * k /\ SS * k \in Nat
    BY <1>1, <1>2
  <2>2. p = a + c + B(p) /\ p % BCS = c + B(p)
    BY <1>2
  <2> HIDE DEF a, c
  <2>3. p - (p % BCS) = a
    BY <1>2, <2>1, <2>2
  <2>4. i = a + SS * k + b
    BY <2>1, <2>3 DEF ByteIn
  <2> QED BY <2>4 DEF a
<1>4. q \in Nat
  BY <1>2
<1> HIDE DEF q, i
<1>5. i \in Nat /\ Q(i) = q /\ K(i) = k /\ B(i) = b
  BY <1>3, <1>4, PlaceIs
<1> QED BY <1>5 DEF q, i

(* A byte is known by its cluster, sector and place.                       *)
LEMMA ByteInOwn ==
    ASSUME NEW p \in Nat, NEW i \in Nat, Q(i) = Q(p)
    PROVE  ByteIn(p, K(i), B(i)) = i
<1>1. SS \in Nat /\ CSize \in Nat /\ BCS \in Nat
  BY Sizes
<1>2. /\ Q(p) \in Nat /\ K(p) \in 0 .. CSize - 1 /\ B(p) \in 0 .. SS - 1
      /\ p = BCS * Q(p) + SS * K(p) + B(p) /\ p % BCS = SS * K(p) + B(p)
  BY Place
<1>3. /\ K(i) \in 0 .. CSize - 1 /\ B(i) \in 0 .. SS - 1
      /\ i = BCS * Q(i) + SS * K(i) + B(i)
  BY Place
<1> DEFINE a == BCS * Q(p)
           c == SS * K(p)
           e == SS * K(i)
<1>4. a \in Nat /\ c \in Nat /\ e \in Nat /\ K(i) * SS = e
  BY <1>1, <1>2, <1>3
<1>5. p = a + c + B(p) /\ p % BCS = c + B(p) /\ i = a + e + B(i)
  BY <1>2, <1>3
<1> HIDE DEF a, c, e
<1> QED BY <1>2, <1>3, <1>4, <1>5 DEF ByteIn

(* j whole sectors from K(p) on hold the SS * j bytes at p.                *)
LEMMA Straights ==
    ASSUME NEW p \in Nat, B(p) = 0, NEW j \in Nat \ {0}, K(p) + j <= CSize,
           NEW i \in Nat, Q(i) = Q(p), NEW k \in 0 .. j - 1, K(i) = K(p) + k
    PROVE  i \in p .. p + SS * j - 1
<1>1. SS \in Nat /\ CSize \in Nat /\ BCS \in Nat
  BY Sizes
<1>2. /\ Q(p) \in Nat /\ K(p) \in 0 .. CSize - 1 /\ p = BCS * Q(p) + SS * K(p) + B(p)
  BY Place
<1>3. /\ K(i) \in 0 .. CSize - 1 /\ B(i) \in 0 .. SS - 1 /\ i = BCS * Q(i) + SS * K(i) + B(i)
  BY Place
<1> DEFINE a == BCS * Q(p)
           c == SS * K(p)
           e == SS * k
           g == SS * j
<1>4. a \in Nat /\ c \in Nat /\ e \in Nat /\ g \in Nat
  BY <1>1, <1>2
<1>5. SS * K(i) = c + e
  <2>1. SS * (K(p) + k) = SS * K(p) + SS * k
    BY <1>1, <1>2
  <2> QED BY <2>1
<1>6. e + SS <= g
  <2>1. SS * (k + 1) <= SS * j
    BY <1>1
  <2>2. SS * (k + 1) = SS * k + SS
    BY <1>1
  <2> QED BY <2>1, <2>2
<1>7. p = a + c /\ i = a + (c + e) + B(i)
  <2>1. BCS * Q(i) = a
    OBVIOUS
  <2>2. p = a + c + B(p)
    BY <1>2
  <2>3. i = BCS * Q(i) + SS * K(i) + B(i)
    BY <1>3
  <2>4. i = a + SS * K(i) + B(i)
    BY <2>1, <2>3
  <2> HIDE DEF a, c, e
  <2>5. p = a + c
    BY <1>4, <2>2
  <2> QED BY <1>5, <2>4, <2>5
<1>8. p + g - 1 = p + SS * j - 1
  BY DEF g
<1> HIDE DEF a, c, e, g
<1>9. i \in p .. p + g - 1
  BY <1>1, <1>3, <1>4, <1>6, <1>7
<1> QED BY <1>8, <1>9

(* j sectors from sector a of cluster c on.                                *)
Row(c, a, j) == {<<c, a + k>> : k \in 0 .. j - 1}

(* d with the sectors S, of the cluster of position p, written with f.     *)
Laid(f, p, S, d) ==
    [s \in Sector |-> IF s \in S THEN [b \in 0 .. SS - 1 |-> <<f, ByteIn(p, s[2], b)>>]
                                 ELSE d[s]]

LEMMA RunIsInChain ==
    ASSUME NEW r \in FilRec, NEW ch, There(r, ch),
           NEW j \in Nat \ {0}, K(r.fptr) + j <= CSize
    PROVE  \A s \in Row(r.clust, K(r.fptr), j) :
              /\ s \in Sector /\ s[1] = r.clust /\ s[1] \in Members(ch)
              /\ s[2] \in 0 .. CSize - 1 /\ \E k \in 0 .. j - 1 : s[2] = K(r.fptr) + k
<1>1. r.fptr \in Nat /\ SectorOf(r)[1] \in Members(ch) /\ SectorOf(r) = <<r.clust, K(r.fptr)>>
      /\ SectorOf(r) \in Sector
  BY ThereIsSector
<1>2. r.clust \in Members(ch) /\ r.clust \in Cluster
  BY <1>1 DEF Sector
<1>3. K(r.fptr) \in 0 .. CSize - 1 /\ CSize \in Nat
  BY <1>1, Place, Sizes
<1> SUFFICES ASSUME NEW k \in 0 .. j - 1
             PROVE  LET s == <<r.clust, K(r.fptr) + k>>
                    IN /\ s \in Sector /\ s[1] = r.clust /\ s[1] \in Members(ch)
                       /\ s[2] \in 0 .. CSize - 1 /\ s[2] = K(r.fptr) + k
  BY DEF Row
<1>4. K(r.fptr) + k \in 0 .. CSize - 1
  BY <1>3
<1> QED BY <1>2, <1>4 DEF Sector

(* The sectors of a run are those of the bytes at the position.            *)
LEMMA RunHolds ==
    ASSUME NEW r \in FilRec, NEW ch, There(r, ch), Distinct(ch), OnSector(r),
           NEW j \in Nat \ {0}, K(r.fptr) + j <= CSize,
           NEW m, Covers(ch, m), NEW i \in 0 .. m - 1
    PROVE  /\ SectorAt(ch, i) \in Row(r.clust, K(r.fptr), j)
                <=> i \in r.fptr .. r.fptr + SS * j - 1
           /\ SectorAt(ch, i) \in Row(r.clust, K(r.fptr), j) => Q(i) = Q(r.fptr)
<1> DEFINE p == r.fptr
<1>1. p \in Nat /\ B(p) = 0 /\ Q(p) + 1 \in 1 .. Len(ch) /\ r.clust = ch[Q(p) + 1]
  BY DEF FilRec, There, OnSector, B
<1>2. /\ i \in Nat /\ Q(i) + 1 \in 1 .. Len(ch) /\ Q(i) \in Nat /\ Q(p) \in Nat
      /\ SectorAt(ch, i) = <<ch[Q(i) + 1], K(i)>>
  BY <1>1, HasCluster, Place
<1> HIDE DEF p
<1>3. ASSUME SectorAt(ch, i) \in Row(r.clust, K(p), j)
      PROVE  i \in p .. p + SS * j - 1 /\ Q(i) = Q(p)
  <2>1. PICK k \in 0 .. j - 1 : <<ch[Q(i) + 1], K(i)>> = <<r.clust, K(p) + k>>
    BY <1>2, <1>3 DEF Row
  <2>2. ch[Q(i) + 1] = ch[Q(p) + 1] /\ K(i) = K(p) + k
    BY <1>1, <2>1
  <2>3. Q(i) = Q(p)
    <3>1. \A a, c \in 1 .. Len(ch) : ch[a] = ch[c] => a = c
      BY DEF Distinct
    <3>2. Q(i) + 1 = Q(p) + 1
      BY <1>1, <1>2, <2>2, <3>1
    <3> QED BY <1>2, <3>2
  <2>4. K(p) + j <= CSize
    BY DEF p
  <2>5. i \in p .. p + SS * j - 1
    BY <1>1, <1>2, <2>2, <2>3, <2>4, Straights
  <2> QED BY <2>3, <2>5
<1>4. ASSUME i \in p .. p + SS * j - 1
      PROVE  SectorAt(ch, i) \in Row(r.clust, K(p), j)
  <2>1. K(p) + j <= CSize
    BY DEF p
  <2>2. Q(i) = Q(p) /\ \E k \in 0 .. j - 1 : K(i) = K(p) + k
    BY <1>1, <1>4, <2>1, Across
  <2> QED BY <1>1, <1>2, <2>2 DEF Row
<1> QED BY <1>3, <1>4 DEF p

LEMMA LaidOut ==
    ASSUME NEW f \in File, NEW r \in FilRec, NEW ch, There(r, ch), Distinct(ch), OnSector(r),
           NEW j \in Nat \ {0}, K(r.fptr) + j <= CSize, r.fptr + SS * j <= MaxSize,
           NEW S, S = Row(r.clust, K(r.fptr), j), NEW d \in Disk,
           NEW e, e = Laid(f, r.fptr, S, d)
    PROVE  /\ e \in Disk /\ Clean(f, Members(ch), d, e)
           /\ \A m : Covers(ch, m) => \A i \in 0 .. m - 1 :
                 e[SectorAt(ch, i)][B(i)] = IF SectorAt(ch, i) \in S THEN <<f, i>>
                                            ELSE d[SectorAt(ch, i)][B(i)]
<1> DEFINE p == r.fptr
<1>1. p \in Nat /\ B(p) = 0 /\ MaxSize \in Nat /\ p + SS * j <= MaxSize
  BY GeometryAssumption DEF FilRec, OnSector, B
<1>2. \A s \in S :
         /\ s \in Sector /\ s[1] = r.clust /\ s[1] \in Members(ch)
         /\ s[2] \in 0 .. CSize - 1 /\ \E k \in 0 .. j - 1 : s[2] = K(p) + k
  BY RunIsInChain
<1>3. \A s \in Sector : e[s] = IF s \in S THEN [b \in 0 .. SS - 1 |-> <<f, ByteIn(p, s[2], b)>>]
                               ELSE d[s]
  BY DEF Laid
<1>4. ASSUME NEW s \in S, NEW b \in 0 .. SS - 1
      PROVE  <<f, ByteIn(p, s[2], b)>> \in Byte
  <2> DEFINE a == s[2]
             x == ByteIn(p, a, b)
  <2>1. a \in 0 .. CSize - 1 /\ \E k \in 0 .. j - 1 : a = K(p) + k
    BY <1>2
  <2>2. PICK k \in 0 .. j - 1 : a = K(p) + k
    BY <2>1
  <2> HIDE DEF a
  <2>3. x \in Nat /\ Q(x) = Q(p) /\ K(x) = a
    <3> HIDE DEF p
    <3> QED BY <1>1, <2>1, ByteInIs
  <2> HIDE DEF x
  <2>4. K(p) + j <= CSize
    OBVIOUS
  <2> HIDE DEF p
  <2>5. x \in p .. p + SS * j - 1
    BY <1>1, <2>2, <2>3, <2>4, Straights
  <2>6. SS * j \in Nat
    BY Sizes
  <2>7. x \in Offset
    BY <1>1, <2>5, <2>6 DEF Offset
  <2> QED BY <2>7 DEF Byte, x, a
<1>5. e \in Disk
  <2>1. ASSUME NEW s \in Sector PROVE e[s] \in Content
    <3>1. CASE s \in S
      BY <1>3, <1>4, <3>1 DEF Content
    <3>2. CASE s \notin S
      BY <1>3, <3>2 DEF Disk
    <3> QED BY <3>1, <3>2
  <2> QED BY <2>1 DEF Laid, Disk
<1>6. Clean(f, Members(ch), d, e)
  BY <1>2, <1>3 DEF Clean
<1>7. ASSUME NEW m, Covers(ch, m), NEW i \in 0 .. m - 1
      PROVE  e[SectorAt(ch, i)][B(i)] = IF SectorAt(ch, i) \in S THEN <<f, i>>
                                        ELSE d[SectorAt(ch, i)][B(i)]
  <2>1. /\ i \in Nat /\ SectorAt(ch, i) = <<ch[Q(i) + 1], K(i)>>
        /\ SectorAt(ch, i) \in Sector /\ B(i) \in 0 .. SS - 1
    BY <1>7, HasCluster
  <2>2. CASE SectorAt(ch, i) \in S
    <3>1. Q(i) = Q(p)
      BY <1>7, <2>2, RunHolds
    <3>2. ByteIn(p, K(i), B(i)) = i
      <4> HIDE DEF p
      <4> QED BY <1>1, <2>1, <3>1, ByteInOwn
    <3>3. SectorAt(ch, i)[2] = K(i)
      BY <2>1
    <3> DEFINE x == SectorAt(ch, i)
    <3>4. x \in Sector /\ x \in S /\ x[2] = K(i)
      BY <2>1, <2>2, <3>3
    <3>5. e[x] = [b \in 0 .. SS - 1 |-> <<f, ByteIn(p, x[2], b)>>]
      BY <1>3, <3>4
    <3>6. e[x] = [b \in 0 .. SS - 1 |-> <<f, ByteIn(p, K(i), b)>>]
      BY <3>4, <3>5
    <3> HIDE DEF x, p
    <3>7. e[x][B(i)] = <<f, ByteIn(p, K(i), B(i))>>
      BY <2>1, <3>6
    <3> QED BY <2>2, <3>2, <3>7 DEF x
  <2>3. CASE SectorAt(ch, i) \notin S
    BY <1>3, <2>1, <2>3
  <2> QED BY <2>2, <2>3
<1> QED BY <1>5, <1>6, <1>7

(* e has n bytes of f, which are j whole sectors S, at the position of r.  *)
Laying(f, r, ch, d, j, n, new, S, e) ==
    /\ f \in File /\ r \in FilRec /\ d \in Disk /\ r.buf \in Content
    /\ r.err = "none" /\ ~r.dirty /\ There(r, ch) /\ Distinct(ch) /\ Covers(ch, r.objsize)
    /\ OnSector(r) /\ r.fptr <= r.objsize /\ j \in Nat \ {0} /\ K(r.fptr) + j <= CSize
    /\ n = SS * j /\ r.fptr + n <= MaxSize /\ new = r.fptr .. r.fptr + n - 1
    /\ S = Row(r.clust, K(r.fptr), j) /\ e = Laid(f, r.fptr, S, ForgetOnDisk(d, f, new))

(* They are what the file has there now, and nothing else is lost.         *)
Lays(f, r, ch, d, n, new, S, e) ==
    /\ n \in Nat \ {0} /\ e \in Disk /\ Clean(f, Members(ch), d, e)
    /\ Covers(ch, EndOf(r, n)) /\ EndOf(r, n) \in 0 .. MaxSize
    /\ Q(r.fptr + n - 1) = Q(r.fptr) /\ B(r.fptr + n) = 0
    /\ \A u, x : /\ Sound(f, r, ch, d, u)
                 /\ x.sect = r.sect /\ x.objsize = EndOf(r, n) /\ x.dirty = FALSE
                 /\ x.buf = IF r.sect \in S THEN e[r.sect] ELSE Forget(r.buf, f, new)
                 => Sound(f, x, ch, e, u \ new)

(* Whole sectors written past a clean buffer, which has them afterwards    *)
(* when it held one of them.                                               *)
LEMMA StraightSound ==
    ASSUME NEW f, NEW r, NEW ch, NEW d, NEW j, NEW n, NEW new, NEW S, NEW e,
           Laying(f, r, ch, d, j, n, new, S, e)
    PROVE  Lays(f, r, ch, d, n, new, S, e)
<1> DEFINE p == r.fptr
           d1 == ForgetOnDisk(d, f, new)
<1>a. /\ f \in File /\ r \in FilRec /\ d \in Disk /\ r.buf \in Content
      /\ r.err = "none" /\ ~r.dirty /\ There(r, ch) /\ Distinct(ch) /\ Covers(ch, r.objsize)
      /\ OnSector(r) /\ r.fptr <= r.objsize /\ j \in Nat \ {0} /\ K(r.fptr) + j <= CSize
      /\ n = SS * j /\ r.fptr + n <= MaxSize /\ new = r.fptr .. r.fptr + n - 1
      /\ S = Row(r.clust, K(r.fptr), j) /\ e = Laid(f, r.fptr, S, ForgetOnDisk(d, f, new))
  BY DEF Laying
<1> USE <1>a
<1>0. /\ p \in Nat /\ p <= MaxSize /\ r.objsize \in Nat /\ r.objsize <= MaxSize /\ MaxSize \in Nat
      /\ B(p) = 0 /\ SS \in Nat \ {0}
  BY GeometryAssumption DEF FilRec, OnSector, B
<1>1. /\ n \in Nat \ {0} /\ B(p + n) = 0
      /\ \A i \in new : i \in Nat /\ Q(i) = Q(p)
  <2> HIDE DEF p
  <2>1. K(p) + j <= CSize /\ new = p .. p + n - 1
    BY DEF p
  <2>2. /\ SS * j \in Nat \ {0}
        /\ \A i \in p .. p + SS * j - 1 : i \in Nat /\ Q(i) = Q(p)
        /\ B(p + SS * j) = 0
    BY <1>0, <2>1, Across
  <2> QED BY <2>1, <2>2
<1>2. Q(p + n - 1) = Q(p)
  <2>1. p + n - 1 \in new
    BY <1>0, <1>1
  <2> QED BY <1>1, <2>1
<1>3. Covers(ch, p + n)
  BY <1>1, <1>2, Advance
<1>4. Covers(ch, EndOf(r, n)) /\ EndOf(r, n) \in 0 .. MaxSize
  BY <1>0, <1>1, <1>3 DEF EndOf
<1>5. /\ d1 \in Disk /\ Clean(f, Members(ch), d, d1)
      /\ \A s \in Sector, b \in 0 .. SS - 1 : \A i :
           d[s][b] = <<f, i>> /\ i \notin new => d1[s][b] = <<f, i>>
  <2>1. d1 \in Disk /\ Clean(f, Members(ch), d, d1) /\ Forgets(f, new, d, d1)
    BY ForgetsOnly
  <2> HIDE DEF d1
  <2> QED BY <2>1 DEF Forgets
<1> HIDE DEF d1
<1>6. /\ e \in Disk /\ Clean(f, Members(ch), d1, e)
      /\ \A m : Covers(ch, m) => \A i \in 0 .. m - 1 :
            e[SectorAt(ch, i)][B(i)] = IF SectorAt(ch, i) \in S THEN <<f, i>>
                                       ELSE d1[SectorAt(ch, i)][B(i)]
  <2>1. e = Laid(f, r.fptr, S, d1) /\ r.fptr + SS * j <= MaxSize
    BY DEF d1
  <2> QED BY <1>5, <2>1, LaidOut
<1>7. Clean(f, Members(ch), d, e)
  BY <1>5, <1>6, CleanTwice
<1>8. ASSUME NEW u, NEW x, Sound(f, r, ch, d, u),
             x.sect = r.sect, x.objsize = EndOf(r, n), x.dirty = FALSE,
             x.buf = IF r.sect \in S THEN e[r.sect] ELSE Forget(r.buf, f, new)
      PROVE  Sound(f, x, ch, e, u \ new)
  <2> SUFFICES ASSUME NEW i \in (0 .. x.objsize - 1) \ (u \ new)
               PROVE  /\ x.sect = SectorAt(ch, i) => x.buf[B(i)] = <<f, i>>
                      /\ e[SectorAt(ch, i)][B(i)] = <<f, i>>
    BY <1>8 DEF Sound
  <2>0. i \in 0 .. EndOf(r, n) - 1 /\ i \in Nat
    BY <1>0, <1>4, <1>8
  <2>1. SectorAt(ch, i) \in Sector /\ B(i) \in 0 .. SS - 1
    BY <1>4, <2>0, HasCluster
  <2>2. SectorAt(ch, i) \in S <=> i \in new
    BY <1>4, <2>0, RunHolds
  <2>3. e[SectorAt(ch, i)][B(i)] = IF SectorAt(ch, i) \in S THEN <<f, i>>
                                   ELSE d1[SectorAt(ch, i)][B(i)]
    BY <1>4, <1>6, <2>0
  <2>4. CASE i \in new
    BY <1>8, <2>2, <2>3, <2>4
  <2>5. CASE i \notin new
    <3>1. i \in (0 .. r.objsize - 1) \ u
      BY <1>0, <1>1, <1>8, <2>0, <2>5 DEF EndOf
    <3>2. /\ r.sect = SectorAt(ch, i) => r.buf[B(i)] = <<f, i>>
          /\ d[SectorAt(ch, i)][B(i)] = <<f, i>>
      BY <1>8, <3>1 DEF Sound
    <3>3. d1[SectorAt(ch, i)][B(i)] = <<f, i>>
      BY <1>5, <2>1, <2>5, <3>2
    <3>4. ASSUME x.sect = SectorAt(ch, i) PROVE x.buf[B(i)] = <<f, i>>
      <4>1. x.buf = Forget(r.buf, f, new)
        BY <1>8, <2>2, <2>5, <3>4
      <4> DEFINE y == r.buf
                 b == B(i)
      <4>2. Holds(y, b, f, i) /\ b \in 0 .. SS - 1
        BY <1>8, <2>1, <3>2, <3>4 DEF Holds
      <4> HIDE DEF y, b
      <4>3. Holds(Forget(y, f, new), b, f, i)
        BY <2>5, <4>2, Remembered
      <4> QED BY <4>1, <4>3 DEF y, b, Holds
    <3> QED BY <2>2, <2>3, <2>5, <3>3, <3>4
  <2> QED BY <2>4, <2>5
<1> QED BY <1>1, <1>2, <1>4, <1>6, <1>7, <1>8 DEF Lays

(* What is forgotten has no value.                                         *)
LEMMA ForgottenSound ==
    ASSUME NEW f \in File, NEW r \in FilRec, NEW d \in Disk, r.buf \in Content,
           NEW ch, Covers(ch, r.objsize), NEW new, NEW u, Sound(f, r, ch, d, u),
           NEW w, \A i \in 0 .. r.objsize - 1 : i \notin w => i \notin u /\ i \notin new,
           NEW x, x.sect = r.sect, x.dirty = r.dirty, x.objsize = r.objsize,
           x.err = "none" => r.err = "none", x.buf = Forget(r.buf, f, new)
    PROVE  Sound(f, x, ch, ForgetOnDisk(d, f, new), w)
<1> SUFFICES ASSUME NEW i \in (0 .. x.objsize - 1) \ w
             PROVE  /\ x.sect = SectorAt(ch, i) /\ (x.dirty \/ x.err = "none") =>
                           x.buf[B(i)] = <<f, i>>
                    /\ ~(x.sect = SectorAt(ch, i) /\ x.dirty) =>
                           ForgetOnDisk(d, f, new)[SectorAt(ch, i)][B(i)] = <<f, i>>
  BY DEF Sound
<1>1. i \in 0 .. r.objsize - 1 /\ i \notin u /\ i \notin new
  OBVIOUS
<1>2. SectorAt(ch, i) \in Sector /\ B(i) \in 0 .. SS - 1
  BY <1>1, HasCluster
<1>3. /\ r.sect = SectorAt(ch, i) /\ (r.dirty \/ r.err = "none") => r.buf[B(i)] = <<f, i>>
      /\ ~(r.sect = SectorAt(ch, i) /\ r.dirty) => d[SectorAt(ch, i)][B(i)] = <<f, i>>
  BY <1>1 DEF Sound
<1>4. ASSUME x.sect = SectorAt(ch, i), x.dirty \/ x.err = "none" PROVE x.buf[B(i)] = <<f, i>>
  <2> DEFINE y == r.buf
             b == B(i)
  <2>1. Holds(y, b, f, i) /\ b \in 0 .. SS - 1
    BY <1>2, <1>3, <1>4 DEF Holds
  <2> HIDE DEF y, b
  <2>2. Holds(Forget(y, f, new), b, f, i)
    BY <1>1, <2>1, Remembered
  <2> QED BY <2>2 DEF y, b, Holds
<1>5. ASSUME ~(x.sect = SectorAt(ch, i) /\ x.dirty)
      PROVE  ForgetOnDisk(d, f, new)[SectorAt(ch, i)][B(i)] = <<f, i>>
  <2>1. d[SectorAt(ch, i)][B(i)] = <<f, i>>
    BY <1>3, <1>5
  <2> QED BY <1>1, <1>2, <2>1, ForgottenDisk
<1> QED BY <1>4, <1>5

-----------------------------------------------------------------------------
(* Reading.                                                                *)
LEMMA BufferGives ==
    ASSUME NEW f, NEW r \in FilRec, NEW ch, NEW d, NEW u, Sound(f, r, ch, d, u),
           Covers(ch, r.objsize), r.err = "none", There(r, ch), r.sect = SectorOf(r),
           NEW n \in Nat \ {0}, r.fptr + n <= r.objsize, B(r.fptr) + n <= SS
    PROVE  \A i \in (r.fptr .. r.fptr + n - 1) \ u : r.buf[i % SS] = <<f, i>>
<1> DEFINE p == r.fptr
<1>1. p \in Nat /\ r.objsize \in Nat /\ SectorOf(r) = SectorAt(ch, p)
  BY ThereIsSector DEF FilRec
<1>2. \A i \in p .. p + n - 1 : i \in Nat /\ Q(i) = Q(p) /\ K(i) = K(p)
  <2> HIDE DEF p
  <2>1. B(p) + n <= SS
    BY DEF p
  <2> QED BY <1>1, <2>1, Within
<1> SUFFICES ASSUME NEW i \in (p .. p + n - 1) \ u PROVE r.buf[B(i)] = <<f, i>>
  BY DEF B
<1>3. i \in (0 .. r.objsize - 1) \ u
  BY <1>1
<1>4. SectorAt(ch, i) = SectorAt(ch, p)
  BY <1>2 DEF SectorAt, Q, K
<1> QED BY <1>1, <1>3, <1>4 DEF Sound

LEMMA DiskGives ==
    ASSUME NEW f, NEW r \in FilRec, NEW ch, NEW u, Sound(f, r, ch, disk, u),
           Covers(ch, r.objsize), r.err = "none", There(r, ch), OnSector(r),
           NEW j \in Nat \ {0}, K(r.fptr) + j <= CSize,
           NEW n, n = SS * j, r.fptr + n <= r.objsize
    PROVE  \A i \in (r.fptr .. r.fptr + n - 1) \ u : Delivered(r, i) = <<f, i>>
<1> DEFINE p == r.fptr
<1>1. p \in Nat /\ r.objsize \in Nat /\ B(p) = 0 /\ r.clust = ch[Q(p) + 1]
  BY DEF FilRec, OnSector, B, There
<1>2. n \in Nat /\ \A i \in p .. p + n - 1 : i \in Nat /\ Q(i) = Q(p)
  <2> HIDE DEF p
  <2>1. K(p) + j <= CSize
    BY DEF p
  <2>2. /\ SS * j \in Nat \ {0}
        /\ \A i \in p .. p + SS * j - 1 : i \in Nat /\ Q(i) = Q(p)
    BY <1>1, <2>1, Across
  <2> QED BY <2>2
<1> SUFFICES ASSUME NEW i \in (p .. p + n - 1) \ u PROVE Delivered(r, i) = <<f, i>>
  OBVIOUS
<1>3. i \in (0 .. r.objsize - 1) \ u
  BY <1>1, <1>2
<1>4. SectorAt(ch, i) = <<r.clust, (i % BCS) \div SS>> /\ B(i) = i % SS
  <2>1. Q(i) = Q(p)
    BY <1>2
  <2> QED BY <1>1, <2>1 DEF SectorAt, Q, B
<1>5. /\ r.sect = SectorAt(ch, i) => r.buf[B(i)] = <<f, i>>
      /\ ~(r.sect = SectorAt(ch, i) /\ r.dirty) => disk[SectorAt(ch, i)][B(i)] = <<f, i>>
  BY <1>3 DEF Sound
<1> QED BY <1>4, <1>5 DEF Delivered

(* Whole sectors fit into the cluster of the position.                     *)
LEMMA DirectFits ==
    ASSUME NEW r \in FilRec, NEW ch, There(r, ch), NEW m \in Nat, m >= SS
    PROVE  /\ Direct(r, m) \in Nat \ {0} /\ K(r.fptr) + Direct(r, m) <= CSize
           /\ SS * Direct(r, m) <= m /\ Direct(r, m) * SS = SS * Direct(r, m)
           /\ SS * Direct(r, m) \in Nat
           /\ DirectSectors(r, m) = Row(r.clust, K(r.fptr), Direct(r, m))
<1> DEFINE k == K(r.fptr)
           q == m \div SS
           j == Direct(r, m)
<1>1. r.fptr \in Nat /\ SectorOf(r) = <<r.clust, k>>
  BY ThereIsSector
<1>2. k \in 0 .. CSize - 1 /\ CSize \in Nat \ {0} /\ SS \in Nat \ {0}
  BY <1>1, Place, Sizes
<1>3. q \in Nat /\ m % SS \in 0 .. SS - 1 /\ m = SS * q + (m % SS)
  BY <1>2, DivMod
<1>4. j = IF q < CSize - k THEN q ELSE CSize - k
  BY <1>1 DEF Direct, Lesser
<1>5. DirectSectors(r, m) = Row(r.clust, k, j)
  BY <1>1 DEF DirectSectors, Row
<1> HIDE DEF k, q, j
<1>6. q # 0
  <2>1. q = 0 => SS * q = 0
    BY <1>2
  <2> QED BY <1>2, <1>3, <2>1
<1>7. j \in Nat \ {0} /\ k + j <= CSize /\ j <= q
  BY <1>2, <1>3, <1>4, <1>6
<1>8. SS * j <= SS * q /\ SS * q \in Nat /\ SS * j \in Nat /\ j * SS = SS * j
  BY <1>2, <1>3, <1>7
<1>9. SS * j <= m
  BY <1>2, <1>3, <1>8
<1> QED BY <1>5, <1>7, <1>8, <1>9 DEF k, j

-----------------------------------------------------------------------------
(* The inductive invariant.  The object r, the entry e and the chain ch of *)
(* a file, between calls and in each of them.                              *)
EntryRec == [sclust : Cluster \cup {None}, size : 0 .. MaxSize]
Empty == [sclust |-> None, size |-> 0]
Calls == [op : {"read", "forward", "write", "seek"}, f : File, left : 0 .. MaxSize]

HeadOf(r, e) == IF r.open THEN r.sclust ELSE e.sclust
Bytes(r, e) == IF r.open THEN r.objsize ELSE e.size
Agrees(r, e) == ~r.mod => ~r.dirty /\ e = Recording(r)

(* An entry that FA_MODIFIED does not announce is that of the file as far  *)
(* as it goes.                                                             *)
Lags(r, e) == ~r.mod => e = Empty \/ (e.sclust = r.sclust /\ e.size <= r.objsize)

Held(r, e, ch) ==
    /\ r \in FilRec /\ e \in EntryRec /\ Covers(ch, Bytes(r, e))
    /\ r.err # "int"
    /\ r.open => r.buf \in Content /\ Lags(r, e)
    /\ ~r.open => r = Closed
    /\ r.dirty => r.sect \in Sector
    /\ r.dirty /\ r.err = "none" => r.sect[1] \in Members(ch)

Idle(r, e, ch) ==
    r.open /\ r.err = "none" => Placed(r, ch) /\ Agrees(r, e) /\ r.fptr <= r.objsize

Reading(r, e, ch, n) ==
    n > 0 /\ r.fptr + n <= r.objsize /\ Placed(r, ch) /\ Agrees(r, e)

Writing(r, ch, n) ==
    n > 0 /\ r.wr /\ r.fptr + n <= MaxSize /\ r.fptr <= r.objsize /\ Placed(r, ch)

Seeking(r, e, ch, n) ==
    /\ OnCluster(r)
    /\ IF n > 0 THEN There(r, ch) ELSE Placed(r, ch)
    /\ r.fptr + n <= IF r.wr THEN MaxSize ELSE r.objsize
    /\ ~r.mod => /\ ~r.dirty
                 /\ \/ e = Recording(r)
                    \/ e = Empty /\ r.objsize = 0 /\ r.fptr + n > 0

InCall(r, e, ch, c) ==
    /\ r.open /\ r.err = "none"
    /\ c.op \in {"read", "forward"} => Reading(r, e, ch, c.left)
    /\ c.op = "write" => Writing(r, ch, c.left)
    /\ c.op = "seek" => Seeking(r, e, ch, c.left)

Busy(c, f) == c # NoCall /\ c.f = f

Mine(f, r, e, ch, c) ==
    Held(r, e, ch) /\ IF Busy(c, f) THEN InCall(r, e, ch, c) ELSE Idle(r, e, ch)

(* The bytes of a file.                                                    *)
Data(f, r, e, ch, d, u) ==
    IF r.open THEN Sound(f, r, ch, d, u) ELSE Safe(f, e.size, ch, d, u)

IInv ==
    /\ disk \in Disk /\ Volume(Heads, fat)
    /\ cached \in BOOLEAN /\ misread \in BOOLEAN /\ stray \in BOOLEAN
    /\ fil \in [File -> FilRec] /\ entry \in [File -> EntryRec]
    /\ undef \in [File -> SUBSET Offset]
    /\ call = NoCall \/ call \in Calls
    /\ \A f \in File : Mine(f, fil[f], entry[f], OwnChain(f), call)
    /\ ~stray => \A f \in File : Data(f, fil[f], entry[f], OwnChain(f), disk, undef[f])
    /\ ReadsRight

(* What a step does to the file f, whose chain becomes ch.                 *)
Renewed(f, r, e, u) ==
    /\ fil' = [fil EXCEPT ![f] = r]
    /\ entry' = [entry EXCEPT ![f] = e]
    /\ undef' = [undef EXCEPT ![f] = u]

Leads(f, h, t, k, u, ch) ==
    Volume(k, u) /\ Others(f, h, t, k, u) /\ Chain(k[f], u) = ch

Turn(f) ==
    /\ call = NoCall \/ call.f = f
    /\ call' = NoCall \/ (call' \in Calls /\ call'.f = f)
    /\ disk' \in Disk /\ cached' \in BOOLEAN /\ misread' \in BOOLEAN /\ stray' \in BOOLEAN
    /\ stray => stray'

LEMMA HeadsAre ==
    /\ Heads = [f \in File |-> HeadOf(fil[f], entry[f])]
    /\ \A f \in File : OwnChain(f) = Chain(HeadOf(fil[f], entry[f]), fat) /\ Heads[f] = First(f)
BY DEF Heads, First, HeadOf, OwnChain

(* A step on f leaves the other files as they are.                         *)
LEMMA Frame ==
    ASSUME IInv, NEW f \in File, NEW r, NEW e, NEW u, Renewed(f, r, e, u), Turn(f),
           NEW ch, NEW k, Put(Heads, f, HeadOf(r, e), k), Leads(f, Heads, fat, k, fat', ch),
           r \in FilRec, e \in EntryRec, u \in SUBSET Offset, Mine(f, r, e, ch, call'),
           ~stray' => Data(f, r, e, ch, disk', u),
           NEW M, M \subseteq Members(OwnChain(f)) \cup Members(ch),
           ~stray' => Clean(f, M, disk, disk'),
           ReadsRight'
    PROVE  IInv'
<1>1. /\ fil \in [File -> FilRec] /\ entry \in [File -> EntryRec]
      /\ undef \in [File -> SUBSET Offset]
      /\ fil' = [fil EXCEPT ![f] = r] /\ entry' = [entry EXCEPT ![f] = e]
      /\ undef' = [undef EXCEPT ![f] = u]
  BY DEF IInv, Renewed
<1>2. /\ fil' \in [File -> FilRec] /\ entry' \in [File -> EntryRec]
      /\ undef' \in [File -> SUBSET Offset]
      /\ fil'[f] = r /\ entry'[f] = e /\ undef'[f] = u
      /\ \A g \in File : g # f => fil'[g] = fil[g] /\ entry'[g] = entry[g] /\ undef'[g] = undef[g]
  BY <1>1
<1>3. /\ Heads = [g \in File |-> HeadOf(fil[g], entry[g])]
      /\ \A g \in File : OwnChain(g) = Chain(HeadOf(fil[g], entry[g]), fat)
  BY HeadsAre
<1>4. /\ Heads' = [g \in File |-> HeadOf(fil'[g], entry'[g])]
      /\ \A g \in File : OwnChain(g)' = Chain(HeadOf(fil'[g], entry'[g]), fat')
  BY DEF Heads, First, HeadOf, OwnChain
<1>5. Heads' = k
  <2>1. k = [g \in File |-> IF g = f THEN HeadOf(r, e) ELSE Heads[g]]
    BY <1>3 DEF Put
  <2>2. \A g \in File : HeadOf(fil'[g], entry'[g]) = IF g = f THEN HeadOf(r, e) ELSE Heads[g]
    BY <1>2, <1>3
  <2> QED BY <1>4, <2>1, <2>2
<1>6. k[f] = HeadOf(r, e) /\ \A g \in File : g # f => k[g] = Heads[g]
  BY <1>3 DEF Put
<1>7. OwnChain(f)' = ch
  <2>1. OwnChain(f)' = Chain(HeadOf(r, e), fat')
    BY <1>2, <1>4
  <2> QED BY <1>6, <2>1 DEF Leads
<1>8. \A g \in File : g # f => OwnChain(g)' = OwnChain(g)
  <2> TAKE g \in File
  <2> HAVE g # f
  <2>1. k[g] = Heads[g] /\ Chain(k[g], fat') = Chain(Heads[g], fat)
    BY DEF Leads, Others
  <2>2. Heads[g] = HeadOf(fil[g], entry[g]) /\ k[g] = HeadOf(fil'[g], entry'[g])
    BY <1>3, <1>4, <1>5
  <2> QED BY <1>3, <1>4, <2>1, <2>2
<1>9. \A g \in File : g # f => Members(OwnChain(g)) \cap M = {}
  <2> TAKE g \in File
  <2> HAVE g # f
  <2>1. Volume(Heads, fat) /\ Volume(k, fat') /\ Others(f, Heads, fat, k, fat')
        /\ Chain(k[f], fat') = ch
    BY DEF IInv, Leads
  <2>2. OwnChain(f) = Chain(Heads[f], fat) /\ OwnChain(g) = Chain(Heads[g], fat)
    BY <1>3
  <2>3. Members(Chain(Heads[f], fat)) \cap Members(Chain(Heads[g], fat)) = {}
    BY <2>1, VolumeChains
  <2>4. Members(Chain(k[f], fat')) \cap Members(Chain(k[g], fat')) = {}
    BY <2>1, VolumeChains
  <2>5. Chain(k[g], fat') = Chain(Heads[g], fat)
    BY <2>1 DEF Others
  <2> QED BY <2>1, <2>2, <2>3, <2>4, <2>5
<1>10. ASSUME NEW g \in File PROVE Mine(g, fil'[g], entry'[g], OwnChain(g)', call')
  <2>1. CASE g = f
    BY <1>2, <1>7, <2>1
  <2>2. CASE g # f
    <3>1. Mine(g, fil[g], entry[g], OwnChain(g), call)
      BY DEF IInv
    <3>2. ~Busy(call, g) /\ ~Busy(call', g)
      BY <2>2 DEF Turn, Busy
    <3>3. fil'[g] = fil[g] /\ entry'[g] = entry[g] /\ OwnChain(g)' = OwnChain(g)
      BY <1>2, <1>8, <2>2
    <3> QED BY <3>1, <3>2, <3>3 DEF Mine
  <2> QED BY <2>1, <2>2
<1>11. ASSUME ~stray', NEW g \in File
       PROVE  Data(g, fil'[g], entry'[g], OwnChain(g)', disk', undef'[g])
  <2>1. CASE g = f
    BY <1>2, <1>7, <1>11, <2>1
  <2>2. CASE g # f
    <3>1. Data(g, fil[g], entry[g], OwnChain(g), disk, undef[g])
      BY <1>11 DEF IInv, Turn
    <3>2. /\ fil'[g] = fil[g] /\ entry'[g] = entry[g] /\ undef'[g] = undef[g]
          /\ OwnChain(g)' = OwnChain(g)
      BY <1>2, <1>8, <2>2
    <3>3. Clean(f, M, disk, disk') /\ Members(OwnChain(g)) \cap M = {}
      BY <1>9, <1>11, <2>2
    <3>4. Covers(OwnChain(g), Bytes(fil[g], entry[g]))
      BY DEF IInv, Mine, Held
    <3> DEFINE x == fil[g]
               n == entry[g].size
               w == undef[g]
               s == OwnChain(g)
    <3>5. Data(g, x, entry[g], s, disk, w)
      BY <3>1
    <3>6. Members(s) \cap M = {}
      BY <3>3
    <3>7. Covers(s, IF x.open THEN x.objsize ELSE n)
      BY <3>4 DEF Bytes
    <3>8. Data(g, x, entry[g], s, disk', w) <=>
            IF x.open THEN Sound(g, x, s, disk', w) ELSE Safe(g, n, s, disk', w)
      BY DEF Data
    <3>9. IF x.open THEN Sound(g, x, s, disk, w) ELSE Safe(g, n, s, disk, w)
      BY <3>5 DEF Data
    <3> HIDE DEF x, n, w, s
    <3>10. CASE x.open
      <4>1. Sound(g, x, s, disk', w)
        BY <2>2, <3>3, <3>6, <3>7, <3>9, <3>10, OtherSound
      <4> QED BY <3>2, <3>8, <3>10, <4>1 DEF x, w, s
    <3>11. CASE ~x.open
      <4>1. Safe(g, n, s, disk', w)
        BY <2>2, <3>3, <3>6, <3>7, <3>9, <3>11, OtherSafe
      <4> QED BY <3>2, <3>8, <3>11, <4>1 DEF x, w, s
    <3> QED BY <3>10, <3>11
  <2> QED BY <2>1, <2>2
<1>12. Volume(Heads', fat')
  BY <1>5 DEF Leads
<1> QED BY <1>2, <1>10, <1>11, <1>12 DEF IInv, Turn

(* What the invariant says of one file.                                    *)
LEMMA Given ==
    ASSUME IInv, NEW f \in File
    PROVE  /\ fil[f] \in FilRec /\ entry[f] \in EntryRec /\ undef[f] \in SUBSET Offset
           /\ disk \in Disk /\ Volume(Heads, fat)
           /\ Mine(f, fil[f], entry[f], OwnChain(f), call)
           /\ Held(fil[f], entry[f], OwnChain(f))
           /\ Covers(OwnChain(f), Bytes(fil[f], entry[f]))
           /\ Good(OwnChain(f), First(f), fat)
           /\ ~stray => Data(f, fil[f], entry[f], OwnChain(f), disk, undef[f])
           /\ Heads[f] = First(f) /\ OwnChain(f) = Chain(First(f), fat)
           /\ First(f) = HeadOf(fil[f], entry[f])
<1>1. Volume(Heads, fat) /\ Heads[f] = First(f)
  BY DEF IInv, Heads
<1>2. Good(Chain(Heads[f], fat), Heads[f], fat)
  BY <1>1, VolumeChains
<1>3. Mine(f, fil[f], entry[f], OwnChain(f), call)
  BY DEF IInv
<1> QED BY <1>1, <1>2, <1>3 DEF IInv, Mine, Held, OwnChain, First, HeadOf

(* A step that leaves the FAT alone.                                       *)
LEMMA FrameQuiet ==
    ASSUME IInv, NEW f \in File, NEW r, NEW e, NEW u, Renewed(f, r, e, u), Turn(f),
           fat' = fat, HeadOf(r, e) = First(f),
           r \in FilRec, e \in EntryRec, u \in SUBSET Offset,
           Mine(f, r, e, OwnChain(f), call'),
           ~stray' => Data(f, r, e, OwnChain(f), disk', u),
           ~stray' => Clean(f, Members(OwnChain(f)), disk, disk'),
           ReadsRight'
    PROVE  IInv'
<1> DEFINE ch == OwnChain(f)
           M == Members(ch)
           k == Heads
<1>1. Put(Heads, f, HeadOf(r, e), k)
  BY DEF Put, Heads
<1>2. Leads(f, Heads, fat, k, fat', ch)
  BY HeadsAre DEF Leads, Others, IInv, OwnChain
<1>3. /\ Mine(f, r, e, ch, call') /\ (~stray' => Data(f, r, e, ch, disk', u))
      /\ (~stray' => Clean(f, M, disk, disk')) /\ M \subseteq Members(OwnChain(f)) \cup Members(ch)
  OBVIOUS
<1> HIDE DEF ch, M, k
<1> QED BY <1>1, <1>2, <1>3, Frame

(* A step that leaves the data area alone as well.                         *)
LEMMA FrameStill ==
    ASSUME IInv, NEW f \in File, NEW r, Renewed(f, r, entry[f], undef[f]),
           call = NoCall \/ call.f = f, call' = NoCall \/ (call' \in Calls /\ call'.f = f),
           UNCHANGED <<disk, fat, stray, misread>>, cached' \in BOOLEAN,
           HeadOf(r, entry[f]) = First(f), r \in FilRec,
           Mine(f, r, entry[f], OwnChain(f), call'),
           ~stray => Data(f, r, entry[f], OwnChain(f), disk, undef[f])
    PROVE  IInv'
<1>1. Turn(f)
  BY DEF Turn, IInv
<1>2. ReadsRight'
  BY DEF IInv, ReadsRight
<1>3. Clean(f, Members(OwnChain(f)), disk, disk')
  BY CleanSame
<1>4. /\ ~stray' => Data(f, r, entry[f], OwnChain(f), disk', undef[f])
      /\ disk' = disk /\ fat' = fat
  OBVIOUS
<1> DEFINE e == entry[f]
           u == undef[f]
<1>5. e \in EntryRec /\ u \in SUBSET Offset
  BY Given
<1>6. /\ Renewed(f, r, e, u) /\ HeadOf(r, e) = First(f)
      /\ Mine(f, r, e, OwnChain(f), call')
      /\ ~stray' => Data(f, r, e, OwnChain(f), disk', u)
  BY <1>4
<1> HIDE DEF e, u
<1> QED BY <1>1, <1>2, <1>3, <1>4, <1>5, <1>6, FrameQuiet

LEMMA AllOld == All(Old) \in Content /\ Closed \in FilRec /\ Closed.open = FALSE
BY GeometryAssumption DEF All, Content, Byte, Closed, FilRec

(* No file has bytes, and the data area holds none.                        *)
LEMMA InitInv == Init => IInv
<1> SUFFICES ASSUME Init PROVE IInv
  OBVIOUS
<1>0. Closed \in FilRec /\ All(Old) \in Content /\ MaxSize \in Nat
  BY AllOld, GeometryAssumption
<1>1. /\ disk \in Disk /\ fil \in [File -> FilRec] /\ undef \in [File -> SUBSET Offset]
      /\ entry \in [File -> EntryRec]
  BY <1>0 DEF Init, Disk, EntryRec
<1>2. \A f \in File : fil[f] = Closed /\ entry[f] = Empty
  BY DEF Init, Empty
<1>3. \A f \in File : First(f) = None
  BY <1>2, AllOld DEF First, Empty
<1>4. Volume(Heads, fat)
  BY <1>3, Marks DEF Volume, Heads, OneLink, NoLinkTo, Init, Value
<1>5. \A f \in File : OwnChain(f) = <<>>
  BY <1>3, NoChain DEF OwnChain
<1>6. Covers(<<>>, 0)
  BY Sizes DEF Covers
<1>7. ASSUME NEW f \in File PROVE Mine(f, fil[f], entry[f], OwnChain(f), call)
  <2>1. Held(Closed, Empty, <<>>)
    BY <1>0, <1>1, <1>2, <1>6 DEF Held, Bytes, Closed, Empty
  <2>2. Idle(Closed, Empty, <<>>) /\ ~Busy(call, f)
    BY DEF Idle, Closed, Busy, Init
  <2> QED BY <1>2, <1>5, <2>1, <2>2 DEF Mine
<1>8. \A f \in File : Data(f, fil[f], entry[f], OwnChain(f), disk, undef[f])
  BY <1>2 DEF Data, Safe, Closed, Empty
<1> QED BY <1>1, <1>4, <1>7, <1>8 DEF IInv, Init, ReadsRight

(* An object that is opened agrees with what its entry has on the disk.    *)
LEMMA OpenedSound ==
    ASSUME NEW f, NEW n, NEW ch, NEW d, NEW u, Safe(f, n, ch, d, u), Covers(ch, n),
           NEW r, r.objsize = n, ~r.dirty, r.sect \in Sector => r.buf = d[r.sect]
    PROVE  Sound(f, r, ch, d, u)
<1> SUFFICES ASSUME NEW i \in (0 .. n - 1) \ u
             PROVE  /\ r.sect = SectorAt(ch, i) => r.buf[B(i)] = <<f, i>>
                    /\ d[SectorAt(ch, i)][B(i)] = <<f, i>>
  BY DEF Sound
<1>1. SectorAt(ch, i) \in Sector
  BY HasCluster
<1> QED BY <1>1 DEF Safe

LEMMA AtNought == 0 % SS = 0 /\ 0 % BCS = 0
BY Sizes

LEMMA OpenKeeps ==
    ASSUME IInv, NEW f \in File, NEW w \in BOOLEAN, f_open(f, w)
    PROVE  IInv'
<1> DEFINE r == Opened(f, w)
           e == entry[f]
           ch == OwnChain(f)
<1>1. /\ call = NoCall /\ ~fil[f].open /\ fil' = [fil EXCEPT ![f] = r]
      /\ UNCHANGED <<disk, fat, entry, cached, call, undef, misread, stray>>
  BY DEF f_open
<1>2. /\ e \in EntryRec /\ Covers(ch, e.size) /\ (~stray => Safe(f, e.size, ch, disk, undef[f]))
      /\ First(f) = e.sclust
  BY <1>1, Given DEF Bytes, Data, First
<1>3. /\ r.open /\ r.fptr = 0 /\ r.objsize = e.size /\ r.sclust = e.sclust /\ r.err = "none"
      /\ ~r.dirty /\ ~r.mod /\ r.sect = None /\ r.buf = All(Old)
  BY DEF Opened, Closed
<1>4. r \in FilRec
  BY <1>2, AllOld, GeometryAssumption DEF Opened, Closed, FilRec, EntryRec
<1>5. Renewed(f, r, entry[f], undef[f])
  BY <1>1 DEF IInv, Renewed
<1> HIDE DEF r
<1>6. Held(r, e, ch)
  BY <1>2, <1>3, <1>4, AllOld DEF Held, Bytes, Lags, EntryRec
<1>7. Idle(r, e, ch)
  <2>1. Placed(r, ch)
    BY <1>2, <1>3, AtNought DEF Placed, OnSector, Covers
  <2>2. e = Recording(r)
    BY <1>2, <1>3 DEF Recording, EntryRec
  <2>3. e.size \in Nat
    BY <1>2, GeometryAssumption DEF EntryRec
  <2> QED BY <1>3, <2>1, <2>2, <2>3 DEF Idle, Agrees
<1>8. Mine(f, r, e, ch, call')
  BY <1>1, <1>6, <1>7 DEF Mine, Busy
<1>9. ~stray => Data(f, r, e, ch, disk, undef[f])
  <2> SUFFICES ASSUME ~stray PROVE Data(f, r, e, ch, disk, undef[f])
    OBVIOUS
  <2> DEFINE n == e.size
             u == undef[f]
  <2>1. Safe(f, n, ch, disk, u) /\ Covers(ch, n) /\ r.objsize = n /\ r.sect \notin Sector
    BY <1>2, <1>3, GeometryAssumption DEF Sector
  <2> HIDE DEF n, u
  <2>2. Sound(f, r, ch, disk, u)
    BY <1>3, <2>1, OpenedSound
  <2> QED BY <1>3, <2>2 DEF Data, u
<1>10. HeadOf(r, entry[f]) = First(f) /\ cached' \in BOOLEAN
  BY <1>1, <1>2, <1>3 DEF HeadOf, IInv
<1> HIDE DEF e, ch
<1>11. /\ Mine(f, r, entry[f], OwnChain(f), call')
       /\ ~stray => Data(f, r, entry[f], OwnChain(f), disk, undef[f])
  BY <1>8, <1>9 DEF e, ch
<1> QED BY <1>1, <1>4, <1>5, <1>10, <1>11, FrameStill

LEMMA AppendKeeps ==
    ASSUME IInv, NEW f \in File, f_open_append(f)
    PROVE  IInv'
<1> DEFINE o == Opened(f, TRUE)
           e == entry[f]
           ch == OwnChain(f)
           end == [o EXCEPT !.fptr = o.objsize, !.clust = ch[Q(o.objsize - 1) + 1]]
           r == IF OnSector(end) THEN end
                ELSE [end EXCEPT !.sect = SectorOf(end), !.buf = disk[SectorOf(end)]]
<1>2. /\ e \in EntryRec
      /\ ~fil[f].open => Covers(ch, e.size) /\ First(f) = e.sclust
      /\ ~fil[f].open /\ ~stray => Safe(f, e.size, ch, disk, undef[f])
  BY Given DEF Bytes, Data, First
<1>3. /\ o.open /\ o.fptr = 0 /\ o.objsize = e.size /\ o.sclust = e.sclust /\ o.err = "none"
      /\ ~o.dirty /\ ~o.mod /\ o.sect = None /\ o.buf = All(Old)
  BY DEF Opened, Closed
<1>4. o \in FilRec
  BY <1>2, AllOld, GeometryAssumption DEF Opened, Closed, FilRec, EntryRec
<1>1. /\ call = NoCall /\ ~fil[f].open /\ o.objsize > 0 /\ fil' = [fil EXCEPT ![f] = r]
      /\ UNCHANGED <<disk, fat, entry, cached, call, undef, misread, stray>>
  <2>1. ~fil[f].open
    BY DEF f_open_append
  <2>2. Chain(o.sclust, fat) = ch
    BY <1>2, <1>3, <2>1, Given
  <2> QED BY <2>2 DEF f_open_append, Q
<1>5. Renewed(f, r, entry[f], undef[f])
  BY <1>1 DEF IInv, Renewed
<1> DEFINE n == e.size
<1>6. n \in Nat /\ n <= MaxSize /\ n > 0 /\ Covers(ch, n) /\ n - 1 \in 0 .. n - 1
  <2> HIDE DEF o
  <2>1. n \in Nat /\ n <= MaxSize
    BY <1>2, GeometryAssumption DEF EntryRec
  <2>2. n > 0
    BY <1>1, <1>3
  <2>3. Covers(ch, n)
    BY <1>1, <1>2
  <2> HIDE DEF n
  <2> QED BY <2>1, <2>2, <2>3
<1> HIDE DEF o
<1>7. /\ end.fptr = n /\ end.clust = ch[Q(n - 1) + 1] /\ end.objsize = n
      /\ end.open /\ end.sclust = e.sclust /\ end.err = "none" /\ ~end.dirty /\ ~end.mod
      /\ end.sect = None /\ end.buf = All(Old)
  BY <1>3, <1>4 DEF FilRec
<1>8. Q(n - 1) + 1 \in 1 .. Len(ch) /\ ch \in Seq(Cluster) /\ Len(ch) \in Nat
  <2> HIDE DEF n, ch
  <2> QED BY <1>6, HasCluster DEF Covers
<1>9. end \in FilRec
  <2> DEFINE c == ch[Q(o.objsize - 1) + 1]
  <2>1. c \in Cluster
    BY <1>3, <1>8
  <2>2. end = [o EXCEPT !.fptr = o.objsize, !.clust = c]
    OBVIOUS
  <2> HIDE DEF c, end
  <2> QED BY <1>4, <2>1, <2>2 DEF FilRec
<1>10. ~OnSector(end) => SectorOf(end) \in Sector /\ disk[SectorOf(end)] \in Content
  <2> HIDE DEF end, n
  <2> SUFFICES ASSUME ~OnSector(end) PROVE SectorOf(end) \in Sector
    BY Given DEF Disk
  <2>1. n % BCS # 0
    BY <1>7, <1>9, OnBoth DEF OnCluster
  <2>2. Q(n) = Q(n - 1)
    BY <1>6, <2>1, Step
  <2>3. There(end, ch)
    BY <1>7, <1>8, <2>2 DEF There
  <2> QED BY <1>9, <2>3, ThereIsSector
<1>11. r \in FilRec
  BY <1>9, <1>10 DEF FilRec
<1>12. /\ r.fptr = n /\ r.clust = ch[Q(n - 1) + 1] /\ r.objsize = n
       /\ r.open /\ r.sclust = e.sclust /\ r.err = "none" /\ ~r.dirty /\ ~r.mod
       /\ r.sect \in Sector => r.buf = disk[r.sect]
       /\ ~OnSector(r) => r.sect = SectorOf(r)
       /\ r.buf \in Content
  <2>1. CASE OnSector(end)
    BY <1>7, <2>1, AllOld, GeometryAssumption DEF Sector
  <2>2. CASE ~OnSector(end)
    <3>1. r = [end EXCEPT !.sect = SectorOf(end), !.buf = disk[SectorOf(end)]]
      BY <2>2
    <3> HIDE DEF r, end
    <3>2. /\ r.fptr = end.fptr /\ r.clust = end.clust /\ r.objsize = end.objsize
          /\ r.open = end.open /\ r.sclust = end.sclust /\ r.err = end.err
          /\ r.dirty = end.dirty /\ r.mod = end.mod
          /\ r.sect = SectorOf(end) /\ r.buf = disk[SectorOf(end)]
      BY <1>9, <3>1 DEF FilRec
    <3>3. SectorOf(r) = SectorOf(end)
      BY <3>2 DEF SectorOf
    <3> QED BY <1>7, <1>10, <2>2, <3>2, <3>3
  <2> QED BY <2>1, <2>2
<1> HIDE DEF r, end
<1>13. Held(r, e, ch)
  BY <1>2, <1>6, <1>11, <1>12 DEF Held, Bytes, Lags, EntryRec
<1>14. Idle(r, e, ch)
  <2>1. Placed(r, ch)
    BY <1>8, <1>12 DEF Placed
  <2>2. e = Recording(r)
    BY <1>2, <1>12 DEF Recording, EntryRec
  <2> QED BY <1>6, <1>12, <2>1, <2>2 DEF Idle, Agrees
<1>15. Mine(f, r, e, ch, call')
  BY <1>1, <1>13, <1>14 DEF Mine, Busy
<1>16. ~stray => Data(f, r, e, ch, disk, undef[f])
  <2> SUFFICES ASSUME ~stray PROVE Data(f, r, e, ch, disk, undef[f])
    OBVIOUS
  <2> DEFINE u == undef[f]
  <2>1. Safe(f, n, ch, disk, u)
    BY <1>1, <1>2
  <2> HIDE DEF n, u
  <2>2. Sound(f, r, ch, disk, u)
    BY <1>6, <1>12, <2>1, OpenedSound
  <2> QED BY <1>12, <2>2 DEF Data, u
<1>17. HeadOf(r, entry[f]) = First(f) /\ cached' \in BOOLEAN
  BY <1>1, <1>2, <1>12 DEF HeadOf, IInv
<1> HIDE DEF e, ch
<1>18. /\ Mine(f, r, entry[f], OwnChain(f), call')
       /\ ~stray => Data(f, r, entry[f], OwnChain(f), disk, undef[f])
  BY <1>15, <1>16 DEF e, ch
<1> QED BY <1>1, <1>5, <1>11, <1>17, <1>18, FrameStill

(* A call begins or ends and nothing else happens.                         *)
LEMMA CallTurns ==
    ASSUME IInv, NEW f \in File, UNCHANGED <<disk, fat, entry, cached, fil, undef, misread, stray>>,
           call = NoCall \/ call.f = f, call' = NoCall \/ (call' \in Calls /\ call'.f = f),
           IF Busy(call', f) THEN InCall(fil[f], entry[f], OwnChain(f), call')
                             ELSE Idle(fil[f], entry[f], OwnChain(f))
    PROVE  IInv'
<1> DEFINE r == fil[f]
<1>1. /\ r \in FilRec /\ Held(r, entry[f], OwnChain(f)) /\ HeadOf(r, entry[f]) = First(f)
      /\ ~stray => Data(f, r, entry[f], OwnChain(f), disk, undef[f])
  BY Given
<1>2. Mine(f, r, entry[f], OwnChain(f), call')
  BY <1>1 DEF Mine
<1>3. Renewed(f, r, entry[f], undef[f]) /\ cached' \in BOOLEAN
  BY DEF Renewed, IInv
<1> HIDE DEF r
<1> QED BY <1>1, <1>2, <1>3, FrameStill

(* Between calls an object without an error is idle.                       *)
LEMMA ReadyIs ==
    ASSUME IInv, NEW f \in File, Ready(f)
    PROVE  /\ call = NoCall /\ fil[f].open /\ fil[f].err = "none"
           /\ Placed(fil[f], OwnChain(f)) /\ Agrees(fil[f], entry[f])
           /\ fil[f].fptr <= fil[f].objsize /\ fil[f].objsize \in 0 .. MaxSize
           /\ fil[f].fptr \in 0 .. MaxSize
<1>1. call = NoCall /\ fil[f].open /\ fil[f].err = "none" /\ ~Busy(call, f)
  BY DEF Ready, Busy
<1>2. Idle(fil[f], entry[f], OwnChain(f)) /\ fil[f] \in FilRec
  BY <1>1, Given DEF Mine
<1> QED BY <1>1, <1>2 DEF Idle, FilRec

LEMMA ReadStarts ==
    ASSUME IInv, NEW f \in File, NEW n \in 1 .. MaxSize, f_read(f, n) \/ f_forward(f, n)
    PROVE  IInv'
<1> DEFINE r == fil[f]
<1>1. PICK op \in {"read", "forward"} : call' = [op |-> op, f |-> f, left |-> Readable(r, n)]
  BY DEF f_read, f_forward
<1>2. /\ Ready(f) /\ r.fptr < r.objsize
      /\ UNCHANGED <<disk, fat, entry, cached, fil, undef, misread, stray>>
  BY DEF f_read, f_forward
<1>3. /\ call = NoCall /\ r.open /\ r.err = "none" /\ Placed(r, OwnChain(f)) /\ Agrees(r, entry[f])
      /\ r.fptr <= r.objsize /\ r.objsize \in 0 .. MaxSize /\ r.fptr \in 0 .. MaxSize
  BY <1>2, ReadyIs
<1>4. Readable(r, n) \in 1 .. MaxSize /\ r.fptr + Readable(r, n) <= r.objsize
  BY <1>2, <1>3, GeometryAssumption DEF Readable, Lesser
<1>5. call' \in Calls /\ call'.f = f /\ call'.op \in {"read", "forward"} /\ call'.left = Readable(r, n)
  BY <1>1, <1>4 DEF Calls
<1>6. Reading(r, entry[f], OwnChain(f), call'.left)
  BY <1>3, <1>4, <1>5 DEF Reading
<1>7. InCall(r, entry[f], OwnChain(f), call')
  BY <1>3, <1>5, <1>6 DEF InCall
<1>8. Busy(call', f)
  BY <1>1 DEF Busy, NoCall
<1> QED BY <1>2, <1>3, <1>5, <1>7, <1>8, CallTurns

LEMMA WriteStarts ==
    ASSUME IInv, NEW f \in File, NEW n \in 1 .. MaxSize, f_write(f, n)
    PROVE  IInv'
<1> DEFINE r == fil[f]
<1>1. /\ Ready(f) /\ r.wr /\ r.fptr + n <= MaxSize
      /\ call' = [op |-> "write", f |-> f, left |-> n]
      /\ UNCHANGED <<disk, fat, entry, cached, fil, undef, misread, stray>>
  BY DEF f_write
<1>2. /\ call = NoCall /\ r.open /\ r.err = "none" /\ Placed(r, OwnChain(f))
      /\ r.fptr <= r.objsize
  BY <1>1, ReadyIs
<1>3. call' \in Calls /\ call'.f = f /\ call'.op = "write" /\ call'.left = n /\ n > 0
  BY <1>1, GeometryAssumption DEF Calls
<1>4. Writing(r, OwnChain(f), call'.left)
  BY <1>1, <1>2, <1>3 DEF Writing
<1>5. InCall(r, entry[f], OwnChain(f), call')
  BY <1>2, <1>3, <1>4 DEF InCall
<1>6. Busy(call', f)
  BY <1>1 DEF Busy, NoCall
<1> QED BY <1>1, <1>2, <1>3, <1>5, <1>6, CallTurns

(* In a call, the object has no error.                                     *)
LEMMA RunningIs ==
    ASSUME IInv, NEW f \in File, NEW op \in {"read", "forward", "write", "seek"}, Running(op, f)
    PROVE  /\ Busy(call, f) /\ call \in Calls /\ call.f = f /\ call.op = op
           /\ call.left \in 0 .. MaxSize
           /\ fil[f].open /\ fil[f].err = "none"
           /\ InCall(fil[f], entry[f], OwnChain(f), call)
<1>1. call.op = op /\ call.f = f /\ call # NoCall
  BY DEF Running, NoCall
<1>2. call \in Calls /\ Mine(f, fil[f], entry[f], OwnChain(f), call)
  BY <1>1, Given DEF IInv
<1>3. Busy(call, f) /\ InCall(fil[f], entry[f], OwnChain(f), call)
  BY <1>1, <1>2 DEF Busy, Mine
<1> QED BY <1>1, <1>2, <1>3 DEF Calls, InCall

LEMMA ForwardEndsKeeps ==
    ASSUME IInv, NEW f \in File, ForwardEnds(f)
    PROVE  IInv'
<1>1. /\ Running("forward", f) /\ call' = NoCall
      /\ UNCHANGED <<disk, fat, entry, cached, fil, undef, misread, stray>>
  BY DEF ForwardEnds
<1> DEFINE r == fil[f]
<1>2. call.f = f /\ call.left \in 0 .. MaxSize /\ Reading(r, entry[f], OwnChain(f), call.left)
  BY <1>1, RunningIs DEF InCall
<1>3. r \in FilRec
  BY Given
<1>4. Idle(r, entry[f], OwnChain(f)) /\ ~Busy(call', f)
  BY <1>1, <1>2, <1>3, GeometryAssumption DEF Idle, Reading, Busy, FilRec
<1> QED BY <1>1, <1>2, <1>4, CallTurns

LEMMA WindowKeeps ==
    ASSUME IInv, WindowMoves
    PROVE  IInv'
<1>1. UNCHANGED <<disk, fat, entry, fil, call, undef, misread, stray>> /\ cached' \in BOOLEAN
  BY DEF WindowMoves
<1>2. Heads' = Heads /\ \A f \in File : OwnChain(f)' = OwnChain(f)
  BY <1>1 DEF Heads, OwnChain, First
<1> QED BY <1>1, <1>2 DEF IInv, ReadsRight

LEMMA StutterKeeps ==
    ASSUME IInv, UNCHANGED vars
    PROVE  IInv'
<1>1. UNCHANGED <<disk, fat, entry, cached, fil, call, undef, misread, stray>>
  BY DEF vars
<1>2. Heads' = Heads /\ \A f \in File : OwnChain(f)' = OwnChain(f)
  BY <1>1 DEF Heads, OwnChain, First
<1> QED BY <1>1, <1>2 DEF IInv, ReadsRight

-----------------------------------------------------------------------------
(* What the FAT functions come to on the chain of f.                       *)
LEMMA NextOf ==
    ASSUME NEW s, NEW a, NEW t \in [Cluster -> Value], Good(s, a, t), NEW m \in 1 .. Len(s)
    PROVE  /\ s[m] \in Cluster /\ s[m] \in Members(s) /\ t[s[m]] # None
           /\ m < Len(s) => t[s[m]] = s[m + 1] /\ s[m + 1] \in Cluster
           /\ m = Len(s) => t[s[m]] = EOC
<1>1. s \in Seq(Cluster) /\ Len(s) \in Nat /\ m \in Nat
  BY DEF Good
<1>2. s[m] \in Cluster /\ s[m] \in Members(s)
  BY <1>1, MembersAre
<1>3. t[s[m]] # None /\ t[s[m]] \in Value
  BY <1>2 DEF Good
<1>4. ASSUME m < Len(s) PROVE t[s[m]] = s[m + 1] /\ s[m + 1] \in Cluster
  <2>1. m + 1 \in 1 .. Len(s) /\ m + 1 # 1 /\ (m + 1) - 1 = m
    BY <1>1, <1>4
  <2>2. \A i \in 1 .. Len(s) : s[i] = IF i = 1 THEN a ELSE t[s[i - 1]]
    BY DEF Good, Whole, Path
  <2>3. s[m + 1] = t[s[(m + 1) - 1]]
    BY <2>1, <2>2
  <2> QED BY <1>1, <2>1, <2>3
<1>5. ASSUME m = Len(s) PROVE t[s[m]] = EOC
  <2>1. After(s, a, t) \notin Cluster
    BY DEF Good, Whole
  <2>2. After(s, a, t) = t[s[m]]
    BY <1>1, <1>5 DEF After
  <2> QED BY <1>3, <2>1, <2>2 DEF Value
<1> QED BY <1>2, <1>3, <1>4, <1>5

LEMMA FirstIs ==
    ASSUME NEW s, NEW a, NEW t, Good(s, a, t), Len(s) > 0
    PROVE  1 \in 1 .. Len(s) /\ s[1] = a /\ a \in Cluster
<1>1. s \in Seq(Cluster) /\ Len(s) \in Nat /\ 1 \in 1 .. Len(s)
  BY DEF Good
<1>2. s[1] = a
  BY <1>1 DEF Good, Whole, Path
<1> QED BY <1>1, <1>2

(* The chain w begins with s.                                              *)
Longer(s, w) ==
    /\ s \in Seq(Cluster) /\ Len(s) \in Nat /\ w \in Seq(Cluster) /\ Len(w) \in Nat
    /\ Len(s) <= Len(w) /\ \A i \in 1 .. Len(s) : w[i] = s[i]

LEMMA LongerSame ==
    ASSUME NEW s \in Seq(Cluster)
    PROVE  Longer(s, s)
BY DEF Longer

LEMMA LongerBy ==
    ASSUME NEW s \in Seq(Cluster), NEW n \in Cluster
    PROVE  /\ Longer(s, Append(s, n)) /\ Len(Append(s, n)) = Len(s) + 1
           /\ Append(s, n)[Len(s) + 1] = n
<1>1. Append(s, n) \in Seq(Cluster) /\ Len(Append(s, n)) = Len(s) + 1 /\ Len(s) \in Nat
  OBVIOUS
<1>2. \A i \in 1 .. Len(s) : Append(s, n)[i] = s[i]
  OBVIOUS
<1> QED BY <1>1, <1>2 DEF Longer

LEMMA LongerHas ==
    ASSUME NEW s, NEW w, Longer(s, w)
    PROVE  Members(s) \subseteq Members(w)
<1>1. \A i \in 1 .. Len(s) : i \in 1 .. Len(w) /\ w[i] = s[i]
  BY DEF Longer
<1> QED BY <1>1, MembersAre DEF Longer

LEMMA LongerKeeps ==
    ASSUME NEW s, NEW w, Longer(s, w), NEW n, Covers(s, n)
    PROVE  /\ Covers(w, n)
           /\ \A i \in 0 .. n - 1 : SectorAt(w, i) = SectorAt(s, i)
<1>1. Covers(w, n)
  <2> DEFINE a == Len(s)
             b == Len(w)
  <2>1. a \in Nat /\ b \in Nat /\ a <= b /\ BCS \in Nat /\ n <= BCS * a
    BY Sizes DEF Longer, Covers
  <2> HIDE DEF a, b
  <2>2. BCS * a <= BCS * b /\ BCS * a \in Nat /\ BCS * b \in Nat
    BY <2>1
  <2>3. n <= BCS * b
    BY <2>1, <2>2 DEF Covers
  <2> QED BY <2>3 DEF Covers, Longer, b
<1>2. ASSUME NEW i \in 0 .. n - 1 PROVE SectorAt(w, i) = SectorAt(s, i)
  <2>1. Q(i) + 1 \in 1 .. Len(s) /\ SectorAt(s, i) = <<s[Q(i) + 1], K(i)>>
    BY HasCluster
  <2>2. SectorAt(w, i) = <<w[Q(i) + 1], K(i)>>
    BY <1>1, HasCluster
  <2> QED BY <2>1, <2>2 DEF Longer
<1> QED BY <1>1, <1>2

LEMMA LongerSound ==
    ASSUME NEW s, NEW w, Longer(s, w), NEW f, NEW r, NEW d, NEW u, Covers(s, r.objsize)
    PROVE  Sound(f, r, s, d, u) <=> Sound(f, r, w, d, u)
<1> DEFINE n == r.objsize
<1>1. Covers(s, n)
  OBVIOUS
<1> HIDE DEF n
<1>2. \A i \in 0 .. n - 1 : SectorAt(w, i) = SectorAt(s, i)
  BY <1>1, LongerKeeps
<1> QED BY <1>2 DEF Sound, n

LEMMA LongerPlaced ==
    ASSUME NEW s, NEW w, Longer(s, w), NEW r, Placed(r, s)
    PROVE  Placed(r, w)
<1> DEFINE i == Q(r.fptr - 1) + 1
<1>1. i \in 1 .. Len(s) => i \in 1 .. Len(w) /\ w[i] = s[i]
  BY DEF Longer
<1> HIDE DEF i
<1> QED BY <1>1 DEF Placed, Longer, i

(* The file has no cluster and gets its first.                             *)
LEMMA NewFirst ==
    ASSUME IInv, NEW f \in File, First(f) = None, NEW o \in create_chain(None),
           NEW k, Put(Heads, f, o.clst, k)
    PROVE  /\ o.res \in {"ok", "full", "disk"} /\ (o.res # "ok" => o.fat = fat)
           /\ o.res = "ok" => /\ o.clst \in Cluster
                              /\ Leads(f, Heads, fat, k, o.fat, <<o.clst>>)
           /\ OwnChain(f) = <<>>
<1>1. Volume(Heads, fat) /\ Heads[f] = None /\ OwnChain(f) = <<>>
  BY NoChain, Given DEF OwnChain
<1>2. CASE o \in {Outcome("full", None, fat), Outcome("disk", None, fat)}
  BY <1>1, <1>2 DEF Outcome
<1>3. CASE o \notin {Outcome("full", None, fat), Outcome("disk", None, fat)}
  <2>1. PICK n \in FreeClusters : o = Outcome("ok", n, [fat EXCEPT ![n] = EOC])
    BY <1>3 DEF create_chain
  <2>2. n \in Cluster /\ fat[n] = None
    BY DEF FreeClusters
  <2> DEFINE u == o.fat
             h == Heads
  <2>3. Put(fat, n, EOC, u) /\ Put(h, f, n, k) /\ o.clst = n /\ o.res = "ok"
    BY <2>1 DEF Outcome, Put
  <2>4. Volume(h, fat) /\ h[f] = None
    BY <1>1
  <2> HIDE DEF u, h
  <2>5. Volume(k, u) /\ Chain(k[f], u) = <<n>> /\ Others(f, h, fat, k, u)
    BY <2>2, <2>3, <2>4, Created
  <2> QED BY <1>1, <2>2, <2>3, <2>5 DEF Leads, u, h
<1> QED BY <1>2, <1>3

LEMMA Unled ==
    ASSUME IInv, NEW f \in File
    PROVE  Leads(f, Heads, fat, Heads, fat, OwnChain(f))
BY Given DEF Leads, Others, OwnChain

(* The cluster behind cluster m of the chain of f, made if there is none.  *)
LEMMA NewNext ==
    ASSUME IInv, NEW f \in File, NEW m \in 1 .. Len(OwnChain(f)),
           NEW o \in create_chain(OwnChain(f)[m])
    PROVE  /\ o.res \in {"ok", "full", "disk"} /\ (o.res = "full" => o.fat = fat)
           /\ o.res # "ok" => Leads(f, Heads, fat, Heads, o.fat, OwnChain(f))
           /\ o.res = "ok" => \E w : /\ Leads(f, Heads, fat, Heads, o.fat, w)
                                     /\ Longer(OwnChain(f), w)
                                     /\ m + 1 \in 1 .. Len(w) /\ w[m + 1] = o.clst
<1> DEFINE s == OwnChain(f)
           h == Heads
           c == s[m]
<1>1. /\ Volume(h, fat) /\ s = Chain(h[f], fat) /\ Good(s, h[f], fat)
      /\ fat \in [Cluster -> Value]
  BY Given DEF Volume
<1>2. s \in Seq(Cluster) /\ Len(s) \in Nat /\ m \in 1 .. Len(s) /\ m \in Nat
  BY <1>1 DEF Good
<1>3. o \in create_chain(c) /\ Leads(f, h, fat, h, fat, s)
  BY Unled
<1> HIDE DEF s, h
<1>4. /\ c \in Cluster /\ c \in Members(s) /\ fat[c] # None
      /\ m < Len(s) => fat[c] = s[m + 1] /\ s[m + 1] \in Cluster
      /\ m = Len(s) => fat[c] = EOC
  BY <1>1, <1>2, NextOf
<1> HIDE DEF c
<1>5. c # None
  BY <1>4, Marks
<1>6. CASE m < Len(s)
  <2>1. fat[c] # EOC /\ fat[c] = s[m + 1]
    BY <1>4, <1>6, Marks
  <2>2. o \in {Outcome("ok", fat[c], fat), Outcome("disk", None, fat)}
    BY <1>3, <1>4, <1>5, <2>1 DEF create_chain
  <2>3. o.fat = fat /\ o.res \in {"ok", "disk"} /\ (o.res = "ok" => o.clst = s[m + 1])
    BY <2>1, <2>2 DEF Outcome
  <2>4. m + 1 \in 1 .. Len(s) /\ Longer(s, s)
    BY <1>2, <1>6, LongerSame
  <2> QED BY <1>3, <2>3, <2>4 DEF s, h
<1>7. CASE m = Len(s)
  <2>1. fat[c] = EOC
    BY <1>4, <1>7
  <2>2. o \in {Outcome("full", None, fat), Outcome("disk", None, fat)}
            \cup {Outcome("ok", n, [fat EXCEPT ![n] = EOC, ![c] = n]) : n \in FreeClusters}
            \cup {Outcome("disk", None, [fat EXCEPT ![n] = EOC]) : n \in FreeClusters}
    BY <1>3, <1>4, <1>5, <2>1 DEF create_chain
  <2>3. CASE o \in {Outcome("full", None, fat), Outcome("disk", None, fat)}
    BY <1>3, <2>3 DEF Outcome, s, h
  <2>4. CASE o \in {Outcome("ok", n, [fat EXCEPT ![n] = EOC, ![c] = n]) : n \in FreeClusters}
    <3>1. PICK n \in FreeClusters : o = Outcome("ok", n, [fat EXCEPT ![n] = EOC, ![c] = n])
      BY <2>4
    <3> DEFINE u == o.fat
    <3>2. n \in Cluster /\ fat[n] = None /\ Linking(c, n, fat, u) /\ o.res = "ok" /\ o.clst = n
      BY <3>1 DEF FreeClusters, Outcome, Linking
    <3> HIDE DEF u
    <3>3. c \in Members(Chain(h[f], fat))
      BY <1>1, <1>4
    <3>4. /\ Volume(h, u) /\ Others(f, h, fat, h, u)
          /\ Chain(h[f], u) = Append(Chain(h[f], fat), n)
      BY <1>1, <2>1, <3>2, <3>3, Stretched
    <3> DEFINE w == Append(s, n)
    <3>5. Leads(f, h, fat, h, u, w)
      BY <1>1, <3>4 DEF Leads
    <3>6. Longer(s, w) /\ Len(w) = Len(s) + 1 /\ w[Len(s) + 1] = n
      BY <1>2, <3>2, LongerBy
    <3>7. m + 1 \in 1 .. Len(w) /\ w[m + 1] = o.clst
      BY <1>2, <1>7, <3>2, <3>6
    <3> QED BY <3>2, <3>5, <3>6, <3>7 DEF u, s, h
  <2>5. CASE o \in {Outcome("disk", None, [fat EXCEPT ![n] = EOC]) : n \in FreeClusters}
    <3>1. PICK n \in FreeClusters : o = Outcome("disk", None, [fat EXCEPT ![n] = EOC])
      BY <2>5
    <3> DEFINE u == o.fat
    <3>2. n \in Cluster /\ fat[n] = None /\ Put(fat, n, EOC, u) /\ o.res = "disk"
      BY <3>1 DEF FreeClusters, Outcome, Put
    <3> HIDE DEF u
    <3>3. Volume(h, u) /\ Chain(h[f], u) = Chain(h[f], fat) /\ Others(f, h, fat, h, u)
      BY <1>1, <3>2, Lost
    <3>4. Leads(f, h, fat, h, u, s)
      BY <1>1, <3>3 DEF Leads
    <3> QED BY <3>2, <3>4 DEF u, s, h
  <2> QED BY <2>2, <2>3, <2>4, <2>5
<1> QED BY <1>2, <1>6, <1>7

LEMMA GotNext ==
    ASSUME IInv, NEW f \in File, NEW m \in 1 .. Len(OwnChain(f)), m < Len(OwnChain(f)),
           NEW o \in get_fat(OwnChain(f)[m])
    PROVE  /\ o.res \in {"ok", "disk"} /\ o.fat = fat
           /\ o.res = "ok" => m + 1 \in 1 .. Len(OwnChain(f)) /\ o.clst = OwnChain(f)[m + 1]
<1> DEFINE s == OwnChain(f)
           c == s[m]
<1>1. Good(s, First(f), fat) /\ fat \in [Cluster -> Value]
  BY Given DEF Volume
<1>2. Len(s) \in Nat /\ m < Len(s) /\ o \in get_fat(c)
  BY <1>1 DEF Good
<1> HIDE DEF s
<1>3. m \in 1 .. Len(s) /\ m + 1 \in 1 .. Len(s)
  BY <1>2 DEF s
<1>4. fat[c] = s[m + 1] /\ s[m + 1] \in Cluster
  BY <1>1, <1>2, <1>3, NextOf
<1> HIDE DEF c
<1> QED BY <1>2, <1>3, <1>4 DEF get_fat, Outcome, s

-----------------------------------------------------------------------------
(* A call that fails: the object takes the error and the call ends.        *)
LEMMA AbortKeeps ==
    ASSUME IInv, NEW f \in File, call = NoCall \/ call.f = f,
           NEW r \in FilRec, NEW res \in {"disk", "stream"}, NEW d \in Disk, NEW t,
           Abort(f, r, res, d, t), UNCHANGED <<entry, cached, misread, stray>>,
           NEW u \in SUBSET Offset, Put(undef, f, u, undef'),
           r.open, r.buf \in Content, r.dirty => r.sect \in Sector, Lags(r, entry[f]),
           NEW ch, NEW k, Put(Heads, f, r.sclust, k), Leads(f, Heads, fat, k, t, ch),
           Covers(ch, r.objsize),
           NEW M, M \subseteq Members(OwnChain(f)) \cup Members(ch), Clean(f, M, disk, d),
           ~stray => Sound(f, [r EXCEPT !.err = res], ch, d, u)
    PROVE  IInv'
<1> DEFINE x == [r EXCEPT !.err = res]
           e == entry[f]
<1>1. /\ fil' = [fil EXCEPT ![f] = x] /\ disk' = d /\ fat' = t /\ call' = NoCall
      /\ entry' = entry /\ cached' = cached /\ misread' = misread /\ stray' = stray
  BY DEF Abort
<1>2. /\ x \in FilRec /\ x.open /\ x.err = res /\ x.err # "none" /\ x.err # "int"
      /\ x.objsize = r.objsize /\ x.sclust = r.sclust /\ x.mod = r.mod
      /\ x.buf = r.buf /\ x.sect = r.sect /\ x.dirty = r.dirty
  BY DEF FilRec
<1> HIDE DEF x
<1>3. e \in EntryRec /\ entry' = [entry EXCEPT ![f] = e]
  BY <1>1, Given DEF IInv
<1>4. Renewed(f, x, e, u)
  BY <1>1, <1>3 DEF Renewed, Put
<1>5. Turn(f) /\ ReadsRight'
  BY <1>1 DEF Turn, IInv, ReadsRight
<1>6. Lags(r, e)
  OBVIOUS
<1>7. Mine(f, x, e, ch, call')
  <2>1. Held(x, e, ch)
    BY <1>2, <1>3, <1>6 DEF Held, Bytes, Lags
  <2>2. Idle(x, e, ch) /\ ~Busy(call', f)
    BY <1>1, <1>2 DEF Idle, Busy
  <2> QED BY <2>1, <2>2 DEF Mine
<1>8. Put(Heads, f, HeadOf(x, e), k)
  BY <1>2 DEF HeadOf
<1>9. ~stray' => Data(f, x, e, ch, disk', u)
  BY <1>1, <1>2 DEF Data, x
<1>10. Leads(f, Heads, fat, k, fat', ch) /\ (~stray' => Clean(f, M, disk, disk'))
  BY <1>1
<1> HIDE DEF e
<1> QED BY <1>2, <1>3, <1>4, <1>5, <1>7, <1>8, <1>9, <1>10, Frame

(* In the middle of a turn: the object r of f, with a cluster for its      *)
(* position in the chain s, and the data area d.                           *)
Midway(f, r, d, s) ==
    /\ Fine(Members(s), r, d) /\ Clean(f, Members(s), disk, d)
    /\ r.open /\ r.err = "none" /\ Covers(s, r.objsize) /\ There(r, s)
    /\ ~stray => Sound(f, r, s, d, undef[f])

LEMMA MidwayMoves ==
    ASSUME NEW f, NEW r, NEW d, NEW s, Midway(f, r, d, s),
           NEW m, Moves(f, Members(s), s, undef[f], r, d, m)
    PROVE  /\ m.res = "ok" => Midway(f, m.r, m.disk, s)
           /\ m.res \in {"ok", "disk"} /\ Same(r, m.r) /\ (m.r.dirty => r.dirty)
           /\ Fine(Members(s), m.r, m.disk) /\ Clean(f, Members(s), disk, m.disk)
           /\ \A e \in {"disk", "int", "stream"} :
                ~stray => Sound(f, [m.r EXCEPT !.err = e], s, m.disk, undef[f])
<1> DEFINE M == Members(s)
           e == m.disk
<1>1. Fine(M, r, d) /\ Clean(f, M, disk, d) /\ Clean(f, M, d, e)
  BY DEF Midway, Moves
<1> HIDE DEF M, e
<1>2. Clean(f, M, disk, e)
  BY <1>1, CleanTwice
<1>3. There(m.r, s) /\ Covers(s, m.r.objsize) /\ m.r.open /\ m.r.err = "none"
  BY DEF Midway, Moves, Same, There
<1> QED BY <1>2, <1>3 DEF Midway, Moves, M, e

(* The cluster of a position inside the file is found, or a disk error.    *)
LEMMA Followed ==
    ASSUME IInv, NEW f \in File, NEW r, r = fil[f], r.open, Placed(r, OwnChain(f)),
           r.fptr < r.objsize, NEW o \in FollowTo(r)
    PROVE  /\ o.res \in {"ok", "disk"}
           /\ o.res = "ok" => /\ o.clst \in Cluster
                              /\ There([r EXCEPT !.clust = o.clst], OwnChain(f))
<1> DEFINE s == OwnChain(f)
           p == r.fptr
           x == [r EXCEPT !.clust = o.clst]
<1>1. /\ r \in FilRec /\ p \in Nat /\ r.objsize \in Nat /\ Covers(s, r.objsize)
      /\ Good(s, r.sclust, fat) /\ p \in 0 .. r.objsize - 1
  BY Given DEF FilRec, Bytes, First
<1>2. x.fptr = p /\ x.clust = o.clst
  BY <1>1 DEF FilRec
<1>3. Q(p) + 1 \in 1 .. Len(s) /\ s \in Seq(Cluster) /\ Len(s) \in Nat /\ Q(p) \in Nat
  <2> DEFINE n == r.objsize
  <2>1. Covers(s, n) /\ p \in 0 .. n - 1
    BY <1>1
  <2> HIDE DEF n, p
  <2> QED BY <1>1, <2>1, HasCluster, Place DEF Covers
<1>4. o.clst = s[Q(p) + 1] => There(x, s) /\ o.clst \in Cluster
  BY <1>2, <1>3 DEF There
<1> HIDE DEF x
<1>5. CASE ~OnCluster(r)
  <2>1. o.res = "ok" /\ o.clst = r.clust
    BY <1>5 DEF FollowTo, Outcome
  <2>2. There(r, s)
    BY <1>1, <1>5, Inside
  <2> QED BY <1>4, <2>1, <2>2 DEF There, x
<1>6. CASE OnCluster(r) /\ p > 0
  <2>1. Q(p) = Q(p - 1) + 1
    <3> HIDE DEF p
    <3>1. p % BCS = 0
      BY <1>6 DEF OnCluster, p
    <3> QED BY <1>1, <1>6, <3>1, Step
  <2> DEFINE m == Q(p)
  <2>2. r.clust = s[m] /\ m \in 1 .. Len(s) /\ m < Len(s)
    BY <1>3, <1>6, <2>1 DEF Placed
  <2>3. o \in get_fat(s[m])
    BY <1>6, <2>2 DEF FollowTo
  <2> HIDE DEF m
  <2>4. o.res \in {"ok", "disk"} /\ (o.res = "ok" => o.clst = s[m + 1])
    BY <2>2, <2>3, GotNext
  <2> QED BY <1>4, <2>4 DEF m, x
<1>7. CASE OnCluster(r) /\ ~(p > 0)
  <2>1. p = 0 /\ Q(p) = 0
    BY <1>1, <1>7, Sizes DEF Q
  <2>2. s[1] = r.sclust /\ r.sclust \in Cluster
    BY <1>1, <1>3, FirstIs
  <2>3. o = Outcome("ok", r.sclust, fat)
    BY <1>7, <2>2, Marks DEF FollowTo
  <2> QED BY <1>4, <2>1, <2>2, <2>3 DEF Outcome, x
<1> QED BY <1>5, <1>6, <1>7

(* Bytes read are the bytes of the file, and the position moves behind.    *)
LEMMA HandedKeeps ==
    ASSUME IInv, NEW f \in File, NEW op \in {"read", "forward"}, Running(op, f),
           NEW r, NEW d, Midway(f, r, d, OwnChain(f)),
           Same([fil[f] EXCEPT !.clust = r.clust], r), r.dirty => fil[f].dirty,
           NEW n \in 1 .. call.left, NEW direct \in BOOLEAN, Handed(f, r, n, d, direct),
           UNCHANGED <<entry, cached, undef, stray>>,
           ~direct => r.sect = SectorOf(r) /\ B(r.fptr) + n <= SS,
           direct => /\ d = disk /\ OnSector(r)
                     /\ \E j \in Nat \ {0} : n = SS * j /\ K(r.fptr) + j <= CSize
    PROVE  IInv'
<1> DEFINE q == fil[f]
           s == OwnChain(f)
           e == entry[f]
           p == r.fptr
           x == [r EXCEPT !.fptr = r.fptr + n]
<1>1. /\ call \in Calls /\ call.f = f /\ call.op = op /\ call.left \in 0 .. MaxSize
      /\ q.open /\ q.err = "none" /\ Reading(q, e, s, call.left)
  BY RunningIs DEF InCall
<1>2. /\ q \in FilRec /\ e \in EntryRec /\ undef[f] \in SUBSET Offset /\ Held(q, e, s)
      /\ First(f) = q.sclust
  BY <1>1, Given DEF First
<1>3. /\ r \in FilRec /\ d \in Disk /\ r.buf \in Content /\ r.open /\ r.err = "none"
      /\ Covers(s, r.objsize) /\ There(r, s) /\ Clean(f, Members(s), disk, d)
      /\ (r.dirty => r.sect \in Sector /\ r.sect[1] \in Members(s))
      /\ (~stray => Sound(f, r, s, d, undef[f]))
  BY DEF Midway, Fine
<1>4. /\ p = q.fptr /\ r.objsize = q.objsize /\ r.sclust = q.sclust /\ r.wr = q.wr
      /\ r.mod = q.mod
  BY <1>2 DEF Same, FilRec
<1>5. /\ p \in Nat /\ r.objsize \in Nat /\ r.objsize <= MaxSize /\ MaxSize \in Nat
      /\ n \in Nat \ {0} /\ p + n <= r.objsize /\ call.left \in Nat /\ n <= call.left
      /\ p + call.left <= r.objsize
  BY <1>1, <1>3, <1>4, GeometryAssumption DEF FilRec, Reading
<1>6. /\ fil' = [fil EXCEPT ![f] = x] /\ disk' = d /\ fat' = fat
      /\ call' = IF call.left = n THEN NoCall ELSE [call EXCEPT !.left = @ - n]
  BY DEF Handed
<1>7. /\ x \in FilRec /\ x.fptr = p + n /\ x.objsize = r.objsize /\ x.open /\ x.err = "none"
      /\ x.sclust = r.sclust /\ x.clust = r.clust /\ x.sect = r.sect /\ x.buf = r.buf
      /\ x.dirty = r.dirty /\ x.mod = r.mod /\ x.wr = r.wr
  BY <1>3, <1>5 DEF FilRec
<1> HIDE DEF x
<1>8. Q(p + n - 1) = Q(p) /\ (OnSector(x) \/ x.sect = SectorOf(x))
  <2>1. CASE ~direct
    <3>1. r.sect = SectorOf(r) /\ B(p) + n <= SS
      BY <2>1
    <3> HIDE DEF p
    <3>2. /\ \A i \in p .. p + n - 1 : i \in Nat /\ Q(i) = Q(p)
          /\ B(p + n) = 0 \/ (Q(p + n) = Q(p) /\ K(p + n) = K(p))
      BY <1>5, <3>1, Within
    <3>3. p + n - 1 \in p .. p + n - 1
      BY <1>5
    <3>4. B(p + n) = 0 => OnSector(x)
      BY <1>7 DEF OnSector, B
    <3>5. K(p + n) = K(p) => SectorOf(x) = SectorOf(r)
      BY <1>7 DEF SectorOf, K, p
    <3> QED BY <1>7, <3>1, <3>2, <3>3, <3>4, <3>5
  <2>2. CASE direct
    <3>1. OnSector(r) /\ \E j \in Nat \ {0} : n = SS * j /\ K(p) + j <= CSize
      BY <2>2
    <3>2. PICK j \in Nat \ {0} : n = SS * j /\ K(p) + j <= CSize
      BY <3>1
    <3>3. B(p) = 0
      BY <3>1 DEF OnSector, B
    <3> HIDE DEF p
    <3>4. /\ \A i \in p .. p + SS * j - 1 : i \in Nat /\ Q(i) = Q(p)
          /\ B(p + SS * j) = 0
      BY <1>5, <3>2, <3>3, Across
    <3>5. p + n - 1 \in p .. p + n - 1
      BY <1>5
    <3>6. Q(p + n - 1) = Q(p) /\ B(p + n) = 0
      BY <3>2, <3>4, <3>5
    <3> QED BY <1>7, <3>6 DEF OnSector, B
  <2> QED BY <2>1, <2>2
<1>9. Placed(x, s)
  BY <1>3, <1>5, <1>7, <1>8, Advance
<1>10. Agrees(x, e)
  <2>1. Agrees(q, e) /\ (r.dirty => q.dirty)
    BY <1>1 DEF Reading
  <2>2. Recording(x) = Recording(q)
    BY <1>4, <1>7 DEF Recording
  <2> QED BY <1>4, <1>7, <2>1, <2>2 DEF Agrees
<1>11. Held(x, e, s)
  <2>1. Lags(x, e)
    <3>1. Lags(q, e)
      BY <1>1, <1>2 DEF Held
    <3> QED BY <1>4, <1>7, <3>1 DEF Lags
  <2> QED BY <1>2, <1>3, <1>7, <2>1 DEF Held, Bytes
<1>12. Mine(f, x, e, s, call') /\ (call' = NoCall \/ (call' \in Calls /\ call'.f = f))
  <2>1. CASE call.left = n
    <3>1. call' = NoCall
      BY <1>6, <2>1
    <3>2. Idle(x, e, s)
      BY <1>5, <1>7, <1>9, <1>10 DEF Idle
    <3> QED BY <1>11, <3>1, <3>2 DEF Mine, Busy
  <2>2. CASE call.left # n
    <3>1. /\ call' \in Calls /\ call'.f = f /\ call'.op = op /\ call'.left = call.left - n
      BY <1>1, <1>5, <1>6, <2>2 DEF Calls
    <3>2. Reading(x, e, s, call'.left)
      BY <1>5, <1>7, <1>9, <1>10, <2>2, <3>1 DEF Reading
    <3>3. InCall(x, e, s, call') /\ call' # NoCall
      BY <1>7, <3>1, <3>2 DEF InCall, NoCall
    <3> QED BY <1>11, <3>1, <3>3 DEF Mine, Busy
  <2> QED BY <2>1, <2>2
<1>13. ~stray => Sound(f, x, s, d, undef[f])
  BY <1>3, <1>7 DEF Sound
<1>14. ReadsRight' /\ misread' \in BOOLEAN
  <2>0. misread \in BOOLEAN /\ (~stray => ~misread) /\ stray' = stray
    BY DEF ReadsRight, IInv
  <2> SUFFICES misread' \in BOOLEAN /\ (~stray => misread' = misread)
    BY <2>0 DEF ReadsRight
  <2> DEFINE given(i) == IF direct THEN Delivered(r, i) ELSE r.buf[i % SS]
             new == r.fptr .. r.fptr + n - 1
             w == undef[f]
  <2>1. (~stray => Sound(f, r, s, d, w)) /\ Covers(s, r.objsize)
    BY <1>3
  <2>2. ASSUME ~stray, ~direct PROVE \A i \in new \ w : given(i) = <<f, i>>
    <3>1. /\ r.sect = SectorOf(r) /\ B(r.fptr) + n <= SS /\ r.fptr + n <= r.objsize
          /\ r \in FilRec /\ Sound(f, r, s, d, w) /\ Covers(s, r.objsize) /\ r.err = "none"
          /\ There(r, s) /\ n \in Nat \ {0}
      BY <1>3, <1>5, <2>1, <2>2
    <3> HIDE DEF w, s, p, given, new
    <3>2. \A i \in (r.fptr .. r.fptr + n - 1) \ w : r.buf[i % SS] = <<f, i>>
      BY ONLY <3>1, BufferGives
    <3> USE DEF given, new
    <3> QED BY <2>2, <3>2
  <2>3. ASSUME ~stray, direct PROVE \A i \in new \ w : given(i) = <<f, i>>
    <3>1. d = disk /\ OnSector(r) /\ r.fptr + n <= r.objsize
      BY <1>5, <2>3
    <3>2. PICK j \in Nat \ {0} : n = SS * j /\ K(r.fptr) + j <= CSize
      BY <2>3
    <3>3. Sound(f, r, s, disk, w) /\ There(r, s)
      BY <1>3, <2>1, <2>3, <3>1
    <3> HIDE DEF w, s
    <3>4. \A i \in (r.fptr .. r.fptr + n - 1) \ w : Delivered(r, i) = <<f, i>>
      BY <1>3, <2>1, <3>1, <3>2, <3>3, DiskGives
    <3> QED BY <2>3, <3>4
  <2>4. misread' = (misread \/ \E i \in new \ w : given(i) # <<f, i>>)
    BY DEF Handed
  <2>5. ~stray => \A i \in new \ w : given(i) = <<f, i>>
    BY <2>2, <2>3
  <2> HIDE DEF given, new, w
  <2> QED BY <2>0, <2>4, <2>5
<1>15. Turn(f)
  BY <1>1, <1>3, <1>6, <1>12, <1>14 DEF Turn, IInv
<1> DEFINE u == undef[f]
<1>16. Renewed(f, x, e, u) /\ u \in SUBSET Offset
  BY <1>2, <1>6 DEF Renewed, IInv
<1>17. HeadOf(x, e) = First(f)
  BY <1>2, <1>4, <1>7 DEF HeadOf
<1>18. /\ ~stray' => Data(f, x, e, OwnChain(f), disk', u)
       /\ ~stray' => Clean(f, Members(OwnChain(f)), disk, disk')
       /\ Mine(f, x, e, OwnChain(f), call') /\ fat' = fat
  BY <1>3, <1>6, <1>7, <1>12, <1>13 DEF Data
<1> HIDE DEF e, u, s
<1> QED BY <1>2, <1>7, <1>14, <1>15, <1>16, <1>17, <1>18, FrameQuiet

LEMMA RestFits ==
    ASSUME NEW p \in Nat, NEW left \in Nat \ {0}, NEW n, n = Lesser(SS - (p % SS), left)
    PROVE  n \in 1 .. left /\ n \in Nat \ {0} /\ B(p) + n <= SS
<1>1. B(p) \in 0 .. SS - 1 /\ SS \in Nat \ {0}
  BY Place, Sizes
<1>2. n = Lesser(SS - B(p), left)
  BY DEF B
<1> QED BY <1>1, <1>2 DEF Lesser

(* The object of a file in the middle of a turn that reads.                *)
Follows(f, r) ==
    Same([fil[f] EXCEPT !.clust = r.clust], r) /\ (r.dirty => fil[f].dirty)

LEMMA FollowsIs ==
    ASSUME IInv, NEW f \in File, NEW r, Follows(f, r)
    PROVE  /\ r.fptr = fil[f].fptr /\ r.objsize = fil[f].objsize /\ r.sclust = fil[f].sclust
           /\ r.mod = fil[f].mod /\ r.open = fil[f].open /\ r.err = fil[f].err
           /\ (r.dirty => fil[f].dirty)
<1>1. fil[f] \in FilRec
  BY Given
<1> QED BY <1>1 DEF Follows, Same, FilRec

LEMMA ReadAborts ==
    ASSUME IInv, NEW f \in File, call.f = f, fil[f].open, NEW r, NEW d, Follows(f, r),
           NEW res \in {"disk", "stream"}, Abort(f, r, res, d, fat),
           UNCHANGED <<entry, cached, misread, stray, undef>>,
           Fine(Members(OwnChain(f)), r, d), Clean(f, Members(OwnChain(f)), disk, d),
           ~stray => Sound(f, [r EXCEPT !.err = res], OwnChain(f), d, undef[f])
    PROVE  IInv'
<1> DEFINE s == OwnChain(f)
           M == Members(s)
           u == undef[f]
           k == Heads
<1>1. /\ r.objsize = fil[f].objsize /\ r.sclust = fil[f].sclust
      /\ r.mod = fil[f].mod /\ r.open
  BY FollowsIs
<1>2. /\ r \in FilRec /\ d \in Disk /\ r.buf \in Content /\ (r.dirty => r.sect \in Sector)
  BY DEF Fine
<1>3. u \in SUBSET Offset /\ Put(undef, f, u, undef')
  BY Given DEF IInv, Put
<1>4. Lags(r, entry[f]) /\ Covers(s, r.objsize)
  <2>1. Lags(fil[f], entry[f]) /\ Covers(s, fil[f].objsize)
    BY Given DEF Held, Bytes
  <2> QED BY <1>1, <2>1 DEF Lags
<1>5. Put(Heads, f, r.sclust, k) /\ Leads(f, Heads, fat, k, fat, s)
  <2>1. Heads[f] = r.sclust
    BY <1>1, Given DEF First
  <2> QED BY <2>1, Unled DEF Put, Heads
<1>6. /\ M \subseteq Members(OwnChain(f)) \cup Members(s) /\ Clean(f, M, disk, d)
      /\ ~stray => Sound(f, [r EXCEPT !.err = res], s, d, u)
  OBVIOUS
<1> HIDE DEF s, M, u, k
<1>7. IInv /\ f \in File /\ call.f = f /\ res \in {"disk", "stream"} /\ Abort(f, r, res, d, fat)
      /\ UNCHANGED <<entry, cached, misread, stray>>
  OBVIOUS
<1> QED BY <1>1, <1>2, <1>3, <1>4, <1>5, <1>6, <1>7, AbortKeeps

(* The object as a call finds it, once it has the cluster c.               *)
LEMMA BeginsMidway ==
    ASSUME IInv, NEW f \in File, fil[f].open, fil[f].err = "none", NEW c \in Cluster,
           NEW r, r = [fil[f] EXCEPT !.clust = c], There(r, OwnChain(f))
    PROVE  Midway(f, r, disk, OwnChain(f)) /\ Follows(f, r)
<1> DEFINE q == fil[f]
           s == OwnChain(f)
<1>1. /\ q \in FilRec /\ disk \in Disk /\ Held(q, entry[f], s) /\ q.open /\ q.err = "none"
      /\ ~stray => Data(f, q, entry[f], s, disk, undef[f])
  BY Given
<1>2. /\ r \in FilRec /\ r.clust = c /\ r.open /\ r.err = "none" /\ r.objsize = q.objsize
      /\ r.buf = q.buf /\ r.sect = q.sect /\ r.dirty = q.dirty
  BY <1>1 DEF FilRec
<1>3. Follows(f, r)
  BY <1>1, <1>2 DEF Follows, Same, FilRec
<1>4. Fine(Members(s), r, disk)
  BY <1>1, <1>2 DEF Fine, Held
<1>5. ~stray => Sound(f, r, s, disk, undef[f])
  BY <1>1, <1>2 DEF Data, Sound
<1> QED BY <1>1, <1>2, <1>3, <1>4, <1>5, CleanSame DEF Midway, Held, Bytes

LEMMA MidwayErr ==
    ASSUME NEW f, NEW r, NEW d, NEW s, Midway(f, r, d, s),
           NEW e \in {"disk", "int", "stream"}
    PROVE  /\ Fine(Members(s), r, d) /\ Clean(f, Members(s), disk, d)
           /\ ~stray => Sound(f, [r EXCEPT !.err = e], s, d, undef[f])
<1> DEFINE u == undef[f]
<1>1. r \in FilRec /\ (~stray => Sound(f, r, s, d, u))
  BY DEF Midway, Fine
<1> HIDE DEF u
<1>2. ~stray => Sound(f, [r EXCEPT !.err = e], s, d, u)
  BY <1>1, SoundInError
<1> QED BY <1>2 DEF Midway, u

LEMMA ReadStepKeeps ==
    ASSUME IInv, NEW f \in File, ReadStep(f)
    PROVE  IInv'
<1> DEFINE q == fil[f]
           s == OwnChain(f)
           rest(x) == Lesser(SS - (x.fptr % SS), call.left)
<1>1. Running("read", f) /\ UNCHANGED <<entry, cached, undef, stray>>
  BY DEF ReadStep
<1>2. /\ call.f = f /\ call.left \in 0 .. MaxSize /\ q.open /\ q.err = "none"
      /\ Reading(q, entry[f], s, call.left)
  BY <1>1, RunningIs DEF InCall
<1>3. q \in FilRec /\ disk \in Disk
  BY Given
<1>4. /\ q.fptr \in Nat /\ q.fptr < q.objsize /\ Placed(q, s) /\ call.left \in Nat \ {0}
      /\ q.fptr + call.left <= q.objsize
  BY <1>2, <1>3, GeometryAssumption DEF Reading, FilRec
<1>5. CASE ~OnSector(q) /\ Handed(f, q, rest(q), disk, FALSE)
  <2>1. There(q, s)
    BY <1>3, <1>4, <1>5, Inside, OnBoth
  <2>2. q = [q EXCEPT !.clust = q.clust] /\ q.clust \in Cluster
    BY <1>3, <2>1 DEF FilRec, There
  <2>3. Midway(f, q, disk, s) /\ Follows(f, q)
    BY <1>2, <2>1, <2>2, BeginsMidway
  <2>4. rest(q) \in 1 .. call.left /\ B(q.fptr) + rest(q) <= SS
    BY <1>4, RestFits
  <2>5. q.sect = SectorOf(q)
    BY <1>4, <1>5 DEF Placed
  <2>6. /\ Same([q EXCEPT !.clust = q.clust], q) /\ (q.dirty => q.dirty)
    BY <2>3 DEF Follows
  <2> DEFINE n == rest(q)
             dir == FALSE
             d == disk
  <2>7. /\ n \in 1 .. call.left /\ dir \in BOOLEAN /\ Handed(f, q, n, d, dir)
        /\ Midway(f, q, d, s)
        /\ (~dir => q.sect = SectorOf(q) /\ B(q.fptr) + n <= SS)
        /\ (dir => /\ d = disk /\ OnSector(q)
                   /\ \E j \in Nat \ {0} : n = SS * j /\ K(q.fptr) + j <= CSize)
    BY <1>5, <2>3, <2>4, <2>5
  <2> HIDE DEF n, dir, d
  <2> QED BY <1>1, <2>6, <2>7, HandedKeeps
<1> DEFINE r1(o) == [q EXCEPT !.clust = o.clst]
<1>6. CASE OnSector(q) /\ \E o \in FollowTo(q) :
              IF o.res # "ok" THEN Abort(f, q, o.res, disk, fat) /\ UNCHANGED misread
              ELSE IF call.left >= SS
                   THEN \/ Handed(f, r1(o), Direct(r1(o), call.left) * SS, disk, TRUE)
                        \/ Abort(f, r1(o), "disk", disk, fat) /\ UNCHANGED misread
                   ELSE \E m \in Bring(r1(o), SectorOf(r1(o)), disk) :
                          IF m.res = "ok" THEN Handed(f, m.r, rest(m.r), m.disk, FALSE)
                          ELSE Abort(f, m.r, m.res, m.disk, fat) /\ UNCHANGED misread
  <2>1. PICK o \in FollowTo(q) :
              IF o.res # "ok" THEN Abort(f, q, o.res, disk, fat) /\ UNCHANGED misread
              ELSE IF call.left >= SS
                   THEN \/ Handed(f, r1(o), Direct(r1(o), call.left) * SS, disk, TRUE)
                        \/ Abort(f, r1(o), "disk", disk, fat) /\ UNCHANGED misread
                   ELSE \E m \in Bring(r1(o), SectorOf(r1(o)), disk) :
                          IF m.res = "ok" THEN Handed(f, m.r, rest(m.r), m.disk, FALSE)
                          ELSE Abort(f, m.r, m.res, m.disk, fat) /\ UNCHANGED misread
    BY <1>6
  <2>2. /\ o.res \in {"ok", "disk"}
        /\ o.res = "ok" => o.clst \in Cluster /\ There(r1(o), s)
    BY <1>2, <1>4, Followed
  <2> DEFINE r == r1(o)
  <2>3. CASE o.res # "ok"
    <3>1. Abort(f, q, "disk", disk, fat) /\ UNCHANGED misread
      BY <2>1, <2>2, <2>3
    <3>2. Fine(Members(s), q, disk) /\ Follows(f, q)
      <4>1. Held(q, entry[f], s)
        BY Given
      <4> QED BY <1>2, <1>3, <4>1 DEF Fine, Held, Follows, Same, FilRec
    <3>3. ~stray => Sound(f, [q EXCEPT !.err = "disk"], s, disk, undef[f])
      <4> DEFINE u == undef[f]
      <4>1. ~stray => Sound(f, q, s, disk, u)
        BY <1>2, Given DEF Data
      <4> HIDE DEF u, q, s
      <4>2. ~stray => Sound(f, [q EXCEPT !.err = "disk"], s, disk, u)
        BY <1>3, <4>1, SoundInError
      <4> QED BY <4>2 DEF u
    <3> QED BY <1>1, <1>2, <3>1, <3>2, <3>3, CleanSame, ReadAborts
  <2>4. CASE o.res = "ok"
    <3>1. Midway(f, r, disk, s) /\ Follows(f, r)
      <4> DEFINE c == o.clst
      <4>1. c \in Cluster /\ r = [q EXCEPT !.clust = c] /\ There(r, s)
        BY <2>2, <2>4
      <4> HIDE DEF c, r
      <4> QED BY <1>2, <4>1, BeginsMidway
    <3>2. /\ r.fptr = q.fptr /\ r.objsize = q.objsize /\ r \in FilRec /\ There(r, s)
      BY <2>2, <2>4, <3>1, FollowsIs DEF Midway, Fine
    <3>3. OnSector(r)
      BY <1>6, <3>2 DEF OnSector
    <3>4. /\ call.left >= SS => \/ Handed(f, r, Direct(r, call.left) * SS, disk, TRUE)
                                \/ Abort(f, r, "disk", disk, fat) /\ UNCHANGED misread
          /\ ~(call.left >= SS) => \E m \in Bring(r, SectorOf(r), disk) :
                          IF m.res = "ok" THEN Handed(f, m.r, rest(m.r), m.disk, FALSE)
                          ELSE Abort(f, m.r, m.res, m.disk, fat) /\ UNCHANGED misread
      BY <2>1, <2>4
    <3> HIDE DEF r
    <3>5. CASE call.left >= SS /\ Handed(f, r, Direct(r, call.left) * SS, disk, TRUE)
      <4> DEFINE n == Direct(r, call.left) * SS
                 j == Direct(r, call.left)
                 dir == TRUE
                 d == disk
                 left == call.left
      <4>1. left \in Nat /\ left >= SS
        BY <1>4, <3>5
      <4>2. /\ Direct(r, left) \in Nat \ {0} /\ K(r.fptr) + Direct(r, left) <= CSize
            /\ SS * Direct(r, left) <= left /\ Direct(r, left) * SS = SS * Direct(r, left)
            /\ SS * Direct(r, left) \in Nat
        <5> HIDE DEF left
        <5> QED BY <3>2, <4>1, DirectFits
      <4>3. /\ j \in Nat \ {0} /\ n = SS * j /\ K(r.fptr) + j <= CSize /\ n \in Nat /\ n <= left
        BY <4>2
      <4>4. Handed(f, r, n, d, dir) /\ dir \in BOOLEAN /\ d = disk /\ dir
        BY <3>5
      <4> HIDE DEF n, j, dir, d
      <4>5. n # 0
        BY <4>3, Sizes
      <4>6. n \in 1 .. call.left
        BY <1>4, <4>3, <4>5
      <4> QED BY <1>1, <3>1, <3>3, <4>3, <4>4, <4>6, HandedKeeps DEF Follows
    <3>6. CASE Abort(f, r, "disk", disk, fat) /\ UNCHANGED misread
      BY <1>1, <1>2, <3>1, <3>6, MidwayErr, ReadAborts
    <3>7. CASE \E m \in Bring(r, SectorOf(r), disk) :
                 IF m.res = "ok" THEN Handed(f, m.r, rest(m.r), m.disk, FALSE)
                 ELSE Abort(f, m.r, m.res, m.disk, fat) /\ UNCHANGED misread
      <4>1. PICK m \in Bring(r, SectorOf(r), disk) :
                 IF m.res = "ok" THEN Handed(f, m.r, rest(m.r), m.disk, FALSE)
                 ELSE Abort(f, m.r, m.res, m.disk, fat) /\ UNCHANGED misread
        BY <3>7
      <4>2. /\ Moves(f, Members(s), s, undef[f], r, disk, m)
            /\ m.res = "ok" => m.r.sect = SectorOf(r)
        <5> DEFINE M == Members(s)
                   u == undef[f]
                   t == SectorOf(r)
        <5>1. Fine(M, r, disk) /\ Covers(s, r.objsize) /\ t \in Sector /\ m \in Bring(r, t, disk)
          BY <3>1, <3>2, ThereIsSector DEF Midway
        <5> HIDE DEF M, u, t, s
        <5>2. Moves(f, M, s, u, r, disk, m) /\ (m.res = "ok" => m.r.sect = t)
          BY <5>1, Brought
        <5> QED BY <5>2 DEF M, u, t, s
      <4>3. /\ m.res = "ok" => Midway(f, m.r, m.disk, s)
            /\ m.res \in {"ok", "disk"} /\ Same(r, m.r) /\ (m.r.dirty => r.dirty)
            /\ Fine(Members(s), m.r, m.disk) /\ Clean(f, Members(s), disk, m.disk)
            /\ ~stray => Sound(f, [m.r EXCEPT !.err = "disk"], s, m.disk, undef[f])
        <5> HIDE DEF s
        <5> QED BY <3>1, <4>2, MidwayMoves
      <4>4. Follows(f, m.r) /\ m.r.fptr = q.fptr /\ SectorOf(m.r) = SectorOf(r)
        BY <1>3, <3>1, <3>2, <4>3 DEF Follows, Same, SectorOf, FilRec
      <4> DEFINE x == m.r
                 d == m.disk
      <4>5. CASE m.res = "ok"
        <5> DEFINE n == rest(m.r)
                   dir == FALSE
        <5>1. Handed(f, x, n, d, dir) /\ dir \in BOOLEAN /\ ~dir /\ x.sect = SectorOf(x)
              /\ Midway(f, x, d, s) /\ Follows(f, x)
          BY <4>1, <4>2, <4>3, <4>4, <4>5
        <5>2. n = Lesser(SS - (x.fptr % SS), call.left) /\ x.fptr \in Nat
          BY <1>4, <4>4
        <5> HIDE DEF n, dir, x, d
        <5>3. n \in 1 .. call.left /\ B(x.fptr) + n <= SS
          BY <1>4, <5>2, RestFits
        <5> QED BY <1>1, <5>1, <5>3, HandedKeeps DEF Follows
      <4>6. CASE m.res # "ok"
        <5>1. /\ Abort(f, x, "disk", d, fat) /\ UNCHANGED misread /\ Follows(f, x)
              /\ Fine(Members(s), x, d) /\ Clean(f, Members(s), disk, d)
              /\ ~stray => Sound(f, [x EXCEPT !.err = "disk"], s, d, undef[f])
          BY <4>1, <4>3, <4>4, <4>6
        <5> HIDE DEF x, d
        <5> QED BY <1>1, <1>2, <5>1, ReadAborts
      <4> QED BY <4>5, <4>6
    <3> QED BY <3>4, <3>5, <3>6, <3>7
  <2> QED BY <2>3, <2>4
<1> QED BY <1>5, <1>6 DEF ReadStep

LEMMA BringsMidway ==
    ASSUME IInv, NEW f \in File, NEW s, s = OwnChain(f), NEW r, Midway(f, r, disk, s),
           Follows(f, r), NEW m \in Bring(r, SectorOf(r), disk)
    PROVE  /\ m.res \in {"ok", "disk"} /\ Follows(f, m.r) /\ m.r.fptr = fil[f].fptr
           /\ m.res = "ok" => Midway(f, m.r, m.disk, s) /\ m.r.sect = SectorOf(m.r)
           /\ Fine(Members(s), m.r, m.disk) /\ Clean(f, Members(s), disk, m.disk)
           /\ \A e \in {"disk", "int", "stream"} :
                ~stray => Sound(f, [m.r EXCEPT !.err = e], s, m.disk, undef[f])
<1>1. r \in FilRec /\ There(r, s) /\ fil[f] \in FilRec /\ r.fptr = fil[f].fptr
  BY Given, FollowsIs DEF Midway, Fine
<1>2. /\ Moves(f, Members(s), s, undef[f], r, disk, m)
      /\ m.res = "ok" => m.r.sect = SectorOf(r)
  <2> DEFINE M == Members(s)
             u == undef[f]
             t == SectorOf(r)
  <2>1. Fine(M, r, disk) /\ Covers(s, r.objsize) /\ t \in Sector /\ m \in Bring(r, t, disk)
    BY <1>1, ThereIsSector DEF Midway
  <2> HIDE DEF M, u, t
  <2>2. Moves(f, M, s, u, r, disk, m) /\ (m.res = "ok" => m.r.sect = t)
    BY <2>1, Brought
  <2> QED BY <2>2 DEF M, u, t
<1>3. /\ m.res = "ok" => Midway(f, m.r, m.disk, s)
      /\ m.res \in {"ok", "disk"} /\ Same(r, m.r) /\ (m.r.dirty => r.dirty)
      /\ Fine(Members(s), m.r, m.disk) /\ Clean(f, Members(s), disk, m.disk)
      /\ \A e \in {"disk", "int", "stream"} :
           ~stray => Sound(f, [m.r EXCEPT !.err = e], s, m.disk, undef[f])
  BY <1>2, MidwayMoves
<1>4. Follows(f, m.r) /\ m.r.fptr = r.fptr /\ SectorOf(m.r) = SectorOf(r)
  BY <1>1, <1>3 DEF Follows, Same, SectorOf, FilRec
<1> QED BY <1>1, <1>2, <1>3, <1>4

LEMMA ForwardStepKeeps ==
    ASSUME IInv, NEW f \in File, ForwardStep(f)
    PROVE  IInv'
<1> DEFINE q == fil[f]
           s == OwnChain(f)
           offered(x) == Lesser(SS - (x.fptr % SS), call.left)
           r1(o) == [q EXCEPT !.clust = o.clst]
           Failed(x, res, d) == Abort(f, x, res, d, fat) /\ UNCHANGED misread
<1>1. Running("forward", f) /\ UNCHANGED <<entry, cached, undef, stray>>
  BY DEF ForwardStep
<1>2. /\ call.f = f /\ call.left \in 0 .. MaxSize /\ q.open /\ q.err = "none"
      /\ Reading(q, entry[f], s, call.left)
  BY <1>1, RunningIs DEF InCall
<1>3. q \in FilRec /\ disk \in Disk
  BY Given
<1>4. /\ q.fptr \in Nat /\ q.fptr < q.objsize /\ Placed(q, s) /\ call.left \in Nat \ {0}
      /\ q.fptr + call.left <= q.objsize
  BY <1>2, <1>3, GeometryAssumption DEF Reading, FilRec
<1>5. PICK o \in FollowTo(q) :
         IF o.res # "ok" THEN Failed(q, o.res, disk)
         ELSE \E m \in Bring(r1(o), SectorOf(r1(o)), disk) :
                \/ m.res # "ok" /\ Failed(m.r, m.res, m.disk)
                \/ m.res = "ok" /\ Failed(m.r, "stream", m.disk)
                \/ m.res = "ok" /\ \E n \in 1 .. offered(m.r) : Handed(f, m.r, n, m.disk, FALSE)
  BY DEF ForwardStep
<1>6. /\ o.res \in {"ok", "disk"}
      /\ o.res = "ok" => o.clst \in Cluster /\ There(r1(o), s)
  BY <1>2, <1>4, Followed
<1>7. CASE o.res # "ok"
  <2>1. Abort(f, q, "disk", disk, fat) /\ UNCHANGED misread
    BY <1>5, <1>6, <1>7
  <2>2. Fine(Members(s), q, disk) /\ Follows(f, q)
    <3>1. Held(q, entry[f], s)
      BY Given
    <3> QED BY <1>2, <1>3, <3>1 DEF Fine, Held, Follows, Same, FilRec
  <2>3. ~stray => Sound(f, [q EXCEPT !.err = "disk"], s, disk, undef[f])
    <3> DEFINE u == undef[f]
    <3>1. ~stray => Sound(f, q, s, disk, u)
      BY <1>2, Given DEF Data
    <3> HIDE DEF u, q, s
    <3>2. ~stray => Sound(f, [q EXCEPT !.err = "disk"], s, disk, u)
      BY <1>3, <3>1, SoundInError
    <3> QED BY <3>2 DEF u
  <2> QED BY <1>1, <1>2, <2>1, <2>2, <2>3, CleanSame, ReadAborts
<1>8. CASE o.res = "ok"
  <2> DEFINE r == r1(o)
  <2>1. Midway(f, r, disk, s) /\ Follows(f, r)
    <3> DEFINE c == o.clst
    <3>1. c \in Cluster /\ r = [q EXCEPT !.clust = c] /\ There(r, s)
      BY <1>6, <1>8
    <3> HIDE DEF c, r
    <3> QED BY <1>2, <3>1, BeginsMidway
  <2>2. PICK m \in Bring(r, SectorOf(r), disk) :
                \/ m.res # "ok" /\ Failed(m.r, m.res, m.disk)
                \/ m.res = "ok" /\ Failed(m.r, "stream", m.disk)
                \/ m.res = "ok" /\ \E n \in 1 .. offered(m.r) : Handed(f, m.r, n, m.disk, FALSE)
    BY <1>5, <1>8
  <2> HIDE DEF r
  <2>3. /\ m.res \in {"ok", "disk"} /\ Follows(f, m.r) /\ m.r.fptr = q.fptr
        /\ m.res = "ok" => Midway(f, m.r, m.disk, s) /\ m.r.sect = SectorOf(m.r)
        /\ Fine(Members(s), m.r, m.disk) /\ Clean(f, Members(s), disk, m.disk)
        /\ \A e \in {"disk", "int", "stream"} :
             ~stray => Sound(f, [m.r EXCEPT !.err = e], s, m.disk, undef[f])
    BY <2>1, BringsMidway
  <2> DEFINE x == m.r
             d == m.disk
  <2>4. CASE \E res \in {"disk", "stream"} : Failed(x, res, d)
    <3>1. PICK res \in {"disk", "stream"} : Abort(f, x, res, d, fat) /\ UNCHANGED misread
      BY <2>4
    <3>2. /\ Follows(f, x) /\ Fine(Members(s), x, d) /\ Clean(f, Members(s), disk, d)
          /\ ~stray => Sound(f, [x EXCEPT !.err = res], s, d, undef[f])
      BY <2>3
    <3> HIDE DEF x, d
    <3> QED BY <1>1, <1>2, <3>1, <3>2, ReadAborts
  <2>5. CASE m.res = "ok" /\ \E n \in 1 .. offered(x) : Handed(f, x, n, d, FALSE)
    <3>1. PICK n \in 1 .. offered(x) : Handed(f, x, n, d, FALSE)
      BY <2>5
    <3> DEFINE dir == FALSE
               g == offered(x)
    <3>2. Handed(f, x, n, d, dir) /\ dir \in BOOLEAN /\ ~dir /\ x.sect = SectorOf(x)
          /\ Midway(f, x, d, s) /\ Follows(f, x)
      BY <2>3, <2>5, <3>1
    <3>3. g = Lesser(SS - (x.fptr % SS), call.left) /\ x.fptr \in Nat /\ n \in 1 .. g
      BY <1>4, <2>3
    <3> HIDE DEF dir, x, d, g
    <3>4. g \in 1 .. call.left /\ B(x.fptr) + g <= SS
      BY <1>4, <3>3, RestFits
    <3>5. n \in 1 .. call.left /\ B(x.fptr) + n <= SS
      <4>1. B(x.fptr) \in 0 .. SS - 1
        BY <3>3, Place
      <4>2. SS \in Nat /\ call.left \in Nat
        BY <1>4, Sizes
      <4> QED BY <3>3, <3>4, <4>1, <4>2
    <3> QED BY <1>1, <3>2, <3>5, HandedKeeps DEF Follows
  <2> QED BY <2>2, <2>3, <2>4, <2>5
<1> QED BY <1>6, <1>7, <1>8

-----------------------------------------------------------------------------
(* n bytes were written at the position: the object r holds them already,  *)
(* or the data area d does.                                                *)
LEMMA WrittenKeeps ==
    ASSUME IInv, NEW f \in File, Running("write", f), NEW r \in FilRec, NEW n \in 1 .. call.left,
           NEW d \in Disk, NEW t, Written(f, r, n, d, t), UNCHANGED <<entry, cached, misread, stray>>,
           r.open, r.err = "none", r.wr, r.fptr = fil[f].fptr, r.buf \in Content,
           NEW ch, r.dirty => r.sect \in Sector /\ r.sect[1] \in Members(ch), Lags(r, entry[f]),
           NEW k, Put(Heads, f, r.sclust, k), Leads(f, Heads, fat, k, t, ch), There(r, ch),
           Q(r.fptr + n - 1) = Q(r.fptr),
           B(r.fptr + n) = 0 \/ (K(r.fptr + n) = K(r.fptr) /\ r.sect = SectorOf(r)),
           Covers(ch, EndOf(r, n)), EndOf(r, n) \in 0 .. MaxSize,
           NEW M, M \subseteq Members(OwnChain(f)) \cup Members(ch), Clean(f, M, disk, d),
           ~stray => \A x : /\ x.sect = r.sect /\ x.buf = r.buf /\ x.dirty = r.dirty
                            /\ x.objsize = EndOf(r, n) /\ x.err = "none"
                            => Sound(f, x, ch, d, undef[f] \ (r.fptr .. r.fptr + n - 1))
    PROVE  IInv'
<1> DEFINE x == IF call.left = n THEN Wrote(Advanced(r, n)) ELSE Advanced(r, n)
           e == entry[f]
           u == undef[f] \ (r.fptr .. r.fptr + n - 1)
<1>1. /\ call \in Calls /\ call.f = f /\ call.op = "write" /\ call.left \in 0 .. MaxSize
      /\ Writing(fil[f], OwnChain(f), call.left)
  BY RunningIs DEF InCall
<1>2. /\ r.fptr \in Nat /\ r.objsize \in Nat /\ r.objsize <= MaxSize /\ MaxSize \in Nat
      /\ n \in Nat \ {0} /\ call.left \in Nat /\ n <= call.left /\ r.fptr + call.left <= MaxSize
      /\ EndOf(r, n) \in Nat /\ r.objsize <= EndOf(r, n) /\ r.fptr + n <= EndOf(r, n)
  BY <1>1, GeometryAssumption DEF FilRec, Writing, EndOf
<1>3. /\ fil' = [fil EXCEPT ![f] = x] /\ disk' = d /\ fat' = t
      /\ call' = IF call.left = n THEN NoCall ELSE [call EXCEPT !.left = @ - n]
      /\ undef' = [undef EXCEPT ![f] = @ \ (r.fptr .. r.fptr + n - 1)]
      /\ entry' = entry /\ cached' = cached /\ misread' = misread /\ stray' = stray
  BY DEF Written
<1>4. /\ Advanced(r, n) \in FilRec /\ Advanced(r, n).fptr = r.fptr + n
      /\ Advanced(r, n).objsize = EndOf(r, n) /\ Advanced(r, n).open /\ Advanced(r, n).err = "none"
      /\ Advanced(r, n).sclust = r.sclust /\ Advanced(r, n).clust = r.clust
      /\ Advanced(r, n).sect = r.sect /\ Advanced(r, n).buf = r.buf
      /\ Advanced(r, n).dirty = r.dirty /\ Advanced(r, n).wr /\ Advanced(r, n).mod = r.mod
  <2> DEFINE a == Advanced(r, n)
             m == EndOf(r, n)
             w == r.fptr + n
  <2>1. a = [r EXCEPT !.fptr = w, !.objsize = m]
    BY DEF Advanced, EndOf
  <2>2. w \in 0 .. MaxSize /\ m \in 0 .. MaxSize
    BY <1>2
  <2> HIDE DEF a, m, w
  <2>3. /\ a \in FilRec /\ a.fptr = w /\ a.objsize = m /\ a.open = r.open /\ a.err = r.err
        /\ a.sclust = r.sclust /\ a.clust = r.clust /\ a.sect = r.sect /\ a.buf = r.buf
        /\ a.dirty = r.dirty /\ a.wr = r.wr /\ a.mod = r.mod
    BY <2>1, <2>2 DEF FilRec
  <2> QED BY <2>3 DEF a, m, w
<1>5. /\ x \in FilRec /\ x.fptr = r.fptr + n /\ x.objsize = EndOf(r, n) /\ x.open
      /\ x.err = "none" /\ x.sclust = r.sclust /\ x.clust = r.clust /\ x.sect = r.sect
      /\ x.buf = r.buf /\ x.dirty = r.dirty /\ x.wr
      /\ x.mod = (r.mod \/ call.left = n)
  <2> DEFINE a == Advanced(r, n)
  <2> HIDE DEF a
  <2>1. CASE call.left = n
    <3>1. x = [a EXCEPT !.mod = TRUE]
      BY <2>1 DEF Wrote, a
    <3> HIDE DEF x
    <3> QED BY <1>4, <2>1, <3>1 DEF FilRec, a
  <2>2. CASE call.left # n
    <3>1. x = a
      BY <2>2 DEF a
    <3> HIDE DEF x
    <3>2. r.mod \in BOOLEAN
      BY DEF FilRec
    <3> QED BY <1>4, <2>2, <3>1, <3>2 DEF a
  <2> QED BY <2>1, <2>2
<1> HIDE DEF x
<1>6. Placed(x, ch)
  <2>1. B(r.fptr + n) = 0 => OnSector(x)
    BY <1>5 DEF OnSector, B
  <2>2. K(r.fptr + n) = K(r.fptr) => SectorOf(x) = SectorOf(r)
    BY <1>5 DEF SectorOf, K
  <2> QED BY <1>2, <1>5, <2>1, <2>2, Advance
<1>7. e \in EntryRec /\ u \in SUBSET Offset /\ Lags(r, e)
  BY Given
<1>8. Renewed(f, x, e, u)
  BY <1>3 DEF Renewed, IInv
<1>9. Lags(x, e)
  <2>1. e.size \in Nat
    BY <1>7, <1>2 DEF EntryRec
  <2> SUFFICES ASSUME ~x.mod PROVE e = Empty \/ (e.sclust = x.sclust /\ e.size <= x.objsize)
    BY DEF Lags
  <2>2. ~r.mod
    BY <1>5
  <2>3. e = Empty \/ (e.sclust = r.sclust /\ e.size <= r.objsize)
    BY <1>7, <2>2 DEF Lags
  <2> HIDE DEF e
  <2> QED BY <1>2, <1>5, <2>1, <2>3
<1>10. Held(x, e, ch)
  BY <1>5, <1>7, <1>9 DEF Held, Bytes
<1>11. Mine(f, x, e, ch, call') /\ (call' = NoCall \/ (call' \in Calls /\ call'.f = f))
  <2>1. CASE call.left = n
    <3>1. call' = NoCall
      BY <1>3, <2>1
    <3>2. Idle(x, e, ch)
      BY <1>2, <1>5, <1>6, <2>1 DEF Idle, Agrees
    <3> QED BY <1>10, <3>1, <3>2 DEF Mine, Busy
  <2>2. CASE call.left # n
    <3>1. call' \in Calls /\ call'.f = f /\ call'.op = "write" /\ call'.left = call.left - n
      BY <1>1, <1>2, <1>3, <2>2 DEF Calls
    <3>2. Writing(x, ch, call'.left)
      BY <1>2, <1>5, <1>6, <2>2, <3>1 DEF Writing
    <3>3. InCall(x, e, ch, call') /\ call' # NoCall
      BY <1>5, <3>1, <3>2 DEF InCall, NoCall
    <3> QED BY <1>10, <3>1, <3>3 DEF Mine, Busy
  <2> QED BY <2>1, <2>2
<1>12. Turn(f) /\ ReadsRight'
  BY <1>1, <1>3, <1>11 DEF Turn, IInv, ReadsRight
<1>13. Put(Heads, f, HeadOf(x, e), k)
  BY <1>5 DEF HeadOf
<1>14. ~stray' => Data(f, x, e, ch, disk', u)
  <2> SUFFICES ASSUME ~stray PROVE Data(f, x, e, ch, d, u)
    BY <1>3
  <2>1. Sound(f, x, ch, d, u)
    BY <1>5
  <2> QED BY <1>5, <2>1 DEF Data
<1>15. Leads(f, Heads, fat, k, fat', ch) /\ (~stray' => Clean(f, M, disk, disk'))
  BY <1>3
<1> HIDE DEF e, u
<1> QED BY <1>5, <1>7, <1>8, <1>11, <1>12, <1>13, <1>14, <1>15, Frame

(* In the middle of a turn that writes: the FAT is t, the first clusters k.*)
MayWrite(f, r, d, t, s, k) ==
    /\ Midway(f, r, d, s)
    /\ r.fptr = fil[f].fptr /\ r.wr /\ r.fptr <= r.objsize /\ Lags(r, entry[f])
    /\ Put(Heads, f, r.sclust, k) /\ Leads(f, Heads, fat, k, t, s)

LEMMA LedIsGood ==
    ASSUME NEW f \in File, NEW h, NEW t, NEW k, NEW u, NEW s, Leads(f, h, t, k, u, s)
    PROVE  Good(s, k[f], u)
BY VolumeChains DEF Leads

LEMMA FittedKeeps ==
    ASSUME IInv, NEW f \in File, Running("write", f), NEW r, NEW d, NEW t, NEW s, NEW k,
           MayWrite(f, r, d, t, s, k), r.sect = SectorOf(r),
           Fitted(f, r, d, t), UNCHANGED <<entry, cached, misread, stray>>
    PROVE  IInv'
<1> DEFINE p == r.fptr
           n == Lesser(SS - (r.fptr % SS), call.left)
           new == r.fptr .. r.fptr + n - 1
           x == [r EXCEPT !.buf = Patched(f, r, new), !.dirty = TRUE]
           e == ForgetOnDisk(d, f, new)
           u == undef[f]
           M == Members(s)
<1>1. /\ call.left \in Nat \ {0} /\ fil[f].fptr + call.left <= MaxSize
  BY RunningIs, GeometryAssumption DEF InCall, Writing
<1>2. /\ Fine(M, r, d) /\ Clean(f, M, disk, d) /\ r.open /\ r.err = "none"
      /\ Covers(s, r.objsize) /\ There(r, s) /\ (~stray => Sound(f, r, s, d, u))
      /\ p = fil[f].fptr /\ r.wr /\ p <= r.objsize /\ Lags(r, entry[f])
      /\ Put(Heads, f, r.sclust, k) /\ Leads(f, Heads, fat, k, t, s)
  BY DEF MayWrite, Midway
<1>3. r \in FilRec /\ d \in Disk /\ p \in Nat
  BY <1>2 DEF Fine, FilRec
<1>4. n \in 1 .. call.left /\ n \in Nat \ {0} /\ B(p) + n <= SS
  BY <1>1, <1>3, RestFits
<1>5. p + n <= MaxSize
  BY <1>1, <1>2, <1>3, <1>4, GeometryAssumption
<1>6. Distinct(s)
  BY <1>2, LedIsGood DEF Good
<1>7. Written(f, x, n, e, t)
  BY DEF Fitted, Patched
<1> HIDE DEF n, new
<1>8. new = r.fptr .. r.fptr + n - 1
  BY DEF new
<1>9. /\ Patched(f, r, new) \in Content
      /\ Covers(s, EndOf(r, n)) /\ EndOf(r, n) \in 0 .. MaxSize
      /\ \A w, y : /\ Sound(f, r, s, d, w)
                   /\ y.sect = r.sect /\ y.dirty = TRUE /\ y.objsize = EndOf(r, n)
                   /\ y.buf = Patched(f, r, new)
                   => Sound(f, y, s, ForgetOnDisk(d, f, new), w \ new)
  <2> HIDE DEF M, u, e, x
  <2> QED BY <1>2, <1>3, <1>4, <1>5, <1>6, <1>8, PatchedSound
<1>10. /\ x \in FilRec /\ x.open /\ x.err = "none" /\ x.wr /\ x.fptr = p /\ x.buf = Patched(f, r, new)
       /\ x.dirty = TRUE /\ x.sect = r.sect /\ x.objsize = r.objsize /\ x.sclust = r.sclust
       /\ x.clust = r.clust /\ x.mod = r.mod
  BY <1>2, <1>3, <1>9 DEF FilRec
<1>11. e \in Disk /\ Clean(f, M, d, e)
  BY <1>3, ForgetsOnly
<1>12. r.sect \in Sector /\ r.sect[1] \in M
  BY <1>2, <1>3, ThereIsSector
<1> HIDE DEF x, e, M
<1>13. Clean(f, M, disk, e)
  BY <1>2, <1>11, CleanTwice
<1>14. Q(p + n - 1) = Q(p) /\ (B(p + n) = 0 \/ K(p + n) = K(p))
  <2> HIDE DEF p
  <2>1. /\ \A i \in p .. p + n - 1 : i \in Nat /\ Q(i) = Q(p)
        /\ B(p + n) = 0 \/ (Q(p + n) = Q(p) /\ K(p + n) = K(p))
    BY <1>3, <1>4, Within
  <2>2. p + n - 1 \in p .. p + n - 1
    BY <1>3, <1>4
  <2> QED BY <2>1, <2>2
<1>15. There(x, s) /\ SectorOf(x) = SectorOf(r) /\ EndOf(x, n) = EndOf(r, n) /\ Lags(x, entry[f])
  BY <1>2, <1>10 DEF There, SectorOf, EndOf, Lags
<1>16. ~stray => \A y : /\ y.sect = x.sect /\ y.buf = x.buf /\ y.dirty = x.dirty
                        /\ y.objsize = EndOf(x, n) /\ y.err = "none"
                        => Sound(f, y, s, e, undef[f] \ (x.fptr .. x.fptr + n - 1))
  <2> SUFFICES ASSUME ~stray, NEW y, y.sect = x.sect, y.buf = x.buf, y.dirty = x.dirty,
                      y.objsize = EndOf(x, n)
               PROVE  Sound(f, y, s, e, u \ new)
    BY <1>8, <1>10
  <2>1. /\ Sound(f, r, s, d, u) /\ y.sect = r.sect /\ y.dirty = TRUE /\ y.objsize = EndOf(r, n)
        /\ y.buf = Patched(f, r, new)
    BY <1>2, <1>10, <1>15
  <2> HIDE DEF u
  <2> QED BY <1>9, <2>1 DEF e
<1>17. /\ x.dirty => x.sect \in Sector /\ x.sect[1] \in Members(s)
       /\ Put(Heads, f, x.sclust, k) /\ Q(x.fptr + n - 1) = Q(x.fptr)
       /\ B(x.fptr + n) = 0 \/ (K(x.fptr + n) = K(x.fptr) /\ x.sect = SectorOf(x))
       /\ Covers(s, EndOf(x, n)) /\ EndOf(x, n) \in 0 .. MaxSize
       /\ M \subseteq Members(OwnChain(f)) \cup Members(s)
       /\ x.fptr = fil[f].fptr /\ x.buf \in Content
  BY <1>2, <1>9, <1>10, <1>12, <1>14, <1>15 DEF M
<1> QED BY <1>2, <1>4, <1>7, <1>10, <1>11, <1>13, <1>15, <1>16, <1>17, WrittenKeeps

LEMMA StraightKeeps ==
    ASSUME IInv, NEW f \in File, Running("write", f), NEW r, NEW d, NEW t, NEW s, NEW k,
           MayWrite(f, r, d, t, s, k), ~r.dirty, OnSector(r), call.left >= SS,
           Straight(f, r, d, t), UNCHANGED <<entry, cached, misread, stray>>
    PROVE  IInv'
<1> DEFINE p == r.fptr
           left == call.left
           j == Direct(r, left)
           n == Direct(r, call.left) * SS
           new == r.fptr .. r.fptr + n - 1
           S == DirectSectors(r, call.left)
           r1 == [r EXCEPT !.buf = Forget(@, f, new)]
           d1 == ForgetOnDisk(d, f, new)
           e == [x \in Sector |-> IF x \in S
                                  THEN [b \in 0 .. SS - 1 |-> <<f, r.fptr - (r.fptr % BCS) + x[2] * SS + b>>]
                                  ELSE d1[x]]
           x == Refilled(r1, S, e)
           M == Members(s)
           u == undef[f]
           v == undef[f] \cup {i \in new : i < r.objsize}
<1>1. /\ left \in Nat \ {0} /\ fil[f].fptr + left <= MaxSize /\ call.f = f
  BY RunningIs, GeometryAssumption DEF InCall, Writing
<1>2. /\ Fine(M, r, d) /\ Clean(f, M, disk, d) /\ r.open /\ r.err = "none"
      /\ Covers(s, r.objsize) /\ There(r, s) /\ (~stray => Sound(f, r, s, d, u))
      /\ p = fil[f].fptr /\ r.wr /\ p <= r.objsize /\ Lags(r, entry[f])
      /\ Put(Heads, f, r.sclust, k) /\ Leads(f, Heads, fat, k, t, s)
  BY DEF MayWrite, Midway
<1>3. r \in FilRec /\ d \in Disk /\ p \in Nat /\ r.buf \in Content
  BY <1>2 DEF Fine, FilRec
<1>4. /\ j \in Nat \ {0} /\ K(p) + j <= CSize /\ n = SS * j /\ n \in Nat /\ n <= left
      /\ S = Row(r.clust, K(p), j)
  <2> HIDE DEF left
  <2>1. /\ Direct(r, left) \in Nat \ {0} /\ K(r.fptr) + Direct(r, left) <= CSize
        /\ SS * Direct(r, left) <= left /\ Direct(r, left) * SS = SS * Direct(r, left)
        /\ SS * Direct(r, left) \in Nat
        /\ DirectSectors(r, left) = Row(r.clust, K(r.fptr), Direct(r, left))
    <3>1. left \in Nat /\ left >= SS
      BY <1>1 DEF left
    <3> QED BY <1>2, <1>3, <3>1, DirectFits
  <2> QED BY <2>1 DEF left
<1>5. \/ Written(f, x, n, e, t)
      \/ Abort(f, r1, "disk", d1, t) /\ undef' = [undef EXCEPT ![f] = v]
  BY DEF Straight
<1>6. e = Laid(f, p, S, d1)
  BY DEF Laid, ByteIn
<1>7. p + n <= MaxSize
  BY <1>1, <1>2, <1>3, <1>4, GeometryAssumption
<1>8. Distinct(s)
  BY <1>2, LedIsGood DEF Good
<1>9. d1 \in Disk /\ Clean(f, M, d, d1) /\ Forget(r.buf, f, new) \in Content
  <2>1. d1 \in Disk /\ Clean(f, M, d, d1)
    BY <1>3, ForgetsOnly
  <2> DEFINE y == r.buf
  <2>2. y \in Content
    BY <1>3
  <2> HIDE DEF y, new
  <2>3. Forget(y, f, new) \in Content
    BY <2>2, Forgotten
  <2> QED BY <2>1, <2>3 DEF y
<1>10. /\ r1 \in FilRec /\ r1.buf = Forget(r.buf, f, new) /\ r1.sect = r.sect /\ r1.dirty = FALSE
       /\ r1.objsize = r.objsize /\ r1.err = "none" /\ r1.sclust = r.sclust /\ r1.mod = r.mod
       /\ r1.fptr = r.fptr /\ r1.clust = r.clust /\ r1.open /\ r1.wr
  <2> HIDE DEF new
  <2> QED BY <1>2, <1>3, <1>9 DEF FilRec
<1>11. CASE Abort(f, r1, "disk", d1, t) /\ undef' = [undef EXCEPT ![f] = v]
  <2>1. v \in SUBSET Offset
    <3>1. new \subseteq Offset
      BY <1>3, <1>4, <1>7, GeometryAssumption DEF Offset
    <3>2. undef[f] \in SUBSET Offset
      BY Given
    <3> QED BY <3>1, <3>2
  <2>2. ~stray => Sound(f, [r1 EXCEPT !.err = "disk"], s, d1, v)
    <3> SUFFICES ASSUME ~stray PROVE Sound(f, [r1 EXCEPT !.err = "disk"], s, d1, v)
      OBVIOUS
    <3> DEFINE y == [r1 EXCEPT !.err = "disk"]
    <3>1. /\ y.sect = r.sect /\ y.dirty = r.dirty /\ y.objsize = r.objsize
          /\ y.err # "none" /\ y.buf = Forget(r.buf, f, new)
      <4>1. r.dirty = FALSE
        BY <1>3 DEF FilRec
      <4> HIDE DEF r1
      <4> QED BY <1>10, <4>1 DEF FilRec
    <3>2. \A i \in 0 .. r.objsize - 1 : i \notin v => i \notin u /\ i \notin new
      BY <1>3 DEF FilRec
    <3>3. Sound(f, r, s, d, u)
      BY <1>2
    <3> HIDE DEF y, u, v, new, r1, d1
    <3>4. Sound(f, y, s, ForgetOnDisk(d, f, new), v)
      BY <1>2, <1>3, <3>1, <3>2, <3>3, ForgottenSound
    <3> QED BY <3>4 DEF y, d1
  <2> HIDE DEF r1, d1, v, new, M, e, x
  <2>3. Put(undef, f, v, undef') /\ Clean(f, M, disk, d1)
    BY <1>2, <1>9, <1>11, CleanTwice DEF Put
  <2>4. r1.open /\ r1.buf \in Content /\ ~r1.dirty /\ Lags(r1, entry[f])
    BY <1>2, <1>9, <1>10 DEF Lags
  <2>5. /\ Put(Heads, f, r1.sclust, k) /\ Covers(s, r1.objsize)
        /\ M \subseteq Members(OwnChain(f)) \cup Members(s)
    BY <1>2, <1>10 DEF M
  <2> QED BY <1>1, <1>2, <1>9, <1>10, <1>11, <2>1, <2>2, <2>3, <2>4, <2>5, AbortKeeps
<1>12. CASE Written(f, x, n, e, t)
  <2> HIDE DEF new, S, e
  <2>1. new = r.fptr .. r.fptr + n - 1
    BY DEF new
  <2> HIDE DEF n, j, d1
  <2>2. e = Laid(f, r.fptr, S, ForgetOnDisk(d, f, new))
    BY <1>6 DEF d1
  <2>3. /\ n \in Nat \ {0} /\ e \in Disk /\ Clean(f, Members(s), d, e)
        /\ Covers(s, EndOf(r, n)) /\ EndOf(r, n) \in 0 .. MaxSize
        /\ Q(r.fptr + n - 1) = Q(r.fptr) /\ B(r.fptr + n) = 0
        /\ \A w, y : /\ Sound(f, r, s, d, w)
                     /\ y.sect = r.sect /\ y.objsize = EndOf(r, n) /\ y.dirty = FALSE
                     /\ y.buf = IF r.sect \in S THEN e[r.sect] ELSE Forget(r.buf, f, new)
                     => Sound(f, y, s, e, w \ new)
    <3>1. /\ f \in File /\ r \in FilRec /\ d \in Disk /\ r.buf \in Content /\ r.err = "none"
          /\ ~r.dirty /\ There(r, s) /\ Distinct(s) /\ Covers(s, r.objsize) /\ OnSector(r)
          /\ r.fptr <= r.objsize /\ j \in Nat \ {0} /\ K(r.fptr) + j <= CSize
          /\ n = SS * j /\ r.fptr + n <= MaxSize /\ new = r.fptr .. r.fptr + n - 1
          /\ S = Row(r.clust, K(r.fptr), j)
          /\ e = Laid(f, r.fptr, S, ForgetOnDisk(d, f, new))
      BY <1>2, <1>3, <1>4, <1>7, <1>8, <2>1, <2>2
    <3> HIDE DEF u, v, x, r1, p, left, M
    <3>2. Laying(f, r, s, d, j, n, new, S, e)
      BY ONLY <3>1 DEF Laying
    <3>3. Lays(f, r, s, d, n, new, S, e)
      BY ONLY <3>2, StraightSound
    <3> QED BY ONLY <3>3 DEF Lays
  <2>4. /\ x \in FilRec /\ x.open /\ x.err = "none" /\ x.wr /\ x.fptr = p /\ x.dirty = FALSE
        /\ x.buf = (IF r.sect \in S THEN e[r.sect] ELSE Forget(r.buf, f, new))
        /\ x.sect = r.sect /\ x.objsize = r.objsize /\ x.sclust = r.sclust
        /\ x.clust = r.clust /\ x.mod = r.mod /\ x.buf \in Content
    <3> DEFINE g == e[r.sect]
    <3>1. r.sect \in S => g \in Content
      <4>1. \A y \in S : y \in Sector
        BY <1>2, <1>3, <1>4, RunIsInChain
      <4> QED BY <2>3, <4>1 DEF Disk
    <3> HIDE DEF r1
    <3>2. x = IF r.sect \in S THEN [r1 EXCEPT !.buf = g, !.dirty = FALSE] ELSE r1
      BY <1>10 DEF Refilled
    <3> HIDE DEF x, g
    <3>3. CASE r.sect \in S
      BY <1>10, <3>1, <3>2, <3>3 DEF FilRec, g
    <3>4. CASE r.sect \notin S
      BY <1>9, <1>10, <3>2, <3>4
    <3> QED BY <3>3, <3>4
  <2> HIDE DEF x, M
  <2>5. Clean(f, M, disk, e)
    BY <1>2, <2>3, CleanTwice DEF M
  <2>6. There(x, s) /\ EndOf(x, n) = EndOf(r, n) /\ Lags(x, entry[f])
    BY <1>2, <2>4 DEF There, EndOf, Lags
  <2>7. ~stray => \A y : /\ y.sect = x.sect /\ y.buf = x.buf /\ y.dirty = x.dirty
                         /\ y.objsize = EndOf(x, n) /\ y.err = "none"
                         => Sound(f, y, s, e, undef[f] \ (x.fptr .. x.fptr + n - 1))
    <3> SUFFICES ASSUME ~stray, NEW y, y.sect = x.sect, y.buf = x.buf, y.dirty = x.dirty,
                        y.objsize = EndOf(x, n)
                 PROVE  Sound(f, y, s, e, u \ new)
      BY <2>1, <2>4
    <3>1. /\ Sound(f, r, s, d, u) /\ y.sect = r.sect /\ y.dirty = FALSE /\ y.objsize = EndOf(r, n)
          /\ y.buf = IF r.sect \in S THEN e[r.sect] ELSE Forget(r.buf, f, new)
      BY <1>2, <2>4, <2>6
    <3> HIDE DEF u
    <3> QED BY <2>3, <3>1
  <2>8. /\ ~x.dirty /\ Put(Heads, f, x.sclust, k) /\ Q(x.fptr + n - 1) = Q(x.fptr)
        /\ B(x.fptr + n) = 0
        /\ Covers(s, EndOf(x, n)) /\ EndOf(x, n) \in 0 .. MaxSize
        /\ M \subseteq Members(OwnChain(f)) \cup Members(s) /\ x.fptr = fil[f].fptr
    BY <1>2, <2>3, <2>4, <2>6 DEF M
  <2>9. n \in 1 .. call.left
    BY <1>1, <1>4, <2>3
  <2> QED BY <1>2, <1>12, <2>3, <2>4, <2>5, <2>6, <2>7, <2>8, <2>9, WrittenKeeps
<1> QED BY <1>5, <1>11, <1>12

LEMMA AdoptIs ==
    ASSUME NEW r \in FilRec, NEW c \in Cluster, NEW x, x = Adopt(r, c)
    PROVE  /\ x \in FilRec /\ x.open = r.open /\ x.wr = r.wr /\ x.fptr = r.fptr
           /\ x.objsize = r.objsize /\ x.clust = c /\ x.sect = r.sect /\ x.buf = r.buf
           /\ x.dirty = r.dirty /\ x.mod = r.mod /\ x.err = r.err
           /\ x.sclust = IF r.sclust = None THEN c ELSE r.sclust
<1> DEFINE a == IF r.sclust = None THEN c ELSE r.sclust
<1>1. a \in Cluster \cup {None} /\ x = [r EXCEPT !.clust = c, !.sclust = a]
  BY DEF Adopt, FilRec
<1> HIDE DEF a
<1>2. /\ x \in FilRec /\ x.open = r.open /\ x.wr = r.wr /\ x.fptr = r.fptr
      /\ x.objsize = r.objsize /\ x.clust = c /\ x.sect = r.sect /\ x.buf = r.buf
      /\ x.dirty = r.dirty /\ x.mod = r.mod /\ x.err = r.err /\ x.sclust = a
  BY <1>1 DEF FilRec
<1> QED BY <1>2 DEF a

(* A file without a first cluster has no bytes.                            *)
LEMMA Bare ==
    ASSUME IInv, NEW f \in File, First(f) = None
    PROVE  /\ OwnChain(f) = <<>> /\ Bytes(fil[f], entry[f]) = 0
           /\ fil[f].open /\ ~fil[f].mod => entry[f] = Empty
<1> DEFINE r == fil[f]
           e == entry[f]
<1>1. /\ OwnChain(f) = <<>> /\ Covers(OwnChain(f), Bytes(r, e)) /\ e \in EntryRec
      /\ Held(r, e, OwnChain(f)) /\ r \in FilRec /\ First(f) = HeadOf(r, e)
  BY Given, NoChain DEF OwnChain
<1>2. Bytes(r, e) = 0
  <2>1. Len(OwnChain(f)) = 0
    BY <1>1
  <2>2. Bytes(r, e) \in Nat /\ Bytes(r, e) <= BCS * 0
    BY <1>1, <2>1 DEF Covers
  <2> QED BY <2>2, Sizes
<1>3. ASSUME r.open, ~r.mod PROVE e = Empty
  <2>1. e = Empty \/ (e.sclust = None /\ e.size <= 0)
    BY <1>1, <1>2, <1>3 DEF Held, Lags, HeadOf, Bytes
  <2>2. e \in EntryRec
    BY <1>1
  <2> HIDE DEF e
  <2>3. ASSUME e.sclust = None, e.size <= 0 PROVE e = Empty
    <3>1. e.size = 0
      BY <2>2, <2>3, GeometryAssumption DEF EntryRec
    <3> QED BY <2>2, <2>3, <3>1 DEF EntryRec, Empty
  <2> QED BY <2>1, <2>3
<1> QED BY <1>1, <1>2, <1>3

(* The object with the cluster c for its position in a chain w that begins *)
(* with that of its file.                                                  *)
LEMMA Adopts ==
    ASSUME IInv, NEW f \in File, Running("write", f), NEW c \in Cluster,
           NEW x, x = Adopt(fil[f], c), NEW w, Longer(OwnChain(f), w), There(x, w),
           NEW t, NEW k, Put(Heads, f, x.sclust, k), Leads(f, Heads, fat, k, t, w)
    PROVE  MayWrite(f, x, disk, t, w, k)
<1> DEFINE q == fil[f]
           s == OwnChain(f)
           u == undef[f]
<1>1. /\ q.open /\ q.err = "none" /\ q.wr /\ q.fptr <= q.objsize
  BY RunningIs DEF InCall, Writing
<1>2. /\ q \in FilRec /\ disk \in Disk /\ Held(q, entry[f], s) /\ Covers(s, q.objsize)
      /\ ~stray => Sound(f, q, s, disk, u)
  BY <1>1, Given DEF Data, Bytes
<1>3. /\ x \in FilRec /\ x.open = q.open /\ x.wr = q.wr /\ x.fptr = q.fptr
      /\ x.objsize = q.objsize /\ x.clust = c /\ x.sect = q.sect /\ x.buf = q.buf
      /\ x.dirty = q.dirty /\ x.mod = q.mod /\ x.err = q.err
      /\ x.sclust = IF q.sclust = None THEN c ELSE q.sclust
  BY <1>2, AdoptIs
<1>4. Members(s) \subseteq Members(w) /\ Covers(w, q.objsize)
  BY <1>2, LongerHas, LongerKeeps
<1>5. ~stray => Sound(f, x, w, disk, u)
  <2>1. Sound(f, q, s, disk, u) => Sound(f, x, s, disk, u)
    BY <1>3 DEF Sound
  <2>2. Covers(s, x.objsize)
    BY <1>2, <1>3
  <2> HIDE DEF u, q, s
  <2>3. Longer(s, w)
    BY DEF s
  <2>4. Sound(f, x, s, disk, u) <=> Sound(f, x, w, disk, u)
    BY <2>2, <2>3, LongerSound
  <2> QED BY <1>2, <2>1, <2>4
<1>6. Lags(x, entry[f])
  <2>1. CASE q.sclust = None
    <3>1. First(f) = None
      BY <1>1, <2>1 DEF First
    <3> QED BY <1>1, <1>3, <3>1, Bare DEF Lags
  <2>2. CASE q.sclust # None
    BY <1>1, <1>2, <1>3, <2>2 DEF Lags, Held
  <2> QED BY <2>1, <2>2
<1>7. Fine(Members(w), x, disk)
  BY <1>1, <1>2, <1>3, <1>4 DEF Fine, Held
<1> QED BY <1>1, <1>3, <1>4, <1>5, <1>6, <1>7, CleanSame DEF MayWrite, Midway

(* The first cluster of a file that has one is that of its chain.          *)
LEMMA Leading ==
    ASSUME IInv, NEW f \in File, First(f) # None
    PROVE  /\ First(f) \in Cluster /\ 1 \in 1 .. Len(OwnChain(f)) /\ OwnChain(f)[1] = First(f)
           /\ OwnChain(f) \in Seq(Cluster) /\ Len(OwnChain(f)) \in Nat
<1> DEFINE s == OwnChain(f)
           a == First(f)
<1>1. Good(s, a, fat) /\ a \in Cluster
  BY Given DEF FilRec, EntryRec, First
<1>2. s \in Seq(Cluster) /\ Len(s) \in Nat
  BY <1>1 DEF Good
<1> HIDE DEF s, a
<1>3. Len(s) # 0
  BY <1>1, <1>2 DEF Good, Whole, After
<1>4. Len(s) > 0
  BY <1>2, <1>3
<1>5. 1 \in 1 .. Len(s) /\ s[1] = a
  BY <1>1, <1>4, FirstIs
<1> QED BY <1>1, <1>2, <1>5 DEF s, a

LEMMA SameHead ==
    ASSUME NEW f \in File, NEW c, c = First(f)
    PROVE  Put(Heads, f, c, Heads)
BY DEF Put, Heads

(* f_write finds or makes the cluster of its position.                     *)
LEMMA Acquired ==
    ASSUME IInv, NEW f \in File, Running("write", f), NEW o \in Acquire(fil[f])
    PROVE  /\ o.res \in {"ok", "full", "disk"}
           /\ o.res # "ok" => Leads(f, Heads, fat, Heads, o.fat, OwnChain(f))
           /\ o.res = "ok" => \E w, k : MayWrite(f, Adopt(fil[f], o.clst), disk, o.fat, w, k)
<1> DEFINE r == fil[f]
           s == OwnChain(f)
           p == r.fptr
           c == o.clst
           x == Adopt(r, c)
<1>1. /\ r.open /\ r.err = "none" /\ r.wr /\ p <= r.objsize /\ Placed(r, s)
      /\ r \in FilRec /\ p \in Nat /\ First(f) = r.sclust /\ s \in Seq(Cluster) /\ Len(s) \in Nat
  BY RunningIs, Given, GeometryAssumption DEF InCall, Writing, First, FilRec, Placed
<1>2. Leads(f, Heads, fat, Heads, fat, s)
  BY Unled
<1>3. c \in Cluster => /\ x.fptr = p /\ x.clust = c
                       /\ x.sclust = IF r.sclust = None THEN c ELSE r.sclust
  BY <1>1, AdoptIs
<1>4. ASSUME NEW w, Longer(s, w), There(x, w), c \in Cluster,
             NEW k, Put(Heads, f, x.sclust, k), Leads(f, Heads, fat, k, o.fat, w)
      PROVE  MayWrite(f, x, disk, o.fat, w, k)
  <2> DEFINE t == o.fat
  <2>1. Leads(f, Heads, fat, k, t, w) /\ c \in Cluster /\ x = Adopt(fil[f], c)
        /\ Longer(OwnChain(f), w) /\ There(x, w) /\ Put(Heads, f, x.sclust, k)
    BY <1>4
  <2> HIDE DEF t, x, c
  <2>2. MayWrite(f, x, disk, t, w, k)
    BY <2>1, Adopts
  <2> QED BY <2>2 DEF t
<1>5. ASSUME r.sclust # None, There(x, s), c \in Cluster, o.fat = fat
      PROVE  MayWrite(f, x, disk, o.fat, s, Heads)
  <2>1. Put(Heads, f, x.sclust, Heads)
    BY <1>1, <1>3, <1>5, SameHead
  <2> HIDE DEF x, s
  <2> QED BY <1>1, <1>2, <1>4, <1>5, <2>1, LongerSame
<1>6. Len(s) > 0 => r.sclust # None
  BY <1>1, Bare
<1>7. CASE ~OnCluster(r)
  <2>1. o.res = "ok" /\ c = r.clust /\ o.fat = fat
    BY <1>7 DEF Acquire, Outcome
  <2>2. There(r, s)
    BY <1>1, <1>7, Inside
  <2>3. c \in Cluster /\ Len(s) > 0
    BY <1>1, <2>1, <2>2 DEF There
  <2>4. There(x, s)
    <3> HIDE DEF x
    <3> QED BY <1>3, <2>1, <2>2, <2>3 DEF There
  <2> QED BY <1>5, <1>6, <2>1, <2>3, <2>4
<1>8. CASE OnCluster(r) /\ p > 0
  <2>1. Q(p) = Q(p - 1) + 1
    <3> HIDE DEF p
    <3>1. p % BCS = 0
      BY <1>8 DEF OnCluster, p
    <3> QED BY <1>1, <1>8, <3>1, Step
  <2> DEFINE m == Q(p)
  <2>2. r.clust = s[m] /\ m \in 1 .. Len(s)
    BY <1>1, <1>8, <2>1 DEF Placed
  <2>3. o \in create_chain(s[m])
    BY <1>8, <2>2 DEF Acquire
  <2> HIDE DEF m
  <2>4. /\ o.res \in {"ok", "full", "disk"} /\ (o.res = "full" => o.fat = fat)
        /\ o.res # "ok" => Leads(f, Heads, fat, Heads, o.fat, s)
        /\ o.res = "ok" => \E w : /\ Leads(f, Heads, fat, Heads, o.fat, w)
                                  /\ Longer(s, w) /\ m + 1 \in 1 .. Len(w) /\ w[m + 1] = c
    BY <2>2, <2>3, NewNext
  <2>5. ASSUME o.res = "ok" PROVE \E w, k : MayWrite(f, x, disk, o.fat, w, k)
    <3>1. PICK w : /\ Leads(f, Heads, fat, Heads, o.fat, w)
                   /\ Longer(s, w) /\ m + 1 \in 1 .. Len(w) /\ w[m + 1] = c
      BY <2>4, <2>5
    <3>2. w \in Seq(Cluster) /\ Len(w) \in Nat
      BY <3>1 DEF Longer
    <3>3. c \in Cluster
      BY <3>1, <3>2
    <3>4. There(x, w)
      <4> HIDE DEF x, p, c
      <4> QED BY <1>3, <3>1, <3>2, <3>3 DEF There, m
    <3>5. Put(Heads, f, x.sclust, Heads)
      <4>1. r.sclust # None
        BY <1>1, <1>6, <2>2
      <4> HIDE DEF x
      <4> QED BY <1>1, <1>3, <3>3, <4>1, SameHead
    <3> HIDE DEF x
    <3>6. MayWrite(f, x, disk, o.fat, w, Heads)
      BY <1>4, <3>1, <3>3, <3>4, <3>5
    <3> QED BY <3>6
  <2> QED BY <2>4, <2>5
<1>9. CASE OnCluster(r) /\ ~(p > 0) /\ r.sclust = None
  <2>1. p = 0 /\ Q(p) = 0
    BY <1>1, <1>9, Sizes DEF Q
  <2>2. o \in create_chain(None) /\ First(f) = None
    BY <1>1, <1>9, <2>1 DEF Acquire
  <2> DEFINE k == [Heads EXCEPT ![f] = c]
  <2>3. Put(Heads, f, o.clst, k)
    BY DEF Put
  <2> HIDE DEF k
  <2>4. /\ o.res \in {"ok", "full", "disk"} /\ (o.res # "ok" => o.fat = fat)
        /\ o.res = "ok" => c \in Cluster /\ Leads(f, Heads, fat, k, o.fat, <<c>>)
        /\ s = <<>>
    BY <2>2, <2>3, NewFirst
  <2>5. ASSUME o.res = "ok" PROVE MayWrite(f, x, disk, o.fat, <<c>>, k)
    <3> DEFINE w == <<c>>
    <3>1. w \in Seq(Cluster) /\ Len(w) = 1 /\ w[1] = c /\ c \in Cluster
      BY <2>4, <2>5
    <3>2. Leads(f, Heads, fat, k, o.fat, w)
      BY <2>4, <2>5
    <3>3. Longer(s, w)
      <4> HIDE DEF w
      <4>1. s = <<>> /\ Len(s) = 0 /\ s \in Seq(Cluster)
        BY <1>1, <2>4
      <4> QED BY <3>1, <4>1 DEF Longer
    <3> HIDE DEF w, x
    <3>4. There(x, w) /\ Put(Heads, f, x.sclust, k)
      BY <1>3, <1>9, <2>1, <2>3, <3>1 DEF There
    <3>5. MayWrite(f, x, disk, o.fat, w, k)
      BY <1>4, <3>1, <3>2, <3>3, <3>4
    <3> QED BY <3>5 DEF w
  <2> QED BY <1>2, <2>4, <2>5
<1>10. CASE OnCluster(r) /\ ~(p > 0) /\ r.sclust # None
  <2>1. p = 0 /\ Q(p) = 0
    BY <1>1, <1>10, Sizes DEF Q
  <2>2. o.res = "ok" /\ c = r.sclust /\ o.fat = fat
    BY <1>10, <2>1 DEF Acquire, Outcome
  <2>3. c \in Cluster /\ 1 \in 1 .. Len(s) /\ s[1] = c
    BY <1>1, <1>10, <2>2, Leading
  <2>4. There(x, s)
    <3> HIDE DEF x, c
    <3> QED BY <1>1, <1>3, <2>1, <2>3 DEF There
  <2> QED BY <1>5, <1>10, <2>2, <2>3, <2>4
<1> QED BY <1>7, <1>8, <1>9, <1>10

(* A turn of f_write goes on after a write-back or a read, or fails there. *)
LEMMA WriteMoves ==
    ASSUME IInv, NEW f \in File, Running("write", f), NEW r, NEW d, NEW t, NEW s, NEW k,
           MayWrite(f, r, d, t, s, k), NEW m, Moves(f, Members(s), s, undef[f], r, d, m)
    PROVE  /\ m.res \in {"ok", "disk"} /\ (m.r.dirty => r.dirty) /\ Same(r, m.r)
           /\ m.res = "ok" => MayWrite(f, m.r, m.disk, t, s, k)
           /\ Abort(f, m.r, "disk", m.disk, t) /\ UNCHANGED <<entry, cached, misread, stray, undef>>
                => IInv'
<1>1. /\ Midway(f, r, d, s) /\ r.fptr = fil[f].fptr /\ r.wr /\ r.fptr <= r.objsize
      /\ Lags(r, entry[f]) /\ Put(Heads, f, r.sclust, k) /\ Leads(f, Heads, fat, k, t, s)
      /\ Covers(s, r.objsize) /\ r.open
  BY DEF MayWrite, Midway
<1>2. /\ m.res = "ok" => Midway(f, m.r, m.disk, s)
      /\ m.res \in {"ok", "disk"} /\ Same(r, m.r) /\ (m.r.dirty => r.dirty)
      /\ Fine(Members(s), m.r, m.disk) /\ Clean(f, Members(s), disk, m.disk)
      /\ \A e \in {"disk", "int", "stream"} :
           ~stray => Sound(f, [m.r EXCEPT !.err = e], s, m.disk, undef[f])
  BY <1>1, MidwayMoves
<1> DEFINE x == m.r
           e == m.disk
<1>3. /\ x.fptr = fil[f].fptr /\ x.wr /\ x.fptr <= x.objsize /\ Lags(x, entry[f])
      /\ Put(Heads, f, x.sclust, k) /\ Covers(s, x.objsize) /\ x.open
  <2>1. /\ x.fptr = r.fptr /\ x.wr = r.wr /\ x.objsize = r.objsize /\ x.sclust = r.sclust
        /\ x.mod = r.mod /\ x.open = r.open
    BY <1>2 DEF Same
  <2> HIDE DEF x
  <2> QED BY <1>1, <2>1 DEF Lags
<1>4. m.res = "ok" => MayWrite(f, x, e, t, s, k)
  BY <1>1, <1>2, <1>3 DEF MayWrite
<1>5. ASSUME Abort(f, x, "disk", e, t), UNCHANGED <<entry, cached, misread, stray, undef>>
      PROVE  IInv'
  <2> DEFINE u == undef[f]
             M == Members(s)
             res == "disk"
  <2>1. /\ call.f = f /\ u \in SUBSET Offset /\ undef \in [File -> SUBSET Offset]
    BY RunningIs, Given DEF IInv
  <2>2. Put(undef, f, u, undef')
    BY <1>5, <2>1 DEF Put
  <2>3. /\ x \in FilRec /\ e \in Disk /\ x.buf \in Content /\ (x.dirty => x.sect \in Sector)
        /\ Clean(f, M, disk, e) /\ (~stray => Sound(f, [x EXCEPT !.err = res], s, e, u))
        /\ Abort(f, x, res, e, t) /\ res \in {"disk", "stream"}
        /\ M \subseteq Members(OwnChain(f)) \cup Members(s)
    BY <1>2, <1>5 DEF Fine
  <2> HIDE DEF u, M, x, e, res
  <2> QED BY <1>1, <1>3, <1>5, <2>1, <2>2, <2>3, AbortKeeps
<1> QED BY <1>2, <1>4, <1>5

LEMMA WriteStepKeeps ==
    ASSUME IInv, NEW f \in File, WriteStep(f)
    PROVE  IInv'
<1> DEFINE q == fil[f]
           s == OwnChain(f)
           Failed(x, res, d, t) == Abort(f, x, res, d, t) /\ UNCHANGED undef
           Full == fil' = [fil EXCEPT ![f] = Wrote(q)] /\ call' = NoCall
                   /\ UNCHANGED <<disk, fat, undef>>
           Goes(o) == \E m \in Flush(Adopt(q, o.clst), disk) :
                    IF m.res # "ok" THEN Failed(m.r, m.res, m.disk, o.fat)
                    ELSE IF call.left >= SS THEN Straight(f, m.r, m.disk, o.fat)
                    ELSE \E p \in Prepare(m.r, m.disk) :
                           IF p.res = "ok" THEN Fitted(f, p.r, p.disk, o.fat)
                                           ELSE Failed(p.r, p.res, p.disk, o.fat)
<1>1. Running("write", f) /\ UNCHANGED <<entry, cached, misread, stray>>
  BY DEF WriteStep
<1>2. /\ call.f = f /\ call.left \in Nat \ {0} /\ q.open /\ q.err = "none" /\ q.wr
      /\ q.fptr <= q.objsize /\ Placed(q, s) /\ q \in FilRec /\ disk \in Disk
      /\ Held(q, entry[f], s) /\ First(f) = q.sclust /\ undef[f] \in SUBSET Offset
      /\ undef \in [File -> SUBSET Offset]
  BY <1>1, RunningIs, Given, GeometryAssumption DEF InCall, Writing, First, IInv
<1>3. CASE ~OnSector(q) /\ Fitted(f, q, disk, fat)
  <2>1. There(q, s) /\ ~OnCluster(q)
    BY <1>2, <1>3, Inside, OnBoth
  <2>2. q.clust \in Cluster /\ Len(s) > 0
    BY <2>1 DEF There
  <2>3. q.sclust # None
    BY <1>2, <2>2, Bare
  <2> DEFINE c == q.clust
  <2>4. q = Adopt(q, c)
    <3> HIDE DEF q
    <3> QED BY <1>2, <2>3 DEF Adopt, FilRec
  <2>5. Put(Heads, f, q.sclust, Heads) /\ Leads(f, Heads, fat, Heads, fat, s) /\ Longer(s, s)
    BY <1>2, <2>1, SameHead, Unled, LongerSame DEF There
  <2>6. q.sect = SectorOf(q)
    BY <1>2, <1>3 DEF Placed
  <2> DEFINE w == s
             k == Heads
             t == fat
             d == disk
             x == q
  <2>7. MayWrite(f, x, d, t, w, k)
    <3>1. /\ c \in Cluster /\ x = Adopt(fil[f], c) /\ Longer(OwnChain(f), w) /\ There(x, w)
          /\ Put(Heads, f, x.sclust, k) /\ Leads(f, Heads, fat, k, t, w)
      BY <2>1, <2>2, <2>4, <2>5
    <3> HIDE DEF w, k, t, x, c
    <3>2. MayWrite(f, x, disk, t, w, k)
      BY <1>1, <3>1, Adopts
    <3> QED BY <3>2
  <2>8. Fitted(f, x, d, t) /\ x.sect = SectorOf(x)
    BY <1>3, <2>6
  <2> HIDE DEF w, k, t, d, x
  <2> QED BY <1>1, <2>7, <2>8, FittedKeeps
<1>4. ASSUME OnSector(q), NEW o \in Acquire(q),
             \/ o.res = "full" /\ Full
             \/ o.res \in {"int", "disk"} /\ Failed(q, o.res, disk, o.fat)
             \/ o.res = "ok" /\ Goes(o)
      PROVE  IInv'
  <2>1. /\ o.res \in {"ok", "full", "disk"}
        /\ o.res # "ok" => Leads(f, Heads, fat, Heads, o.fat, s)
        /\ o.res = "ok" => \E w, k : MayWrite(f, Adopt(q, o.clst), disk, o.fat, w, k)
    BY <1>1, <1>4, Acquired
  <2>2. CASE o.res = "full" /\ Full
    <3> DEFINE x == Wrote(q)
    <3>1. /\ x \in FilRec /\ x.open = q.open /\ x.wr = q.wr /\ x.fptr = q.fptr
          /\ x.objsize = q.objsize /\ x.clust = q.clust /\ x.sect = q.sect /\ x.buf = q.buf
          /\ x.dirty = q.dirty /\ x.mod = TRUE /\ x.err = q.err /\ x.sclust = q.sclust
      BY <1>2 DEF Wrote, FilRec
    <3> HIDE DEF x
    <3>2. Placed(x, s)
      BY <1>2, <3>1 DEF Placed, SectorOf, OnSector
    <3>3. Idle(x, entry[f], s)
      BY <1>2, <3>1, <3>2 DEF Idle, Agrees
    <3>4. Held(x, entry[f], s)
      BY <1>2, <3>1 DEF Held, Bytes, Lags
    <3>5. Mine(f, x, entry[f], s, call')
      BY <2>2, <3>3, <3>4 DEF Mine, Busy
    <3>6. Renewed(f, x, entry[f], undef[f])
      BY <1>1, <1>2, <2>2 DEF Renewed, x, IInv
    <3>7. ~stray => Data(f, x, entry[f], s, disk, undef[f])
      <4>1. ~stray => Sound(f, q, s, disk, undef[f])
        BY <1>2, Given DEF Data
      <4> QED BY <1>2, <3>1, <4>1 DEF Data, Sound
    <3>8. HeadOf(x, entry[f]) = First(f) /\ cached' \in BOOLEAN
      BY <1>1, <1>2, <3>1 DEF HeadOf, IInv
    <3> QED BY <1>1, <1>2, <2>2, <3>1, <3>5, <3>6, <3>7, <3>8, FrameStill
  <2>3. CASE o.res \in {"int", "disk"} /\ Failed(q, o.res, disk, o.fat)
    <3>1. Abort(f, q, "disk", disk, o.fat) /\ UNCHANGED undef /\ Leads(f, Heads, fat, Heads, o.fat, s)
      BY <2>1, <2>3
    <3>2. Put(Heads, f, q.sclust, Heads)
      BY <1>2, SameHead
    <3>3. ~stray => Sound(f, [q EXCEPT !.err = "disk"], s, disk, undef[f])
      <4> DEFINE u == undef[f]
      <4>1. ~stray => Sound(f, q, s, disk, u)
        BY <1>2, Given DEF Data
      <4> HIDE DEF u, q, s
      <4>2. ~stray => Sound(f, [q EXCEPT !.err = "disk"], s, disk, u)
        BY <1>2, <4>1, SoundInError
      <4> QED BY <4>2 DEF u
    <3> DEFINE u == undef[f]
               M == Members(s)
               res == "disk"
               d == disk
               t == o.fat
               k == Heads
    <3>4. /\ Put(undef, f, u, undef') /\ u \in SUBSET Offset
          /\ Abort(f, q, res, d, t) /\ d \in Disk /\ res \in {"disk", "stream"}
          /\ Put(Heads, f, q.sclust, k) /\ Leads(f, Heads, fat, k, t, s)
          /\ ~stray => Sound(f, [q EXCEPT !.err = res], s, d, u)
          /\ M \subseteq Members(OwnChain(f)) \cup Members(s) /\ Clean(f, M, disk, d)
          /\ Covers(s, q.objsize) /\ q.buf \in Content /\ (q.dirty => q.sect \in Sector)
          /\ Lags(q, entry[f]) /\ q.open
      BY <1>2, <3>1, <3>2, <3>3, CleanSame DEF Put, Held, Bytes
    <3> HIDE DEF u, M, res, d, t, k, q, s
    <3> QED BY <1>1, <1>2, <3>4, AbortKeeps
  <2>4. CASE o.res = "ok" /\ Goes(o)
    <3> DEFINE r == Adopt(q, o.clst)
               t == o.fat
    <3>1. PICK w, k : MayWrite(f, r, disk, t, w, k)
      BY <2>1, <2>4
    <3>2. PICK m \in Flush(r, disk) :
                    IF m.res # "ok" THEN Failed(m.r, m.res, m.disk, t)
                    ELSE IF call.left >= SS THEN Straight(f, m.r, m.disk, t)
                    ELSE \E p \in Prepare(m.r, m.disk) :
                           IF p.res = "ok" THEN Fitted(f, p.r, p.disk, t)
                                           ELSE Failed(p.r, p.res, p.disk, t)
      BY <2>4
    <3> HIDE DEF r, t
    <3> DEFINE M == Members(w)
               u == undef[f]
               e == m.disk
               x == m.r
    <3>3. Fine(M, r, disk) /\ Covers(w, r.objsize) /\ r.fptr = q.fptr
      BY <3>1 DEF MayWrite, Midway
    <3>4. Moves(f, M, w, u, r, disk, m) /\ (m.res = "ok" => ~x.dirty)
      <4> DEFINE d == disk
      <4>1. Fine(M, r, d) /\ m \in Flush(r, d)
        BY <3>3
      <4> HIDE DEF M, u, d
      <4>2. Moves(f, M, w, u, r, d, m) /\ (m.res = "ok" => ~m.r.dirty)
        BY <3>3, <4>1, Flushed
      <4> QED BY <4>2 DEF d
    <3>5. /\ m.res \in {"ok", "disk"} /\ Same(r, x)
          /\ m.res = "ok" => MayWrite(f, x, e, t, w, k)
          /\ Abort(f, x, "disk", e, t) /\ UNCHANGED <<entry, cached, misread, stray, undef>> => IInv'
      BY <1>1, <3>1, <3>4, WriteMoves
    <3>6. CASE m.res # "ok"
      BY <1>1, <3>2, <3>5, <3>6
    <3>7. CASE m.res = "ok"
      <4>1. MayWrite(f, x, e, t, w, k) /\ ~x.dirty
        BY <3>4, <3>5, <3>7
      <4>2. /\ call.left >= SS => Straight(f, x, e, t)
            /\ ~(call.left >= SS) => \E p \in Prepare(x, e) :
                           IF p.res = "ok" THEN Fitted(f, p.r, p.disk, t)
                                           ELSE Failed(p.r, p.res, p.disk, t)
        BY <3>2, <3>7
      <4>3. OnSector(x)
        BY <1>4, <3>3, <3>5 DEF Same, OnSector
      <4> HIDE DEF x, e
      <4>4. CASE call.left >= SS
        BY <1>1, <4>1, <4>2, <4>3, <4>4, StraightKeeps
      <4>5. CASE ~(call.left >= SS)
        <5>1. PICK p \in Prepare(x, e) : IF p.res = "ok" THEN Fitted(f, p.r, p.disk, t)
                                         ELSE Failed(p.r, p.res, p.disk, t)
          BY <4>2, <4>5
        <5>2. Fine(M, x, e) /\ Covers(w, x.objsize) /\ There(x, w) /\ Distinct(w)
          BY <4>1, LedIsGood DEF MayWrite, Midway, Good
        <5>3. Moves(f, M, w, u, x, e, p) /\ (p.res = "ok" => p.r.sect = SectorOf(x))
          <6> HIDE DEF M, u
          <6> QED BY <4>1, <4>3, <5>2, Prepared
        <5>4. /\ p.res \in {"ok", "disk"} /\ Same(x, p.r)
              /\ p.res = "ok" => MayWrite(f, p.r, p.disk, t, w, k)
              /\ Abort(f, p.r, "disk", p.disk, t) /\ UNCHANGED <<entry, cached, misread, stray, undef>>
                   => IInv'
          BY <1>1, <4>1, <5>3, WriteMoves
        <5>5. SectorOf(p.r) = SectorOf(x)
          BY <5>4 DEF Same, SectorOf
        <5> DEFINE y == p.r
                   g == p.disk
        <5>6. CASE p.res = "ok"
          <6>1. MayWrite(f, y, g, t, w, k) /\ y.sect = SectorOf(y) /\ Fitted(f, y, g, t)
            BY <5>1, <5>3, <5>4, <5>5, <5>6
          <6> HIDE DEF y, g
          <6> QED BY <1>1, <6>1, FittedKeeps
        <5>7. CASE p.res # "ok"
          BY <1>1, <5>1, <5>4, <5>7
        <5> QED BY <5>6, <5>7
      <4> QED BY <4>4, <4>5
    <3> QED BY <3>6, <3>7
  <2> QED BY <1>4, <2>2, <2>3, <2>4
<1>5. \/ ~OnSector(q) /\ Fitted(f, q, disk, fat)
      \/ OnSector(q) /\ \E o \in Acquire(q) :
             \/ o.res = "full" /\ Full
             \/ o.res \in {"int", "disk"} /\ Failed(q, o.res, disk, o.fat)
             \/ o.res = "ok" /\ Goes(o)
  BY DEF WriteStep
<1> HIDE DEF Full, Goes
<1> QED BY <1>3, <1>4, <1>5

-----------------------------------------------------------------------------
(* Seeking.  The clusters behind the first byte p of one.                  *)
LEMMA ClusterAhead ==
    ASSUME NEW p \in Nat, p % BCS = 0
    PROVE  /\ \A n \in 0 .. BCS - 1 : Q(p + n) = Q(p)
           /\ Q(p + BCS) = Q(p) + 1 /\ (p + BCS) % BCS = 0
<1> DEFINE q == p \div BCS
<1>1. q \in Nat /\ p = BCS * q /\ BCS \in Nat \ {0}
  BY DivMod, Sizes
<1>2. ASSUME NEW a \in Nat, NEW w \in Int, NEW n \in 0 .. BCS - 1, a = BCS * w + n
      PROVE  a \div BCS = w /\ a % BCS = n
  <2> DEFINE d == BCS
             v == a \div BCS
             x == a % BCS
  <2>1. d \in Nat \ {0} /\ v \in Int /\ x \in 0 .. d - 1 /\ n \in 0 .. d - 1
        /\ d * v + x = d * w + n
    BY <1>1, <1>2, DivMod
  <2> HIDE DEF d, v, x
  <2>2. v = w /\ x = n
    BY <1>2, <2>1, DivUnique
  <2> QED BY <2>2 DEF v, x
<1>3. \A n \in 0 .. BCS - 1 : Q(p + n) = Q(p)
  <2> SUFFICES ASSUME NEW n \in 0 .. BCS - 1 PROVE Q(p + n) = Q(p)
    OBVIOUS
  <2> DEFINE a == p + n
  <2>1. a \in Nat /\ a = BCS * q + n /\ q \in Int
    BY <1>1
  <2> HIDE DEF a
  <2>2. a \div BCS = q
    BY <1>2, <2>1
  <2> QED BY <2>2 DEF a, Q
<1>4. Q(p + BCS) = Q(p) + 1 /\ (p + BCS) % BCS = 0
  <2> DEFINE a == p + BCS
             w == q + 1
             z == 0
  <2>1. BCS * (q + 1) = BCS * q + BCS
    BY <1>1
  <2>2. a \in Nat /\ w \in Int /\ z \in 0 .. BCS - 1 /\ a = BCS * w + z
    BY <1>1, <2>1
  <2> HIDE DEF a, w, z
  <2>3. a \div BCS = w /\ a % BCS = z
    BY <1>2, <2>2
  <2> QED BY <2>3 DEF a, w, z, Q
<1> QED BY <1>3, <1>4

(* The beginning of the cluster of p.                                      *)
LEMMA ClusterBase ==
    ASSUME NEW p \in Nat, NEW n \in Nat, Q(p) <= Q(n)
    PROVE  LET b == Q(p) * BCS
           IN b \in Nat /\ b % BCS = 0 /\ Q(b) = Q(p) /\ b <= n
<1> DEFINE q == Q(p)
           v == Q(n)
           b == BCS * q
<1>1. q \in Nat /\ v \in Nat /\ BCS \in Nat \ {0} /\ n = BCS * v + (n % BCS) /\ n % BCS \in Nat
      /\ q <= v
  <2> DEFINE x == n \div BCS
             y == n % BCS
             d == BCS
  <2>1. x \in Nat /\ y \in 0 .. d - 1 /\ n = d * x + y /\ d \in Nat \ {0}
    BY DivMod, Sizes
  <2>2. v = x /\ q \in Nat
    BY Place DEF Q
  <2>3. q <= v
    OBVIOUS
  <2> HIDE DEF x, y, d, v, q
  <2>4. q \in Nat /\ v \in Nat /\ d \in Nat \ {0} /\ n = d * v + y /\ y \in Nat /\ q <= v
    BY <2>1, <2>2, <2>3
  <2> QED BY <2>4 DEF d, y
<1>2. b \in Nat /\ b = q * BCS
  BY <1>1
<1>3. b <= n
  <2> DEFINE x == v - q
             y == n % BCS
  <2>1. x \in Nat /\ v = q + x
    BY <1>1
  <2> HIDE DEF x, v, q, y
  <2>2. BCS * v = BCS * q + BCS * x /\ BCS * x \in Nat
    BY <1>1, <2>1
  <2>3. n = BCS * v + y /\ y \in Nat
    BY <1>1 DEF y
  <2> QED BY <1>1, <1>2, <2>2, <2>3
<1>4. b % BCS = 0 /\ Q(b) = q
  <2> DEFINE k == 0
  <2>1. k \in 0 .. CSize - 1 /\ k \in 0 .. SS - 1 /\ b = BCS * q + SS * k + k
    BY <1>1, <1>2, Sizes
  <2> HIDE DEF k, b, q
  <2>2. b \in Nat /\ Q(b) = q /\ K(b) = k /\ B(b) = k
    BY <1>1, <2>1, PlaceIs
  <2> QED BY <2>2, Boundaries DEF k
<1> HIDE DEF b, q
<1>5. q * BCS = b
  BY <1>2
<1>6. q * BCS \in Nat /\ (q * BCS) % BCS = 0 /\ Q(q * BCS) = q /\ q * BCS <= n
  BY <1>2, <1>3, <1>4, <1>5
<1> QED BY <1>6 DEF q

(* The object x has another position and cluster than that of f.           *)
Elsewhere(f, x) ==
    /\ x \in FilRec /\ x.open /\ x.err = "none" /\ x.wr = fil[f].wr
    /\ x.objsize = fil[f].objsize /\ x.sect = fil[f].sect /\ x.buf = fil[f].buf
    /\ x.dirty = fil[f].dirty /\ x.mod = fil[f].mod

(* A walk goes on, in a chain w that may have grown.                       *)
LEMMA WalkKeeps ==
    ASSUME IInv, NEW f \in File, call = NoCall \/ call.f = f, fil[f].open, fil[f].err = "none",
           NEW x, Elsewhere(f, x), fil' = [fil EXCEPT ![f] = x],
           UNCHANGED <<disk, entry, cached, undef, misread, stray>>,
           NEW w, Longer(OwnChain(f), w), NEW k, Put(Heads, f, x.sclust, k),
           Leads(f, Heads, fat, k, fat', w), Lags(x, entry[f]),
           NEW n \in 0 .. MaxSize, call' = [op |-> "seek", f |-> f, left |-> n],
           Seeking(x, entry[f], w, n)
    PROVE  IInv'
<1> DEFINE q == fil[f]
           s == OwnChain(f)
           e == entry[f]
           u == undef[f]
           M == Members(w)
<1>1. /\ x \in FilRec /\ x.open /\ x.err = "none" /\ x.wr = q.wr
      /\ x.objsize = q.objsize /\ x.sect = q.sect /\ x.buf = q.buf
      /\ x.dirty = q.dirty /\ x.mod = q.mod
  BY DEF Elsewhere
<1>2. /\ q \in FilRec /\ e \in EntryRec /\ u \in SUBSET Offset /\ disk \in Disk
      /\ Held(q, e, s) /\ Covers(s, q.objsize)
      /\ ~stray => Sound(f, q, s, disk, u)
  BY Given DEF Data, Bytes
<1>3. Members(s) \subseteq M /\ Covers(w, q.objsize)
  BY <1>2, LongerHas, LongerKeeps
<1>4. Renewed(f, x, e, u)
  BY DEF Renewed, IInv
<1>5. Turn(f)
  BY <1>2 DEF Turn, IInv, Calls
<1>6. HeadOf(x, e) = x.sclust
  BY <1>1 DEF HeadOf
<1>7. Mine(f, x, e, w, call')
  <2>1. Held(x, e, w)
    BY <1>1, <1>2, <1>3 DEF Held, Bytes
  <2>2. Busy(call', f) /\ call'.op = "seek" /\ call'.left = n
    BY DEF Busy, NoCall
  <2>3. InCall(x, e, w, call')
    BY <1>1, <2>2 DEF InCall
  <2> QED BY <2>1, <2>2, <2>3 DEF Mine
<1>8. ~stray' => Data(f, x, e, w, disk', u)
  <2>1. Sound(f, q, s, disk, u) => Sound(f, x, s, disk, u)
    BY <1>1 DEF Sound
  <2>2. Covers(s, x.objsize) /\ Longer(s, w)
    BY <1>1, <1>2
  <2> HIDE DEF u, q, s
  <2>3. Sound(f, x, s, disk, u) <=> Sound(f, x, w, disk, u)
    BY <2>2, LongerSound
  <2> QED BY <1>1, <1>2, <2>1, <2>3 DEF Data
<1>9. ~stray' => Clean(f, M, disk, disk')
  BY CleanSame
<1>10. ReadsRight'
  BY DEF IInv, ReadsRight
<1>11. M \subseteq Members(OwnChain(f)) \cup Members(w) /\ Put(Heads, f, HeadOf(x, e), k)
  BY <1>6
<1> HIDE DEF M, e, u
<1> QED BY <1>1, <1>2, <1>4, <1>5, <1>7, <1>8, <1>9, <1>10, <1>11, Frame

(* A walk fails.                                                           *)
LEMMA WalkAborts ==
    ASSUME IInv, NEW f \in File, call = NoCall \/ call.f = f, fil[f].open, fil[f].err = "none",
           NEW x, Elsewhere(f, x), x.sclust = fil[f].sclust, NEW t, Abort(f, x, "disk", disk, t),
           Leads(f, Heads, fat, Heads, t, OwnChain(f)),
           UNCHANGED <<entry, cached, undef, misread, stray>>
    PROVE  IInv'
<1> DEFINE q == fil[f]
           s == OwnChain(f)
           u == undef[f]
           M == Members(s)
           res == "disk"
           d == disk
           k == Heads
<1>1. /\ x \in FilRec /\ x.open /\ x.err = "none" /\ x.wr = q.wr
      /\ x.objsize = q.objsize /\ x.sect = q.sect /\ x.buf = q.buf
      /\ x.dirty = q.dirty /\ x.mod = q.mod
  BY DEF Elsewhere
<1>2. /\ q \in FilRec /\ u \in SUBSET Offset /\ disk \in Disk
      /\ Held(q, entry[f], s) /\ Covers(s, q.objsize)
      /\ ~stray => Sound(f, q, s, disk, u)
  BY Given DEF Data, Bytes
<1>3. ~stray => Sound(f, [x EXCEPT !.err = res], s, d, u)
  <2>1. Sound(f, q, s, disk, u) => Sound(f, x, s, disk, u)
    BY <1>1 DEF Sound
  <2> HIDE DEF u, q, s, d
  <2>2. Sound(f, x, s, disk, u) => Sound(f, [x EXCEPT !.err = res], s, disk, u)
    <3> res \in {"disk", "int", "stream"}
      OBVIOUS
    <3> HIDE DEF res
    <3> QED BY <1>1, SoundInError
  <2> QED BY <1>2, <2>1, <2>2 DEF d
<1>4. Put(undef, f, u, undef')
  BY DEF Put, IInv
<1>5. Put(Heads, f, x.sclust, k)
  BY SameHead DEF First
<1>6. /\ x.buf \in Content /\ (x.dirty => x.sect \in Sector) /\ Lags(x, entry[f])
      /\ d \in Disk /\ res \in {"disk", "stream"} /\ Abort(f, x, res, d, t)
      /\ Leads(f, Heads, fat, k, t, s) /\ Covers(s, x.objsize)
      /\ M \subseteq Members(OwnChain(f)) \cup Members(s) /\ Clean(f, M, disk, d)
  BY <1>1, <1>2, CleanSame DEF Held, Lags
<1> HIDE DEF u, M, res, d, k, s
<1> QED BY <1>1, <1>2, <1>3, <1>4, <1>5, <1>6, AbortKeeps

LEMMA SeekStarts ==
    ASSUME IInv, NEW f \in File, NEW to \in 0 .. MaxSize, f_lseek(f, to)
    PROVE  IInv'
<1> DEFINE r == fil[f]
           s == OwnChain(f)
           e == entry[f]
           ofs == IF to > r.objsize /\ ~r.wr THEN r.objsize ELSE to
           base == Q(r.fptr - 1) * BCS
           Walk(x, left) == /\ fil' = [fil EXCEPT ![f] = x]
                            /\ call' = [op |-> "seek", f |-> f, left |-> left]
                            /\ UNCHANGED disk
           r0 == [r EXCEPT !.fptr = 0]
           First1 == IF r.sclust = None THEN create_chain(None)
                     ELSE {Outcome("ok", r.sclust, fat)}
           Does(o) == /\ fat' = o.fat
                      /\ CASE o.res = "ok" -> Walk(Adopt(r0, o.clst), ofs)
                           [] o.res = "full" -> Walk([r0 EXCEPT !.clust = None], 0)
                           [] OTHER -> Abort(f, r0, o.res, disk, o.fat)
<1>1. /\ Ready(f) /\ UNCHANGED <<entry, cached, undef, misread, stray>>
      /\ ofs = 0 => fil' = [fil EXCEPT ![f].fptr = 0] /\ UNCHANGED <<disk, fat, call>>
      /\ ofs # 0 /\ FromCurrent(r, ofs) =>
            Walk([r EXCEPT !.fptr = base], ofs - base) /\ UNCHANGED fat
      /\ ofs # 0 /\ ~FromCurrent(r, ofs) => \E o \in First1 : Does(o)
  BY DEF f_lseek, Q
<1>2. /\ call = NoCall /\ r.open /\ r.err = "none" /\ Placed(r, s) /\ Agrees(r, e)
      /\ r.fptr <= r.objsize /\ r.objsize \in 0 .. MaxSize /\ r.fptr \in 0 .. MaxSize
  BY <1>1, ReadyIs
<1>3. /\ r \in FilRec /\ e \in EntryRec /\ Held(r, e, s) /\ First(f) = r.sclust
      /\ Lags(r, e) /\ s \in Seq(Cluster) /\ MaxSize \in Nat /\ Covers(s, r.objsize)
      /\ disk \in Disk
  BY <1>2, Given, GeometryAssumption DEF Held, First, Placed, Bytes
<1>4. ofs \in 0 .. MaxSize /\ ofs <= IF r.wr THEN MaxSize ELSE r.objsize
  <2> DEFINE z == r.objsize
             lim == IF r.wr THEN MaxSize ELSE r.objsize
  <2>1. z \in 0 .. MaxSize /\ r.wr \in BOOLEAN /\ lim = (IF r.wr THEN MaxSize ELSE z)
        /\ ofs = (IF to > z /\ ~r.wr THEN z ELSE to)
    BY <1>2, <1>3 DEF FilRec
  <2> HIDE DEF z, ofs, lim
  <2>2. ofs \in 0 .. MaxSize /\ ofs <= lim
    BY <1>3, <2>1
  <2> QED BY <2>2 DEF lim
<1>5. Leads(f, Heads, fat, Heads, fat, s) /\ Longer(s, s)
  BY <1>3, Unled, LongerSame
<1> HIDE DEF ofs
<1>6. CASE ofs = 0
  <2> DEFINE x == [r EXCEPT !.fptr = 0]
  <2>1. /\ x \in FilRec /\ x.open = r.open /\ x.wr = r.wr /\ x.fptr = 0
        /\ x.objsize = r.objsize /\ x.clust = r.clust /\ x.sect = r.sect /\ x.buf = r.buf
        /\ x.dirty = r.dirty /\ x.mod = r.mod /\ x.err = r.err /\ x.sclust = r.sclust
    BY <1>3 DEF FilRec
  <2>2. fil' = [fil EXCEPT ![f] = x] /\ UNCHANGED <<disk, fat, call>>
    BY <1>1, <1>6
  <2> HIDE DEF x
  <2>3. Idle(x, e, s)
    <3>1. Placed(x, s)
      BY <1>2, <2>1, AtNought DEF Placed, OnSector
    <3> QED BY <1>2, <2>1, <3>1 DEF Idle, Agrees, Recording
  <2>4. Held(x, e, s)
    BY <1>2, <1>3, <2>1 DEF Held, Bytes, Lags
  <2>5. Mine(f, x, e, s, call')
    BY <1>2, <2>2, <2>3, <2>4 DEF Mine, Busy
  <2>6. Renewed(f, x, entry[f], undef[f])
    BY <1>1, <2>2 DEF Renewed, IInv
  <2>7. ~stray => Data(f, x, e, s, disk, undef[f])
    <3>1. ~stray => Sound(f, r, s, disk, undef[f])
      BY <1>2, Given DEF Data
    <3> QED BY <1>2, <2>1, <3>1 DEF Data, Sound
  <2>8. HeadOf(x, e) = First(f) /\ cached' \in BOOLEAN
    BY <1>1, <1>2, <1>3, <2>1 DEF HeadOf, IInv
  <2> QED BY <1>1, <1>2, <2>1, <2>2, <2>5, <2>6, <2>7, <2>8, FrameStill
<1>7. CASE ofs # 0 /\ FromCurrent(r, ofs)
  <2> DEFINE p == r.fptr - 1
             n == ofs - base
             x == [r EXCEPT !.fptr = base]
  <2>1. /\ r.fptr > 0 /\ p \in Nat /\ ofs - 1 \in Nat /\ Q(p) <= Q(ofs - 1)
        /\ Q(p) + 1 \in 1 .. Len(s) /\ r.clust = s[Q(p) + 1] /\ Len(s) \in Nat
    BY <1>2, <1>3, <1>4, <1>7 DEF FromCurrent, Q, Placed
  <2>2. base \in Nat /\ base % BCS = 0 /\ Q(base) = Q(p) /\ base <= ofs - 1
    <3> HIDE DEF p
    <3>1. LET b == Q(p) * BCS
          IN b \in Nat /\ b % BCS = 0 /\ Q(b) = Q(p) /\ b <= ofs - 1
      BY <2>1, ClusterBase
    <3> QED BY <3>1 DEF p
  <2> HIDE DEF base, p
  <2>3. n \in 0 .. MaxSize /\ n > 0 /\ base + n = ofs /\ base \in 0 .. MaxSize
    BY <1>3, <1>4, <2>2
  <2> HIDE DEF n
  <2>4. /\ x \in FilRec /\ x.open = r.open /\ x.wr = r.wr /\ x.fptr = base
        /\ x.objsize = r.objsize /\ x.clust = r.clust /\ x.sect = r.sect /\ x.buf = r.buf
        /\ x.dirty = r.dirty /\ x.mod = r.mod /\ x.err = r.err /\ x.sclust = r.sclust
    BY <1>3, <2>3 DEF FilRec
  <2>5. /\ fil' = [fil EXCEPT ![f] = x] /\ UNCHANGED <<disk, fat>>
        /\ call' = [op |-> "seek", f |-> f, left |-> n]
    BY <1>1, <1>7 DEF n
  <2> HIDE DEF x
  <2>6. Elsewhere(f, x)
    BY <1>2, <2>4 DEF Elsewhere
  <2>7. There(x, s)
    BY <1>3, <2>1, <2>2, <2>4 DEF There
  <2>8. Seeking(x, e, s, n)
    BY <1>2, <1>4, <2>2, <2>3, <2>4, <2>7 DEF Seeking, OnCluster, Agrees, Recording
  <2>9. Put(Heads, f, x.sclust, Heads) /\ Lags(x, e)
    BY <1>3, <2>4, SameHead DEF Lags
  <2>10. Leads(f, Heads, fat, Heads, fat', s)
    BY <1>5, <2>5
  <2> HIDE DEF r, s, e
  <2> QED BY <1>1, <1>2, <1>5, <2>3, <2>5, <2>6, <2>8, <2>9, <2>10, WalkKeeps DEF r, s, e
<1>8. CASE ofs # 0 /\ ~FromCurrent(r, ofs)
  <2>1. PICK o \in First1 : Does(o)
    BY <1>1, <1>8
  <2>2. /\ r0 \in FilRec /\ r0.open = r.open /\ r0.wr = r.wr /\ r0.fptr = 0
        /\ r0.objsize = r.objsize /\ r0.clust = r.clust /\ r0.sect = r.sect /\ r0.buf = r.buf
        /\ r0.dirty = r.dirty /\ r0.mod = r.mod /\ r0.err = r.err /\ r0.sclust = r.sclust
    BY <1>3 DEF FilRec
  <2>3. /\ fat' = o.fat
        /\ o.res = "ok" => Walk(Adopt(r0, o.clst), ofs)
        /\ o.res = "full" => Walk([r0 EXCEPT !.clust = None], 0)
        /\ o.res = "disk" => Abort(f, r0, "disk", disk, o.fat)
    BY <2>1
  <2> DEFINE c == o.clst
             k == IF r.sclust = None THEN [Heads EXCEPT ![f] = c] ELSE Heads
             w == IF r.sclust = None THEN <<c>> ELSE s
  <2>4. /\ o.res \in {"ok", "full", "disk"} /\ (o.res # "ok" => o.fat = fat)
        /\ o.res = "ok" => /\ c \in Cluster /\ Leads(f, Heads, fat, k, o.fat, w)
                           /\ Put(Heads, f, IF r.sclust = None THEN c ELSE r.sclust, k)
                           /\ Longer(s, w) /\ 1 \in 1 .. Len(w) /\ w[1] = c
                           /\ w \in Seq(Cluster) /\ Len(w) \in Nat
    <3>1. CASE r.sclust = None
      <4> DEFINE h == [Heads EXCEPT ![f] = c]
      <4>1. Put(Heads, f, o.clst, h) /\ o \in create_chain(None) /\ First(f) = None
        BY <1>3, <3>1 DEF Put
      <4> HIDE DEF h
      <4>2. /\ o.res \in {"ok", "full", "disk"} /\ (o.res # "ok" => o.fat = fat)
            /\ o.res = "ok" => /\ o.clst \in Cluster
                               /\ Leads(f, Heads, fat, h, o.fat, <<o.clst>>)
            /\ OwnChain(f) = <<>>
        BY <4>1, NewFirst
      <4>3. k = h /\ w = <<c>>
        BY <3>1 DEF h
      <4>4. ASSUME c \in Cluster
            PROVE  /\ Longer(s, <<c>>) /\ 1 \in 1 .. Len(<<c>>) /\ <<c>>[1] = c
                   /\ <<c>> \in Seq(Cluster) /\ Len(<<c>>) \in Nat
        <5> DEFINE y == <<c>>
        <5>1. Len(y) = 1 /\ y \in Seq(Cluster) /\ y[1] = c
          BY <4>4
        <5>2. Len(s) = 0
          BY <4>2
        <5> HIDE DEF y, s
        <5>3. Longer(s, y) /\ 1 \in 1 .. Len(y) /\ Len(y) \in Nat
          BY <1>3, <5>1, <5>2 DEF Longer
        <5> QED BY <5>1, <5>3 DEF y
      <4> HIDE DEF k, w, s
      <4> QED BY <3>1, <4>1, <4>2, <4>3, <4>4
    <3>2. CASE r.sclust # None
      <4>1. o.res = "ok" /\ c = r.sclust /\ o.fat = fat
        BY <3>2 DEF Outcome
      <4>2. c \in Cluster /\ 1 \in 1 .. Len(s) /\ s[1] = c /\ Len(s) \in Nat
        BY <1>3, <3>2, <4>1, Leading
      <4>3. k = Heads /\ w = s
        BY <3>2
      <4>4. Put(Heads, f, r.sclust, Heads)
        BY <1>3, SameHead
      <4> HIDE DEF k, w, c, s
      <4> QED BY <1>3, <1>5, <3>2, <4>1, <4>2, <4>3, <4>4
    <3> QED BY <3>1, <3>2
  <2> HIDE DEF k, w
  <2>5. CASE o.res = "ok"
    <3> DEFINE x == Adopt(r0, c)
               n == ofs
    <3>1. /\ x \in FilRec /\ x.open = r.open /\ x.wr = r.wr /\ x.fptr = 0
          /\ x.objsize = r.objsize /\ x.clust = c /\ x.sect = r.sect /\ x.buf = r.buf
          /\ x.dirty = r.dirty /\ x.mod = r.mod /\ x.err = r.err
          /\ x.sclust = IF r.sclust = None THEN c ELSE r.sclust
      <4> DEFINE y == r0
      <4>1. y \in FilRec /\ c \in Cluster /\ x = Adopt(y, c)
        BY <2>2, <2>4, <2>5
      <4> HIDE DEF y, c, x
      <4>2. /\ x \in FilRec /\ x.open = y.open /\ x.wr = y.wr /\ x.fptr = y.fptr
            /\ x.objsize = y.objsize /\ x.clust = c /\ x.sect = y.sect /\ x.buf = y.buf
            /\ x.dirty = y.dirty /\ x.mod = y.mod /\ x.err = y.err
            /\ x.sclust = IF y.sclust = None THEN c ELSE y.sclust
        BY <4>1, AdoptIs
      <4> QED BY <2>2, <4>2 DEF y
    <3>2. /\ fil' = [fil EXCEPT ![f] = x] /\ UNCHANGED disk /\ fat' = o.fat
          /\ call' = [op |-> "seek", f |-> f, left |-> n]
      BY <2>3, <2>5
    <3> HIDE DEF x
    <3>3. Elsewhere(f, x)
      BY <1>2, <3>1 DEF Elsewhere
    <3>4. There(x, w)
      <4>1. Q(0) = 0
        BY Sizes DEF Q
      <4> QED BY <2>4, <2>5, <3>1, <4>1 DEF There
    <3>5. Seeking(x, e, w, n)
      <4>1. ~x.mod => /\ ~x.dirty
                      /\ \/ e = Recording(x)
                         \/ e = Empty /\ x.objsize = 0
        <5>1. CASE r.sclust = None
          <6>1. r.objsize = 0 /\ (~r.mod => e = Empty)
            BY <1>2, <1>3, <5>1, Bare DEF Bytes
          <6> QED BY <1>2, <3>1, <6>1 DEF Agrees
        <5>2. CASE r.sclust # None
          BY <1>2, <3>1, <5>2 DEF Agrees, Recording
        <5> QED BY <5>1, <5>2
      <4>2. n > 0 /\ x.fptr + n = n
        BY <1>4, <1>8, <3>1
      <4>3. OnCluster(x)
        BY <3>1, AtNought DEF OnCluster
      <4> QED BY <1>4, <3>1, <3>4, <4>1, <4>2, <4>3 DEF Seeking
    <3>6. Put(Heads, f, x.sclust, k)
      BY <2>4, <2>5, <3>1
    <3>7. Lags(x, e)
      <4>1. x.objsize \in Nat
        BY <1>2, <3>1
      <4>2. ~x.mod => e = Recording(x) \/ e = Empty
        BY <3>5 DEF Seeking
      <4> HIDE DEF e
      <4> QED BY <4>1, <4>2 DEF Lags, Recording
    <3>8. Leads(f, Heads, fat, k, fat', w) /\ Longer(s, w) /\ n \in 0 .. MaxSize
      BY <1>4, <2>4, <2>5, <3>2
    <3> HIDE DEF n, r, s, e
    <3> QED BY <1>1, <1>2, <3>2, <3>3, <3>5, <3>6, <3>7, <3>8, WalkKeeps DEF r, s, e
  <2>6. CASE o.res = "full"
    <3> DEFINE x == [r0 EXCEPT !.clust = None]
               n == 0
    <3>1. /\ x \in FilRec /\ x.open = r.open /\ x.wr = r.wr /\ x.fptr = 0
          /\ x.objsize = r.objsize /\ x.sect = r.sect /\ x.buf = r.buf
          /\ x.dirty = r.dirty /\ x.mod = r.mod /\ x.err = r.err /\ x.sclust = r.sclust
      <4> DEFINE y == r0
      <4> HIDE DEF y
      <4>1. x = [y EXCEPT !.clust = None] /\ y \in FilRec
        BY <2>2 DEF y
      <4> HIDE DEF x
      <4>2. /\ x \in FilRec /\ x.open = y.open /\ x.wr = y.wr /\ x.fptr = y.fptr
            /\ x.objsize = y.objsize /\ x.sect = y.sect /\ x.buf = y.buf
            /\ x.dirty = y.dirty /\ x.mod = y.mod /\ x.err = y.err /\ x.sclust = y.sclust
        BY <4>1 DEF FilRec
      <4> QED BY <2>2, <4>2 DEF y
    <3>2. /\ fil' = [fil EXCEPT ![f] = x] /\ UNCHANGED disk /\ fat' = fat
          /\ call' = [op |-> "seek", f |-> f, left |-> n]
      BY <2>3, <2>4, <2>6
    <3> HIDE DEF x
    <3>3. Elsewhere(f, x)
      BY <1>2, <3>1 DEF Elsewhere
    <3>4. Placed(x, s) /\ OnCluster(x)
      BY <1>2, <3>1, AtNought DEF Placed, OnSector, OnCluster
    <3>5. Seeking(x, e, s, n)
      BY <1>2, <1>3, <3>1, <3>4 DEF Seeking, Agrees, Recording
    <3>6. Put(Heads, f, x.sclust, Heads) /\ Lags(x, e)
      BY <1>3, <3>1, SameHead DEF Lags
    <3>7. Leads(f, Heads, fat, Heads, fat', s) /\ n \in 0 .. MaxSize
      BY <1>3, <1>5, <3>2
    <3> HIDE DEF n, r, s, e
    <3> QED BY <1>1, <1>2, <1>5, <3>2, <3>3, <3>5, <3>6, <3>7, WalkKeeps DEF r, s, e
  <2>7. CASE o.res = "disk"
    <3> DEFINE x == r0
               t == o.fat
    <3>1. Elsewhere(f, x) /\ x.sclust = r.sclust
      BY <1>2, <2>2 DEF Elsewhere
    <3>2. Abort(f, x, "disk", disk, t) /\ t = fat
      BY <2>3, <2>4, <2>7
    <3> HIDE DEF x, t
    <3> QED BY <1>1, <1>2, <1>5, <3>1, <3>2, WalkAborts
  <2> QED BY <2>4, <2>5, <2>6, <2>7
<1> QED BY <1>6, <1>7, <1>8

LEMMA SeekStepKeeps ==
    ASSUME IInv, NEW f \in File, SeekStep(f)
    PROVE  IInv'
<1> DEFINE r == fil[f]
           s == OwnChain(f)
           e == entry[f]
           p == r.fptr
           m == Q(p) + 1
           b == p + BCS
           r1 == [r EXCEPT !.fptr = @ + BCS]
           Walk(x, left) == /\ fil' = [fil EXCEPT ![f] = x]
                            /\ call' = [call EXCEPT !.left = left]
                            /\ UNCHANGED disk
           Does(o) == /\ fat' = o.fat
                      /\ CASE o.res = "ok" -> Walk([r1 EXCEPT !.clust = o.clst], call.left - BCS)
                           [] o.res = "full" -> Walk(r1, 0)
                           [] OTHER -> Abort(f, r1, o.res, disk, o.fat)
<1>1. /\ Running("seek", f) /\ call.left > BCS /\ UNCHANGED <<entry, cached, undef, misread, stray>>
      /\ \E o \in IF r.wr THEN create_chain(r.clust) ELSE get_fat(r.clust) : Does(o)
  BY DEF SeekStep
<1>2. /\ call.f = f /\ r.open /\ r.err = "none" /\ call \in Calls /\ call.op = "seek"
      /\ call.left \in 0 .. MaxSize /\ Seeking(r, e, s, call.left)
  BY <1>1, RunningIs DEF InCall
<1> DEFINE left == call.left
           lim == IF r.wr THEN MaxSize ELSE r.objsize
<1>3. /\ r \in FilRec /\ e \in EntryRec /\ Held(r, e, s) /\ First(f) = r.sclust
      /\ Lags(r, e) /\ MaxSize \in Nat /\ Covers(s, r.objsize) /\ disk \in Disk
      /\ BCS \in Nat \ {0} /\ p \in Nat /\ r.objsize \in 0 .. MaxSize /\ p \in 0 .. MaxSize
  BY <1>2, Given, GeometryAssumption, Sizes DEF Held, First, Bytes, FilRec
<1>4. /\ left > 0 /\ left \in Nat /\ There(r, s) /\ p % BCS = 0 /\ p + left <= lim
      /\ lim \in 0 .. MaxSize
      /\ ~r.mod => ~r.dirty
  BY <1>1, <1>2, <1>3 DEF Seeking, OnCluster
<1>5. Q(b) = m /\ b % BCS = 0 /\ Q(b - 1) = Q(p) /\ b < p + left /\ b \in 0 .. MaxSize /\ b > 0
  <2> HIDE DEF p, m, b, left, lim
  <2>1. /\ \A n \in 0 .. BCS - 1 : Q(p + n) = Q(p)
        /\ Q(p + BCS) = Q(p) + 1 /\ (p + BCS) % BCS = 0
    BY <1>3, <1>4, ClusterAhead
  <2>2. b - 1 = p + (BCS - 1) /\ BCS - 1 \in 0 .. BCS - 1
    BY <1>3 DEF b
  <2>3. Q(b - 1) = Q(p)
    <3> DEFINE n == BCS - 1
    <3>1. n \in 0 .. BCS - 1 /\ b - 1 = p + n
      BY <2>2
    <3> HIDE DEF n
    <3> QED BY <2>1, <3>1
  <2>4. b < p + left /\ b \in 0 .. MaxSize /\ b > 0
    <3> DEFINE z == BCS
    <3>1. left > z /\ b = p + z
      BY <1>1 DEF b, left
    <3>2. z \in Nat \ {0} /\ p \in Nat /\ left \in Nat /\ p + left <= lim /\ lim \in 0 .. MaxSize
          /\ MaxSize \in Nat
      BY <1>3, <1>4
    <3> HIDE DEF z
    <3> QED BY ONLY <3>1, <3>2
  <2> QED BY <2>1, <2>3, <2>4 DEF b, m
<1>6. /\ m \in 1 .. Len(s) /\ r.clust = s[m] /\ s \in Seq(Cluster) /\ Len(s) \in Nat
      /\ r.sclust # None
  <2>1. /\ m \in 1 .. Len(s) /\ r.clust = s[m] /\ s \in Seq(Cluster) /\ Len(s) \in Nat
    BY <1>4 DEF There
  <2>2. r.sclust # None
    BY <1>3, <2>1, Bare
  <2> QED BY <2>1, <2>2
<1>7. PICK o \in IF r.wr THEN create_chain(r.clust) ELSE get_fat(r.clust) : Does(o)
  BY <1>1
<1> DEFINE c == o.clst
<1>8. /\ o.res \in {"ok", "full", "disk"} /\ (o.res = "full" => o.fat = fat)
      /\ o.res # "ok" => Leads(f, Heads, fat, Heads, o.fat, s)
      /\ o.res = "ok" => \E w : /\ Leads(f, Heads, fat, Heads, o.fat, w)
                                /\ Longer(s, w) /\ m + 1 \in 1 .. Len(w) /\ w[m + 1] = c
  <2>1. CASE r.wr
    <3>1. o \in create_chain(s[m])
      BY <1>6, <1>7, <2>1
    <3> HIDE DEF m
    <3> QED BY <1>6, <3>1, NewNext
  <2>2. CASE ~r.wr
    <3>1. o \in get_fat(s[m])
      BY <1>6, <1>7, <2>2
    <3>2. m < Len(s)
      <4> DEFINE n == r.objsize
                 i == b
      <4>1. Covers(s, n) /\ i \in 0 .. n - 1
        BY <1>3, <1>4, <1>5, <2>2
      <4> HIDE DEF n, i
      <4>2. Q(i) + 1 \in 1 .. Len(s)
        BY <4>1, HasCluster
      <4>3. m + 1 \in 1 .. Len(s)
        BY <1>5, <4>2 DEF i
      <4> HIDE DEF m
      <4> QED BY <1>6, <4>3
    <3> HIDE DEF m
    <3>3. /\ o.res \in {"ok", "disk"} /\ o.fat = fat
          /\ o.res = "ok" => m + 1 \in 1 .. Len(s) /\ o.clst = s[m + 1]
      BY <1>6, <3>1, <3>2, GotNext
    <3>4. Leads(f, Heads, fat, Heads, fat, s) /\ Longer(s, s)
      BY <1>6, Unled, LongerSame
    <3> QED BY <3>3, <3>4
  <2> QED BY <2>1, <2>2
<1>9. /\ r1 \in FilRec /\ r1.open = r.open /\ r1.wr = r.wr /\ r1.fptr = b
      /\ r1.objsize = r.objsize /\ r1.clust = r.clust /\ r1.sect = r.sect /\ r1.buf = r.buf
      /\ r1.dirty = r.dirty /\ r1.mod = r.mod /\ r1.err = r.err /\ r1.sclust = r.sclust
  <2>1. r1 = [r EXCEPT !.fptr = b] /\ b \in 0 .. MaxSize
    BY <1>5
  <2> HIDE DEF b, r1
  <2> QED BY <1>3, <2>1 DEF FilRec
<1>10. ~r.mod => /\ ~r.dirty
                 /\ \/ e = Recording(r)
                    \/ e = Empty /\ r.objsize = 0
  BY <1>2 DEF Seeking
<1>11. /\ fat' = o.fat
       /\ o.res = "ok" => Walk([r1 EXCEPT !.clust = c], left - BCS)
       /\ o.res = "full" => Walk(r1, 0)
       /\ o.res = "disk" => Abort(f, r1, "disk", disk, o.fat)
  BY <1>7
<1> HIDE DEF r1, m, b
<1>12. ASSUME NEW n \in Nat, call' = [call EXCEPT !.left = n]
       PROVE  call' = [op |-> "seek", f |-> f, left |-> n]
  BY <1>2, <1>12 DEF Calls
<1>13. Put(Heads, f, r.sclust, Heads)
  BY <1>3, SameHead
<1>14. CASE o.res = "ok"
  <2> DEFINE x == [r1 EXCEPT !.clust = c]
             n == left - BCS
  <2>1. PICK w : /\ Leads(f, Heads, fat, Heads, o.fat, w)
                 /\ Longer(s, w) /\ m + 1 \in 1 .. Len(w) /\ w[m + 1] = c
    BY <1>8, <1>14
  <2>2. w \in Seq(Cluster) /\ Len(w) \in Nat /\ c \in Cluster
    BY <2>1 DEF Longer
  <2> HIDE DEF c
  <2>3. /\ x \in FilRec /\ x.open = r.open /\ x.wr = r.wr /\ x.fptr = b
        /\ x.objsize = r.objsize /\ x.clust = c /\ x.sect = r.sect /\ x.buf = r.buf
        /\ x.dirty = r.dirty /\ x.mod = r.mod /\ x.err = r.err /\ x.sclust = r.sclust
    <3>1. /\ x \in FilRec /\ x.open = r1.open /\ x.wr = r1.wr /\ x.fptr = r1.fptr
          /\ x.objsize = r1.objsize /\ x.clust = c /\ x.sect = r1.sect /\ x.buf = r1.buf
          /\ x.dirty = r1.dirty /\ x.mod = r1.mod /\ x.err = r1.err /\ x.sclust = r1.sclust
      BY <1>9, <2>2 DEF FilRec
    <3> HIDE DEF x
    <3> QED BY <1>9, <3>1
  <2>4. n \in 0 .. MaxSize /\ n > 0 /\ b + n = p + left /\ n \in Nat
    BY <1>1, <1>2, <1>3, <1>4 DEF b
  <2> HIDE DEF n
  <2>5. /\ fil' = [fil EXCEPT ![f] = x] /\ UNCHANGED disk /\ fat' = o.fat
        /\ call' = [op |-> "seek", f |-> f, left |-> n]
    BY <1>11, <1>12, <1>14, <2>4 DEF n
  <2> HIDE DEF x
  <2>6. Elsewhere(f, x)
    BY <1>2, <2>3 DEF Elsewhere
  <2>7. There(x, w)
    BY <1>5, <2>1, <2>2, <2>3 DEF There
  <2>8. Seeking(x, e, w, n)
    <3>1. x.fptr + n <= IF x.wr THEN MaxSize ELSE x.objsize
      BY <1>4, <2>3, <2>4
    <3>2. ~x.mod => /\ ~x.dirty
                    /\ \/ e = Recording(x)
                       \/ e = Empty /\ x.objsize = 0 /\ x.fptr + n > 0
      BY <1>3, <1>4, <1>10, <2>3, <2>4 DEF Recording
    <3>3. OnCluster(x)
      BY <1>5, <2>3 DEF OnCluster
    <3> QED BY <2>4, <2>7, <3>1, <3>2, <3>3 DEF Seeking
  <2>9. Put(Heads, f, x.sclust, Heads) /\ Lags(x, e)
    BY <1>3, <1>13, <2>3 DEF Lags
  <2>10. Leads(f, Heads, fat, Heads, fat', w)
    BY <2>1, <2>5
  <2> HIDE DEF r, s, e
  <2> QED BY <1>1, <1>2, <2>1, <2>4, <2>5, <2>6, <2>8, <2>9, <2>10, WalkKeeps DEF r, s, e
<1>15. CASE o.res = "full"
  <2> DEFINE x == r1
             n == 0
  <2>1. /\ x \in FilRec /\ x.open = r.open /\ x.wr = r.wr /\ x.fptr = b
        /\ x.objsize = r.objsize /\ x.clust = r.clust /\ x.sect = r.sect /\ x.buf = r.buf
        /\ x.dirty = r.dirty /\ x.mod = r.mod /\ x.err = r.err /\ x.sclust = r.sclust
    BY <1>9
  <2>2. /\ fil' = [fil EXCEPT ![f] = x] /\ UNCHANGED disk /\ fat' = fat
        /\ call' = [op |-> "seek", f |-> f, left |-> n]
    BY <1>8, <1>11, <1>12, <1>15
  <2> HIDE DEF x
  <2>3. Elsewhere(f, x)
    BY <1>2, <2>1 DEF Elsewhere
  <2>4. OnCluster(x) /\ OnSector(x)
    <3>1. OnCluster(x)
      BY <1>5, <2>1 DEF OnCluster
    <3> QED BY <2>1, <3>1, OnBoth
  <2>5. Placed(x, s)
    <3>1. Q(x.fptr - 1) + 1 = m
      BY <1>5, <2>1 DEF m
    <3> QED BY <1>6, <2>1, <2>4, <3>1 DEF Placed
  <2>6. Seeking(x, e, s, n)
    <3>1. x.fptr + n <= IF x.wr THEN MaxSize ELSE x.objsize
      BY <1>3, <1>4, <1>5, <2>1
    <3>2. ~x.mod => /\ ~x.dirty
                    /\ \/ e = Recording(x)
                       \/ e = Empty /\ x.objsize = 0 /\ x.fptr + n > 0
      BY <1>5, <1>10, <2>1 DEF Recording
    <3> QED BY <2>4, <2>5, <3>1, <3>2 DEF Seeking
  <2>7. Put(Heads, f, x.sclust, Heads) /\ Lags(x, e)
    BY <1>3, <1>13, <2>1 DEF Lags
  <2>8. Leads(f, Heads, fat, Heads, fat', s) /\ n \in 0 .. MaxSize /\ Longer(s, s)
    BY <1>3, <1>6, <2>2, Unled, LongerSame
  <2> HIDE DEF n, r, s, e
  <2> QED BY <1>1, <1>2, <2>2, <2>3, <2>6, <2>7, <2>8, WalkKeeps DEF r, s, e
<1>16. CASE o.res = "disk"
  <2> DEFINE x == r1
             t == o.fat
  <2>1. Elsewhere(f, x) /\ x.sclust = r.sclust
    BY <1>2, <1>9 DEF Elsewhere
  <2>2. Abort(f, x, "disk", disk, t) /\ Leads(f, Heads, fat, Heads, t, s)
    BY <1>8, <1>11, <1>16
  <2> HIDE DEF x, t
  <2> QED BY <1>1, <1>2, <2>1, <2>2, WalkAborts
<1> QED BY <1>8, <1>14, <1>15, <1>16

(* At the end of a walk the position is in the cluster that was reached,   *)
(* or behind its last byte.                                                *)
LEMMA WalkEnds ==
    ASSUME NEW r \in FilRec, OnCluster(r), NEW s, NEW n \in 0 .. BCS,
           IF n > 0 THEN There(r, s) ELSE Placed(r, s), Covers(s, r.objsize),
           NEW p, p = r.fptr + n, NEW x, x.fptr = p, x.clust = r.clust
    PROVE  /\ p > 0 => Covers(s, p) /\ Q(p - 1) + 1 \in 1 .. Len(s) /\ r.clust = s[Q(p - 1) + 1]
           /\ OnSector(x) => Placed(x, s)
           /\ ~OnSector(x) => There(x, s)
<1> DEFINE a == r.fptr
<1>1. /\ a \in Nat /\ a % BCS = 0 /\ p \in Nat /\ BCS \in Nat \ {0} /\ p = a + n /\ n \in Nat
      /\ n <= BCS
  BY Sizes DEF FilRec, OnCluster
<1>2. s \in Seq(Cluster) /\ Len(s) \in Nat
  BY DEF Covers
<1> HIDE DEF a
<1>3. /\ \A m \in 0 .. BCS - 1 : Q(a + m) = Q(a)
      /\ Q(a + BCS) = Q(a) + 1 /\ (a + BCS) % BCS = 0
  BY <1>1, ClusterAhead
<1>4. ASSUME p > 0
      PROVE  Covers(s, p) /\ Q(p - 1) + 1 \in 1 .. Len(s) /\ r.clust = s[Q(p - 1) + 1]
  <2>1. Q(p - 1) + 1 \in 1 .. Len(s) /\ r.clust = s[Q(p - 1) + 1]
    <3>1. CASE n > 0
      <4> DEFINE m == n - 1
      <4>1. m \in 0 .. BCS - 1 /\ p - 1 = a + m
        BY <1>1, <3>1
      <4> HIDE DEF m
      <4>2. Q(p - 1) = Q(a)
        BY <1>3, <4>1
      <4> QED BY <3>1, <4>2 DEF There, a
    <3>2. CASE ~(n > 0)
      <4>1. Placed(r, s) /\ n = 0 /\ p = r.fptr
        BY <1>1, <3>2 DEF a
      <4> QED BY <1>4, <4>1 DEF Placed
    <3> QED BY <3>1, <3>2
  <2> DEFINE i == p - 1
  <2>2. i \in Nat /\ i + 1 = p /\ Q(i) + 1 \in 1 .. Len(s)
    BY <1>1, <1>4, <2>1
  <2> HIDE DEF i
  <2>3. Covers(s, i + 1)
    BY <1>2, <2>2, CoversBehind
  <2> QED BY <2>1, <2>2, <2>3
<1>5. OnSector(x) => Placed(x, s)
  BY <1>1, <1>2, <1>4 DEF Placed
<1>6. ASSUME ~OnSector(x) PROVE There(x, s)
  <2>1. B(p) # 0
    BY <1>6 DEF OnSector, B
  <2>2. n # 0 /\ n # BCS
    <3> SUFFICES ASSUME n = 0 \/ n = BCS PROVE FALSE
      OBVIOUS
    <3>1. p % BCS = 0
      BY <1>1, <1>3
    <3> QED BY <1>1, <2>1, <3>1, Boundaries
  <2>3. n \in 0 .. BCS - 1 /\ n > 0
    BY <1>1, <2>2
  <2>4. Q(p) = Q(a)
    BY <1>1, <1>3, <2>3
  <2> QED BY <2>3, <2>4 DEF There, a
<1> QED BY <1>4, <1>5, <1>6

LEMMA SeekEndKeeps ==
    ASSUME IInv, NEW f \in File, SeekEnd(f)
    PROVE  IInv'
<1> DEFINE q == fil[f]
           s == OwnChain(f)
           e == entry[f]
           M == Members(s)
           n == call.left
           p == q.fptr + n
           size == q.objsize
           r == [q EXCEPT !.fptr = p]
           g == IF p > size THEN [r EXCEPT !.objsize = p, !.mod = TRUE] ELSE r
           v == undef[f] \cup (size .. g.objsize - 1)
<1>1. /\ q \in FilRec /\ e \in EntryRec /\ Held(q, e, s) /\ First(f) = HeadOf(q, e)
      /\ MaxSize \in Nat /\ disk \in Disk /\ BCS \in Nat \ {0} /\ q.fptr \in Nat
      /\ size \in 0 .. MaxSize /\ undef[f] \in SUBSET Offset
  BY Given, GeometryAssumption, Sizes DEF FilRec
<1>2. /\ Running("seek", f) /\ call.left <= BCS /\ UNCHANGED <<fat, entry, cached, misread, stray>>
      /\ undef' = [undef EXCEPT ![f] = v] /\ call' = NoCall
      /\ \E m \in IF OnSector(r) THEN {Moved("ok", g, disk)} ELSE Bring(g, SectorOf(r), disk) :
            /\ fil' = [fil EXCEPT ![f] = IF m.res = "ok" THEN m.r ELSE [m.r EXCEPT !.err = m.res]]
            /\ disk' = m.disk
  <2>1. /\ r.objsize = size /\ r.fptr = p /\ r = [q EXCEPT !.fptr = @ + call.left]
    BY <1>1 DEF FilRec
  <2> QED BY <2>1 DEF SeekEnd
<1>3. /\ call.f = f /\ q.open /\ q.err = "none" /\ n \in Nat /\ Seeking(q, e, s, n)
      /\ Covers(s, size) /\ Lags(q, e)
      /\ ~stray => Sound(f, q, s, disk, undef[f])
  <2>1. /\ call.f = f /\ q.open /\ q.err = "none" /\ n \in 0 .. MaxSize /\ Seeking(q, e, s, n)
    BY <1>2, RunningIs DEF InCall
  <2>2. ~stray => Sound(f, q, s, disk, undef[f])
    BY <2>1, Given DEF Data
  <2>3. Covers(s, size) /\ Lags(q, e)
    BY <1>1, <2>1 DEF Held, Bytes
  <2> QED BY <1>1, <2>1, <2>2, <2>3
<1>4. /\ p \in Nat /\ p <= IF q.wr THEN MaxSize ELSE size
      /\ OnCluster(q) /\ (IF n > 0 THEN There(q, s) ELSE Placed(q, s)) /\ n \in 0 .. BCS
      /\ p \in 0 .. MaxSize
  BY <1>1, <1>2, <1>3 DEF Seeking
<1>5. /\ ~q.mod => ~q.dirty
      /\ ~q.mod => e = Recording(q) \/ (e = Empty /\ size = 0 /\ p > 0)
  BY <1>3 DEF Seeking
<1> HIDE DEF p
<1>6. /\ r \in FilRec /\ r.fptr = p /\ r.clust = q.clust /\ r.objsize = size /\ r.mod = q.mod
      /\ r.sect = q.sect /\ r.buf = q.buf /\ r.dirty = q.dirty /\ r.open = q.open
      /\ r.err = q.err /\ r.sclust = q.sclust
  BY <1>1, <1>4 DEF FilRec
<1> HIDE DEF r
<1>7. /\ g \in FilRec /\ g.fptr = p /\ g.clust = q.clust
      /\ g.objsize = (IF p > size THEN p ELSE size)
      /\ g.mod = (IF p > size THEN TRUE ELSE q.mod)
      /\ g.sect = q.sect /\ g.buf = q.buf /\ g.dirty = q.dirty /\ g.open = q.open
      /\ g.err = q.err /\ g.sclust = q.sclust
  <2>1. CASE p > size
    <3> DEFINE y == [r EXCEPT !.objsize = p, !.mod = TRUE]
    <3>1. /\ y \in FilRec /\ y.fptr = p /\ y.clust = r.clust /\ y.objsize = p /\ y.mod = TRUE
          /\ y.sect = r.sect /\ y.buf = r.buf /\ y.dirty = r.dirty /\ y.open = r.open
          /\ y.err = r.err /\ y.sclust = r.sclust
      BY <1>4, <1>6 DEF FilRec
    <3> HIDE DEF y
    <3>2. g = y
      BY <2>1 DEF y
    <3> HIDE DEF g
    <3> QED BY <1>6, <2>1, <3>1, <3>2
  <2>2. CASE ~(p > size)
    BY <1>6, <2>2
  <2> QED BY <2>1, <2>2
<1> HIDE DEF g
<1>8. /\ p > 0 => Covers(s, p) /\ Q(p - 1) + 1 \in 1 .. Len(s) /\ q.clust = s[Q(p - 1) + 1]
      /\ OnSector(r) => Placed(g, s)
      /\ ~OnSector(r) => There(g, s)
      /\ OnSector(g) <=> OnSector(r)
      /\ SectorOf(g) = SectorOf(r)
  <2>1. /\ p > 0 => Covers(s, p) /\ Q(p - 1) + 1 \in 1 .. Len(s) /\ q.clust = s[Q(p - 1) + 1]
        /\ OnSector(g) => Placed(g, s)
        /\ ~OnSector(g) => There(g, s)
    <3>1. p = q.fptr + n
      BY DEF p
    <3> HIDE DEF q, s, n
    <3>2. Covers(s, q.objsize)
      BY <1>3
    <3> QED BY <1>1, <1>4, <1>7, <3>1, <3>2, WalkEnds
  <2>2. OnSector(g) <=> OnSector(r)
    BY <1>6, <1>7 DEF OnSector
  <2>3. SectorOf(g) = SectorOf(r)
    BY <1>6, <1>7 DEF SectorOf
  <2> QED BY <2>1, <2>2, <2>3
<1>9. Covers(s, g.objsize) /\ g.fptr <= g.objsize /\ g.objsize \in Nat
  BY <1>1, <1>3, <1>4, <1>7, <1>8
<1>10. Fine(M, g, disk)
  <2>1. q.dirty => q.sect \in Sector /\ q.sect[1] \in M
    BY <1>1, <1>3 DEF Held
  <2> QED BY <1>1, <1>3, <1>7, <2>1 DEF Fine, Held
<1>11. v \in SUBSET Offset
  <2>1. size .. g.objsize - 1 \subseteq Offset
    BY <1>1, <1>4, <1>7 DEF Offset
  <2> QED BY <1>1, <2>1
<1>12. ~stray => Sound(f, g, s, disk, v)
  <2> SUFFICES ASSUME ~stray, NEW i \in (0 .. g.objsize - 1) \ v
               PROVE  /\ g.sect = SectorAt(s, i) /\ (g.dirty \/ g.err = "none") => g.buf[B(i)] = <<f, i>>
                      /\ ~(g.sect = SectorAt(s, i) /\ g.dirty) => disk[SectorAt(s, i)][B(i)] = <<f, i>>
    BY DEF Sound
  <2>1. i \in (0 .. size - 1) \ undef[f]
    BY <1>1, <1>9
  <2>2. Sound(f, q, s, disk, undef[f])
    BY <1>3
  <2> QED BY <1>7, <2>1, <2>2 DEF Sound
<1>13. PICK m \in IF OnSector(r) THEN {Moved("ok", g, disk)} ELSE Bring(g, SectorOf(r), disk) :
            /\ fil' = [fil EXCEPT ![f] = IF m.res = "ok" THEN m.r ELSE [m.r EXCEPT !.err = m.res]]
            /\ disk' = m.disk
  BY <1>2
<1> HIDE DEF v
<1>14. /\ Moves(f, M, s, v, g, disk, m)
       /\ m.res = "ok" /\ ~OnSector(r) => m.r.sect = SectorOf(g)
  <2> DEFINE t == SectorOf(r)
             d == disk
  <2>1. Fine(M, g, d)
    BY <1>10
  <2> HIDE DEF M, s, d
  <2>2. CASE OnSector(r)
    <3>1. m = Moved("ok", g, d)
      BY <1>13, <2>2 DEF d
    <3>2. Moves(f, M, s, v, g, d, m)
      BY <2>1, <3>1, MovesNot
    <3> QED BY <2>2, <3>2 DEF d
  <2>3. CASE ~OnSector(r)
    <3>1. m \in Bring(g, t, d) /\ t \in Sector
      BY <1>7, <1>8, <1>13, <2>3, ThereIsSector DEF d
    <3> HIDE DEF t
    <3>2. Moves(f, M, s, v, g, d, m) /\ (m.res = "ok" => m.r.sect = t)
      BY <1>9, <2>1, <3>1, Brought
    <3> QED BY <1>8, <3>2 DEF d, t
  <2> QED BY <2>2, <2>3
<1>15. /\ Fine(M, m.r, m.disk) /\ Same(g, m.r) /\ Clean(f, M, disk, m.disk)
       /\ m.res \in {"ok", "disk"} /\ (m.r.dirty => g.dirty)
       /\ ~stray /\ m.res = "ok" => Sound(f, m.r, s, m.disk, v)
       /\ ~stray => Sound(f, [m.r EXCEPT !.err = "disk"], s, m.disk, v)
  BY <1>12, <1>14 DEF Moves
<1> DEFINE x == IF m.res = "ok" THEN m.r ELSE [m.r EXCEPT !.err = "disk"]
<1>16. /\ x \in FilRec /\ x.open /\ x.objsize = g.objsize /\ x.sclust = q.sclust /\ x.fptr = p
       /\ x.clust = q.clust /\ x.mod = g.mod /\ x.buf \in Content
       /\ (x.dirty => x.sect \in Sector /\ x.sect[1] \in M /\ q.dirty)
       /\ x.err = (IF m.res = "ok" THEN "none" ELSE "disk")
       /\ x.sect = m.r.sect
  <2> DEFINE y == m.r
  <2>1. /\ y \in FilRec /\ y.buf \in Content /\ y.open /\ y.objsize = g.objsize
        /\ y.sclust = q.sclust /\ y.fptr = p /\ y.clust = q.clust /\ y.mod = g.mod
        /\ (y.dirty => y.sect \in Sector /\ y.sect[1] \in M /\ q.dirty) /\ y.err = "none"
    BY <1>3, <1>7, <1>15 DEF Fine, Same
  <2> HIDE DEF y
  <2>2. x = IF m.res = "ok" THEN y ELSE [y EXCEPT !.err = "disk"]
    BY DEF y
  <2> HIDE DEF x
  <2>3. CASE m.res = "ok"
    BY <2>1, <2>2, <2>3 DEF y
  <2>4. CASE m.res # "ok"
    <3> HIDE DEF M, g, q, p
    <3>1. x = [y EXCEPT !.err = "disk"]
      BY <2>2, <2>4
    <3>2. /\ x \in FilRec /\ x.buf = y.buf /\ x.open = y.open /\ x.objsize = y.objsize
          /\ x.sclust = y.sclust /\ x.fptr = y.fptr /\ x.clust = y.clust /\ x.mod = y.mod
          /\ x.dirty = y.dirty /\ x.sect = y.sect /\ x.err = "disk"
      BY <2>1, <3>1 DEF FilRec
    <3> QED BY <2>1, <2>4, <3>2 DEF y
  <2> QED BY <2>3, <2>4
<1>17. fil' = [fil EXCEPT ![f] = x] /\ (~stray => Sound(f, x, s, m.disk, v))
  BY <1>13, <1>15
<1> HIDE DEF x
<1>18. Lags(x, e)
  <2>1. ~g.mod => ~q.mod /\ g.objsize = size
    BY <1>7
  <2> QED BY <1>3, <1>16, <2>1 DEF Lags
<1>19. Held(x, e, s)
  <2>1. Bytes(x, e) = g.objsize
    BY <1>16 DEF Bytes
  <2>2. x.err # "int"
    BY <1>15, <1>16
  <2> QED BY <1>1, <1>9, <1>16, <1>18, <2>1, <2>2 DEF Held
<1>20. Idle(x, e, s)
  <2> SUFFICES ASSUME x.err = "none" PROVE Placed(x, s) /\ Agrees(x, e) /\ x.fptr <= x.objsize
    BY DEF Idle
  <2>1. m.res = "ok"
    BY <1>16
  <2>2. Placed(x, s)
    <3>1. CASE OnSector(r)
      <4>1. Placed(g, s) /\ OnSector(x) /\ x.fptr = g.fptr /\ x.clust = g.clust
        BY <1>6, <1>7, <1>8, <1>16, <3>1 DEF OnSector
      <4> QED BY <4>1 DEF Placed
    <3>2. CASE ~OnSector(r)
      <4>1. There(g, s) /\ x.sect = SectorOf(g) /\ SectorOf(x) = SectorOf(g)
        BY <1>7, <1>8, <1>14, <1>16, <2>1, <3>2 DEF SectorOf
      <4>2. p > 0 => Q(p - 1) + 1 \in 1 .. Len(s) /\ q.clust = s[Q(p - 1) + 1]
        BY <1>8
      <4>3. s \in Seq(Cluster) /\ Len(s) \in Nat
        BY <4>1 DEF There
      <4> QED BY <1>16, <4>1, <4>2, <4>3 DEF Placed
    <3> QED BY <3>1, <3>2
  <2>3. Agrees(x, e)
    <3> SUFFICES ASSUME ~x.mod PROVE ~x.dirty /\ e = Recording(x)
      BY DEF Agrees
    <3>1. ~(p > size) /\ ~q.mod /\ g.objsize = size
      BY <1>7, <1>16
    <3>2. ~q.dirty /\ e = Recording(q)
      BY <1>1, <1>4, <1>5, <3>1
    <3> QED BY <1>16, <3>1, <3>2 DEF Recording
  <2>4. x.fptr <= x.objsize
    BY <1>7, <1>9, <1>16
  <2> QED BY <2>2, <2>3, <2>4
<1>21. Mine(f, x, e, s, call')
  BY <1>2, <1>19, <1>20 DEF Mine, Busy
<1>22. Renewed(f, x, e, v)
  BY <1>2, <1>17 DEF Renewed, IInv
<1>23. Turn(f)
  BY <1>2, <1>3, <1>13, <1>15 DEF Turn, IInv, Fine
<1>24. HeadOf(x, e) = First(f)
  BY <1>1, <1>3, <1>16 DEF HeadOf
<1>25. ~stray' => Data(f, x, e, s, disk', v)
  BY <1>2, <1>13, <1>16, <1>17 DEF Data
<1>26. ~stray' => Clean(f, M, disk, disk')
  BY <1>13, <1>15
<1>27. ReadsRight'
  BY <1>2 DEF IInv, ReadsRight
<1> HIDE DEF e
<1> QED BY <1>1, <1>2, <1>11, <1>16, <1>21, <1>22, <1>23, <1>24, <1>25, <1>26, <1>27, FrameQuiet

-----------------------------------------------------------------------------
(* Removing clusters.                                                      *)
LEMMA RemoveFrees ==
    ASSUME fat \in [Cluster -> Value], NEW c, c # None, NEW p,
           p \in Cluster \cup {None}, NEW ch, ch = Chain(c, fat), Len(ch) \in Nat,
           NEW o \in remove_chain(c, p)
    PROVE  \/ o.res = "disk" /\ o.fat = fat
           \/ o.res \in {"ok", "disk"} /\ \E j \in 0 .. Len(ch) : Frees(FirstOf(ch, j), p, fat, o.fat)
<1> DEFINE Cut1 == IF p = None THEN fat ELSE [fat EXCEPT ![p] = EOC]
           Upto(k) == [x \in Cluster |-> IF x \in {ch[i] : i \in 1 .. k} THEN None ELSE Cut1[x]]
<1>1. \/ o = Outcome("ok", None, Upto(Len(ch)))
      \/ o = Outcome("disk", None, fat)
      \/ \E k \in 0 .. Len(ch) - 1 : o = Outcome("disk", None, Upto(k))
  BY DEF remove_chain
<1>2. ASSUME NEW k PROVE Frees(FirstOf(ch, k), p, fat, Upto(k))
  <2>1. \A x \in Cluster : Cut1[x] = IF x = p THEN EOC ELSE fat[x]
    BY Marks
  <2> HIDE DEF Cut1
  <2> QED BY <2>1 DEF Frees, FirstOf
<1> HIDE DEF Upto
<1>3. CASE o = Outcome("ok", None, Upto(Len(ch)))
  <2>1. o.res = "ok" /\ o.fat = Upto(Len(ch)) /\ Len(ch) \in 0 .. Len(ch)
    BY <1>3 DEF Outcome
  <2> QED BY <1>2, <2>1
<1>4. CASE \E k \in 0 .. Len(ch) - 1 : o = Outcome("disk", None, Upto(k))
  <2>1. PICK k \in 0 .. Len(ch) - 1 : o = Outcome("disk", None, Upto(k))
    BY <1>4
  <2>2. o.res = "disk" /\ o.fat = Upto(k) /\ k \in 0 .. Len(ch)
    BY <2>1 DEF Outcome
  <2> QED BY <1>2, <2>2
<1>5. CASE o = Outcome("disk", None, fat)
  BY <1>5 DEF Outcome
<1> QED BY <1>1, <1>3, <1>4, <1>5

(* The whole chain of f is removed, as far as that gets.                   *)
LEMMA RemovesAll ==
    ASSUME IInv, NEW f \in File, First(f) # None, NEW o \in remove_chain(First(f), None),
           NEW k, Put(Heads, f, None, k)
    PROVE  /\ o.res \in {"ok", "disk"}
           /\ Leads(f, Heads, fat, k, o.fat, <<>>)
<1> DEFINE s == OwnChain(f)
<1>1. /\ Volume(Heads, fat) /\ fat \in [Cluster -> Value] /\ Heads[f] = First(f)
      /\ s = Chain(First(f), fat) /\ Len(s) \in Nat
  BY Given, Leading DEF Volume
<1>2. Frees(FirstOf(s, 0), None, fat, fat)
  <2>1. FirstOf(s, 0) = {}
    BY DEF FirstOf
  <2> HIDE DEF s
  <2>2. fat = [x \in Cluster |-> IF x = None THEN EOC ELSE fat[x]]
    BY <1>1, Marks
  <2> QED BY <2>1, <2>2 DEF Frees
<1>3. /\ o.res \in {"ok", "disk"}
      /\ \E j \in 0 .. Len(s) : Frees(FirstOf(s, j), None, fat, o.fat)
  <2> DEFINE c == First(f)
             p == None
  <2>1. c # None /\ p \in Cluster \cup {None} /\ s = Chain(c, fat) /\ o \in remove_chain(c, p)
    BY <1>1
  <2>2. 0 \in 0 .. Len(s)
    BY <1>1
  <2> HIDE DEF c, p, s
  <2>3. \/ o.res = "disk" /\ o.fat = fat
        \/ o.res \in {"ok", "disk"} /\ \E j \in 0 .. Len(s) : Frees(FirstOf(s, j), p, fat, o.fat)
    BY <1>1, <2>1, RemoveFrees
  <2> QED BY <1>2, <2>2, <2>3 DEF p
<1>4. PICK j \in 0 .. Len(s) : Frees(FirstOf(s, j), None, fat, o.fat)
  BY <1>3
<1> DEFINE h == Heads
           u == o.fat
<1>5. Volume(h, fat) /\ j \in 0 .. Len(Chain(h[f], fat)) /\ Put(h, f, None, k)
      /\ Frees(FirstOf(Chain(h[f], fat), j), None, fat, u)
  BY <1>1, <1>4
<1> HIDE DEF h, u
<1>6. Volume(k, u) /\ Chain(k[f], u) = <<>> /\ Others(f, h, fat, k, u)
  BY <1>5, Removed
<1> QED BY <1>3, <1>6 DEF Leads, h, u

(* f_truncate removes what follows the position, as far as that gets.      *)
LEMMA CutLeads ==
    ASSUME IInv, NEW f \in File, NEW r, r = fil[f], r.open, Placed(r, OwnChain(f)),
           r.fptr < r.objsize, NEW o \in Cut(r),
           NEW k, Put(Heads, f, IF r.fptr = 0 THEN None ELSE r.sclust, k)
    PROVE  /\ o.res \in {"ok", "disk"}
           /\ \E w : /\ Leads(f, Heads, fat, k, o.fat, w) /\ Longer(w, OwnChain(f))
                     /\ r.fptr > 0 => Q(r.fptr - 1) + 1 \in 1 .. Len(w)
<1> DEFINE s == OwnChain(f)
           p == r.fptr
           m == Q(p - 1) + 1
<1>1. /\ r \in FilRec /\ p \in Nat /\ r.objsize \in Nat /\ First(f) = r.sclust
      /\ Volume(Heads, fat) /\ Heads[f] = First(f) /\ s = Chain(First(f), fat)
      /\ Good(s, First(f), fat) /\ Covers(s, r.objsize) /\ fat \in [Cluster -> Value]
  BY Given DEF First, FilRec, Bytes, Volume
<1>2. First(f) # None
  BY <1>1, Bare DEF Bytes
<1>3. s \in Seq(Cluster) /\ Len(s) \in Nat
  BY <1>2, Leading
<1>4. CASE p = 0
  <2>1. o \in remove_chain(First(f), None) /\ Put(Heads, f, None, k)
    BY <1>1, <1>4 DEF Cut
  <2>2. o.res \in {"ok", "disk"} /\ Leads(f, Heads, fat, k, o.fat, <<>>)
    BY <1>2, <2>1, RemovesAll
  <2> DEFINE w == <<>>
  <2>3. w \in Seq(Cluster) /\ Len(w) = 0
    OBVIOUS
  <2> HIDE DEF w, s
  <2>4. Longer(w, s)
    BY <1>3, <2>3 DEF Longer
  <2> QED BY <1>4, <2>2, <2>4 DEF w, s
<1>5. CASE p # 0
  <2>1. m \in 1 .. Len(s) /\ r.clust = s[m] /\ p > 0
    BY <1>1, <1>5 DEF Placed
  <2> DEFINE c == r.clust
  <2>2. k = Heads
    BY <1>1, <1>5 DEF Put, Heads
  <2> HIDE DEF m
  <2>3. /\ c \in Cluster /\ c \in Members(s)
        /\ m < Len(s) => fat[c] = s[m + 1] /\ s[m + 1] \in Cluster
        /\ m = Len(s) => fat[c] = EOC
    <3> DEFINE a == First(f)
    <3>1. Good(s, a, fat)
      BY <1>1
    <3> HIDE DEF a, s
    <3>2. /\ s[m] \in Cluster /\ s[m] \in Members(s)
          /\ m < Len(s) => fat[s[m]] = s[m + 1] /\ s[m + 1] \in Cluster
          /\ m = Len(s) => fat[s[m]] = EOC
      BY <1>1, <2>1, <3>1, NextOf
    <3> QED BY <2>1, <3>2
  <2>4. /\ Leads(f, Heads, fat, k, fat, s) /\ Longer(s, s) /\ m \in 1 .. Len(s)
    BY <1>3, <2>1, <2>2, Unled, LongerSame
  <2>5. \/ o.res \in {"ok", "disk"} /\ o.fat = fat
        \/ fat[c] # EOC /\ o \in remove_chain(fat[c], c)
    <3>1. \/ o = Outcome("disk", None, fat) \/ o = Outcome("ok", None, fat)
          \/ fat[c] # EOC /\ o \in remove_chain(fat[c], c)
      BY <1>5 DEF Cut
    <3> QED BY <3>1 DEF Outcome
  <2>6. CASE o.res \in {"ok", "disk"} /\ o.fat = fat
    BY <2>4, <2>6 DEF m
  <2>7. CASE fat[c] # EOC /\ o \in remove_chain(fat[c], c)
    <3>1. m < Len(s) /\ m \in 1 .. Len(s) - 1 /\ fat[c] # None
      BY <1>3, <2>1, <2>3, <2>7, Marks
    <3> DEFINE b == fat[c]
               z == Chain(b, fat)
    <3>2. Len(z) \in Nat
      <4>1. IsRest(Chain(fat[Chain(Heads[f], fat)[m]], fat), Chain(Heads[f], fat), m, fat)
        <5> DEFINE h == Heads
        <5>1. Volume(h, fat) /\ m \in 1 .. Len(Chain(h[f], fat)) - 1
          BY <1>1, <3>1
        <5> HIDE DEF h
        <5>2. IsRest(Chain(fat[Chain(h[f], fat)[m]], fat), Chain(h[f], fat), m, fat)
          BY <5>1, TailIsRead
        <5> QED BY <5>2 DEF h
      <4>2. z \in Seq(Cluster)
        BY <1>1, <2>1, <4>1 DEF IsRest
      <4> QED BY <4>2
    <3>3. \/ o.res = "disk" /\ o.fat = fat
          \/ o.res \in {"ok", "disk"} /\ \E j \in 0 .. Len(z) : Frees(FirstOf(z, j), c, fat, o.fat)
      <4>1. b # None /\ c \in Cluster \cup {None} /\ z = Chain(b, fat) /\ o \in remove_chain(b, c)
        BY <2>3, <2>7, <3>1
      <4> HIDE DEF b, z, c
      <4> QED BY <1>1, <3>2, <4>1, RemoveFrees
    <3>4. CASE o.res = "disk" /\ o.fat = fat
      BY <2>6, <3>4
    <3>5. CASE o.res \in {"ok", "disk"} /\ \E j \in 0 .. Len(z) : Frees(FirstOf(z, j), c, fat, o.fat)
      <4>1. PICK j \in 0 .. Len(z) : Frees(FirstOf(z, j), c, fat, o.fat)
        BY <3>5
      <4> DEFINE h == Heads
                 u == o.fat
                 w == SubSeq(s, 1, m)
      <4>2. Volume(h, fat) /\ Others(f, h, fat, h, u) /\ Volume(h, u) /\ Chain(h[f], u) = w
        <5>1. /\ f \in File /\ Volume(h, fat) /\ m \in 1 .. Len(Chain(h[f], fat)) - 1
              /\ c = Chain(h[f], fat)[m]
              /\ j \in 0 .. Len(Chain(fat[c], fat)) /\ Frees(FirstOf(Chain(fat[c], fat), j), c, fat, u)
          BY <1>1, <2>1, <3>1, <4>1
        <5>2. s = Chain(h[f], fat)
          BY <1>1
        <5> HIDE DEF h, u, c, s
        <5>3. /\ Volume(h, u) /\ Others(f, h, fat, h, u)
              /\ Chain(h[f], u) = SubSeq(Chain(h[f], fat), 1, m)
          <6>1. Cutting(f, h, fat, m, c, j, u)
            BY <5>1 DEF Cutting
          <6> QED BY <5>1, <6>1, CutShort
        <5> QED BY <5>1, <5>2, <5>3
      <4>3. w \in Seq(Cluster) /\ Len(w) = m /\ \A i \in 1 .. m : w[i] = s[i]
        <5>1. m \in 0 .. Len(s)
          BY <2>1
        <5> HIDE DEF s, m
        <5> QED BY <1>3, <5>1, CutIs
      <4> HIDE DEF w
      <4>4. Longer(w, s) /\ m \in 1 .. Len(w)
        <5> HIDE DEF s
        <5> QED BY <1>3, <2>1, <4>3 DEF Longer
      <4>5. Leads(f, Heads, fat, k, o.fat, w)
        BY <2>2, <4>2 DEF Leads
      <4> QED BY <3>5, <4>4, <4>5 DEF m
    <3> QED BY <3>3, <3>4, <3>5
  <2> QED BY <2>5, <2>6, <2>7
<1> QED BY <1>4, <1>5

(* The object x is r cut short, and has the buffer y.                      *)
Shortening(r, y, x) == x = Shortened([r EXCEPT !.buf = y])

LEMMA ShortenedIs ==
    ASSUME NEW r \in FilRec, NEW y \in Content, NEW x, Shortening(r, y, x)
    PROVE  /\ x \in FilRec /\ x.open = r.open /\ x.wr = r.wr /\ x.fptr = r.fptr
           /\ x.objsize = r.fptr /\ x.clust = r.clust /\ x.sect = r.sect /\ x.buf = y
           /\ x.dirty = r.dirty /\ x.mod = TRUE /\ x.err = r.err
           /\ x.sclust = IF r.fptr = 0 THEN None ELSE r.sclust
<1> DEFINE z == [r EXCEPT !.buf = y]
           c == IF z.fptr = 0 THEN None ELSE z.sclust
           p == z.fptr
<1>1. /\ z \in FilRec /\ z.open = r.open /\ z.wr = r.wr /\ z.fptr = r.fptr
      /\ z.objsize = r.objsize /\ z.clust = r.clust /\ z.sect = r.sect /\ z.buf = y
      /\ z.dirty = r.dirty /\ z.mod = r.mod /\ z.err = r.err /\ z.sclust = r.sclust
  BY DEF FilRec
<1> HIDE DEF z
<1>2. c \in Cluster \cup {None} /\ p \in 0 .. MaxSize
  BY <1>1 DEF FilRec
<1>3. x = [z EXCEPT !.objsize = p, !.mod = TRUE, !.sclust = c]
  BY DEF Shortened, Shortening, z
<1>4. c = IF r.fptr = 0 THEN None ELSE r.sclust
  BY <1>1
<1>5. p = r.fptr
  BY <1>1
<1> HIDE DEF c, p
<1>6. /\ x \in FilRec /\ x.open = z.open /\ x.wr = z.wr /\ x.fptr = z.fptr
      /\ x.objsize = p /\ x.clust = z.clust /\ x.sect = z.sect /\ x.buf = z.buf
      /\ x.dirty = z.dirty /\ x.mod = TRUE /\ x.err = z.err /\ x.sclust = c
  BY <1>1, <1>2, <1>3 DEF FilRec
<1> QED BY <1>1, <1>4, <1>5, <1>6

(* The object cut short holds the bytes in front of its position.          *)
LEMMA ShortenedSound ==
    ASSUME NEW f \in File, NEW r \in FilRec, NEW d \in Disk, r.buf \in Content, r.err = "none",
           NEW s, Covers(s, r.objsize), r.fptr <= r.objsize, NEW u, Sound(f, r, s, d, u),
           NEW gone, gone = r.fptr .. r.objsize - 1,
           NEW x, x.sect = r.sect, x.dirty = r.dirty, x.objsize = r.fptr,
           x.buf = Forget(r.buf, f, gone), NEW w, Longer(w, s), Covers(w, r.fptr)
    PROVE  Sound(f, x, w, ForgetOnDisk(d, f, gone), u \ gone)
<1> DEFINE e == ForgetOnDisk(d, f, gone)
           v == u \cup gone
           b == Forget(r.buf, f, gone)
           y == [r EXCEPT !.buf = b]
<1>1. b \in Content
  <2> DEFINE a == r.buf
  <2>1. a \in Content
    OBVIOUS
  <2> HIDE DEF a
  <2>2. Forget(a, f, gone) \in Content
    BY <2>1, Forgotten
  <2> QED BY <2>2 DEF a
<1> HIDE DEF b
<1>2. /\ y.sect = r.sect /\ y.dirty = r.dirty /\ y.objsize = r.objsize /\ y.err = r.err
      /\ y.buf = b
  BY <1>1 DEF FilRec
<1> HIDE DEF y
<1>3. Sound(f, y, s, e, v)
  <2>1. \A i \in 0 .. r.objsize - 1 : i \notin v => i \notin u /\ i \notin gone
    OBVIOUS
  <2>2. y.buf = Forget(r.buf, f, gone) /\ (y.err = "none" => r.err = "none")
    BY <1>2 DEF b
  <2> HIDE DEF v, e
  <2>3. Sound(f, y, s, ForgetOnDisk(d, f, gone), v)
    BY <1>2, <2>1, <2>2, ForgottenSound
  <2> QED BY <2>3 DEF e
<1>4. Sound(f, x, s, e, u \ gone)
  <2> SUFFICES ASSUME NEW i \in (0 .. x.objsize - 1) \ (u \ gone)
               PROVE  /\ x.sect = SectorAt(s, i) => x.buf[B(i)] = <<f, i>>
                      /\ ~(x.sect = SectorAt(s, i) /\ x.dirty) => e[SectorAt(s, i)][B(i)] = <<f, i>>
    BY DEF Sound
  <2>1. i \in (0 .. y.objsize - 1) \ v
    BY <1>2 DEF FilRec
  <2> HIDE DEF v, e
  <2> QED BY <1>2, <1>3, <2>1 DEF Sound, b
<1> DEFINE g == u \ gone
<1>5. Sound(f, x, s, e, g)
  BY <1>4
<1>6. Covers(w, x.objsize)
  OBVIOUS
<1> HIDE DEF e, g
<1>7. Sound(f, x, w, e, g)
  BY <1>5, <1>6, LongerSound
<1> QED BY <1>7 DEF e, g

LEMMA TruncateKeeps ==
    ASSUME IInv, NEW f \in File, f_truncate(f)
    PROVE  IInv'
<1> DEFINE r == fil[f]
           s == OwnChain(f)
           e == entry[f]
           u == undef[f]
           M == Members(s)
           p == r.fptr
           gone == r.fptr .. r.objsize - 1
           b == Forget(r.buf, f, gone)
           y == Shortened([r EXCEPT !.buf = Forget(r.buf, f, gone)])
           d == ForgetOnDisk(disk, f, gone)
           v == u \ gone
           sc == IF r.fptr = 0 THEN None ELSE r.sclust
           k == [Heads EXCEPT ![f] = sc]
<1>1. /\ Ready(f) /\ r.wr /\ r.fptr < r.objsize
      /\ UNCHANGED <<entry, cached, call, misread, stray>>
      /\ undef' = [undef EXCEPT ![f] = v]
      /\ \E o \in Cut(r) :
            /\ fat' = o.fat
            /\ \E m \in IF o.res = "ok" THEN Flush(y, d) ELSE {Moved(o.res, y, d)} :
                 /\ fil' = [fil EXCEPT ![f] = IF m.res = "ok" THEN m.r ELSE [m.r EXCEPT !.err = m.res]]
                 /\ disk' = m.disk
  BY DEF f_truncate
<1>2. /\ call = NoCall /\ r.open /\ r.err = "none" /\ Placed(r, s) /\ Agrees(r, e)
      /\ p <= r.objsize /\ r.objsize \in 0 .. MaxSize /\ p \in 0 .. MaxSize
  BY <1>1, ReadyIs
<1>3. /\ r \in FilRec /\ e \in EntryRec /\ Held(r, e, s) /\ First(f) = r.sclust
      /\ s \in Seq(Cluster) /\ MaxSize \in Nat /\ Covers(s, r.objsize)
      /\ disk \in Disk /\ u \in SUBSET Offset /\ p \in Nat /\ r.buf \in Content
  BY <1>2, Given, GeometryAssumption DEF Held, First, Placed, Bytes
<1>4. ~stray => Sound(f, r, s, disk, u)
  BY <1>2, Given DEF Data
<1>5. PICK o \in Cut(r) :
            /\ fat' = o.fat
            /\ \E m \in IF o.res = "ok" THEN Flush(y, d) ELSE {Moved(o.res, y, d)} :
                 /\ fil' = [fil EXCEPT ![f] = IF m.res = "ok" THEN m.r ELSE [m.r EXCEPT !.err = m.res]]
                 /\ disk' = m.disk
  BY <1>1
<1>6. PICK m \in IF o.res = "ok" THEN Flush(y, d) ELSE {Moved(o.res, y, d)} :
                 /\ fil' = [fil EXCEPT ![f] = IF m.res = "ok" THEN m.r ELSE [m.r EXCEPT !.err = m.res]]
                 /\ disk' = m.disk
  BY <1>5
<1>7. /\ o.res \in {"ok", "disk"}
      /\ \E w : /\ Leads(f, Heads, fat, k, o.fat, w) /\ Longer(w, s)
                /\ p > 0 => Q(p - 1) + 1 \in 1 .. Len(w)
  <2>1. Put(Heads, f, IF r.fptr = 0 THEN None ELSE r.sclust, k)
    BY DEF Put
  <2> HIDE DEF k
  <2> QED BY <1>1, <1>2, <2>1, CutLeads
<1>8. PICK w : /\ Leads(f, Heads, fat, k, o.fat, w) /\ Longer(w, s)
               /\ p > 0 => Q(p - 1) + 1 \in 1 .. Len(w)
  BY <1>7
<1> HIDE DEF k
<1>9. w \in Seq(Cluster) /\ Len(w) \in Nat /\ Len(w) <= Len(s) /\ \A i \in 1 .. Len(w) : w[i] = s[i]
  BY <1>8 DEF Longer
<1>10. Covers(w, p)
  <2>1. CASE p > 0
    <3> DEFINE i == p - 1
    <3>1. i \in Nat /\ Q(i) + 1 \in 1 .. Len(w) /\ i + 1 = p
      BY <1>3, <1>8, <2>1
    <3> HIDE DEF i, p
    <3>2. Covers(w, i + 1)
      BY <1>9, <3>1, CoversBehind
    <3> QED BY <3>1, <3>2
  <2>2. CASE ~(p > 0)
    <3>1. p = 0 /\ BCS * Len(w) \in Nat
      BY <1>3, <1>9, <2>2, Sizes
    <3> HIDE DEF p
    <3> QED BY <1>9, <3>1 DEF Covers
  <2> QED BY <2>1, <2>2
<1>11. b \in Content
  <2> DEFINE a == r.buf
  <2>1. a \in Content
    BY <1>3
  <2> HIDE DEF a, gone
  <2>2. Forget(a, f, gone) \in Content
    BY <2>1, Forgotten
  <2> QED BY <2>2 DEF a
<1>12. /\ y \in FilRec /\ y.open = r.open /\ y.wr = r.wr /\ y.fptr = p
       /\ y.objsize = p /\ y.clust = r.clust /\ y.sect = r.sect /\ y.buf = b
       /\ y.dirty = r.dirty /\ y.mod = TRUE /\ y.err = r.err /\ y.sclust = sc
  <2>1. Shortening(r, b, y)
    BY DEF Shortening
  <2>2. r.err = r.err /\ r \in FilRec
    BY <1>3
  <2> HIDE DEF b, y, r, e, u, s, M
  <2>3. /\ y \in FilRec /\ y.open = r.open /\ y.wr = r.wr /\ y.fptr = r.fptr
        /\ y.objsize = r.fptr /\ y.clust = r.clust /\ y.sect = r.sect /\ y.buf = b
        /\ y.dirty = r.dirty /\ y.mod = TRUE /\ y.err = r.err
        /\ y.sclust = IF r.fptr = 0 THEN None ELSE r.sclust
    BY ONLY <1>11, <2>1, <2>2, ShortenedIs
  <2> QED BY <2>3
<1>13. d \in Disk /\ Clean(f, M, disk, d)
  <2> HIDE DEF gone
  <2> QED BY <1>3, ForgetsOnly
<1> HIDE DEF y
<1>14. ~stray => Sound(f, y, w, d, v)
  <2> SUFFICES ASSUME ~stray PROVE Sound(f, y, w, d, v)
    OBVIOUS
  <2>1. Sound(f, r, s, disk, u)
    BY <1>4
  <2> DEFINE g == gone
             z == disk
  <2>2. g = r.fptr .. r.objsize - 1 /\ y.buf = Forget(r.buf, f, g) /\ z \in Disk
        /\ Sound(f, r, s, z, u) /\ y.objsize = r.fptr /\ Covers(w, r.fptr) /\ r.fptr <= r.objsize
    BY <1>2, <1>3, <1>10, <1>12, <2>1
  <2> HIDE DEF g, z, r, u, s
  <2>3. Sound(f, y, w, ForgetOnDisk(z, f, g), u \ g)
    <3>1. /\ f \in File /\ r \in FilRec /\ r.buf \in Content /\ r.err = "none"
          /\ Covers(s, r.objsize) /\ y.sect = r.sect /\ y.dirty = r.dirty /\ Longer(w, s)
      BY <1>2, <1>3, <1>8, <1>12
    <3> QED BY <2>2, <3>1, ShortenedSound
  <2> QED BY <2>3 DEF g, z
<1>15. Fine(M, y, d)
  <2>1. r.dirty => r.sect \in Sector /\ r.sect[1] \in M
    BY <1>2, <1>3 DEF Held
  <2> QED BY <1>11, <1>12, <1>13, <2>1 DEF Fine
<1>16. Covers(w, y.objsize)
  BY <1>10, <1>12
<1> HIDE DEF v, d, gone, b
<1>17. /\ Fine(M, m.r, m.disk) /\ Same(y, m.r) /\ Clean(f, M, d, m.disk)
       /\ m.res \in {"ok", "disk"} /\ (m.res = "ok" => ~m.r.dirty) /\ m.r.sect = y.sect
       /\ ~stray /\ m.res = "ok" => Sound(f, m.r, w, m.disk, v)
       /\ ~stray => Sound(f, [m.r EXCEPT !.err = "disk"], w, m.disk, v)
  <2>1. CASE o.res = "ok"
    <3>1. m \in Flush(y, d)
      BY <1>6, <2>1
    <3> HIDE DEF M
    <3>2. /\ Moves(f, M, w, v, y, d, m)
          /\ m.r.sect = y.sect /\ m.r.buf = y.buf /\ (m.res = "ok" => ~m.r.dirty)
      BY <1>15, <1>16, <3>1, Flushed
    <3> QED BY <1>14, <3>2 DEF Moves
  <2>2. CASE o.res # "ok"
    <3>1. m.res = "disk" /\ m.r = y /\ m.disk = d
      BY <1>6, <1>7, <2>2 DEF Moved
    <3>2. ~stray => Sound(f, [y EXCEPT !.err = "disk"], w, d, v)
      <4> DEFINE z == "disk"
      <4>1. z \in {"disk", "int", "stream"}
        OBVIOUS
      <4> HIDE DEF z
      <4>2. ~stray => Sound(f, [y EXCEPT !.err = z], w, d, v)
        BY <1>12, <1>14, <4>1, SoundInError
      <4> QED BY <4>2 DEF z
    <3> QED BY <1>15, <3>1, <3>2, CleanSame DEF Same
  <2> QED BY <2>1, <2>2
<1> DEFINE x == IF m.res = "ok" THEN m.r ELSE [m.r EXCEPT !.err = "disk"]
<1>18. /\ x \in FilRec /\ x.open /\ x.objsize = p /\ x.sclust = sc /\ x.fptr = p
       /\ x.clust = r.clust /\ x.mod = TRUE /\ x.buf \in Content /\ x.sect = r.sect
       /\ (x.dirty => x.sect \in Sector)
       /\ (x.err = "none" => ~x.dirty) /\ x.err \in {"none", "disk"}
  <2> DEFINE z == m.r
  <2>1. /\ z \in FilRec /\ z.buf \in Content /\ z.open /\ z.objsize = p /\ z.sclust = sc /\ z.fptr = p
        /\ z.clust = r.clust /\ z.mod = TRUE /\ z.sect = r.sect
        /\ (z.dirty => z.sect \in Sector) /\ (m.res = "ok" => ~z.dirty) /\ z.err = "none"
    BY <1>2, <1>12, <1>17 DEF Fine, Same
  <2> HIDE DEF z
  <2>2. x = IF m.res = "ok" THEN z ELSE [z EXCEPT !.err = "disk"]
    BY DEF z
  <2> HIDE DEF x, r, p, sc
  <2>3. CASE m.res = "ok"
    BY <2>1, <2>2, <2>3
  <2>4. CASE m.res # "ok"
    <3>1. x = [z EXCEPT !.err = "disk"]
      BY <2>2, <2>4
    <3>2. /\ x \in FilRec /\ x.buf = z.buf /\ x.open = z.open /\ x.objsize = z.objsize
          /\ x.sclust = z.sclust /\ x.fptr = z.fptr /\ x.clust = z.clust /\ x.mod = z.mod
          /\ x.dirty = z.dirty /\ x.sect = z.sect /\ x.err = "disk"
      BY <2>1, <3>1 DEF FilRec
    <3> QED BY <2>1, <3>2
  <2> QED BY <2>3, <2>4
<1>19. fil' = [fil EXCEPT ![f] = x] /\ (~stray => Sound(f, x, w, m.disk, v)) /\ disk' = m.disk
  BY <1>6, <1>17
<1> HIDE DEF x
<1>20. Held(x, e, w)
  <2>1. Bytes(x, e) = p
    BY <1>18 DEF Bytes
  <2>2. Lags(x, e)
    BY <1>18 DEF Lags
  <2> QED BY <1>3, <1>10, <1>18, <2>1, <2>2 DEF Held
<1>21. Idle(x, e, w)
  <2>1. Placed(x, w)
    <3>1. ~OnSector(x) => x.sect = SectorOf(x)
      BY <1>2, <1>18 DEF Placed, OnSector, SectorOf
    <3>2. x.fptr > 0 => Q(x.fptr - 1) + 1 \in 1 .. Len(w) /\ x.clust = w[Q(x.fptr - 1) + 1]
      <4> SUFFICES ASSUME p > 0 PROVE Q(p - 1) + 1 \in 1 .. Len(w) /\ r.clust = w[Q(p - 1) + 1]
        BY <1>18
      <4> DEFINE j == Q(p - 1) + 1
      <4>1. j \in 1 .. Len(w) /\ r.clust = s[j]
        BY <1>2, <1>8 DEF Placed
      <4> HIDE DEF j
      <4>2. r.clust = w[j]
        BY <1>9, <4>1
      <4> QED BY <4>1, <4>2 DEF j
    <3> QED BY <1>9, <3>1, <3>2 DEF Placed
  <2> QED BY <1>3, <1>18, <2>1 DEF Idle, Agrees
<1>22. Mine(f, x, e, w, call')
  BY <1>1, <1>2, <1>20, <1>21 DEF Mine, Busy
<1>23. Renewed(f, x, e, v)
  BY <1>1, <1>19 DEF Renewed, IInv
<1>24. Turn(f)
  BY <1>1, <1>2, <1>17, <1>19 DEF Turn, IInv, Fine
<1>25. Put(Heads, f, HeadOf(x, e), k)
  BY <1>18 DEF Put, HeadOf, k
<1>26. Leads(f, Heads, fat, k, fat', w)
  BY <1>5, <1>8
<1>27. ~stray' => Data(f, x, e, w, disk', v)
  BY <1>1, <1>18, <1>19 DEF Data
<1>28. ~stray' => Clean(f, M, disk, disk')
  <2> HIDE DEF M
  <2> QED BY <1>13, <1>17, <1>19, CleanTwice
<1>29. ReadsRight'
  BY <1>1 DEF IInv, ReadsRight
<1>30. v \in SUBSET Offset /\ M \subseteq Members(OwnChain(f)) \cup Members(w)
  BY <1>3 DEF v
<1> HIDE DEF e, M
<1> QED BY <1>3, <1>18, <1>22, <1>23, <1>24, <1>25, <1>26, <1>27, <1>28, <1>29, <1>30, Frame

(* The clusters of f are nobody's: those of an entry that never had them.  *)
LEMMA Forsaken ==
    ASSUME IInv, NEW f \in File, NEW k, Put(Heads, f, None, k)
    PROVE  Leads(f, Heads, fat, k, fat, <<>>)
<1> DEFINE s == OwnChain(f)
           h == Heads
           j == 0
<1>1. /\ Volume(h, fat) /\ fat \in [Cluster -> Value] /\ s = Chain(h[f], fat) /\ Len(s) \in Nat
  <2>1. s \in Seq(Cluster)
    BY Given DEF Good
  <2> QED BY <2>1, Given DEF Volume
<1>2. Frees(FirstOf(s, j), None, fat, fat)
  <2>1. FirstOf(s, j) = {}
    BY DEF FirstOf
  <2> HIDE DEF s
  <2>2. fat = [x \in Cluster |-> IF x = None THEN EOC ELSE fat[x]]
    BY <1>1, Marks
  <2> QED BY <2>1, <2>2 DEF Frees
<1>3. j \in 0 .. Len(Chain(h[f], fat)) /\ Frees(FirstOf(Chain(h[f], fat), j), None, fat, fat)
  BY <1>1, <1>2
<1>4. Put(h, f, None, k)
  OBVIOUS
<1> HIDE DEF h, j, s
<1>5. Volume(k, fat) /\ Chain(k[f], fat) = <<>> /\ Others(f, h, fat, k, fat)
  BY <1>1, <1>3, <1>4, Removed
<1> QED BY <1>5 DEF Leads, h

LEMMA OverwriteKeeps ==
    ASSUME IInv, NEW f \in File, f_open_overwrite(f)
    PROVE  IInv'
<1> DEFINE cl == entry[f].sclust
           new == [Closed EXCEPT !.open = TRUE, !.wr = TRUE, !.mod = TRUE, !.buf = All(Old)]
           u == {}
           M == {}
           e == Empty
           k == [Heads EXCEPT ![f] = None]
           w == <<>>
<1>1. /\ call = NoCall /\ ~fil[f].open /\ UNCHANGED <<call, misread, stray>>
      /\ entry' = [entry EXCEPT ![f] = e] /\ cached' \in BOOLEAN
      /\ disk' = ForgetOnDisk(disk, f, Offset) /\ undef' = [undef EXCEPT ![f] = u]
  BY DEF f_open_overwrite, Empty
<1>2. PICK o \in IF cl = None THEN {Outcome("ok", None, fat)} ELSE remove_chain(cl, None) :
            /\ fat' = o.fat
            /\ \/ fil' = [fil EXCEPT ![f] = new]
               \/ UNCHANGED fil
  BY DEF f_open_overwrite
<1>3. /\ fil[f] \in FilRec /\ First(f) = cl /\ fil[f] = Closed /\ disk \in Disk
  BY <1>1, Given DEF First, Held
<1>4. Put(Heads, f, None, k)
  BY DEF Put
<1> HIDE DEF k, w
<1>5. Leads(f, Heads, fat, k, fat', w)
  <2>1. CASE cl = None
    <3>1. fat' = fat
      BY <1>2, <2>1 DEF Outcome
    <3> QED BY <1>4, <3>1, Forsaken DEF w
  <2>2. CASE cl # None
    <3>1. o \in remove_chain(First(f), None) /\ First(f) # None
      BY <1>2, <1>3, <2>2
    <3>2. Leads(f, Heads, fat, k, o.fat, <<>>)
      BY <1>4, <3>1, RemovesAll
    <3> QED BY <1>2, <3>2 DEF w
  <2> QED BY <2>1, <2>2
<1>6. PICK r \in {new, fil[f]} : fil' = [fil EXCEPT ![f] = r]
  BY <1>2 DEF IInv
<1>7. /\ new \in FilRec /\ new.open /\ new.objsize = 0 /\ new.fptr = 0 /\ new.sclust = None
      /\ new.dirty = FALSE /\ new.mod = TRUE /\ new.err = "none" /\ new.buf \in Content
  <2> DEFINE a == All(Old)
  <2>1. a \in Content
    BY AllOld
  <2> HIDE DEF a
  <2> QED BY <2>1, AllOld, GeometryAssumption DEF Closed, FilRec
<1> HIDE DEF new
<1>8. /\ r \in FilRec /\ HeadOf(r, e) = None /\ Bytes(r, e) = 0 /\ r.dirty = FALSE /\ r.err = "none"
      /\ r.open => r.buf \in Content /\ r.mod = TRUE /\ r.fptr = 0 /\ r.objsize = 0
      /\ ~r.open => r = Closed
  <2>1. CASE r = new
    BY <1>7, <2>1 DEF HeadOf, Bytes
  <2>2. CASE r = Closed
    BY <1>7, <2>2, AllOld DEF HeadOf, Bytes, Closed, Empty
  <2> QED BY <1>3, <1>6, <2>1, <2>2
<1>9. e \in EntryRec
  BY GeometryAssumption DEF Empty, EntryRec
<1>10. w \in Seq(Cluster) /\ Len(w) = 0
  BY DEF w
<1>11. Covers(w, 0)
  <2>1. BCS * 0 \in Nat
    BY Sizes
  <2> QED BY <1>10, <2>1 DEF Covers
<1> HIDE DEF e
<1>12. Held(r, e, w)
  BY <1>8, <1>9, <1>11 DEF Held, Lags
<1>13. Idle(r, e, w)
  <2> SUFFICES ASSUME r.open PROVE Placed(r, w) /\ Agrees(r, e) /\ r.fptr <= r.objsize
    BY DEF Idle
  <2>1. r.mod = TRUE /\ r.fptr = 0 /\ r.objsize = 0
    BY <1>8
  <2> QED BY <1>10, <2>1, AtNought DEF Placed, Agrees, OnSector
<1>14. Mine(f, r, e, w, call')
  BY <1>1, <1>12, <1>13 DEF Mine, Busy
<1>15. disk' \in Disk /\ Clean(f, M, disk, disk')
  BY <1>1, <1>3, ForgottenDisk
<1>16. Renewed(f, r, e, u) /\ Turn(f)
  BY <1>1, <1>6, <1>15 DEF Renewed, Turn, IInv
<1>17. Data(f, r, e, w, disk', u)
  <2>1. CASE r.open
    <3>1. r.objsize = 0
      BY <1>8, <2>1
    <3> QED BY <2>1, <3>1 DEF Data, Sound
  <2>2. CASE ~r.open
    <3>1. e.size = 0
      BY <1>8, <2>2 DEF Bytes
    <3> QED BY <2>2, <3>1 DEF Data, Safe
  <2> QED BY <2>1, <2>2
<1>18. ReadsRight'
  BY <1>1 DEF IInv, ReadsRight
<1>19. Put(Heads, f, HeadOf(r, e), k) /\ u \in SUBSET Offset
       /\ M \subseteq Members(OwnChain(f)) \cup Members(w)
  BY <1>4, <1>8
<1> HIDE DEF u, M
<1> QED BY <1>5, <1>8, <1>9, <1>14, <1>15, <1>16, <1>17, <1>18, <1>19, Frame

-----------------------------------------------------------------------------
(* f_sync and f_close.  Nothing is lost but what FA_MODIFIED hides.        *)
LEMMA DropKeeps ==
    ASSUME IInv, NEW f \in File, SyncNothing(f, TRUE)
    PROVE  IInv'
<1> DEFINE r == fil[f]
           e == entry[f]
           s == OwnChain(f)
           lost == IF r.dirty THEN {i \in Offset : \E b \in 0 .. SS - 1 : r.buf[b] = <<f, i>>}
                              ELSE {}
           v == {i \in undef[f] \cup lost : i < e.size}
           x == Closed
<1>1. /\ call = NoCall /\ r.open /\ ~r.mod
      /\ fil' = [fil EXCEPT ![f] = x] /\ undef' = [undef EXCEPT ![f] = v]
      /\ UNCHANGED <<disk, fat, entry, cached, call, misread, stray>>
  BY DEF SyncNothing, Dropped
<1>2. /\ r \in FilRec /\ e \in EntryRec /\ Held(r, e, s) /\ First(f) = r.sclust
      /\ disk \in Disk /\ undef[f] \in SUBSET Offset /\ Lags(r, e) /\ Covers(s, r.objsize)
  BY <1>1, Given DEF Held, First, Bytes
<1>3. v \in SUBSET Offset
  BY <1>2
<1>4. /\ x \in FilRec /\ ~x.open /\ ~x.dirty /\ x.err = "none"
  BY AllOld DEF Closed
<1>5. Renewed(f, x, e, v)
  BY <1>1 DEF Renewed, IInv
<1>6. Turn(f) /\ ReadsRight'
  BY <1>1, <1>2 DEF Turn, IInv, ReadsRight
<1>7. ASSUME NEW w, Covers(w, e.size) PROVE Mine(f, x, e, w, call')
  <2>1. Held(x, e, w)
    BY <1>2, <1>4, <1>7 DEF Held, Bytes
  <2> QED BY <1>1, <1>4, <2>1 DEF Mine, Busy, Idle
<1>8. CASE e = Empty
  <2> DEFINE k == [Heads EXCEPT ![f] = None]
             w == <<>>
             M == {}
  <2>1. Put(Heads, f, None, k)
    BY DEF Put
  <2> HIDE DEF k
  <2>2. Leads(f, Heads, fat, k, fat', w)
    BY <1>1, <2>1, Forsaken
  <2>3. e.size = 0 /\ e.sclust = None
    BY <1>8 DEF Empty
  <2>4. w \in Seq(Cluster) /\ Len(w) = 0
    OBVIOUS
  <2> HIDE DEF w
  <2>5. Covers(w, e.size)
    <3>1. BCS * 0 \in Nat
      BY Sizes
    <3> QED BY <2>3, <2>4, <3>1 DEF Covers
  <2>6. Put(Heads, f, HeadOf(x, e), k)
    BY <1>4, <2>1, <2>3 DEF HeadOf
  <2>7. Data(f, x, e, w, disk', v)
    BY <1>4, <2>3 DEF Data, Safe
  <2>8. Clean(f, M, disk, disk') /\ M \subseteq Members(OwnChain(f)) \cup Members(w)
    BY <1>1, CleanSame
  <2>9. Mine(f, x, e, w, call')
    BY <1>7, <2>5
  <2> HIDE DEF x, e, v, M
  <2> QED BY <1>2, <1>3, <1>4, <1>5, <1>6, <2>2, <2>6, <2>7, <2>8, <2>9, Frame
<1>9. CASE e.sclust = r.sclust /\ e.size <= r.objsize
  <2>1. Covers(s, e.size)
    <3> DEFINE n == e.size
               m == r.objsize
               l == BCS * Len(s)
    <3>1. n <= m /\ m <= l /\ n \in 0 .. MaxSize /\ m \in 0 .. MaxSize /\ l \in Nat /\ s \in Seq(Cluster)
      BY <1>2, <1>9, Sizes DEF Covers, EntryRec, FilRec
    <3>2. n \in Nat /\ m \in Nat
      BY <3>1, GeometryAssumption
    <3>3. s \in Seq(Cluster) /\ n <= l
      <4> HIDE DEF n, m, l
      <4> QED BY ONLY <3>1, <3>2
    <3> QED BY <1>2, <3>2, <3>3 DEF Covers
  <2>2. Mine(f, x, e, s, call')
    BY <1>7, <2>1
  <2>3. HeadOf(x, e) = First(f)
    BY <1>2, <1>4, <1>9 DEF HeadOf
  <2>4. ~stray => Safe(f, e.size, s, disk, v)
    <3> SUFFICES ASSUME ~stray, NEW i \in (0 .. e.size - 1) \ v
                 PROVE  disk[SectorAt(s, i)][B(i)] = <<f, i>>
      BY DEF Safe
    <3>1. Sound(f, r, s, disk, undef[f])
      BY <1>1, Given DEF Data
    <3>2. /\ i \in Offset /\ i < e.size /\ i \in 0 .. r.objsize - 1 /\ i \notin undef[f]
          /\ i \notin lost /\ B(i) \in 0 .. SS - 1
      <4>1. i \in 0 .. e.size - 1 /\ e.size \in 0 .. MaxSize /\ r.objsize \in Nat /\ MaxSize \in Nat
        BY <1>2, GeometryAssumption DEF EntryRec, FilRec
      <4>2. i \in Offset /\ i < e.size /\ i \in 0 .. r.objsize - 1 /\ i \in Nat
        BY <1>9, <4>1 DEF Offset
      <4> QED BY <4>2, Place
    <3>3. CASE r.sect = SectorAt(s, i) /\ r.dirty
      <4>1. r.buf[B(i)] = <<f, i>>
        BY <3>1, <3>2, <3>3 DEF Sound
      <4> QED BY <3>2, <3>3, <4>1
    <3>4. CASE ~(r.sect = SectorAt(s, i) /\ r.dirty)
      BY <3>1, <3>2, <3>4 DEF Sound
    <3> QED BY <3>3, <3>4
  <2>5. ~stray' => Data(f, x, e, s, disk', v)
    BY <1>1, <1>4, <2>4 DEF Data
  <2>6. ~stray' => Clean(f, Members(s), disk, disk')
    BY <1>1, CleanSame
  <2> HIDE DEF x, e, v
  <2> QED BY <1>1, <1>2, <1>3, <1>4, <1>5, <1>6, <2>2, <2>3, <2>5, <2>6, FrameQuiet
<1> QED BY <1>1, <1>2, <1>8, <1>9 DEF Lags

-----------------------------------------------------------------------------
(* The write-back of f_sync, of any object: a write that fails leaves the  *)
(* buffer dirty.                                                           *)
LEMMA SyncFlushed ==
    ASSUME NEW f, NEW M, NEW ch, NEW u, NEW r, NEW d, Fine(M, r, d), Covers(ch, r.objsize),
           NEW m \in Flush(r, d)
    PROVE  /\ Fine(M, m.r, m.disk) /\ Same(r, m.r) /\ Clean(f, M, d, m.disk)
           /\ m.r.sect = r.sect /\ m.r.buf = r.buf
           /\ m.r.dirty => r.dirty
           /\ m.res = "ok" => ~m.r.dirty
           /\ Sound(f, r, ch, d, u) => Sound(f, m.r, ch, m.disk, u)
<1>1. Moves(f, M, ch, u, r, d, m) /\ m.r.sect = r.sect /\ m.r.buf = r.buf /\ (m.res = "ok" => ~m.r.dirty)
  BY Flushed
<1>2. ASSUME Sound(f, r, ch, d, u), m.res # "ok" PROVE Sound(f, m.r, ch, m.disk, u)
  <2> DEFINE w == [d EXCEPT ![r.sect] = r.buf]
  <2>1. r.dirty /\ m.r = r /\ (m.disk = w \/ m.disk = d)
    BY <1>2 DEF Flush, Moved
  <2>2. Put(d, r.sect, r.buf, w)
    BY DEF Put
  <2> HIDE DEF w
  <2>3. d \in Disk /\ r.sect \in Sector /\ r.dirty = TRUE
    BY <2>1 DEF Fine, FilRec
  <2>4. Sound(f, r, ch, w, u)
    BY <1>2, <2>2, <2>3, WrittenSound
  <2> QED BY <1>2, <2>1, <2>4
<1> QED BY <1>1, <1>2 DEF Moves

(* A position is placed by what a write-back leaves alone.                 *)
LEMMA PlacedToo ==
    ASSUME NEW r, NEW x, NEW ch, Placed(r, ch),
           x.fptr = r.fptr, x.clust = r.clust, x.sect = r.sect
    PROVE  Placed(x, ch)
BY DEF Placed, OnSector, SectorOf

LEMMA SyncedIs ==
    ASSUME NEW r \in FilRec
    PROVE  /\ Synced(r) \in FilRec /\ Synced(r).mod = FALSE
           /\ Synced(r).open = r.open /\ Synced(r).wr = r.wr /\ Synced(r).fptr = r.fptr
           /\ Synced(r).objsize = r.objsize /\ Synced(r).sclust = r.sclust
           /\ Synced(r).clust = r.clust /\ Synced(r).sect = r.sect /\ Synced(r).buf = r.buf
           /\ Synced(r).dirty = r.dirty /\ Synced(r).err = r.err
BY DEF Synced, FilRec

LEMMA SyncKeeps ==
    ASSUME IInv, NEW f \in File, NEW closing \in BOOLEAN, SyncModified(f, closing)
    PROVE  IInv'
<1> DEFINE r == fil[f]
           e == entry[f]
           s == OwnChain(f)
           u == undef[f]
           n == Recording(r)
<1>1. /\ call = NoCall /\ r.open /\ r.mod /\ UNCHANGED <<fat, call, undef, misread>>
      /\ stray' = (stray \/ (r.dirty /\ r.sect[1] \notin Reached(r.sclust, fat)))
  BY DEF SyncModified
<1>2. /\ r \in FilRec /\ e \in EntryRec /\ Held(r, e, s) /\ First(f) = r.sclust
      /\ disk \in Disk /\ u \in SUBSET Offset /\ Covers(s, r.objsize) /\ r.buf \in Content
      /\ r.err # "int" /\ (r.dirty => r.sect \in Sector)
      /\ (r.dirty /\ r.err = "none" => r.sect[1] \in Members(s))
      /\ (~stray => Sound(f, r, s, disk, u)) /\ Idle(r, e, s)
  BY <1>1, Given DEF Held, First, Bytes, Data, Mine, Busy
<1>3. PICK m \in Flush(r, disk) :
            /\ disk' = m.disk
            /\ \/ fil' = [fil EXCEPT ![f] = m.r] /\ UNCHANGED <<entry, cached>>
               \/ /\ m.res = "ok" /\ cached' \in BOOLEAN
                  /\ fil' = [fil EXCEPT ![f] = Synced(m.r)]
                  /\ entry' = [entry EXCEPT ![f] = n]
               \/ /\ m.res = "ok" /\ cached' = FALSE
                  /\ fil' = [fil EXCEPT ![f] = Closed]
                  /\ entry' = [entry EXCEPT ![f] = n]
  BY DEF SyncModified
<1>4. Reached(r.sclust, fat) = Members(s)
  BY <1>2, Given DEF Reached, Members
<1>5. n \in EntryRec /\ n.sclust = r.sclust /\ n.size = r.objsize
  BY <1>2 DEF Recording, EntryRec, FilRec
<1> DEFINE x == m.r
<1> HIDE DEF r, e, s, u, n, x
<1>6. /\ x \in FilRec /\ x.buf \in Content /\ (x.dirty => x.sect \in Sector) /\ m.disk \in Disk
      /\ Same(r, x) /\ x.sect = r.sect /\ (x.dirty => r.dirty) /\ (m.res = "ok" => ~x.dirty)
  <2>1. Fine(Cluster, r, disk)
    BY <1>2 DEF Fine, Sector
  <2>2. Fine(Cluster, x, m.disk) /\ Same(r, x) /\ x.sect = r.sect /\ (x.dirty => r.dirty)
        /\ (m.res = "ok" => ~x.dirty)
    BY <1>2, <1>3, <2>1, SyncFlushed DEF x
  <2> QED BY <2>2 DEF Fine
<1>7. ASSUME ~stray' PROVE Clean(f, Members(s), disk, m.disk) /\ Sound(f, x, s, m.disk, u)
  <2>1. ~stray /\ (r.dirty => r.sect[1] \in Members(s))
    BY <1>1, <1>4, <1>7
  <2>2. Fine(Members(s), r, disk) /\ Sound(f, r, s, disk, u)
    BY <1>2, <2>1 DEF Fine
  <2> QED BY <1>2, <1>3, <2>2, SyncFlushed DEF x
<1>8. x.open /\ x.mod /\ x.objsize = r.objsize /\ x.sclust = r.sclust /\ x.err = r.err
      /\ x.fptr = r.fptr /\ x.clust = r.clust
  BY <1>1, <1>6 DEF Same
<1>9. stray' \in BOOLEAN /\ (stray => stray')
  BY <1>1 DEF IInv
<1>10. ReadsRight'
  BY <1>1, <1>9 DEF IInv, ReadsRight
<1>11. cached' \in BOOLEAN => Turn(f)
  BY <1>1, <1>3, <1>6, <1>9 DEF Turn, IInv
<1>12. ~stray' => Clean(f, Members(OwnChain(f)), disk, disk')
  BY <1>3, <1>7 DEF s
<1>13. undef' = [undef EXCEPT ![f] = u]
  BY <1>1 DEF u, IInv
<1>14. x.dirty /\ x.err = "none" => x.sect[1] \in Members(s)
  BY <1>2, <1>6, <1>8
<1>15. CASE fil' = [fil EXCEPT ![f] = x] /\ UNCHANGED <<entry, cached>>
  <2>1. Renewed(f, x, e, u) /\ Turn(f)
    BY <1>11, <1>13, <1>15 DEF Renewed, e, IInv
  <2>2. HeadOf(x, e) = First(f) /\ Bytes(x, e) = r.objsize
    BY <1>2, <1>8 DEF HeadOf, Bytes
  <2>3. Held(x, e, s)
    BY <1>2, <1>6, <1>8, <1>14, <2>2 DEF Held, Lags
  <2>4. Idle(x, e, s)
    <3>1. x.err = "none" => Placed(x, s) /\ x.fptr <= x.objsize
      BY <1>1, <1>2, <1>6, <1>8, PlacedToo DEF Idle, r
    <3> QED BY <1>8, <3>1 DEF Idle, Agrees
  <2>5. Mine(f, x, e, s, call')
    BY <1>1, <2>3, <2>4 DEF Mine, Busy
  <2>6. ~stray' => Data(f, x, e, s, disk', u)
    BY <1>3, <1>7, <1>8 DEF Data
  <2> QED BY <1>1, <1>2, <1>6, <1>10, <1>12, <2>1, <2>2, <2>5, <2>6, FrameQuiet DEF s
<1>16. ASSUME m.res = "ok", cached' \in BOOLEAN, fil' = [fil EXCEPT ![f] = Synced(x)],
              entry' = [entry EXCEPT ![f] = n]
       PROVE  IInv'
  <2> DEFINE y == Synced(x)
  <2>1. /\ y \in FilRec /\ y.open /\ y.mod = FALSE /\ y.fptr = x.fptr /\ y.objsize = x.objsize
        /\ y.sclust = x.sclust /\ y.clust = x.clust /\ y.sect = x.sect /\ y.buf = x.buf
        /\ y.dirty = x.dirty /\ y.err = x.err
    BY <1>6, <1>8, SyncedIs
  <2>2. Renewed(f, y, n, u) /\ Turn(f)
    BY <1>11, <1>13, <1>16 DEF Renewed
  <2> HIDE DEF y
  <2>3. HeadOf(y, n) = First(f) /\ Bytes(y, n) = r.objsize
    BY <1>2, <1>8, <2>1 DEF HeadOf, Bytes
  <2>4. Lags(y, n) /\ ~y.dirty
    <3>1. r.objsize <= r.objsize
      BY <1>2 DEF Covers
    <3> QED BY <1>5, <1>6, <1>8, <1>16, <2>1, <3>1 DEF Lags
  <2>5. Held(y, n, s)
    BY <1>2, <1>5, <1>6, <1>8, <2>1, <2>3, <2>4 DEF Held
  <2>6. Idle(y, n, s)
    <3>1. y.err = "none" => Placed(y, s) /\ y.fptr <= y.objsize
      BY <1>1, <1>2, <1>6, <1>8, <2>1, PlacedToo DEF Idle, r
    <3>2. n = Recording(y)
      BY <1>8, <2>1 DEF Recording, n
    <3> QED BY <2>1, <2>4, <3>1, <3>2 DEF Idle, Agrees
  <2>7. Mine(f, y, n, s, call')
    BY <1>1, <2>5, <2>6 DEF Mine, Busy
  <2>8. ~stray' => Data(f, y, n, s, disk', u)
    <3>1. ASSUME ~stray' PROVE Sound(f, y, s, disk', u)
      BY <1>3, <1>7, <2>1, <3>1 DEF Sound
    <3> QED BY <2>1, <3>1 DEF Data
  <2> QED BY <1>1, <1>2, <1>5, <1>10, <1>12, <2>1, <2>2, <2>3, <2>7, <2>8, FrameQuiet DEF s
<1>17. ASSUME m.res = "ok", cached' \in BOOLEAN, fil' = [fil EXCEPT ![f] = Closed],
              entry' = [entry EXCEPT ![f] = n]
       PROVE  IInv'
  <2> DEFINE y == Closed
  <2>1. y \in FilRec /\ ~y.open /\ ~y.dirty /\ y.err = "none"
    BY AllOld DEF Closed
  <2>2. Renewed(f, y, n, u) /\ Turn(f)
    BY <1>11, <1>13, <1>17 DEF Renewed
  <2>3. HeadOf(y, n) = First(f) /\ Bytes(y, n) = r.objsize
    BY <1>2, <1>5, <2>1 DEF HeadOf, Bytes
  <2>4. Held(y, n, s)
    BY <1>2, <1>5, <2>1, <2>3 DEF Held
  <2>5. Mine(f, y, n, s, call')
    BY <1>1, <2>1, <2>4 DEF Mine, Busy, Idle
  <2>6. ~stray' => Data(f, y, n, s, disk', u)
    <3>1. ASSUME ~stray' PROVE Safe(f, r.objsize, s, disk', u)
      <4>1. Sound(f, x, s, disk', u) /\ x.dirty = FALSE /\ x.objsize = r.objsize
        BY <1>3, <1>6, <1>7, <1>8, <1>17, <3>1 DEF FilRec
      <4> QED BY <4>1 DEF Sound, Safe
    <3> QED BY <1>5, <2>1, <3>1 DEF Data
  <2> HIDE DEF y
  <2> QED BY <1>1, <1>2, <1>5, <1>10, <1>12, <2>1, <2>2, <2>3, <2>5, <2>6, FrameQuiet DEF s
<1> QED BY <1>3, <1>15, <1>16, <1>17 DEF x

LEMMA SyncNothingKeeps ==
    ASSUME IInv, NEW f \in File, NEW closing \in BOOLEAN, SyncNothing(f, closing)
    PROVE  IInv'
<1>1. CASE closing
  <2>1. SyncNothing(f, TRUE)
    BY <1>1
  <2> QED BY <2>1, DropKeeps
<1>2. CASE ~closing
  <2>1. UNCHANGED vars
    BY <1>2 DEF SyncNothing, vars
  <2> QED BY <2>1, StutterKeeps
<1> QED BY <1>1, <1>2

-----------------------------------------------------------------------------
(* Every step keeps the invariant.                                         *)
LEMMA NextKeeps ==
    ASSUME IInv, [Next]_vars
    PROVE  IInv'
<1>1. CASE UNCHANGED vars
  BY <1>1, StutterKeeps
<1>2. CASE WindowMoves
  BY <1>2, WindowKeeps
<1>3. ASSUME NEW f \in File, NEW w \in BOOLEAN, f_open(f, w) PROVE IInv'
  BY <1>3, OpenKeeps
<1>4. ASSUME NEW f \in File, f_open_append(f) \/ f_open_overwrite(f) PROVE IInv'
  BY <1>4, AppendKeeps, OverwriteKeeps
<1>5. ASSUME NEW f \in File, NEW n \in 1 .. MaxSize, f_read(f, n) \/ f_forward(f, n) PROVE IInv'
  BY <1>5, ReadStarts
<1>6. ASSUME NEW f \in File, NEW n \in 1 .. MaxSize, f_write(f, n) PROVE IInv'
  BY <1>6, WriteStarts
<1>7. ASSUME NEW f \in File, NEW to \in 0 .. MaxSize, f_lseek(f, to) PROVE IInv'
  BY <1>7, SeekStarts
<1>8. ASSUME NEW f \in File, ReadStep(f) \/ ForwardStep(f) \/ ForwardEnds(f) PROVE IInv'
  BY <1>8, ReadStepKeeps, ForwardStepKeeps, ForwardEndsKeeps
<1>9. ASSUME NEW f \in File, WriteStep(f) \/ f_truncate(f) PROVE IInv'
  BY <1>9, WriteStepKeeps, TruncateKeeps
<1>10. ASSUME NEW f \in File, SeekStep(f) \/ SeekEnd(f) PROVE IInv'
  BY <1>10, SeekStepKeeps, SeekEndKeeps
<1>11. ASSUME NEW f \in File, f_sync(f) \/ f_close(f) PROVE IInv'
  <2>1. ASSUME NEW c \in BOOLEAN, SyncNothing(f, c) \/ SyncModified(f, c) PROVE IInv'
    BY <2>1, SyncNothingKeeps, SyncKeeps
  <2> QED BY <1>11, <2>1 DEF f_sync, f_close
<1> QED BY <1>1, <1>2, <1>3, <1>4, <1>5, <1>6, <1>7, <1>8, <1>9, <1>10, <1>11 DEF Next

(* The invariant on which the theorems rest holds: first clusters and FAT  *)
(* form a volume, each object is in step with its chain, its entry and the *)
(* call that runs on it, and buffer and disk together have its bytes.      *)
THEOREM InvariantHolds == Spec => []IInv
<1>1. Init => IInv
  BY InitInv
<1>2. IInv /\ [Next]_vars => IInv'
  BY NextKeeps
<1> QED BY <1>1, <1>2, PTL DEF Spec

-----------------------------------------------------------------------------
(* What follows from it.                                                   *)
LEMMA TypesHold == IInv => TypeOK
<1> SUFFICES ASSUME IInv PROVE TypeOK
  OBVIOUS
<1>1. /\ disk \in [Sector -> Content] /\ fat \in [Cluster -> Value]
      /\ cached \in BOOLEAN /\ misread \in BOOLEAN /\ stray \in BOOLEAN
      /\ fil \in [File -> FilRec] /\ entry \in [File -> EntryRec]
      /\ undef \in [File -> SUBSET Offset]
      /\ call = NoCall \/ call \in Calls
  BY DEF IInv, Disk, Volume
<1> QED BY <1>1 DEF TypeOK, FilRec, EntryRec, Calls

LEMMA ChainsHold == IInv => ChainsHoldFiles
<1> SUFFICES ASSUME IInv, NEW f \in File
             PROVE  /\ Len(OwnChain(f)) * BCS >= Size(f)
                    /\ \A c \in Reached(First(f), fat) : fat[c] # None
                    /\ \A g \in File \ {f} : Reached(First(f), fat) \cap Reached(First(g), fat) = {}
  BY DEF ChainsHoldFiles
<1>1. \A g \in File : Reached(First(g), fat) = Members(Chain(Heads[g], fat)) /\ Heads[g] = First(g)
  BY HeadsAre DEF Reached, Members
<1>2. Len(OwnChain(f)) * BCS >= Size(f)
  <2> DEFINE l == Len(OwnChain(f))
             n == Size(f)
  <2>1. Covers(OwnChain(f), n)
    BY Given DEF Bytes, Size
  <2>2. l \in Nat /\ n \in Nat /\ n <= BCS * l
    BY <2>1 DEF Covers
  <2> HIDE DEF l, n
  <2>3. BCS * l = l * BCS /\ BCS * l \in Nat
    BY <2>2, Sizes
  <2>4. l * BCS >= n
    BY ONLY <2>2, <2>3
  <2> QED BY <2>4 DEF l, n
<1>3. Volume(Heads, fat)
  BY DEF IInv
<1>4. /\ \A g \in File : Good(Chain(Heads[g], fat), Heads[g], fat)
      /\ \A g, j \in File : g # j =>
            Members(Chain(Heads[g], fat)) \cap Members(Chain(Heads[j], fat)) = {}
  BY <1>3, VolumeChains
<1>5. \A c \in Reached(First(f), fat) : fat[c] # None
  BY <1>1, <1>4 DEF Good
<1>6. \A g \in File \ {f} : Reached(First(f), fat) \cap Reached(First(g), fat) = {}
  BY <1>1, <1>4
<1> QED BY <1>2, <1>5, <1>6

LEMMA OkIsIdle ==
    ASSUME IInv, NEW f \in File, Ok(f)
    PROVE  Placed(fil[f], OwnChain(f)) /\ Agrees(fil[f], entry[f])
<1>1. Mine(f, fil[f], entry[f], OwnChain(f), call)
  BY Given
<1> QED BY <1>1 DEF Mine, Busy, Ok, Idle

LEMMA PositionsHold == IInv => Positioned
<1> SUFFICES ASSUME IInv, NEW f \in File
             PROVE  fil[f].err # "int" /\ (Ok(f) =>
                      LET r == fil[f]
                      IN /\ r.fptr > 0 => /\ (r.fptr - 1) \div BCS < Len(OwnChain(f))
                                          /\ r.clust = OwnChain(f)[(r.fptr - 1) \div BCS + 1]
                         /\ ~OnSector(r) => r.sect = SectorOf(r))
  BY DEF Positioned
<1> DEFINE r == fil[f]
           s == OwnChain(f)
<1>1. r.err # "int" /\ r \in FilRec
  BY Given DEF Held
<1>2. ASSUME Ok(f)
      PROVE  /\ r.fptr > 0 => (r.fptr - 1) \div BCS < Len(s) /\ r.clust = s[(r.fptr - 1) \div BCS + 1]
             /\ ~OnSector(r) => r.sect = SectorOf(r)
  <2>1. Placed(r, s)
    BY <1>2, OkIsIdle
  <2>2. ASSUME r.fptr > 0 PROVE Q(r.fptr - 1) < Len(s) /\ r.clust = s[Q(r.fptr - 1) + 1]
    <3> DEFINE q == Q(r.fptr - 1)
               l == Len(s)
    <3>1. q + 1 \in 1 .. l /\ r.clust = s[q + 1] /\ l \in Nat
      BY <2>1, <2>2 DEF Placed
    <3>2. q \in Nat
      <4>1. r.fptr - 1 \in Nat
        BY <1>1, <2>2, GeometryAssumption DEF FilRec
      <4> QED BY <4>1, Place
    <3> HIDE DEF q, l
    <3>3. q < l
      BY ONLY <3>1, <3>2
    <3> QED BY <3>1, <3>3 DEF q, l
  <2> QED BY <2>1, <2>2 DEF Placed, Q
<1> QED BY <1>1, <1>2

LEMMA BytesHold == IInv => Stored
<1> SUFFICES ASSUME IInv, ~stray, NEW f \in File, fil[f].open,
                    NEW i \in (0 .. Size(f) - 1) \ undef[f]
             PROVE  LET inBuffer == fil[f].sect = SectorAt(OwnChain(f), i)
                    IN /\ inBuffer /\ (fil[f].dirty \/ Ok(f)) => fil[f].buf[i % SS] = <<f, i>>
                       /\ ~(inBuffer /\ fil[f].dirty) => ByteAt(disk, OwnChain(f), i) = <<f, i>>
  BY DEF Stored
<1>1. Sound(f, fil[f], OwnChain(f), disk, undef[f])
  BY Given DEF Data
<1>2. i \in (0 .. fil[f].objsize - 1) \ undef[f]
  BY DEF Size
<1> QED BY <1>1, <1>2 DEF Sound, Ok, ByteAt, B

LEMMA RecordsHold == IInv => Recorded
BY OkIsIdle DEF Recorded, Agrees

LEMMA ClosedHold == IInv => Kept
<1> SUFFICES ASSUME IInv, ~stray, NEW f \in File, ~fil[f].open,
                    NEW i \in (0 .. Size(f) - 1) \ undef[f]
             PROVE  ByteAt(disk, OwnChain(f), i) = <<f, i>>
  BY DEF Kept, ClosedFilesUndisturbed
<1>1. Safe(f, entry[f].size, OwnChain(f), disk, undef[f])
  BY Given DEF Data
<1> QED BY <1>1 DEF Safe, ByteAt, B, Size

(* For any files, clusters, sector and cluster sizes, whatever transfer    *)
(* fails in whichever call: the object of an open file, its chain, its     *)
(* sector buffer and its directory entry stay in step, no two files share  *)
(* a cluster, and every byte written is in the dirty buffer or on the disk.*)
THEOREM ObjectsStayInStep == Spec => []InStep
<1>1. IInv => InStep
  BY TypesHold, ChainsHold, PositionsHold, BytesHold, RecordsHold DEF InStep
<1> QED BY <1>1, InvariantHolds, PTL

(* f_sync and f_close leave on the disk what was written, and the bytes of *)
(* a closed file stay there whatever is done to the others, as long as no  *)
(* f_sync of an aborted object wrote a sector its file no longer owns.     *)
THEOREM ClosedFilesKept == Spec => []Kept
<1> QED BY ClosedHold, InvariantHolds, PTL

(* f_read and f_forward hand over the bytes of the file, however many come *)
(* from the buffer and however many straight from the disk.                *)
THEOREM ReadsAreRight == Spec => []ReadsRight
<1>1. IInv => ReadsRight
  BY DEF IInv
<1> QED BY <1>1, InvariantHolds, PTL

=============================================================================
