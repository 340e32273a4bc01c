---------------------------- MODULE BasicLemmas ----------------------------
(***************************************************************************)
(* What the proofs about tables and chains need of the numbers: division   *)
(* by sector and cluster sizes, induction, and functions that are defined  *)
(* by following a pointer again and again; and what Linked!Follow reads.   *)
(***************************************************************************)
EXTENDS Linked, FiniteSetTheorems, SequenceTheorems, TLAPS

(* Induction, for a set of numbers.                                        *)
LEMMA Induction ==
    ASSUME NEW S \in SUBSET Nat, 0 \in S, \A n \in S : n + 1 \in S
    PROVE  S = Nat
<1> DEFINE Less == {ss \in Nat \X Nat : ss[1] < ss[2]}
           Bad == Nat \ S
<1> SUFFICES ASSUME Bad # {} PROVE FALSE
  OBVIOUS
<1>1. IsWellFoundedOn(Less, Nat)
  BY NatLessThanWellFounded DEF OpToRel
<1>2. \A x, y \in Nat : y < x => <<y, x>> \in Less
  OBVIOUS
<1> HIDE DEF Less
<1>3. PICK x \in Bad : \A y \in Bad : ~(<<y, x>> \in Less)
  BY <1>1, WFMin
<1>4. x \in Nat /\ x # 0 /\ x - 1 \in Nat /\ x - 1 < x
  BY <1>3
<1>5. x - 1 \in S
  BY <1>2, <1>3, <1>4
<1>6. x - 1 + 1 \in S
  BY <1>5
<1> QED BY <1>3, <1>4, <1>6

(* Following S from a for ever: there is such a function, and only one.    *)
Run(V, S, a, g) ==
    g \in [Nat -> V] /\ g[0] = a /\ \A n \in Nat : g[n + 1] = S[g[n]]

LEMMA RunsAreEqual ==
    ASSUME NEW V, NEW S, NEW a, NEW g, NEW h, Run(V, S, a, g), Run(V, S, a, h)
    PROVE  g = h
<1> DEFINE E == {n \in Nat : g[n] = h[n]}
<1>1. 0 \in E /\ \A n \in E : n + 1 \in E
  BY DEF Run
<1>2. E = Nat
  BY <1>1, Induction
<1> QED BY <1>2 DEF Run

LEMMA RunExists ==
    ASSUME NEW V, NEW S \in [V -> V], NEW a \in V
    PROVE  \E g : Run(V, S, a, g)
<1> DEFINE P(n) == {h \in [0 .. n -> V] : /\ h[0] = a
                                          /\ \A i \in 0 .. n - 1 : h[i + 1] = S[h[i]]}
           D == {n \in Nat : P(n) # {}}
           U(n) == {i \in Nat : \A m \in Nat : i <= n /\ i <= m =>
                       \A h \in P(n), k \in P(m) : h[i] = k[i]}
<1>1. D = Nat
  <2>1. 0 \in D
    <3>1. [i \in 0 .. 0 |-> a] \in P(0)
      OBVIOUS
    <3> QED BY <3>1
  <2>2. ASSUME NEW n \in D PROVE n + 1 \in D
    <3>1. PICK h \in P(n) : TRUE
      OBVIOUS
    <3> DEFINE k == [i \in 0 .. n + 1 |-> IF i = n + 1 THEN S[h[n]] ELSE h[i]]
    <3>2. n \in Nat /\ h[n] \in V
      BY <3>1
    <3>3. k \in [0 .. n + 1 -> V]
      BY <3>1, <3>2
    <3>4. k[0] = a
      BY <3>1, <3>2
    <3>5. ASSUME NEW i \in 0 .. n + 1 - 1 PROVE k[i + 1] = S[k[i]]
      <4>1. i \in 0 .. n /\ i \in 0 .. n + 1 /\ i # n + 1 /\ i + 1 \in 0 .. n + 1
        BY <3>2
      <4>2. k[i] = h[i]
        BY <4>1
      <4>3. CASE i = n
        BY <4>1, <4>2, <4>3
      <4>4. CASE i # n
        <5>1. i \in 0 .. n - 1 /\ i + 1 # n + 1
          BY <3>2, <4>1, <4>4
        <5>2. k[i + 1] = h[i + 1]
          BY <4>1, <5>1
        <5> QED BY <3>1, <4>2, <5>1, <5>2
      <4> QED BY <4>3, <4>4
    <3> HIDE DEF k
    <3>6. k \in P(n + 1)
      BY <3>3, <3>4, <3>5
    <3> QED BY <3>2, <3>6
  <2> HIDE DEF D
  <2>3. D \in SUBSET Nat
    BY DEF D
  <2> QED BY <2>1, <2>2, <2>3, Induction
<1>2. ASSUME NEW n \in Nat PROVE U(n) = Nat
  <2>1. 0 \in U(n)
    OBVIOUS
  <2>2. ASSUME NEW i \in U(n) PROVE i + 1 \in U(n)
    <3>1. ASSUME NEW m \in Nat, i + 1 <= n, i + 1 <= m,
                 NEW h \in P(n), NEW k \in P(m)
          PROVE  h[i + 1] = k[i + 1]
      <4>1. i \in Nat /\ i <= n /\ i <= m /\ i \in 0 .. n - 1 /\ i \in 0 .. m - 1
        BY <3>1
      <4>2. h[i] = k[i]
        BY <4>1
      <4>3. h[i + 1] = S[h[i]] /\ k[i + 1] = S[k[i]]
        BY <4>1
      <4> QED BY <4>2, <4>3
    <3> HIDE DEF P
    <3> QED BY <3>1
  <2>3. U(n) \in SUBSET Nat
    OBVIOUS
  <2> HIDE DEF U
  <2> QED BY <2>1, <2>2, <2>3, Induction
<1> DEFINE h(n) == CHOOSE k : k \in P(n)
           g == [n \in Nat |-> h(n)[n]]
<1>3. ASSUME NEW n \in Nat PROVE h(n) \in P(n)
  BY <1>1
<1>4. g \in [Nat -> V]
  <2> SUFFICES ASSUME NEW n \in Nat PROVE h(n)[n] \in V
    OBVIOUS
  <2> HIDE DEF h
  <2> QED BY <1>3
<1>5. g[0] = a
  <2>1. h(0)[0] = a
    <3> HIDE DEF h
    <3> QED BY <1>3
  <2> QED BY <2>1
<1>6. ASSUME NEW n \in Nat PROVE g[n + 1] = S[g[n]]
  <2>1. g[n] = h(n)[n] /\ g[n + 1] = h(n + 1)[n + 1]
    OBVIOUS
  <2>2. h(n) \in P(n) /\ h(n + 1) \in P(n + 1)
    <3>1. n + 1 \in Nat
      OBVIOUS
    <3> HIDE DEF P, h
    <3> QED BY <1>3, <3>1
  <2> HIDE DEF g, h
  <2>3. h(n + 1)[n + 1] = S[h(n + 1)[n]]
    BY <2>2
  <2>4. h(n)[n] = h(n + 1)[n]
    <3>1. n \in U(n) /\ n <= n /\ n <= n + 1 /\ n + 1 \in Nat
      <4> HIDE DEF U
      <4> QED BY <1>2
    <3> HIDE DEF P
    <3> QED BY <2>2, <3>1
  <2> QED BY <2>1, <2>3, <2>4
<1> HIDE DEF g
<1> QED BY <1>4, <1>5, <1>6 DEF Run

-----------------------------------------------------------------------------
(* Division.                                                               *)

LEMMA DivMod ==
    ASSUME NEW a \in Nat, NEW d \in Nat \ {0}
    PROVE  /\ a \div d \in Nat /\ a % d \in 0 .. d - 1
           /\ a = d * (a \div d) + (a % d)
OBVIOUS

LEMMA DivUnique ==
    ASSUME NEW d \in Nat \ {0}, NEW q \in Int, NEW r \in 0 .. d - 1,
           NEW s \in Int, NEW t \in 0 .. d - 1, d * q + r = d * s + t
    PROVE  q = s /\ r = t
<1>1. CASE q >= s + 1
  <2>1. d * q >= d * (s + 1)
    BY <1>1
  <2> QED BY <2>1
<1>2. CASE s >= q + 1
  <2>1. d * s >= d * (q + 1)
    BY <1>2
  <2> QED BY <2>1
<1>3. CASE q = s
  BY <1>3
<1> QED BY <1>1, <1>2, <1>3

LEMMA DivSucc ==
    ASSUME NEW a \in Nat, NEW d \in Nat \ {0}
    PROVE  IF (a + 1) % d = 0 THEN (a + 1) \div d = a \div d + 1 /\ a % d = d - 1
           ELSE (a + 1) \div d = a \div d /\ (a + 1) % d = (a % d) + 1
<1> DEFINE q == a \div d
           r == a % d
           s == (a + 1) \div d
           t == (a + 1) % d
<1>1. a = d * q + r /\ q \in Nat /\ r \in 0 .. d - 1
  BY DivMod
<1>2. a + 1 \in Nat
  OBVIOUS
<1>3. a + 1 = d * s + t /\ s \in Nat /\ t \in 0 .. d - 1
  BY <1>2, DivMod
<1> HIDE DEF q, r, s, t
<1>4. CASE r = d - 1
  <2>1. d * (q + 1) + 0 = d * s + t /\ q + 1 \in Int /\ 0 \in 0 .. d - 1
    BY <1>1, <1>3, <1>4
  <2>2. q + 1 = s /\ 0 = t
    BY <1>3, <2>1, DivUnique
  <2> QED BY <1>4, <2>2 DEF q, r, s, t
<1>5. CASE r # d - 1
  <2>1. d * q + (r + 1) = d * s + t /\ r + 1 \in 0 .. d - 1
    BY <1>1, <1>3, <1>5
  <2>2. q = s /\ r + 1 = t
    BY <1>1, <1>3, <2>1, DivUnique
  <2>3. t # 0
    BY <1>1, <2>2
  <2> QED BY <2>2, <2>3 DEF q, r, s, t
<1> QED BY <1>4, <1>5

LEMMA DivDiv ==
    ASSUME NEW a \in Nat, NEW d \in Nat \ {0}, NEW e \in Nat \ {0}
    PROVE  /\ d * e \in Nat \ {0}
           /\ a \div (d * e) = (a \div d) \div e
OBVIOUS

LEMMA DivMono ==
    ASSUME NEW a \in Nat, NEW b \in Nat, NEW d \in Nat \ {0}, a <= b
    PROVE  a \div d <= b \div d
OBVIOUS

LEMMA DivLess ==
    ASSUME NEW a \in Nat, NEW d \in Nat \ {0}, NEW q \in Nat
    PROVE  a \div d < q <=> a < d * q
<1> DEFINE x == a \div d
           r == a % d
<1>1. a = d * x + r /\ x \in Nat /\ r \in 0 .. d - 1
  BY DivMod
<1> HIDE DEF x, r
<1>2. CASE x < q
  <2>1. x + 1 <= q
    BY <1>1, <1>2
  <2>2. d * (x + 1) <= d * q
    BY <1>1, <2>1
  <2>3. a < d * q
    BY <1>1, <2>2
  <2> QED BY <1>2, <2>3 DEF x
<1>3. CASE x >= q
  <2>1. d * x >= d * q
    BY <1>1, <1>3
  <2>2. ~(a < d * q) /\ ~(x < q)
    BY <1>1, <1>3, <2>1
  <2> QED BY <2>2 DEF x
<1> QED BY <1>1, <1>2, <1>3

-----------------------------------------------------------------------------
(* Chains of clusters, as Linked reads them.                               *)

(* s is the beginning of the chain from c, and all of it.                  *)
Path(s, c, t, C) ==
    /\ s \in Seq(C)
    /\ \A i \in 1 .. Len(s) : s[i] = IF i = 1 THEN c ELSE t[s[i - 1]]
Whole(s, c, t, C) == Path(s, c, t, C) /\ After(s, c, t) \notin C

(* No two entries refer to one cluster; none refers to c.                  *)
OneLink(t, C) == \A a, b \in C : t[a] \in C /\ t[a] = t[b] => a = b
NoLinkTo(c, t, C) == \A a \in C : t[a] \in C => t[a] # c

LEMMA PathGrows ==
    ASSUME NEW C, NEW t, NEW c, NEW s, Path(s, c, t, C), After(s, c, t) \in C
    PROVE  /\ Path(Append(s, After(s, c, t)), c, t, C)
           /\ Len(Append(s, After(s, c, t))) = Len(s) + 1
<1> DEFINE a == After(s, c, t)
           u == Append(s, a)
<1>1. s \in Seq(C) /\ a \in C /\ Len(s) \in Nat
  BY DEF Path
<1>2. u \in Seq(C) /\ Len(u) = Len(s) + 1
  BY <1>1
<1>3. ASSUME NEW i \in 1 .. Len(u) PROVE u[i] = IF i = 1 THEN c ELSE t[u[i - 1]]
  <2>1. CASE i \in 1 .. Len(s)
    <3>1. u[i] = s[i] /\ (i # 1 => u[i - 1] = s[i - 1])
      BY <1>1, <2>1
    <3> QED BY <2>1, <3>1 DEF Path
  <2>2. CASE i = Len(s) + 1
    <3>1. u[i] = a
      BY <1>1, <2>2
    <3>2. CASE s = <<>>
      BY <2>2, <3>1, <3>2 DEF After
    <3>3. CASE s # <<>>
      <4>1. Len(s) # 0 /\ i # 1 /\ i - 1 = Len(s)
        BY <1>1, <2>2, <3>3
      <4>2. u[i - 1] = s[Len(s)]
        BY <1>1, <4>1
      <4> QED BY <3>1, <3>3, <4>1, <4>2 DEF After
    <3> QED BY <3>2, <3>3
  <2> QED BY <1>1, <1>2, <2>1, <2>2
<1> QED BY <1>2, <1>3 DEF Path

(* One step of Follow.                                                     *)
Further(s, c, t, C) ==
    IF After(s, c, t) \in C THEN Append(s, After(s, c, t)) ELSE s

(* Follow reads the chain, or as many clusters of it as there are.         *)
LEMMA FollowIsPath ==
    ASSUME NEW C, IsFiniteSet(C), NEW t, NEW c
    PROVE  LET s == Follow(c, t, C)
           IN /\ Path(s, c, t, C)
              /\ Len(s) = Cardinality(C) \/ After(s, c, t) \notin C
<1> DEFINE S == [s \in Seq(C) |-> Further(s, c, t, C)]
           Rec(w) == w = [n \in Nat |-> IF n = 0 THEN <<>>
                                                  ELSE S[w[n - 1]]]
<1>1. S \in [Seq(C) -> Seq(C)] /\ <<>> \in Seq(C)
  BY DEF Further
<1> HIDE DEF S
<1>2. \E g : Run(Seq(C), S, <<>>, g)
  BY <1>1, RunExists
<1>3. PICK g : Run(Seq(C), S, <<>>, g)
  BY <1>2
<1>4. Rec(g)
  <2>1. g \in [Nat -> Seq(C)] /\ g[0] = <<>>
    BY <1>3 DEF Run
  <2>2. ASSUME NEW n \in Nat, n # 0 PROVE g[n] = S[g[n - 1]]
    <3>1. n - 1 \in Nat /\ n - 1 + 1 = n
      BY <2>2
    <3> QED BY <1>3, <2>1, <3>1 DEF Run
  <2> QED BY <2>1, <2>2
<1> DEFINE w == CHOOSE h : Rec(h)
<1>5. Follow(c, t, C) = w[Cardinality(C)]
  BY DEF Follow, S, Further
<1>6. Rec(w)
  BY <1>4
<1> HIDE DEF w
<1> DEFINE Good(n) == /\ Path(w[n], c, t, C)
                      /\ Len(w[n]) = n \/ After(w[n], c, t) \notin C
           G == {n \in Nat : Good(n)}
<1>7. G = Nat
  <2>1. 0 \in G
    <3>1. w[0] = <<>> /\ <<>> \in Seq(C) /\ Len(<<>>) = 0 /\ 1 .. 0 = {}
      BY <1>6
    <3>2. Path(w[0], c, t, C) /\ Len(w[0]) = 0
      BY <3>1 DEF Path
    <3> QED BY <3>2
  <2>2. ASSUME NEW n \in G PROVE n + 1 \in G
    <3>1. n \in Nat /\ n + 1 \in Nat /\ n + 1 # 0 /\ n + 1 - 1 = n
      OBVIOUS
    <3>2. w[n + 1] = Further(w[n], c, t, C)
      <4>1. w[n + 1] = S[w[n]] /\ w[n] \in Seq(C)
        BY <1>6, <3>1 DEF Path
      <4> QED BY <4>1 DEF S
    <3>3. CASE After(w[n], c, t) \in C
      <4>1. w[n + 1] = Append(w[n], After(w[n], c, t))
        BY <3>2, <3>3 DEF Further
      <4>2. Path(w[n], c, t, C) /\ Len(w[n]) = n
        BY <3>3
      <4>3. Path(w[n + 1], c, t, C) /\ Len(w[n + 1]) = n + 1
        BY <3>3, <4>1, <4>2, PathGrows
      <4> QED BY <3>1, <4>3
    <3>4. CASE After(w[n], c, t) \notin C
      BY <3>1, <3>2, <3>4 DEF Further
    <3> QED BY <3>3, <3>4
  <2> HIDE DEF G
  <2> QED BY <2>1, <2>2, Induction DEF G
<1>8. Cardinality(C) \in Nat
  BY FS_CardinalityType
<1> QED BY <1>5, <1>7, <1>8

(* Two chains meet only where they are one.                                *)
LEMMA PathsApart ==
    ASSUME NEW C, NEW t, NEW c, NEW d, NEW s, NEW u,
           Path(s, c, t, C), Path(u, d, t, C),
           OneLink(t, C), NoLinkTo(c, t, C), NoLinkTo(d, t, C)
    PROVE  \A i \in 1 .. Len(s), j \in 1 .. Len(u) : s[i] = u[j] => i = j /\ c = d
<1> DEFINE I == {i \in Nat : i \in 1 .. Len(s) =>
                    \A j \in 1 .. Len(u) : s[i] = u[j] => i = j /\ c = d}
<1>0. s \in Seq(C) /\ u \in Seq(C) /\ Len(s) \in Nat /\ Len(u) \in Nat
  BY DEF Path
<1>00. \A k \in 1 .. Len(s) : s[k] = IF k = 1 THEN c ELSE t[s[k - 1]]
  BY DEF Path
<1>1. 0 \in I
  BY <1>0
<1>2. ASSUME NEW i \in I PROVE i + 1 \in I
  <2>0. i \in Nat /\ (i \in 1 .. Len(s) =>
           \A j \in 1 .. Len(u) : s[i] = u[j] => i = j /\ c = d)
    OBVIOUS
  <2>1. SUFFICES ASSUME i + 1 \in 1 .. Len(s),
                        NEW j \in 1 .. Len(u), s[i + 1] = u[j]
                 PROVE  i + 1 = j /\ c = d
    BY <2>0
  <2> HIDE DEF I
  <2>2. s[i + 1] \in C /\ u[j] \in C
    BY <1>0, <2>1
  <2>3. s[i + 1] = IF i = 0 THEN c ELSE t[s[i]]
    <3>1. PICK k \in 1 .. Len(s) : k = i + 1
      BY <2>1
    <3>2. s[k] = IF k = 1 THEN c ELSE t[s[k - 1]]
      BY <1>00
    <3>3. k - 1 = i /\ (k = 1 <=> i = 0)
      BY <2>0, <3>1
    <3> QED BY <3>1, <3>2, <3>3, Zenon
  <2>4. u[j] = IF j = 1 THEN d ELSE t[u[j - 1]]
    BY DEF Path
  <2>5. CASE i = 0 /\ j = 1
    <3>1. c = d
      BY <2>1, <2>3, <2>4, <2>5, Zenon
    <3>2. i + 1 = j
      BY <2>0, <2>5
    <3> QED BY <3>1, <3>2
  <2>6. CASE i = 0 /\ j # 1
    <3>1. j - 1 \in 1 .. Len(u)
      BY <1>0, <2>6
    <3>2. u[j - 1] \in C
      BY <1>0, <3>1
    <3>3. t[u[j - 1]] = c
      BY <2>1, <2>3, <2>4, <2>6, Zenon
    <3> QED BY <2>1, <2>2, <2>3, <2>6, <3>2, <3>3, Zenon DEF NoLinkTo
  <2>7. CASE i # 0 /\ j = 1
    <3>1. i \in 1 .. Len(s)
      BY <1>0, <2>0, <2>1, <2>7
    <3>2. s[i] \in C
      BY <1>0, <3>1
    <3>3. t[s[i]] = d /\ t[s[i]] \in C
      BY <2>1, <2>2, <2>3, <2>4, <2>7, Zenon
    <3> QED BY <3>2, <3>3 DEF NoLinkTo
  <2>8. CASE i # 0 /\ j # 1
    <3>1. i \in 1 .. Len(s) /\ j - 1 \in 1 .. Len(u)
      BY <1>0, <2>0, <2>1, <2>8
    <3>2. s[i] \in C /\ u[j - 1] \in C
      BY <1>0, <3>1
    <3>3. t[s[i]] = t[u[j - 1]] /\ t[s[i]] \in C
      BY <2>1, <2>2, <2>3, <2>4, <2>8, Zenon
    <3>4. s[i] = u[j - 1]
      BY <3>2, <3>3 DEF OneLink
    <3>5. i = j - 1 /\ c = d
      BY <2>0, <3>1, <3>4
    <3> QED BY <2>0, <3>5
  <2> QED BY <2>5, <2>6, <2>7, <2>8
<1> HIDE DEF I
<1>3. I = Nat
  BY <1>1, <1>2, Induction DEF I
<1> QED BY <1>0, <1>3 DEF I

(* The whole chain is read when no entry refers to where another does.     *)
LEMMA FollowIsWhole ==
    ASSUME NEW C, IsFiniteSet(C), NEW t, NEW c, OneLink(t, C), NoLinkTo(c, t, C)
    PROVE  Whole(Follow(c, t, C), c, t, C)
<1> DEFINE s == Follow(c, t, C)
           n == Cardinality(C)
<1>1. /\ Path(s, c, t, C)
      /\ Len(s) = n \/ After(s, c, t) \notin C
  BY FollowIsPath
<1> HIDE DEF s
<1>2. s \in Seq(C) /\ Len(s) \in Nat /\ n \in Nat
  BY <1>1, FS_CardinalityType DEF Path
<1>3. SUFFICES ASSUME Len(s) = n, After(s, c, t) \in C PROVE FALSE
  BY <1>1 DEF Whole, s
<1>4. \A i, j \in 1 .. n : s[i] = s[j] => i = j
  BY <1>1, <1>3, PathsApart
<1>5. s \in Injection(1 .. n, C)
  <2>1. s \in [1 .. n -> C]
    BY <1>2, <1>3
  <2> QED BY <1>4, <2>1 DEF Injection, IsInjective
<1>6. Cardinality(1 .. n) = n
  BY <1>2, FS_Interval
<1>7. s \in Surjection(1 .. n, C)
  BY <1>5, <1>6, FS_Injection
<1>8. PICK j \in 1 .. n : s[j] = After(s, c, t)
  BY <1>3, <1>7 DEF Surjection
<1>9. s # <<>> /\ s[n] \in C /\ After(s, c, t) = t[s[n]]
  BY <1>2, <1>3, <1>8 DEF After
<1>10. s[j] = IF j = 1 THEN c ELSE t[s[j - 1]]
  BY <1>1, <1>3 DEF Path
<1>11. CASE j = 1
  BY <1>3, <1>8, <1>9, <1>10, <1>11 DEF NoLinkTo
<1>12. CASE j # 1
  <2>1. j - 1 \in 1 .. n /\ s[j - 1] \in C
    BY <1>2, <1>3, <1>12
  <2>2. s[j - 1] = s[n]
    BY <1>3, <1>8, <1>9, <1>10, <1>12, <2>1 DEF OneLink
  <2> QED BY <1>2, <1>4, <2>1, <2>2
<1> QED BY <1>11, <1>12

(* Two paths from one cluster have the same clusters as far as both go.    *)
LEMMA PathsAgree ==
    ASSUME NEW C, NEW t, NEW c, NEW s, NEW u, Path(s, c, t, C), Path(u, c, t, C)
    PROVE  \A i \in Nat : i \in 1 .. Len(s) /\ i \in 1 .. Len(u) => s[i] = u[i]
<1>0. s \in Seq(C) /\ Len(s) \in Nat /\ u \in Seq(C) /\ Len(u) \in Nat
  BY DEF Path
<1> DEFINE I == {i \in Nat : i \in 1 .. Len(s) /\ i \in 1 .. Len(u) => s[i] = u[i]}
<1>1. 0 \in I
  OBVIOUS
<1>2. ASSUME NEW i \in I PROVE i + 1 \in I
  <2>1. SUFFICES ASSUME i + 1 \in 1 .. Len(s), i + 1 \in 1 .. Len(u)
                 PROVE  s[i + 1] = u[i + 1]
    OBVIOUS
  <2>2. i = 0 \/ s[i] = u[i]
    BY <1>0, <2>1
  <2> QED BY <1>0, <2>1, <2>2 DEF Path
<1> HIDE DEF I
<1>3. I = Nat
  BY <1>1, <1>2, Induction DEF I
<1> QED BY <1>3 DEF I

(* No path is longer than the whole chain.                                 *)
LEMMA WholeIsLongest ==
    ASSUME NEW C, NEW t, NEW c, NEW x, NEW y, Whole(x, c, t, C), Path(y, c, t, C)
    PROVE  Len(y) <= Len(x)
<1>1. /\ x \in Seq(C) /\ Len(x) \in Nat /\ Path(x, c, t, C)
      /\ y \in Seq(C) /\ Len(y) \in Nat
  BY DEF Whole, Path
<1>2. SUFFICES ASSUME Len(x) < Len(y) PROVE FALSE
  BY <1>1
<1>3. \A i \in 1 .. Len(x) : x[i] = y[i]
  BY <1>1, <1>2, PathsAgree
<1>4. Len(x) + 1 \in 1 .. Len(y) /\ y[Len(x) + 1] \in C
  BY <1>1, <1>2
<1>5. y[Len(x) + 1] = After(x, c, t)
  <2>1. CASE x = <<>>
    BY <1>1, <1>4, <2>1 DEF Path, After
  <2>2. CASE x # <<>>
    <3>1. Len(x) # 0
      BY <1>1, <2>2
    <3>2. Len(x) \in 1 .. Len(x) /\ Len(x) + 1 # 1 /\ Len(x) + 1 - 1 = Len(x)
      BY <1>1, <3>1
    <3>3. y[Len(x) + 1] = t[y[Len(x)]]
      BY <1>4, <3>2 DEF Path
    <3> QED BY <1>3, <2>2, <3>2, <3>3 DEF After
  <2> QED BY <2>1, <2>2
<1> QED BY <1>4, <1>5 DEF Whole

(* There is one whole chain from a cluster.                                *)
LEMMA WholeIsOne ==
    ASSUME NEW C, NEW t, NEW c, NEW s, NEW u, Whole(s, c, t, C), Whole(u, c, t, C)
    PROVE  s = u
<1>1. /\ s \in Seq(C) /\ Len(s) \in Nat /\ Path(s, c, t, C)
      /\ u \in Seq(C) /\ Len(u) \in Nat /\ Path(u, c, t, C)
  BY DEF Whole, Path
<1>2. Len(s) = Len(u)
  <2>1. Len(s) <= Len(u) /\ Len(u) <= Len(s)
    BY <1>1, WholeIsLongest
  <2> QED BY <1>1, <2>1
<1>3. \A i \in 1 .. Len(s) : s[i] = u[i]
  BY <1>1, <1>2, PathsAgree
<1> QED BY <1>1, <1>2, <1>3

LEMMA WholeIsFollow ==
    ASSUME NEW C, IsFiniteSet(C), NEW t, NEW c, OneLink(t, C), NoLinkTo(c, t, C),
           NEW s, Whole(s, c, t, C)
    PROVE  Follow(c, t, C) = s
BY FollowIsWhole, WholeIsOne

(* A whole chain with no cluster twice is what is read, whatever else      *)
(* refers to its clusters.                                                 *)
Distinct(s) == \A i, j \in 1 .. Len(s) : s[i] = s[j] => i = j

LEMMA DistinctIsFollow ==
    ASSUME NEW C, IsFiniteSet(C), NEW t, NEW c, NEW s, Whole(s, c, t, C), Distinct(s)
    PROVE  Follow(c, t, C) = s
<1> DEFINE u == Follow(c, t, C)
           n == Cardinality(C)
           m == Len(s)
<1>1. /\ Path(u, c, t, C)
      /\ Len(u) = n \/ After(u, c, t) \notin C
  BY FollowIsPath
<1> HIDE DEF u
<1>2. /\ u \in Seq(C) /\ Len(u) \in Nat /\ n \in Nat
      /\ s \in Seq(C) /\ m \in Nat /\ Path(s, c, t, C)
  BY <1>1, FS_CardinalityType DEF Path, Whole
<1>3. CASE After(u, c, t) \notin C
  <2>1. Whole(u, c, t, C)
    BY <1>1, <1>3 DEF Whole
  <2> QED BY <2>1, WholeIsOne DEF u
<1>4. CASE Len(u) = n
  <2>1. m <= n
    <3>1. \A i, j \in 1 .. m : s[i] = s[j] => i = j
      BY DEF Distinct
    <3>2. s \in Injection(1 .. m, C)
      <4>1. s \in [1 .. m -> C]
        BY <1>2
      <4> QED BY <3>1, <4>1 DEF Injection, IsInjective
    <3>3. IsFiniteSet(1 .. m) /\ Cardinality(1 .. m) = m
      <4> HIDE DEF m
      <4>1. m \in Nat
        BY <1>2
      <4>2. 1 \in Int /\ m \in Int /\ (1 > m <=> m = 0) /\ m - 1 + 1 = m
        BY <4>1
      <4> QED BY <4>2, FS_Interval
    <3> QED BY <1>2, <3>2, <3>3, FS_Injection
  <2>2. Len(u) <= m
    BY <1>1, WholeIsLongest
  <2>3. Len(u) = m
    BY <1>2, <1>4, <2>1, <2>2
  <2>4. \A i \in 1 .. m : u[i] = s[i]
    BY <1>1, <1>2, <2>3, PathsAgree
  <2>5. u = s
    BY <1>2, <2>3, <2>4
  <2> QED BY <2>5 DEF u
<1> QED BY <1>1, <1>3, <1>4

(* A chain that nobody touches stays.                                      *)
LEMMA WholeStays ==
    ASSUME NEW C, NEW t, NEW c, NEW s, Whole(s, c, t, C),
           NEW u, \A i \in 1 .. Len(s) : u[s[i]] = t[s[i]]
    PROVE  Whole(s, c, u, C)
<1>1. s \in Seq(C) /\ Len(s) \in Nat
  BY DEF Whole, Path
<1>2. After(s, c, u) = After(s, c, t)
  BY <1>1 DEF After
<1>3. ASSUME NEW i \in 1 .. Len(s) PROVE s[i] = IF i = 1 THEN c ELSE u[s[i - 1]]
  <2>1. s[i] = IF i = 1 THEN c ELSE t[s[i - 1]]
    BY DEF Whole, Path
  <2>2. i = 1 \/ i - 1 \in 1 .. Len(s)
    BY <1>1
  <2> QED BY <2>1, <2>2
<1> QED BY <1>1, <1>2, <1>3 DEF Whole, Path

-----------------------------------------------------------------------------
(* The clusters of a sequence.                                             *)
Members(s) == {s[i] : i \in DOMAIN s}

LEMMA MembersAre ==
    ASSUME NEW C, NEW s \in Seq(C)
    PROVE  /\ Members(s) \subseteq C
           /\ \A x : x \in Members(s) <=> \E i \in 1 .. Len(s) : s[i] = x
BY DEF Members

LEMMA MembersOfAppend ==
    ASSUME NEW C, NEW s \in Seq(C), NEW n \in C
    PROVE  Members(Append(s, n)) = Members(s) \cup {n}
<1> DEFINE u == Append(s, n)
<1>1. u \in Seq(C) /\ Len(u) = Len(s) + 1 /\ Len(s) \in Nat
  OBVIOUS
<1>2. u[Len(s) + 1] = n /\ \A i \in 1 .. Len(s) : u[i] = s[i]
  OBVIOUS
<1> HIDE DEF u
<1>3. ASSUME NEW x \in Members(u) PROVE x \in Members(s) \cup {n}
  <2>1. PICK i \in 1 .. Len(u) : u[i] = x
    BY <1>1, MembersAre
  <2>2. CASE i \in 1 .. Len(s)
    BY <1>2, <2>1, <2>2, MembersAre
  <2>3. CASE i = Len(s) + 1
    BY <1>2, <2>1, <2>3
  <2> QED BY <1>1, <2>2, <2>3
<1>4. ASSUME NEW x \in Members(s) PROVE x \in Members(u)
  <2>1. PICK i \in 1 .. Len(s) : s[i] = x
    BY MembersAre
  <2>2. i \in 1 .. Len(u) /\ u[i] = x
    BY <1>1, <1>2, <2>1
  <2> QED BY <1>1, <2>2, MembersAre
<1>5. n \in Members(u)
  <2>1. Len(s) + 1 \in 1 .. Len(u)
    BY <1>1
  <2> QED BY <1>1, <1>2, <2>1, MembersAre
<1> QED BY <1>3, <1>4, <1>5 DEF u

LEMMA EmptyHasNone == Members(<<>>) = {}
BY DEF Members

(* Cutting a sequence divides its members.                                 *)
LEMMA CutIs ==
    ASSUME NEW C, NEW s \in Seq(C), NEW k \in 0 .. Len(s)
    PROVE  LET a == SubSeq(s, 1, k)
               b == SubSeq(s, k + 1, Len(s))
           IN /\ a \in Seq(C) /\ Len(a) = k /\ \A i \in 1 .. k : a[i] = s[i]
              /\ b \in Seq(C) /\ Len(b) = Len(s) - k
              /\ \A i \in 1 .. Len(s) - k : b[i] = s[i + k]
<1>1. Len(s) \in Nat /\ k \in Nat /\ k <= Len(s)
  OBVIOUS
<1>2. \A i \in 1 .. Len(s) : s[i] \in C
  OBVIOUS
<1>3. /\ SubSeq(s, 1, k) \in Seq(C)
      /\ Len(SubSeq(s, 1, k)) = IF 1 <= k THEN k - 1 + 1 ELSE 0
      /\ \A i \in 1 .. k - 1 + 1 : SubSeq(s, 1, k)[i] = s[1 + i - 1]
  <2>1. 1 \in Int /\ k \in Int /\ \A i \in 1 .. k : s[i] \in C
    BY <1>1, <1>2
  <2> QED BY <2>1, SubSeqProperties
<1>4. /\ SubSeq(s, k + 1, Len(s)) \in Seq(C)
      /\ Len(SubSeq(s, k + 1, Len(s)))
            = IF k + 1 <= Len(s) THEN Len(s) - (k + 1) + 1 ELSE 0
      /\ \A i \in 1 .. Len(s) - (k + 1) + 1 :
            SubSeq(s, k + 1, Len(s))[i] = s[k + 1 + i - 1]
  <2>1. k + 1 \in Int /\ Len(s) \in Int /\ \A i \in k + 1 .. Len(s) : s[i] \in C
    BY <1>1, <1>2
  <2> QED BY <2>1, SubSeqProperties
<1>5. ASSUME NEW i \in 1 .. k PROVE SubSeq(s, 1, k)[i] = s[i]
  <2>1. 1 + i - 1 = i /\ i \in 1 .. k - 1 + 1
    BY <1>1
  <2> QED BY <1>3, <2>1
<1>6. ASSUME NEW i \in 1 .. Len(s) - k
      PROVE  SubSeq(s, k + 1, Len(s))[i] = s[i + k]
  <2>1. k + 1 + i - 1 = i + k /\ i \in 1 .. Len(s) - (k + 1) + 1
    BY <1>1
  <2> QED BY <1>4, <2>1
<1> QED BY <1>1, <1>3, <1>4, <1>5, <1>6

LEMMA CutMembers ==
    ASSUME NEW C, NEW s \in Seq(C), NEW k \in 0 .. Len(s)
    PROVE  Members(s) = Members(SubSeq(s, 1, k))
                              \cup Members(SubSeq(s, k + 1, Len(s)))
<1> DEFINE a == SubSeq(s, 1, k)
           b == SubSeq(s, k + 1, Len(s))
<1>1. /\ a \in Seq(C) /\ Len(a) = k /\ \A i \in 1 .. k : a[i] = s[i]
      /\ b \in Seq(C) /\ Len(b) = Len(s) - k
      /\ \A i \in 1 .. Len(s) - k : b[i] = s[i + k]
  BY CutIs
<1>2. Len(s) \in Nat /\ k \in Nat /\ k <= Len(s)
  OBVIOUS
<1> HIDE DEF a, b
<1>3. ASSUME NEW x \in Members(s) PROVE x \in Members(a) \cup Members(b)
  <2>1. PICK i \in 1 .. Len(s) : s[i] = x
    BY MembersAre
  <2>2. CASE i <= k
    <3>1. i \in 1 .. Len(a) /\ a[i] = x
      BY <1>1, <1>2, <2>1, <2>2
    <3> QED BY <1>1, <3>1, MembersAre
  <2>3. CASE i > k
    <3>1. i - k \in 1 .. Len(b) /\ i - k + k = i
      BY <1>1, <1>2, <2>3
    <3>2. b[i - k] = x
      BY <1>1, <2>1, <3>1
    <3> QED BY <1>1, <3>1, <3>2, MembersAre
  <2> QED BY <1>2, <2>2, <2>3
<1>4. ASSUME NEW x \in Members(a) PROVE x \in Members(s)
  <2>1. PICK i \in 1 .. Len(a) : a[i] = x
    BY <1>1, MembersAre
  <2>2. i \in 1 .. Len(s) /\ s[i] = x
    BY <1>1, <1>2, <2>1
  <2> QED BY <2>2, MembersAre
<1>5. ASSUME NEW x \in Members(b) PROVE x \in Members(s)
  <2>1. PICK i \in 1 .. Len(b) : b[i] = x
    BY <1>1, MembersAre
  <2>2. i + k \in 1 .. Len(s) /\ s[i + k] = x
    BY <1>1, <1>2, <2>1
  <2> QED BY <2>2, MembersAre
<1> QED BY <1>3, <1>4, <1>5 DEF a, b

LEMMA TailMembers ==
    ASSUME NEW C, NEW s \in Seq(C), s # <<>>,
           \A i, j \in 1 .. Len(s) : s[i] = s[j] => i = j
    PROVE  /\ s[1] \in Members(s)
           /\ Members(Tail(s)) = Members(s) \ {s[1]}
<1> DEFINE b == Tail(s)
<1>1. /\ b \in Seq(C) /\ Len(b) = Len(s) - 1
      /\ \A i \in 1 .. Len(b) : b[i] = s[i + 1]
  BY HeadTailProperties
<1>2. Len(s) \in Nat /\ Len(s) # 0
  OBVIOUS
<1> HIDE DEF b
<1>3. s[1] \in Members(s)
  <2>1. 1 \in 1 .. Len(s)
    BY <1>2
  <2> QED BY <2>1, MembersAre
<1>4. ASSUME NEW x \in Members(s), x # s[1] PROVE x \in Members(b)
  <2>1. PICK i \in 1 .. Len(s) : s[i] = x
    BY MembersAre
  <2>2. i - 1 \in 1 .. Len(b) /\ i - 1 + 1 = i
    BY <1>1, <1>2, <1>4, <2>1
  <2>3. b[i - 1] = x
    BY <1>1, <2>1, <2>2
  <2> QED BY <1>1, <2>2, <2>3, MembersAre
<1>5. ASSUME NEW x \in Members(b) PROVE x \in Members(s) /\ x # s[1]
  <2>1. PICK i \in 1 .. Len(b) : b[i] = x
    BY <1>1, MembersAre
  <2>2. i + 1 \in 1 .. Len(s) /\ s[i + 1] = x /\ i + 1 # 1 /\ 1 \in 1 .. Len(s)
    BY <1>1, <1>2, <2>1
  <2>3. x # s[1]
    BY <2>2
  <2> QED BY <2>2, <2>3, MembersAre
<1> QED BY <1>3, <1>4, <1>5 DEF b

(* An empty chain, one that grows, one that is cut, one that loses its     *)
(* first cluster.                                                          *)
LEMMA WholeEmpty ==
    ASSUME NEW C, NEW t, NEW c, c \notin C
    PROVE  Whole(<<>>, c, t, C)
<1>1. <<>> \in Seq(C) /\ Len(<<>>) = 0 /\ 1 .. 0 = {}
  OBVIOUS
<1> QED BY <1>1 DEF Whole, Path, After

LEMMA EmptyIsWhole ==
    ASSUME NEW C, NEW t, NEW c, NEW s, Whole(s, c, t, C)
    PROVE  /\ s = <<>> <=> c \notin C
           /\ s # <<>> => s[1] = c /\ Len(s) >= 1
<1>1. s \in Seq(C) /\ Len(s) \in Nat
  BY DEF Whole, Path
<1>2. CASE s = <<>>
  BY <1>2 DEF Whole, After
<1>3. CASE s # <<>>
  <2>1. Len(s) >= 1 /\ 1 \in 1 .. Len(s)
    BY <1>1, <1>3
  <2>2. s[1] = c
    BY <2>1 DEF Whole, Path
  <2>3. s[1] \in C
    BY <1>1, <2>1
  <2> QED BY <1>3, <2>1, <2>2, <2>3
<1> QED BY <1>2, <1>3

LEMMA WholeOfOne ==
    ASSUME NEW C, NEW t, NEW c \in C, t[c] \notin C
    PROVE  Whole(<<c>>, c, t, C)
<1>1. <<c>> \in Seq(C) /\ Len(<<c>>) = 1 /\ <<c>>[1] = c /\ <<c>> # <<>>
  OBVIOUS
<1>2. \A i \in 1 .. 1 : i = 1
  OBVIOUS
<1> QED BY <1>1, <1>2 DEF Whole, Path, After

(* From the FAT t to the FAT u the last cluster of s has got n behind it.  *)
LinkedTo(n, s, t, u) ==
    /\ u[s[Len(s)]] = n
    /\ \A i \in 1 .. Len(s) : s[i] # s[Len(s)] => u[s[i]] = t[s[i]]

LEMMA WholeGrows ==
    ASSUME NEW C, NEW t, NEW c, NEW s, Whole(s, c, t, C), s # <<>>, Distinct(s),
           NEW u, NEW n \in C, LinkedTo(n, s, t, u), u[n] \notin C
    PROVE  Whole(Append(s, n), c, u, C)
<1>0. /\ \A i, j \in 1 .. Len(s) : s[i] = s[j] => i = j
      /\ u[s[Len(s)]] = n
      /\ \A i \in 1 .. Len(s) : s[i] # s[Len(s)] => u[s[i]] = t[s[i]]
  BY DEF Distinct, LinkedTo
<1>1. s \in Seq(C) /\ Len(s) \in Nat /\ Len(s) # 0 /\ Len(s) \in 1 .. Len(s)
  BY DEF Whole, Path
<1>2. After(s, c, u) = n
  BY <1>0 DEF After
<1>3. ASSUME NEW i \in 1 .. Len(s) PROVE s[i] = IF i = 1 THEN c ELSE u[s[i - 1]]
  <2>1. s[i] = IF i = 1 THEN c ELSE t[s[i - 1]]
    BY DEF Whole, Path
  <2>2. CASE i = 1
    BY <2>1, <2>2
  <2>3. CASE i # 1
    <3>1. i - 1 \in 1 .. Len(s) /\ i - 1 # Len(s)
      BY <1>1, <2>3
    <3>2. s[i - 1] # s[Len(s)]
      BY <1>0, <1>1, <3>1
    <3> QED BY <1>0, <2>1, <2>3, <3>1, <3>2
  <2> QED BY <2>2, <2>3
<1>4. Path(s, c, u, C)
  BY <1>1, <1>3 DEF Path
<1>5. Path(Append(s, n), c, u, C)
  BY <1>2, <1>4, PathGrows
<1>6. Append(s, n) # <<>> /\ Append(s, n)[Len(Append(s, n))] = n
  BY <1>1
<1>7. After(Append(s, n), c, u) = u[n]
  BY <1>6 DEF After
<1> QED BY <1>5, <1>7 DEF Whole

(* From t to u only what cluster number k of s refers to has changed.      *)
ChangedAt(k, s, t, u) == \A i \in 1 .. Len(s) : i # k => u[s[i]] = t[s[i]]

LEMMA WholeIsCut ==
    ASSUME NEW C, NEW t, NEW c, NEW s, Whole(s, c, t, C),
           NEW k \in 1 .. Len(s) - 1, NEW u, u[s[k]] \notin C, ChangedAt(k, s, t, u)
    PROVE  /\ Whole(SubSeq(s, 1, k), c, u, C)
           /\ Whole(SubSeq(s, k + 1, Len(s)), t[s[k]], u, C)
<1> DEFINE a == SubSeq(s, 1, k)
           b == SubSeq(s, k + 1, Len(s))
           n == Len(s)
<1>0. \A i \in 1 .. n : i # k => u[s[i]] = t[s[i]]
  BY DEF ChangedAt
<1>1. s \in Seq(C) /\ n \in Nat /\ k \in Nat /\ k >= 1 /\ k < n /\ k \in 0 .. Len(s)
  BY DEF Whole, Path
<1>2. /\ a \in Seq(C) /\ Len(a) = k /\ \A i \in 1 .. k : a[i] = s[i]
      /\ b \in Seq(C) /\ Len(b) = n - k
      /\ \A i \in 1 .. n - k : b[i] = s[i + k]
  BY <1>1, CutIs
<1>3. \A i \in 1 .. n : s[i] = IF i = 1 THEN c ELSE t[s[i - 1]]
  BY DEF Whole, Path
<1> HIDE DEF a, b, n
<1>4. Whole(a, c, u, C)
  <2>1. ASSUME NEW i \in 1 .. Len(a) PROVE a[i] = IF i = 1 THEN c ELSE u[a[i - 1]]
    <3>1. i \in 1 .. n /\ a[i] = s[i]
      BY <1>1, <1>2
    <3>2. CASE i = 1
      BY <1>3, <3>1, <3>2
    <3>3. CASE i # 1
      <4>1. i - 1 \in 1 .. n /\ i - 1 # k /\ i - 1 \in 1 .. k
        BY <1>1, <1>2, <3>3
      <4>2. a[i - 1] = s[i - 1] /\ u[s[i - 1]] = t[s[i - 1]]
        BY <1>0, <1>2, <4>1
      <4> QED BY <1>3, <3>1, <3>3, <4>2
    <3> QED BY <3>2, <3>3
  <2>2. a # <<>> /\ a[Len(a)] = s[k]
    BY <1>1, <1>2
  <2>3. After(a, c, u) \notin C
    BY <2>2 DEF After
  <2> QED BY <1>2, <2>1, <2>3 DEF Whole, Path
<1>5. Whole(b, t[s[k]], u, C)
  <2>1. ASSUME NEW i \in 1 .. Len(b)
        PROVE  b[i] = IF i = 1 THEN t[s[k]] ELSE u[b[i - 1]]
    <3>0. i \in Nat /\ 1 <= i /\ i <= n - k
      BY <1>1, <1>2
    <3>1. i + k \in 1 .. n /\ i + k # 1 /\ b[i] = s[i + k]
      BY <1>1, <1>2
    <3>2. s[i + k] = t[s[i + k - 1]]
      BY <1>3, <3>1
    <3>3. CASE i = 1
      <4>1. i + k - 1 = k
        BY <1>1, <3>3
      <4> QED BY <3>1, <3>2, <3>3, <4>1
    <3>4. CASE i # 1
      <4>1. i - 1 \in 1 .. n - k /\ i - 1 + k = i + k - 1
        BY <1>1, <3>0, <3>4
      <4>2. i + k - 1 \in 1 .. n /\ i + k - 1 # k
        BY <1>1, <3>0, <3>4
      <4>3. b[i - 1] = s[i + k - 1]
        BY <1>2, <4>1
      <4>4. u[s[i + k - 1]] = t[s[i + k - 1]]
        BY <1>0, <4>2
      <4> QED BY <3>1, <3>2, <3>4, <4>3, <4>4
    <3> QED BY <3>3, <3>4
  <2>2. b # <<>> /\ b[Len(b)] = s[n]
    <3>1. Len(b) # 0 /\ Len(b) \in 1 .. n - k /\ Len(b) + k = n
      BY <1>1, <1>2
    <3> QED BY <1>2, <3>1
  <2>3. u[s[n]] = t[s[n]] /\ s # <<>>
    BY <1>0, <1>1
  <2>4. t[s[n]] \notin C
    BY <2>3 DEF Whole, After, n
  <2>5. After(b, t[s[k]], u) \notin C
    BY <2>2, <2>3, <2>4 DEF After
  <2> QED BY <1>2, <2>1, <2>5 DEF Whole, Path
<1> QED BY <1>4, <1>5 DEF a, b, n

LEMMA WholeShrinks ==
    ASSUME NEW C, NEW t, NEW c, NEW s, Whole(s, c, t, C), s # <<>>,
           NEW u, ChangedAt(1, s, t, u)
    PROVE  Whole(Tail(s), t[c], u, C)
<1> DEFINE b == Tail(s)
           n == Len(s)
<1>1. s \in Seq(C) /\ n \in Nat /\ n # 0
  BY DEF Whole, Path
<1>2. /\ b \in Seq(C) /\ Len(b) = n - 1
      /\ \A i \in 1 .. Len(b) : b[i] = s[i + 1]
  BY <1>1, HeadTailProperties
<1>3. \A i \in 1 .. n : s[i] = IF i = 1 THEN c ELSE t[s[i - 1]]
  BY DEF Whole, Path
<1>4. \A i \in 2 .. n : u[s[i]] = t[s[i]]
  BY <1>1 DEF ChangedAt
<1>5. s[1] = c
  BY <1>1, <1>3
<1>6. t[s[n]] \notin C
  BY DEF Whole, After
<1> HIDE DEF b, n
<1>7. ASSUME NEW i \in 1 .. Len(b) PROVE b[i] = IF i = 1 THEN t[c] ELSE u[b[i - 1]]
  <2>1. i + 1 \in 1 .. n /\ i + 1 # 1 /\ i + 1 - 1 = i /\ b[i] = s[i + 1]
    BY <1>1, <1>2
  <2>2. b[i] = t[s[i]]
    BY <1>3, <2>1
  <2>3. CASE i = 1
    BY <1>5, <2>2, <2>3
  <2>4. CASE i # 1
    <3>1. i - 1 \in 1 .. Len(b) /\ i - 1 + 1 = i /\ i \in 2 .. n
      BY <1>1, <1>2, <2>4
    <3>2. b[i - 1] = s[i] /\ u[s[i]] = t[s[i]]
      BY <1>2, <1>4, <3>1
    <3> QED BY <2>2, <2>4, <3>2
  <2> QED BY <2>3, <2>4
<1>8. After(b, t[c], u) \notin C
  <2>1. CASE n = 1
    <3>1. b = <<>>
      BY <1>1, <1>2, <2>1
    <3> QED BY <1>5, <1>6, <2>1, <3>1 DEF After
  <2>2. CASE n # 1
    <3>1. Len(b) \in 1 .. Len(b) /\ Len(b) + 1 = n /\ n \in 2 .. n /\ Len(b) # 0
      BY <1>1, <1>2, <2>2
    <3>2. b # <<>> /\ b[Len(b)] = s[n]
      BY <1>2, <3>1
    <3>3. u[s[n]] = t[s[n]]
      BY <1>4, <3>1
    <3> QED BY <1>6, <3>2, <3>3 DEF After
  <2> QED BY <2>1, <2>2
<1>9. Whole(b, t[c], u, C)
  BY <1>2, <1>7, <1>8 DEF Whole, Path
<1> QED BY <1>9 DEF b
=============================================================================
