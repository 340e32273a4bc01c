----------------------------- MODULE ChainStore -----------------------------
(***************************************************************************)
(* What cluster allocation promises: every object owns a sequence of       *)
(* clusters, no cluster is in two places, and the only ways to change that *)
(* are to grow one sequence by an unused cluster, to cut the end off one   *)
(* and release it cluster by cluster, and to lose clusters for good.       *)
(***************************************************************************)
EXTENDS Integers, Sequences

CONSTANTS Clusters, Obj

VARIABLES chain,   \* the clusters of each object, in order
          dying,   \* clusters being released, in order
          lost     \* clusters in use that belong to nothing

cvars == <<chain, dying, lost>>

Members(s) == {s[i] : i \in DOMAIN s}
Used == (UNION {Members(chain[o]) : o \in Obj}) \cup Members(dying) \cup lost

Distinct(s) == \A i, j \in DOMAIN s : s[i] = s[j] => i = j
Disjoint ==
    /\ \A o \in Obj : Distinct(chain[o])
    /\ \A o, p \in Obj : o # p => Members(chain[o]) \cap Members(chain[p]) = {}
    /\ \A o \in Obj : Members(chain[o]) \cap (Members(dying) \cup lost) = {}
    /\ Distinct(dying) /\ Members(dying) \cap lost = {}

Init == /\ dying = <<>>
        /\ lost \subseteq Clusters
        /\ \A o \in Obj : Members(chain[o]) \subseteq Clusters
        /\ Disjoint

Grow(o, c) ==
    /\ dying = <<>>
    /\ c \notin Used
    /\ chain' = [chain EXCEPT ![o] = Append(@, c)]
    /\ UNCHANGED <<dying, lost>>

Lose(c) ==
    /\ dying = <<>>
    /\ c \notin Used
    /\ lost' = lost \cup {c}
    /\ UNCHANGED <<chain, dying>>

Cut(o, k) ==
    /\ dying = <<>>
    /\ dying' = SubSeq(chain[o], k + 1, Len(chain[o]))
    /\ chain' = [chain EXCEPT ![o] = SubSeq(@, 1, k)]
    /\ UNCHANGED lost

Release ==
    /\ dying # <<>>
    /\ dying' = Tail(dying)
    /\ UNCHANGED <<chain, lost>>

Abandon ==
    /\ dying # <<>>
    /\ dying' = <<>>
    /\ lost' = lost \cup Members(dying)
    /\ UNCHANGED chain

Next ==
    \/ \E o \in Obj, c \in Clusters : Grow(o, c)
    \/ \E c \in Clusters : Lose(c)
    \/ \E o \in Obj : \E k \in 0 .. Len(chain[o]) - 1 : Cut(o, k)
    \/ Release
    \/ Abandon

Spec == Init /\ [][Next]_cvars
=============================================================================
