------------------------------ MODULE Listing ------------------------------
(***************************************************************************)
(* What a directory promises to who uses it: it is a set of names, a call  *)
(* adds or removes one or fails without effect, and a reader that goes     *)
(* through it while others add and remove gets every name that was there   *)
(* all the time, and none twice, unless it is told of an error.            *)
(***************************************************************************)
CONSTANT Name

VARIABLES names,    \* what the directory holds
          state,    \* of the reader: "on" its way, or what it was told last
          must,     \* names that have been there since the reader started
          seen,     \* how often the reader got a name since it came in
          twice     \* names that a failed renaming to themselves left twice

NotSeen == [n \in Name |-> 0]
lvars == <<names, state, must, seen, twice>>

Init ==
    /\ names \subseteq Name
    /\ state = "off"
    /\ must = {} /\ seen = NotSeen /\ twice = {}

(* A name comes in: for the reader it is a new one.                        *)
Add(n) ==
    /\ UNCHANGED <<state, twice>>
    /\ must' = must \ {n}
    /\ seen' = [seen EXCEPT ![n] = 0]
    /\ names' = names \cup {n}

Remove(n) ==
    /\ UNCHANGED <<state, twice>>
    /\ must' = must \ {n}
    /\ seen' = [seen EXCEPT ![n] = 0]
    /\ \/ names' = names \ {n}
       \/ n \in twice /\ UNCHANGED names

Start ==
    /\ state' = "on"
    /\ seen' = NotSeen
    /\ must' = names
    /\ UNCHANGED <<twice, names>>

Deliver(n) ==
    /\ state = "on" /\ UNCHANGED <<state, must, twice>>
    /\ \/ seen[n] = 0 /\ seen' = [seen EXCEPT ![n] = 1]
       \/ n \in twice /\ seen' = [seen EXCEPT ![n] = 2]
    /\ n \in names
    /\ UNCHANGED names

(* The reader is told that this was all.                                   *)
End ==
    /\ \A n \in must : seen[n] # 0
    /\ state' = "ended"
    /\ must' = {} /\ seen' = NotSeen
    /\ UNCHANGED <<names, twice>>

(* The reader is told of an error, and promised nothing any more.          *)
Fail ==
    /\ state' \in {"off", "failed", "wild"}
    /\ must' = {} /\ seen' = NotSeen
    /\ UNCHANGED <<names, twice>>

(* A renaming to the same name failed between adding and removing.         *)
Double(n) ==
    /\ twice' = twice \cup {n}
    /\ UNCHANGED <<state, must, seen>>
    /\ n \in names
    /\ UNCHANGED names

Next ==
    \/ \E n \in Name : Add(n) \/ Remove(n) \/ Deliver(n) \/ Double(n)
    \/ Start
    \/ End
    \/ Fail

Spec == Init /\ [][Next]_lvars
=============================================================================
