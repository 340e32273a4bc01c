----------------------------- MODULE SectorStore -----------------------------
(***************************************************************************)
(* What the one-sector window of a FatFs volume promises to the code above *)
(* it (FAT access, directories, FSINFO): a map from sectors to contents,   *)
(* of which at most one sector is newer than the medium.  It is the        *)
(* abstract specification that module Window implements.                   *)
(*                                                                         *)
(*   store    what a reader of the volume is shown                         *)
(*   durable  what a power cut would leave                                 *)
(*   lossy    a write error went unreported: the one sector that differs   *)
(*            may silently fall back to its durable contents               *)
(***************************************************************************)
CONSTANTS Sector,   \* the sectors clients reach through the window
          Content   \* what a sector can hold

VARIABLES store, durable, lossy

svars == <<store, durable, lossy>>

Init ==
    /\ store \in [Sector -> Content]
    /\ durable = store
    /\ lossy = FALSE

(* What remains of the store once the window gives up the sector it holds. *)
Settled == IF lossy THEN durable ELSE store

(* One sector is changed.  Every other sector must already be durable:     *)
(* changes reach the medium in the order in which they were made.          *)
Change(s, v) ==
    /\ \A t \in Sector \ {s} : store[t] = durable[t]
    /\ store' = [store EXCEPT ![s] = v]
    /\ lossy' = FALSE
    /\ UNCHANGED durable

(* The newer sector reaches the medium, with or without being acknowledged.*)
Flush ==
    /\ ~lossy
    /\ durable' = store
    /\ UNCHANGED <<store, lossy>>

(* The window moves on: nothing is pending any more.                       *)
Settle ==
    /\ store' = Settled
    /\ durable' = Settled
    /\ lossy' = FALSE

(* Sectors S are written through with v.  Those in done reach the medium;  *)
(* a reader is shown the new contents of at most one sector that did not.  *)
Through(S, v, done, kept) ==
    /\ done \subseteq S
    /\ kept \in SUBSET S
    /\ \A s, t \in kept : s = t
    /\ durable' = [s \in Sector |-> IF s \in done THEN v ELSE Settled[s]]
    /\ store' = [s \in Sector |->
                    IF s \in done \cup kept THEN v ELSE Settled[s]]
    /\ lossy' = ~(kept \subseteq done)

(* Power cut, or the volume is mounted again: RAM is forgotten.            *)
Reset ==
    /\ store' = durable
    /\ lossy' = FALSE
    /\ UNCHANGED durable

Next ==
    \/ \E s \in Sector, v \in Content : Change(s, v)
    \/ Flush
    \/ Settle
    \/ \E S \in SUBSET Sector, v \in Content :
          \E done, kept \in SUBSET S : Through(S, v, done, kept)
    \/ Reset

Spec == Init /\ [][Next]_svars
=============================================================================
