------------------------------- MODULE LocksProofs -------------------------------
(***************************************************************************)
(* Theorems about Locks, for any number of threads, objects and entries of *)
(* the table.  Those about the table are for one volume whose medium is    *)
(* not exchanged while a close waits (SingleVolume): the table is shared by   *)
(* all volumes, but nothing keeps threads on different ones apart.         *)
(***************************************************************************)
EXTENDS Locks, TLAPS, FiniteSetTheorems, WellFoundedInduction

SingleVolume == (\A v, w \in Volumes : v = w) /\ ~ExchangeAnytime

-----------------------------------------------------------------------------
(* Who has a volume, for any number of them.                               *)

Opens == {"open", "create", "opendir"}
Changes == {"unlink", "rename", "mkdir"}

(* A call is at a point of its own kind, and works on places of the volume *)
(* it asks for; a directory to be opened is there once it was looked up,   *)
(* since nobody else may change the volume.                                *)
Placed(c) ==
    c # Idle /\ c.at # "leave" =>
        /\ c.op \in Opens =>
              /\ c.at \in {"wait", "check", "find", "count", "seek"} /\ c.next = "check"
              /\ c.h \in Handles /\ c.acc \in {0, 1}
              /\ c.p \in Places /\ VolumeOf[c.p] = c.v
              /\ c.op = "opendir" /\ c.at \in {"find", "count"} => there[c.p] \in Tables
        /\ c.op \in Changes =>
              /\ c.at \in {"wait", "change"} /\ c.next = "change"
              /\ c.h = NoHandle
              /\ c.p \in Places /\ VolumeOf[c.p] = c.v
              /\ c.q \in Places /\ VolumeOf[c.q] = c.v
        /\ c.op = "close" =>
              /\ c.at \in {"wait", "sync", "again", "release"}
              /\ c.next \in {"sync", "release"} /\ c.h \in Handles
CallsPlaced == \A t \in Threads : Placed(call[t])
HandlesKeyed == \A h \in Handles : handle[h].valid => handle[h].key \in Keys

GInv == TypeOK /\ GrantHeld /\ CallsPlaced /\ HandlesKeyed

-----------------------------------------------------------------------------
(* The table.  What a call relies on at each of its points:                *)

(* - the object that is opened is there, and not open to write;            *)
Admitted(c) ==
    c.op # "opendir" =>
        /\ there[c.p] = "file"
        /\ c.acc = 0 => \A i \in EntryOf(c.p) : Files[i].ctr # WriteMark

(* - the entry found is still that of the object, or blank;                *)
EntryKept(c) ==
    /\ c.i \in Entries
    /\ IF c.new THEN EntryOf(KeyOf(c)) = {} /\ Files[c.i].key = Blank
       ELSE Files[c.i].key = KeyOf(c)

(* - the FIL or DIR is not open until it is counted, and stays open until  *)
(*   it is released, but where f_close has given the volume back.          *)
CallSound(c) ==
    c # Idle /\ c.at # "leave" =>
        /\ c.op \in Opens =>
              /\ handle[c.h].valid <=> c.at = "seek"
              /\ c.op = "opendir" => c.acc = 0
              /\ c.at \in {"find", "count"} => Admitted(c)
              /\ c.at = "count" => EntryKept(c)
        /\ c.op = "close" /\ c.at # "again" => handle[c.h].valid
CallsSound == \A t \in Threads : CallSound(call[t])

(* No two calls work on the same FIL or DIR.                               *)
OwnHandles ==
    \A t, u \in Threads :
        t # u /\ call[t] # Idle /\ call[u] # Idle /\ call[t].h \in Handles => call[u].h # call[t].h

(* Directories are opened to read.                                         *)
WritersAreFiles ==
    \A h \in Handles : handle[h].valid /\ handle[h].acc = 1 => handle[h].key \in Places

TableRight == WritersAreFiles /\ LocksCount /\ WriterAlone /\ OpenFileStays

LInv == GInv /\ CallsSound /\ OwnHandles /\ TableRight

-----------------------------------------------------------------------------
(* Types, grants and places                                                *)

(* A least element of a set of entries.                                    *)
LEMMA FirstIsMember ==
    ASSUME NEW S \in SUBSET Entries, S # {}
    PROVE  First(S) \in S
<1> DEFINE Less == {ss \in Nat \X Nat : ss[1] < ss[2]}
<1>1. S \subseteq Nat
  BY TableAssumption DEF Entries
<1>2. IsWellFoundedOn(Less, Nat)
  BY NatLessThanWellFounded DEF OpToRel
<1>3. \A x, y \in Nat : y < x => <<y, x>> \in Less
  OBVIOUS
<1> HIDE DEF Less
<1>4. \E x \in S : \A y \in S : ~(<<y, x>> \in Less)
  BY <1>1, <1>2, WFMin
<1>5. PICK x \in S : \A y \in S : ~(<<y, x>> \in Less)
  BY <1>4
<1>6. ASSUME NEW y \in S PROVE x <= y
  <2>1. x \in Nat /\ y \in Nat /\ ~(y < x)
    BY <1>1, <1>3, <1>5
  <2> QED BY <2>1
<1> QED BY <1>6 DEF First

(* What a thread may be doing.                                             *)
CallTypes == CallType \cup LeaveType \cup {Idle}
FilesType == [Entries -> [key : Keys \cup {Blank}, ctr : Nat]]
ThereType == [Places -> {"none", "file"} \cup Tables]
HandleType == [Handles -> [valid : BOOLEAN, key : Keys \cup {Blank}, acc : {0, 1},
                           lockid : 0..FF_FS_LOCK]]

LEMMA GInit == Init => GInv
<1> SUFFICES ASSUME Init PROVE GInv
  OBVIOUS
<1>1. TypeOK
  BY TableAssumption DEF Init, TypeOK, BlankEntry, Closed, Blank, Nobody
<1>2. GrantHeld
  BY NobodyAssumption DEF Init, GrantHeld, Inside, Nobody
<1>3. CallsPlaced /\ HandlesKeyed
  BY DEF Init, CallsPlaced, Placed, HandlesKeyed, Closed
<1> QED BY <1>1, <1>2, <1>3 DEF GInv

(* The call of t becomes c.  It takes its volume as it moves in, gives it  *)
(* back as it moves out, and changes the directory of that volume only.    *)
LEMMA CallMoves ==
    ASSUME GInv, NEW t \in Threads,
           NEW c \in CallTypes, call' = [call EXCEPT ![t] = c],
           NEW v \in Volumes, call[t] # Idle => call[t].v = v, c # Idle => c.v = v,
           NEW in \in BOOLEAN, in <=> c # Idle /\ c.at \notin {"wait", "again"},
           IF in = Inside(t) THEN grant' = grant
           ELSE IF in THEN grant[v] = Nobody /\ grant' = [grant EXCEPT ![v] = t]
           ELSE grant' = [grant EXCEPT ![v] = Nobody],
           Files' \in FilesType, there' \in ThereType, handle' \in HandleType,
           \A p \in Places : there'[p] # there[p] => VolumeOf[p] = v /\ (in \/ Inside(t)),
           HandlesKeyed', Placed(call[t])'
    PROVE  GInv'
<1>1. \A u \in Threads : u # t => call'[u] = call[u]
  BY DEF GInv, TypeOK
<1>2. call'[t] = c
  BY DEF GInv, TypeOK
<1>3. TypeOK'
  <2>1. call' \in [Threads -> CallTypes]
    BY DEF GInv, TypeOK, CallTypes
  <2>2. grant' \in [Volumes -> Threads \cup {Nobody}]
    BY DEF GInv, TypeOK
  <2> QED BY <2>1, <2>2 DEF TypeOK, CallTypes, FilesType, ThereType, HandleType
<1>4. Inside(t)' <=> in
  BY <1>2 DEF Inside
<1>5. ASSUME NEW u \in Threads, NEW w \in Volumes
      PROVE  grant'[w] = u <=> Inside(u)' /\ call'[u].v = w
  <2>1. /\ grant[w] = u <=> Inside(u) /\ call[u].v = w
        /\ grant[v] = t <=> Inside(t) /\ call[t].v = v
        /\ grant[v] = u <=> Inside(u) /\ call[u].v = v
        /\ grant \in [Volumes -> Threads \cup {Nobody}] /\ Nobody \notin Threads
    BY NobodyAssumption DEF GInv, GrantHeld, TypeOK, Nobody
  <2>2. CASE u # t
    <3>1. Inside(u)' = Inside(u) /\ call'[u].v = call[u].v
      BY <1>1, <2>2 DEF Inside
    <3> QED BY <2>1, <2>2, <3>1 DEF Inside
  <2>3. CASE u = t
    <3>1. Inside(t) => call[t].v = v
      BY DEF Inside
    <3> QED BY <1>2, <1>4, <2>1, <2>3, <3>1
  <2> QED BY <2>2, <2>3
<1>6. ASSUME NEW u \in Threads PROVE Placed(call[u])'
  <2>1. CASE u = t
    BY <2>1
  <2>2. CASE u # t
    <3>1. call'[u] = call[u] /\ Placed(call[u])
      BY <1>1, <2>2 DEF GInv, CallsPlaced
    <3>2. ASSUME call[u] # Idle, call[u].at \in {"find", "count"}, call[u].op = "opendir"
          PROVE  there'[call[u].p] = there[call[u].p]
      <4>1. Inside(u) /\ call[u].v \in Volumes
        BY <3>2 DEF Inside, GInv, TypeOK, CallType, LeaveType
      <4>2. call[u].p \in Places /\ VolumeOf[call[u].p] = call[u].v
        BY <3>1, <3>2 DEF Placed, Opens
      <4>3. CASE call[u].v = v
        <5>1. grant[v] = u /\ ~Inside(t) /\ ~in
          BY <2>2, <4>1, <4>3, NobodyAssumption DEF GInv, GrantHeld, Inside, Nobody
        <5> QED BY <4>2, <5>1
      <4>4. CASE call[u].v # v
        BY <4>2, <4>4
      <4> QED BY <4>3, <4>4
    <3> QED BY <3>1, <3>2 DEF Placed
  <2> QED BY <2>1, <2>2
<1> QED BY <1>3, <1>5, <1>6 DEF GInv, GrantHeld, CallsPlaced

(* A call on its way, at a point and not about to return.                  *)
LEMMA OnTheWay ==
    ASSUME GInv, NEW t \in Threads, call[t] # Idle, call[t].at # "leave"
    PROVE  call[t] \in CallType /\ call[t].v \in Volumes /\ Placed(call[t])
BY DEF GInv, TypeOK, CallType, LeaveType, CallsPlaced

LEMMA NotIdle ==
    ASSUME NEW c, c.at # "idle"
    PROVE  c # Idle
BY DEF Idle

(* Where it goes, its other fields go with it.                             *)
LEMMA GoesFrom ==
    ASSUME GInv, NEW t \in Threads, call[t] \in CallType, NEW at \in Points, Go(t, at)
    PROVE  /\ call'[t].at = at /\ call'[t] # Idle
           /\ call'[t].op = call[t].op /\ call'[t].v = call[t].v /\ call'[t].h = call[t].h
           /\ call'[t].p = call[t].p /\ call'[t].q = call[t].q /\ call'[t].acc = call[t].acc
           /\ call'[t].next = call[t].next /\ call'[t].i = call[t].i
           /\ call'[t].new = call[t].new
<1>1. call'[t] = [call[t] EXCEPT !.at = at]
  BY DEF Go, GInv, TypeOK
<1>2. call'[t].at # "idle"
  BY <1>1 DEF Points, CallType
<1> QED BY <1>1, <1>2, NotIdle DEF CallType

(* It goes on to another point.                                            *)
LEMMA CallGoes ==
    ASSUME GInv, NEW t \in Threads, call[t] # Idle, call[t].at # "leave",
           NEW at \in Points, Go(t, at),
           LET in == at \notin {"wait", "again"}
               v == call[t].v
           IN  /\ IF in = Inside(t) THEN grant' = grant
                  ELSE IF in THEN grant[v] = Nobody /\ grant' = [grant EXCEPT ![v] = t]
                  ELSE grant' = [grant EXCEPT ![v] = Nobody]
               /\ \A p \in Places : there'[p] # there[p] => VolumeOf[p] = v /\ (in \/ Inside(t)),
           Files' \in FilesType, there' \in ThereType, handle' \in HandleType, HandlesKeyed',
           Placed(call[t])'
    PROVE  GInv'
<1> DEFINE c == [call[t] EXCEPT !.at = at]
           in == at \notin {"wait", "again"}
<1>1. call[t] \in CallType /\ call[t].v \in Volumes
  BY OnTheWay
<1>2. c \in CallType /\ c.at = at /\ c.v = call[t].v
  BY <1>1 DEF CallType
<1>3. c # Idle
  BY <1>2, NotIdle DEF Points
<1>4. call' = [call EXCEPT ![t] = c]
  BY DEF Go
<1>5. in \in BOOLEAN /\ (in <=> c # Idle /\ c.at \notin {"wait", "again"})
  BY <1>2, <1>3
<1> HIDE DEF c
<1> QED BY <1>1, <1>2, <1>3, <1>4, <1>5, CallMoves DEF c, CallTypes

(* It is about to return.                                                  *)
LEMMA CallLeaves ==
    ASSUME GInv, NEW t \in Threads, Inside(t), call[t].at # "leave", Leave(t), UNCHANGED grant,
           \A p \in Places : there'[p] # there[p] => VolumeOf[p] = call[t].v,
           Files' \in FilesType, there' \in ThereType, handle' \in HandleType, HandlesKeyed'
    PROVE  GInv'
<1> DEFINE c == [at |-> "leave", v |-> call[t].v, h |-> call[t].h]
<1>1. call[t] \in CallType /\ call[t].v \in Volumes /\ call[t] # Idle
  BY OnTheWay DEF Inside
<1>2. c \in LeaveType /\ c.at = "leave" /\ c.v = call[t].v
  BY <1>1 DEF LeaveType, CallType
<1>3. c # Idle
  BY <1>2, NotIdle
<1>4. call' = [call EXCEPT ![t] = c]
  BY DEF Leave
<1> HIDE DEF c
<1>5. call'[t] = c
  BY <1>4 DEF GInv, TypeOK
<1>6. Placed(call[t])'
  BY <1>2, <1>5 DEF Placed
<1> QED BY <1>1, <1>2, <1>3, <1>4, <1>6, CallMoves DEF CallTypes

(* It has returned.                                                        *)
LEMMA CallReturns ==
    ASSUME GInv, NEW t \in Threads, call[t] # Idle, Return(t), UNCHANGED <<Files, there, handle>>,
           \/ ~Inside(t) /\ grant' = grant
           \/ Inside(t) /\ grant' = [grant EXCEPT ![call[t].v] = Nobody]
    PROVE  GInv'
<1>1. call[t].v \in Volumes
  BY DEF GInv, TypeOK, CallType, LeaveType
<1>2. call' = [call EXCEPT ![t] = Idle]
  BY DEF Return
<1>3. Placed(call[t])' /\ Idle \in CallTypes
  BY <1>2 DEF Placed, CallTypes, GInv, TypeOK
<1>4. /\ Files' \in FilesType /\ there' \in ThereType /\ handle' \in HandleType /\ HandlesKeyed'
      /\ \A p \in Places : there'[p] = there[p]
  BY DEF GInv, TypeOK, FilesType, ThereType, HandleType, HandlesKeyed
<1>5. Inside(t) \in BOOLEAN
  BY DEF Inside
<1> QED BY <1>1, <1>2, <1>3, <1>4, <1>5, CallMoves

(* It begins.                                                              *)
LEMMA CallBegins ==
    ASSUME GInv, NEW t \in Threads, call[t] = Idle, UNCHANGED <<Files, grant, there, handle>>,
           NEW op, NEW v \in Volumes, NEW h \in Handles \cup {NoHandle}, NEW p \in Keys,
           NEW q \in Keys, NEW acc \in {0, 1, 2}, NEW next, Begin(t, op, v, h, p, q, acc, next),
           \/ /\ op \in Opens /\ next = "check" /\ h \in Handles /\ acc \in {0, 1}
              /\ p \in Places /\ VolumeOf[p] = v
           \/ /\ op \in Changes /\ next = "change" /\ h = NoHandle
              /\ p \in Places /\ VolumeOf[p] = v /\ q \in Places /\ VolumeOf[q] = v
           \/ op = "close" /\ next \in {"sync", "release"} /\ h \in Handles
    PROVE  GInv'
<1> DEFINE c == [at |-> "wait", op |-> op, v |-> v, h |-> h, p |-> p, q |-> q,
                 acc |-> acc, next |-> next, i |-> 0, new |-> FALSE]
<1>1. c \in CallType
  BY TableAssumption DEF CallType, Points, Opens, Changes
<1>2. c # Idle
  BY NotIdle
<1>3. call' = [call EXCEPT ![t] = c]
  BY DEF Begin
<1>4. Placed(call[t])'
  <2>1. call'[t] = c
    BY <1>3 DEF GInv, TypeOK
  <2> QED BY <2>1 DEF Placed, Opens, Changes
<1>5. /\ Files' \in FilesType /\ there' \in ThereType /\ handle' \in HandleType /\ HandlesKeyed'
      /\ \A x \in Places : there'[x] = there[x]
  BY DEF GInv, TypeOK, FilesType, ThereType, HandleType, HandlesKeyed
<1>6. c.at = "wait" /\ c.v = v /\ Inside(t) = FALSE /\ grant' = grant
  BY DEF Inside
<1> HIDE DEF c
<1> QED BY <1>1, <1>2, <1>3, <1>4, <1>5, <1>6, CallMoves DEF CallTypes

LEMMA CallsKeep == ASSUME GInv, NEW t \in Threads, Calls(t) PROVE GInv'
<1>1. ASSUME NEW h \in Fils, NEW p \in Places, NEW acc \in {0, 1}, NEW c \in BOOLEAN,
             f_open(t, h, p, acc, c)
      PROVE  GInv'
  <2>1. (IF c THEN "create" ELSE "open") \in Opens /\ VolumeOf[p] \in Volumes /\ p \in Keys
    BY KeysAssumption DEF Opens, Keys
  <2> QED BY <1>1, <2>1, CallBegins DEF f_open, Handles
<1>2. ASSUME NEW h \in Dirs, NEW p \in Places, f_opendir(t, h, p) PROVE GInv'
  BY <1>2, CallBegins, KeysAssumption DEF f_opendir, Keys, Handles, Opens
<1>3. ASSUME NEW h \in Handles, f_close(t, h) PROVE GInv'
  <2>1. handle[h].key \in Keys /\ VolumeOf[handle[h].key] \in Volumes
    BY <1>3, KeysAssumption DEF f_close, GInv, HandlesKeyed
  <2> QED BY <1>3, <2>1, CallBegins DEF f_close
<1>4. ASSUME NEW p \in Places, f_unlink(t, p) \/ f_mkdir(t, p) PROVE GInv'
  BY <1>4, CallBegins, KeysAssumption DEF f_unlink, f_mkdir, Keys, Changes
<1>5. ASSUME NEW p \in Places, NEW q \in Places, f_rename(t, p, q) PROVE GInv'
  BY <1>5, CallBegins, KeysAssumption DEF f_rename, Keys, Changes
<1> QED BY <1>1, <1>2, <1>3, <1>4, <1>5 DEF Calls

(* What does not change keeps its type.                                    *)
LEMMA SameTypes ==
    ASSUME GInv
    PROVE  /\ UNCHANGED Files => Files' \in FilesType
           /\ UNCHANGED there => there' \in ThereType
           /\ UNCHANGED handle => handle' \in HandleType /\ HandlesKeyed'
BY DEF GInv, TypeOK, FilesType, ThereType, HandleType, HandlesKeyed

LEMMA GrantKeeps ==
    ASSUME GInv, NEW t \in Threads, lock_fs(t) \/ TimeOut(t) \/ unlock_fs(t)
    PROVE  GInv'
<1>1. CASE lock_fs(t)
  <2>1. call[t] # Idle /\ ~Inside(t)
    BY <1>1, NotIdle DEF lock_fs, Inside
  <2>2. call[t] \in CallType /\ Placed(call[t])
    BY <1>1, <2>1, OnTheWay DEF lock_fs
  <2>3. call[t].next \in {"check", "change", "sync", "release"} /\ call[t].next \in Points
    BY <2>2 DEF CallType, Points
  <2>4. call'[t] = [call[t] EXCEPT !.at = call[t].next]
    BY <1>1 DEF lock_fs, Go, GInv, TypeOK
  <2>5. Placed(call[t])'
    BY <1>1, <2>1, <2>2, <2>3, <2>4, GoesFrom DEF Placed, Opens, Changes, lock_fs
  <2> QED BY <1>1, <2>1, <2>3, <2>5, CallGoes, SameTypes DEF lock_fs, Inside
<1>2. CASE TimeOut(t)
  BY <1>2, NotIdle, CallReturns DEF TimeOut, Inside
<1>3. CASE unlock_fs(t)
  BY <1>3, NotIdle, CallReturns DEF unlock_fs, Inside
<1> QED BY <1>1, <1>2, <1>3

(* A call that has the volume is at a point of its own kind.               *)
LEMMA Within ==
    ASSUME GInv, NEW t \in Threads, call[t].at \notin {"idle", "leave"}
    PROVE  /\ call[t] \in CallType /\ Placed(call[t]) /\ call[t] # Idle
           /\ call[t].v \in Volumes /\ call[t].i \in 0..FF_FS_LOCK
           /\ call[t].at \in {"check", "find", "count", "seek"} =>
                 /\ call[t].op \in Opens /\ call[t].h \in Handles /\ call[t].acc \in {0, 1}
                 /\ call[t].p \in Places /\ VolumeOf[call[t].p] = call[t].v
           /\ call[t].at = "change" =>
                 /\ call[t].op \in Changes /\ call[t].p \in Places /\ call[t].q \in Places
                 /\ VolumeOf[call[t].p] = call[t].v /\ VolumeOf[call[t].q] = call[t].v
           /\ call[t].at \in {"sync", "again", "release"} =>
                 call[t].op = "close" /\ call[t].h \in Handles
<1>1. call[t] # Idle
  BY NotIdle
<1>2. call[t] \in CallType /\ Placed(call[t])
  BY <1>1, OnTheWay
<1>3. call[t].op \in Opens \cup Changes \cup {"close"}
  BY <1>2 DEF CallType, Opens, Changes
<1> QED BY <1>1, <1>2, <1>3 DEF Placed, CallType

LEMMA MountKeeps ==
    ASSUME GInv, NEW t \in Threads, mount_volume(t)
    PROVE  GInv'
<1> DEFINE v == call[t].v
<1>1. /\ call[t] \in CallType /\ Placed(call[t]) /\ call[t] # Idle /\ v \in Volumes
      /\ ~Inside(t)
  BY Within DEF mount_volume, Inside
<1>2. call[t].next \in {"check", "change", "sync", "release"} /\ call[t].next \in Points
  BY <1>1 DEF CallType, Points
<1>3. Files' \in FilesType
  BY DEF mount_volume, clear_lock, BlankEntry, FilesType, GInv, TypeOK
<1>4. there' \in ThereType /\ \A p \in Places : there'[p] # there[p] => VolumeOf[p] = v
  BY DEF mount_volume, ThereType, GInv, TypeOK
<1>5. handle' \in HandleType /\ HandlesKeyed'
  <2>1. ASSUME NEW h \in Handles
        PROVE  /\ handle'[h] \in [valid : BOOLEAN, key : Keys \cup {Blank}, acc : {0, 1},
                                  lockid : 0..FF_FS_LOCK]
               /\ handle'[h].valid => handle'[h].key \in Keys
    <3>1. /\ handle[h] \in [valid : BOOLEAN, key : Keys \cup {Blank}, acc : {0, 1},
                            lockid : 0..FF_FS_LOCK]
          /\ handle[h].valid => handle[h].key \in Keys
      BY DEF GInv, TypeOK, HandlesKeyed
    <3>2. handle'[h] = IF ~OfVolume(h, v) THEN handle[h]
                       ELSE IF InUse(h) THEN [handle[h] EXCEPT !.valid = FALSE] ELSE Closed
      BY DEF mount_volume
    <3>3. CASE ~OfVolume(h, v)
      BY <3>1, <3>2, <3>3
    <3>4. CASE OfVolume(h, v) /\ InUse(h)
      BY <3>1, <3>2, <3>4
    <3>5. CASE OfVolume(h, v) /\ ~InUse(h)
      BY <3>2, <3>5, TableAssumption DEF Closed
    <3> QED BY <3>3, <3>4, <3>5
  <2>2. handle' = [h \in Handles |-> handle'[h]]
    BY DEF mount_volume
  <2> QED BY <2>1, <2>2 DEF HandleType, HandlesKeyed
<1>6. Placed(call[t])'
  BY <1>1, <1>2, GoesFrom DEF Placed, Opens, Changes, mount_volume
<1> QED BY <1>1, <1>2, <1>3, <1>4, <1>5, <1>6, CallGoes DEF mount_volume, Inside

(* A call in the volume that only leaves.                                  *)
LEMMA LeaveKeeps ==
    ASSUME GInv, NEW t \in Threads, Inside(t), call[t].at # "leave", Leave(t),
           UNCHANGED <<Files, grant, there, handle>>
    PROVE  GInv'
BY CallLeaves, SameTypes

LEMMA CheckKeeps == ASSUME GInv, NEW t \in Threads, Check(t) PROVE GInv'
<1> DEFINE c == call[t]
<1>1. c \in CallType /\ Inside(t) /\ c.op \in Opens /\ c.p \in Places /\ VolumeOf[c.p] = c.v /\ Placed(c)
  BY Within DEF Check, Inside
<1>2. CASE Leave(t) /\ UNCHANGED there
  BY <1>1, <1>2, LeaveKeeps DEF Check
<1>3. CASE Go(t, "find") /\ (c.op = "opendir" => there'[c.p] \in Tables)
           /\ there' \in ThereType /\ \A p \in Places : there'[p] # there[p] => p = c.p
  <2>1. "find" \in Points
    BY DEF Points
  <2>2. /\ call'[t].at = "find" /\ call'[t].op = c.op /\ call'[t].v = c.v /\ call'[t].h = c.h
        /\ call'[t].p = c.p /\ call'[t].acc = c.acc /\ call'[t].next = c.next
    BY <1>1, <1>3, <2>1, GoesFrom
  <2>3. c.at = "check" /\ c # Idle
    BY NotIdle DEF Check
  <2>4. /\ c.op \notin Changes /\ c.op # "close"
        /\ c.next = "check" /\ c.h \in Handles /\ c.acc \in {0, 1}
    BY <1>1, <2>3 DEF Placed, Opens, Changes
  <2>5. Placed(call[t])'
    BY <1>1, <1>3, <2>2, <2>4 DEF Placed
  <2> QED BY <1>1, <1>3, <2>1, <2>3, <2>5, CallGoes, SameTypes DEF Check, Inside
<1>4. CASE c.op # "opendir" /\ MayOpen(c) /\ Go(t, "find") /\ UNCHANGED there
  BY <1>3, <1>4, SameTypes
<1>5. CASE MayCreate(c) /\ there' = [there EXCEPT ![c.p] = "file"] /\ Go(t, "find")
  BY <1>1, <1>3, <1>5 DEF MayCreate, ThereType, GInv, TypeOK
<1>6. CASE c.op = "opendir" /\ there[c.p] \in Tables /\ Go(t, "find") /\ UNCHANGED there
  BY <1>3, <1>6, SameTypes
<1> QED BY <1>2, <1>4, <1>5, <1>6 DEF Check

LEMMA FindKeeps == ASSUME GInv, NEW t \in Threads, Find(t) PROVE GInv'
<1> DEFINE c == call[t]
           found == inc_lock_found(KeyOf(c))
           d == [c EXCEPT !.at = "count", !.i = First(found), !.new = EntryOf(KeyOf(c)) = {}]
<1>1. /\ c \in CallType /\ Inside(t) /\ c # Idle /\ c.at = "find" /\ c.v \in Volumes
      /\ c.op \in Opens /\ c.h \in Handles /\ c.acc \in {0, 1}
      /\ c.p \in Places /\ VolumeOf[c.p] = c.v /\ Placed(c)
  BY Within DEF Find, Inside
<1>2. CASE found = {}
  BY <1>1, <1>2, LeaveKeeps DEF Find
<1>3. CASE found # {}
  <2>1. found \subseteq Entries
    BY DEF inc_lock_found, BlankEntries, EntryOf
  <2>2. First(found) \in 0..FF_FS_LOCK
    BY <1>3, <2>1, FirstIsMember, TableAssumption DEF Entries
  <2>3. (EntryOf(KeyOf(c)) = {}) \in BOOLEAN /\ "count" \in Points
    BY DEF Points
  <2>4. /\ d \in CallType /\ d.at = "count" /\ d.op = c.op /\ d.v = c.v /\ d.h = c.h
        /\ d.p = c.p /\ d.acc = c.acc /\ d.next = c.next
    <3> HIDE DEF found
    <3> QED BY <1>1, <2>2, <2>3 DEF CallType
  <2>5. call' = [call EXCEPT ![t] = d]
    BY <1>3 DEF Find
  <2> HIDE DEF d
  <2>6. call'[t] = d
    BY <2>5 DEF GInv, TypeOK
  <2>7. c.op \notin Changes /\ c.op # "close" /\ c.next = "check"
    BY <1>1 DEF Placed, Opens, Changes
  <2>8. there' = there /\ (c.op = "opendir" => there[c.p] \in Tables)
    BY <1>1 DEF Placed, Find
  <2>9. Placed(call[t])'
    BY <1>1, <2>4, <2>6, <2>7, <2>8 DEF Placed
  <2>10. d # Idle
    BY <2>4, NotIdle
  <2> QED
    BY <1>1, <2>4, <2>5, <2>8, <2>9, <2>10, CallMoves, SameTypes DEF Find, CallTypes
<1> QED BY <1>2, <1>3

(* dec_lock and what it does to an object that is closed.                  *)
LEMMA ReleasedTypes ==
    ASSUME GInv, NEW h \in Handles, Released(h)
    PROVE  Files' \in FilesType /\ handle' \in HandleType /\ HandlesKeyed'
<1>1. Files' \in FilesType
  <2>1. Files \in FilesType
    BY DEF FilesType, GInv, TypeOK
  <2>2. ASSUME NEW i \in Entries
        PROVE  /\ BlankEntry \in [key : Keys \cup {Blank}, ctr : Nat]
               /\ Files[i].ctr > 1 => [key |-> Files[i].key, ctr |-> Files[i].ctr - 1]
                                         \in [key : Keys \cup {Blank}, ctr : Nat]
               /\ Files[i].ctr \in Nat
    BY <2>1 DEF FilesType, BlankEntry
  <2>3. dec_lock(handle[h].lockid) \in FilesType
    <3> DEFINE i == handle[h].lockid
               e == IF Files[i].ctr = WriteMark \/ Files[i].ctr <= 1 THEN BlankEntry
                    ELSE [key |-> Files[i].key, ctr |-> Files[i].ctr - 1]
    <3>1. dec_lock(i) = [Files EXCEPT ![i] = e]
      BY DEF dec_lock
    <3>2. i \in Entries => e \in [key : Keys \cup {Blank}, ctr : Nat]
      BY <2>2
    <3> HIDE DEF i, e
    <3>3. dec_lock(i) \in FilesType
      BY <2>1, <3>1, <3>2 DEF FilesType
    <3> QED BY <3>3 DEF i
  <2> QED BY <2>3 DEF Released
<1>2. Closed \in [valid : BOOLEAN, key : Keys \cup {Blank}, acc : {0, 1}, lockid : 0..FF_FS_LOCK]
  BY TableAssumption DEF Closed
<1>3. handle' \in HandleType
  BY <1>2 DEF Released, HandleType, GInv, TypeOK
<1>4. HandlesKeyed'
  <2>1. ~Closed.valid
    BY DEF Closed
  <2> QED BY <2>1 DEF Released, HandlesKeyed, GInv, TypeOK
<1> QED BY <1>1, <1>3, <1>4

LEMMA SeekKeeps == ASSUME GInv, NEW t \in Threads, Seek(t) PROVE GInv'
<1>1. Inside(t) /\ call[t].h \in Handles
  BY Within DEF Seek, Inside
<1>2. Files' \in FilesType /\ handle' \in HandleType /\ HandlesKeyed'
  BY <1>1, ReleasedTypes, SameTypes DEF Seek
<1> QED BY <1>1, <1>2, CallLeaves, SameTypes DEF Seek

LEMMA ReleaseKeeps == ASSUME GInv, NEW t \in Threads, Release(t) PROVE GInv'
<1>1. Inside(t) /\ call[t].h \in Handles
  BY Within DEF Release, Inside
<1>2. Files' \in FilesType /\ handle' \in HandleType /\ HandlesKeyed'
  BY <1>1, ReleasedTypes DEF Release
<1> QED BY <1>1, <1>2, CallLeaves, SameTypes DEF Release

LEMMA ChangeKeeps == ASSUME GInv, NEW t \in Threads, Change(t) PROVE GInv'
<1> DEFINE c == call[t]
<1>1. /\ Inside(t) /\ c.p \in Places /\ c.q \in Places
      /\ VolumeOf[c.p] = c.v /\ VolumeOf[c.q] = c.v
  BY Within DEF Change, Inside
<1>2. there \in ThereType
  BY DEF ThereType, GInv, TypeOK
<1>3. there' \in ThereType /\ \A p \in Places : there'[p] # there[p] => VolumeOf[p] = c.v
  <2>1. CASE there' = [there EXCEPT ![c.p] = "none"]
    BY <1>1, <1>2, <2>1 DEF ThereType
  <2>2. CASE there' = [there EXCEPT ![c.q] = there[c.p], ![c.p] = "none"]
    BY <1>1, <1>2, <2>2 DEF ThereType
  <2>3. ASSUME NEW d \in Tables, there' = [there EXCEPT ![c.p] = d]
        PROVE  there' \in ThereType /\ \A p \in Places : there'[p] # there[p] => VolumeOf[p] = c.v
    BY <1>1, <1>2, <2>3 DEF ThereType
  <2>4. CASE UNCHANGED there
    BY <1>2, <2>4
  <2> QED BY <2>1, <2>2, <2>3, <2>4 DEF Change
<1> QED BY <1>1, <1>3, CallLeaves, SameTypes DEF Change

LEMMA CountKeeps == ASSUME GInv, NEW t \in Threads, Count(t) PROVE GInv'
<1> DEFINE c == call[t]
<1>1. /\ c \in CallType /\ Inside(t) /\ c # Idle /\ c.at = "count" /\ c.i \in 0..FF_FS_LOCK
      /\ c.op \in Opens /\ c.h \in Handles /\ c.acc \in {0, 1}
      /\ c.p \in Places /\ VolumeOf[c.p] = c.v /\ Placed(c)
  BY Within DEF Count, Inside
<1>2. KeyOf(c) \in Keys
  BY <1>1 DEF Placed, KeyOf, Keys
<1>3. CASE ~inc_lock_counts(c.i, c.acc, c.new)
  BY <1>1, <1>3, LeaveKeeps DEF Count
<1>4. CASE inc_lock_counts(c.i, c.acc, c.new)
  <2>1. Files' \in FilesType
    <3>1. Files \in FilesType /\ c.new \in BOOLEAN
      BY <1>1 DEF FilesType, GInv, TypeOK, CallType
    <3>2. ASSUME c.i \in Entries
          PROVE  [key |-> IF c.new THEN KeyOf(c) ELSE Files[c.i].key,
                  ctr |-> IF c.acc = 1 THEN WriteMark
                          ELSE (IF c.new THEN 0 ELSE Files[c.i].ctr) + 1]
                     \in [key : Keys \cup {Blank}, ctr : Nat]
      <4>1. Files[c.i].key \in Keys \cup {Blank} /\ Files[c.i].ctr \in Nat
        BY <3>1, <3>2 DEF FilesType
      <4>2. (IF c.acc = 1 THEN WriteMark ELSE (IF c.new THEN 0 ELSE Files[c.i].ctr) + 1) \in Nat
        BY <4>1, MarkAssumption
      <4> QED BY <1>2, <4>1, <4>2
    <3>3. Files' = inc_lock(c.i, KeyOf(c), c.acc, c.new)
      BY <1>4 DEF Count
    <3> QED BY <3>1, <3>2, <3>3 DEF inc_lock, FilesType
  <2>2. handle' \in HandleType /\ HandlesKeyed'
    <3>1. handle' = [handle EXCEPT ![c.h] =
                        [valid |-> TRUE, key |-> KeyOf(c), acc |-> c.acc, lockid |-> c.i]]
      BY <1>4 DEF Count
    <3>2. handle \in HandleType /\ HandlesKeyed
      BY DEF HandleType, GInv, TypeOK
    <3> QED BY <1>1, <1>2, <3>1, <3>2 DEF HandleType, HandlesKeyed
  <2>3. CASE c.op = "opendir"
    BY <1>1, <1>4, <2>1, <2>2, <2>3, CallLeaves, SameTypes DEF Count
  <2>4. CASE c.op # "opendir"
    <3>1. Go(t, "seek") /\ "seek" \in Points
      BY <1>4, <2>4 DEF Count, Points
    <3>2. /\ call'[t].at = "seek" /\ call'[t].op = c.op /\ call'[t].v = c.v /\ call'[t].h = c.h
          /\ call'[t].p = c.p /\ call'[t].acc = c.acc /\ call'[t].next = c.next
      BY <1>1, <3>1, GoesFrom
    <3>3. c.op \notin Changes /\ c.op # "close" /\ c.next = "check"
      BY <1>1 DEF Placed, Opens, Changes
    <3>4. Placed(call[t])'
      BY <1>1, <3>2, <3>3 DEF Placed
    <3> QED BY <1>1, <2>1, <2>2, <3>1, <3>4, CallGoes, SameTypes DEF Count
  <2> QED BY <2>3, <2>4
<1> QED BY <1>3, <1>4

LEMMA SyncKeeps == ASSUME GInv, NEW t \in Threads, Sync(t) PROVE GInv'
<1> DEFINE c == call[t]
<1>1. /\ c \in CallType /\ Inside(t) /\ c # Idle /\ c.at = "sync" /\ c.op = "close"
      /\ c.h \in Handles /\ Placed(c)
  BY Within DEF Sync, Inside
<1>2. CASE Leave(t) /\ UNCHANGED grant
  BY <1>1, <1>2, LeaveKeeps DEF Sync
<1>3. CASE Go(t, "again") /\ grant' = [grant EXCEPT ![c.v] = Nobody]
  <2>1. "again" \in Points
    BY DEF Points
  <2>2. /\ call'[t].at = "again" /\ call'[t].op = c.op /\ call'[t].h = c.h
        /\ call'[t].next = c.next
    BY <1>1, <1>3, <2>1, GoesFrom
  <2>3. c.next \in {"sync", "release"} /\ c.op \notin Opens \cup Changes
    BY <1>1 DEF Placed, Opens, Changes
  <2>4. Placed(call[t])'
    BY <1>1, <2>2, <2>3 DEF Placed
  <2> QED BY <1>1, <1>3, <2>1, <2>4, CallGoes, SameTypes DEF Sync
<1> QED BY <1>2, <1>3 DEF Sync

LEMMA AgainKeeps == ASSUME GInv, NEW t \in Threads, Again(t) PROVE GInv'
<1> DEFINE c == call[t]
           d == [c EXCEPT !.at = "wait", !.next = "release"]
<1>1. /\ c \in CallType /\ ~Inside(t) /\ c # Idle /\ c.at = "again" /\ c.op = "close"
      /\ c.h \in Handles /\ c.v \in Volumes
  BY Within DEF Again, Inside
<1>2. CASE Return(t)
  BY <1>1, <1>2, CallReturns DEF Again
<1>3. CASE call' = [call EXCEPT ![t] = d]
  <2>1. /\ d \in CallType /\ d.at = "wait" /\ d.next = "release"
        /\ d.op = "close" /\ d.h = c.h /\ d.v = c.v
    BY <1>1 DEF CallType, Points
  <2> HIDE DEF d
  <2>2. call'[t] = d /\ d # Idle
    BY <1>3, <2>1, NotIdle DEF GInv, TypeOK
  <2>3. Placed(call[t])'
    BY <1>1, <2>1, <2>2 DEF Placed, Opens, Changes
  <2>4. Inside(t) = FALSE /\ d.at \in {"wait", "again"} /\ UNCHANGED <<Files, grant, there, handle>>
    BY <1>1, <2>1 DEF Inside, Again
  <2>5. d \in CallTypes
    BY <2>1 DEF CallTypes
  <2> QED BY <1>1, <1>3, <2>1, <2>2, <2>3, <2>4, <2>5, CallMoves, SameTypes
<1> QED BY <1>2, <1>3 DEF Again

LEMMA GNext == GInv /\ [Next]_vars => GInv'
<1> SUFFICES ASSUME GInv, [Next]_vars PROVE GInv'
  OBVIOUS
<1>1. CASE UNCHANGED vars
  BY <1>1 DEF vars, GInv, TypeOK, GrantHeld, Inside, CallsPlaced, Placed, HandlesKeyed
<1>2. ASSUME NEW t \in Threads, Steps(t) PROVE GInv'
  BY <1>2, GrantKeeps, MountKeeps, CheckKeeps, FindKeeps, CountKeeps, SeekKeeps, ChangeKeeps,
     SyncKeeps, AgainKeeps, ReleaseKeeps DEF Steps
<1> QED BY <1>1, <1>2, CallsKeep DEF Next

(* A thread has a volume exactly while it is inside a call on it, so two   *)
(* threads are never in the same volume and no way out of a call keeps it. *)
THEOREM VolumeIsGranted == Spec => []GrantHeld
<1>1. GInv => GrantHeld
  BY DEF GInv
<1> QED BY <1>1, GInit, GNext, PTL DEF Spec

-----------------------------------------------------------------------------
(* The table of one volume                                                 *)

LEMMA LInit == Init => LInv
<1> SUFFICES ASSUME Init PROVE LInv
  OBVIOUS
<1>1. CallsSound /\ OwnHandles
  BY DEF Init, CallsSound, CallSound, OwnHandles
<1>2. TableRight
  BY GInit DEF Init, TableRight, WritersAreFiles, LocksCount, WriterAlone, OpenFileStays,
     Closed, BlankEntry, Blank, GInv
<1> QED BY <1>1, <1>2, GInit DEF LInv

(* With one volume, one thread at a time is inside a call.                 *)
LEMMA Alone ==
    ASSUME SingleVolume, GInv, NEW t \in Threads, NEW u \in Threads, Inside(t), Inside(u)
    PROVE  t = u
<1>1. call[t].v \in Volumes /\ call[u].v \in Volumes
  BY DEF GInv, TypeOK, Inside, CallType, LeaveType
<1>2. grant[call[t].v] = t /\ grant[call[u].v] = u
  BY <1>1 DEF GInv, GrantHeld
<1> QED BY <1>1, <1>2 DEF SingleVolume

(* What t does to its own FIL or DIR leaves the calls of others alone.     *)
LEMMA OthersSound ==
    ASSUME SingleVolume, LInv, NEW t \in Threads,
           \A u \in Threads : u # t => call'[u] = call[u],
           \/ UNCHANGED <<Files, there, handle>>
           \/ Inside(t) /\ \A h \in Handles : h # call[t].h => handle'[h] = handle[h],
           CallSound(call[t])'
    PROVE  CallsSound'
<1> SUFFICES ASSUME NEW u \in Threads, u # t PROVE CallSound(call[u])'
  BY DEF CallsSound
<1>1. call'[u] = call[u] /\ CallSound(call[u]) /\ Placed(call[u])
  BY DEF LInv, CallsSound, GInv, CallsPlaced
<1>2. CASE UNCHANGED <<Files, there, handle>>
  BY <1>1, <1>2 DEF CallSound, Admitted, EntryKept, EntryOf, KeyOf
<1>3. CASE Inside(t) /\ \A h \in Handles : h # call[t].h => handle'[h] = handle[h]
  <2>1. ~Inside(u)
    BY <1>3, Alone DEF LInv
  <2>2. call[u] # Idle /\ call[u].h \in Handles => handle'[call[u].h] = handle[call[u].h]
    BY <1>3 DEF LInv, OwnHandles, Inside
  <2>3. call[u] # Idle /\ call[u].op \in Opens \cup {"close"} /\ call[u].at # "leave"
            => call[u].h \in Handles
    BY <1>1 DEF Placed
  <2>4. call[u] # Idle => call[u].at \notin {"find", "count"}
    BY <2>1 DEF Inside
  <2> QED BY <1>1, <2>2, <2>3, <2>4 DEF CallSound
<1> QED BY <1>2, <1>3

LEMMA OwnHandlesKept ==
    ASSUME OwnHandles, NEW t \in Threads, \A u \in Threads : u # t => call'[u] = call[u],
           call'[t] = Idle \/ (call[t] # Idle /\ call'[t].h = call[t].h)
    PROVE  OwnHandles'
BY DEF OwnHandles

(* An open file has an entry, so what has none is not open.                *)
LEMMA NoEntryNotOpen ==
    ASSUME LocksCount, NEW key, EntryOf(key) = {}
    PROVE  \A h \in Handles : handle[h].valid => handle[h].key # key
BY DEF LocksCount, EntryOf

(* An entry counts the handles that are open on its object.                *)
LEMMA EntryCounts ==
    ASSUME LocksCount, NEW i \in Entries, Files[i].key # Blank
    PROVE  /\ Open(Files[i].key) # {}
           /\ Files[i].ctr = IF \E h \in Open(Files[i].key) : handle[h].acc = 1 THEN WriteMark
                             ELSE Cardinality(Open(Files[i].key))
BY DEF LocksCount

LEMMA TableKept ==
    ASSUME LInv, GInv', UNCHANGED <<Files, handle>>,
           \A p \in Places : there[p] = "file" /\ there'[p] # "file" => EntryOf(p) = {}
    PROVE  TableRight'
<1>1. LocksCount'
  BY DEF LInv, TableRight, LocksCount, GInv, Open
<1>2. WritersAreFiles' /\ WriterAlone'
  BY DEF LInv, TableRight, WritersAreFiles, WriterAlone
<1>3. OpenFileStays'
  BY NoEntryNotOpen DEF LInv, TableRight, OpenFileStays
<1> QED BY <1>1, <1>2, <1>3 DEF TableRight

(* A step that does not touch the table and the objects.                   *)
LEMMA QuietKeeps ==
    ASSUME SingleVolume, LInv, GInv', NEW t \in Threads, NEW c,
           call' = [call EXCEPT ![t] = c],
           c = Idle \/ (call[t] # Idle /\ c.h = call[t].h),
           CallSound(call[t])', UNCHANGED <<Files, handle>>,
           \/ UNCHANGED there
           \/ /\ Inside(t)
              /\ \A p \in Places : there[p] = "file" /\ there'[p] # "file" => EntryOf(p) = {}
    PROVE  LInv'
<1>1. call'[t] = c /\ \A u \in Threads : u # t => call'[u] = call[u]
  BY DEF LInv, GInv, TypeOK
<1>2. CallsSound'
  BY <1>1, OthersSound
<1>3. OwnHandles'
  BY <1>1, OwnHandlesKept DEF LInv
<1>4. TableRight'
  BY TableKept
<1> QED BY <1>2, <1>3, <1>4 DEF LInv

LEMMA LBegins ==
    ASSUME SingleVolume, LInv, GInv', NEW t \in Threads, call[t] = Idle,
           UNCHANGED <<Files, there, handle>>, NEW op, NEW v, NEW h, NEW p, NEW q, NEW acc, NEW next,
           Begin(t, op, v, h, p, q, acc, next),
           \/ /\ op \in Opens /\ h \in Handles /\ ~InUse(h) /\ ~handle[h].valid
              /\ op = "opendir" => acc = 0
           \/ op \in Changes /\ h = NoHandle
           \/ op = "close" /\ h \in Handles /\ ~InUse(h) /\ handle[h].valid
    PROVE  LInv'
<1>1. /\ \A u \in Threads : u # t => call'[u] = call[u]
      /\ call'[t] = [at |-> "wait", op |-> op, v |-> v, h |-> h, p |-> p, q |-> q,
                     acc |-> acc, next |-> next, i |-> 0, new |-> FALSE]
  BY DEF Begin, LInv, GInv, TypeOK
<1>2. CallSound(call[t])'
  BY <1>1 DEF CallSound, Opens, Changes
<1>3. CallsSound'
  BY <1>1, <1>2, OthersSound
<1>4. OwnHandles'
  <2>1. NoHandle \notin Handles
    BY NobodyAssumption
  <2>2. h = NoHandle \/ (h \in Handles /\ \A u \in Threads : call[u] # Idle => call[u].h # h)
    BY DEF InUse
  <2> QED BY <1>1, <2>1, <2>2 DEF LInv, OwnHandles
<1>5. TableRight'
  BY TableKept
<1> QED BY <1>3, <1>4, <1>5 DEF LInv

LEMMA LCalls == ASSUME SingleVolume, LInv, NEW t \in Threads, Calls(t) PROVE LInv'
<1>1. GInv'
  BY CallsKeep DEF LInv
<1>2. ASSUME NEW h \in Fils, NEW p \in Places, NEW acc \in {0, 1}, NEW c \in BOOLEAN,
             f_open(t, h, p, acc, c)
      PROVE  LInv'
  <2>1. (IF c THEN "create" ELSE "open") \in Opens \ {"opendir"}
    BY DEF Opens
  <2> QED BY <1>1, <1>2, <2>1, LBegins DEF f_open, Handles
<1>3. ASSUME NEW h \in Dirs, NEW p \in Places, f_opendir(t, h, p) PROVE LInv'
  BY <1>1, <1>3, LBegins DEF f_opendir, Handles, Opens
<1>4. ASSUME NEW h \in Handles, f_close(t, h) PROVE LInv'
  BY <1>1, <1>4, LBegins DEF f_close
<1>5. ASSUME NEW p \in Places, f_unlink(t, p) \/ f_mkdir(t, p) PROVE LInv'
  BY <1>1, <1>5, LBegins DEF f_unlink, f_mkdir, Changes
<1>6. ASSUME NEW p \in Places, NEW q \in Places, f_rename(t, p, q) PROVE LInv'
  BY <1>1, <1>6, LBegins DEF f_rename, Changes
<1> QED BY <1>2, <1>3, <1>4, <1>5, <1>6 DEF Calls

(* A call that is about to return, or has returned, relies on nothing.     *)
LEMMA LeftSound ==
    ASSUME GInv, NEW t \in Threads, Leave(t) \/ Return(t)
    PROVE  CallSound(call[t])'
BY DEF Leave, Return, CallSound, GInv, TypeOK

LEMMA LLeaves ==
    ASSUME SingleVolume, LInv, GInv', NEW t \in Threads, call[t] # Idle, Leave(t) \/ Return(t),
           UNCHANGED <<Files, handle>>,
           \/ UNCHANGED there
           \/ /\ Inside(t)
              /\ \A p \in Places : there[p] = "file" /\ there'[p] # "file" => EntryOf(p) = {}
    PROVE  LInv'
<1>1. CallSound(call[t])'
  BY LeftSound DEF LInv
<1>2. CASE Leave(t)
  <2> DEFINE c == [at |-> "leave", v |-> call[t].v, h |-> call[t].h]
  <2>1. call' = [call EXCEPT ![t] = c] /\ c.h = call[t].h
    BY <1>2 DEF Leave
  <2> HIDE DEF c
  <2> QED BY <1>1, <2>1, QuietKeeps
<1>3. CASE Return(t)
  <2>1. call' = [call EXCEPT ![t] = Idle]
    BY <1>3 DEF Return
  <2> QED BY <1>1, <2>1, QuietKeeps
<1> QED BY <1>2, <1>3

LEMMA LGrants ==
    ASSUME SingleVolume, LInv, NEW t \in Threads, lock_fs(t) \/ TimeOut(t) \/ unlock_fs(t)
    PROVE  LInv'
<1>1. GInv'
  BY GrantKeeps DEF LInv
<1>2. CASE TimeOut(t) \/ unlock_fs(t)
  BY <1>1, <1>2, NotIdle, LLeaves DEF TimeOut, unlock_fs
<1>3. CASE lock_fs(t)
  <2>1. call[t] \in CallType /\ Placed(call[t]) /\ call[t] # Idle /\ CallSound(call[t])
    BY <1>3, Within DEF lock_fs, LInv, CallsSound
  <2>2. call[t].next \in {"check", "change", "sync", "release"} /\ call[t].next \in Points
    BY <2>1 DEF CallType, Points
  <2>3. /\ call'[t].at = call[t].next /\ call'[t].op = call[t].op /\ call'[t].h = call[t].h
        /\ call'[t].acc = call[t].acc
    BY <1>3, <2>1, <2>2, GoesFrom DEF lock_fs, LInv
  <2>4. CallSound(call[t])'
    BY <1>3, <2>1, <2>2, <2>3 DEF CallSound, Placed, lock_fs, Opens
  <2> DEFINE c == [call[t] EXCEPT !.at = call[t].next]
  <2>5. call' = [call EXCEPT ![t] = c] /\ c.h = call[t].h
    BY <1>3, <2>1 DEF lock_fs, Go, CallType
  <2> HIDE DEF c
  <2> QED BY <1>1, <1>3, <2>1, <2>4, <2>5, QuietKeeps DEF lock_fs
<1> QED BY <1>2, <1>3

(* It goes on, and neither the table nor the objects change.               *)
LEMMA LGoes ==
    ASSUME SingleVolume, LInv, GInv', NEW t \in Threads, Inside(t), call[t] \in CallType,
           NEW at \in Points, Go(t, at), CallSound(call[t])', UNCHANGED <<Files, handle>>,
           \A p \in Places : there[p] = "file" /\ there'[p] # "file" => EntryOf(p) = {}
    PROVE  LInv'
<1> DEFINE c == [call[t] EXCEPT !.at = at]
<1>1. call' = [call EXCEPT ![t] = c] /\ c.h = call[t].h /\ call[t] # Idle
  BY DEF Go, CallType, Inside
<1> HIDE DEF c
<1> QED BY <1>1, QuietKeeps

LEMMA LCheck == ASSUME SingleVolume, LInv, NEW t \in Threads, Check(t) PROVE LInv'
<1> DEFINE c == call[t]
<1>1. GInv' /\ GInv
  BY CheckKeeps DEF LInv
<1>2. /\ c \in CallType /\ Inside(t) /\ c # Idle /\ c.at = "check" /\ c.op \in Opens
      /\ c.p \in Places /\ c.acc \in {0, 1} /\ CallSound(c)
  BY <1>1, Within DEF Check, Inside, LInv, CallsSound
<1>3. ~handle[c.h].valid /\ (c.op = "opendir" => c.acc = 0)
  BY <1>2 DEF CallSound
<1>4. CASE Leave(t) /\ UNCHANGED there
  BY <1>1, <1>2, <1>4, LLeaves DEF Check
<1>5. CASE /\ Go(t, "find") /\ Admitted(c)'
           /\ \A p \in Places : there[p] = "file" => there'[p] = "file"
  <2>1. "find" \in Points /\ UNCHANGED <<Files, handle>>
    BY DEF Points, Check
  <2>2. /\ call'[t].at = "find" /\ call'[t].op = c.op /\ call'[t].h = c.h
        /\ call'[t].p = c.p /\ call'[t].acc = c.acc
    BY <1>1, <1>2, <1>5, <2>1, GoesFrom
  <2>3. Admitted(call[t])'
    BY <1>5
  <2>4. CallSound(call[t])'
    BY <1>2, <1>3, <2>1, <2>2, <2>3 DEF CallSound, Opens
  <2> QED BY <1>1, <1>2, <1>5, <2>1, <2>4, LGoes
<1> DEFINE Fit(th) == c.op # "opendir" =>
                         /\ th[c.p] = "file"
                         /\ c.acc = 0 => \A i \in EntryOf(c.p) : Files[i].ctr # WriteMark
<1>6. ASSUME Go(t, "find"), Fit(there') PROVE Admitted(c)'
  <2>1. UNCHANGED Files
    BY DEF Check
  <2>2. call'[t].op = c.op /\ call'[t].p = c.p /\ call'[t].acc = c.acc
    BY <1>1, <1>2, <1>6, GoesFrom DEF Points
  <2> QED BY <1>6, <2>1, <2>2 DEF Admitted, EntryOf
<1>7. CASE c.op # "opendir" /\ MayOpen(c) /\ Go(t, "find") /\ UNCHANGED there
  BY <1>5, <1>6, <1>7 DEF MayOpen, chk_lock
<1>8. CASE MayCreate(c) /\ there' = [there EXCEPT ![c.p] = "file"] /\ Go(t, "find")
  <2>1. EntryOf(c.p) = {}
    <3>1. SUFFICES ASSUME NEW i \in Entries, Files[i].key = c.p PROVE FALSE
      BY DEF EntryOf
    <3>2. c.p # Blank
      BY <1>2, KeysAssumption DEF Keys, Blank
    <3>3. PICK h \in Handles : handle[h].valid /\ handle[h].key = c.p
      BY <3>1, <3>2, EntryCounts DEF LInv, TableRight, Open
    <3> QED BY <1>2, <1>8, <3>3 DEF LInv, TableRight, OpenFileStays, MayCreate
  <2>2. there'[c.p] = "file" /\ \A p \in Places : there[p] = "file" => there'[p] = "file"
    BY <1>1, <1>2, <1>8 DEF GInv, TypeOK
  <2> QED BY <1>5, <1>6, <1>8, <2>1, <2>2
<1>9. CASE c.op = "opendir" /\ there[c.p] \in Tables /\ Go(t, "find") /\ UNCHANGED there
  BY <1>5, <1>6, <1>9
<1> QED BY <1>4, <1>7, <1>8, <1>9 DEF Check

LEMMA LFind == ASSUME SingleVolume, LInv, NEW t \in Threads, Find(t) PROVE LInv'
<1> DEFINE c == call[t]
           found == inc_lock_found(KeyOf(c))
           new == EntryOf(KeyOf(c)) = {}
           d == [c EXCEPT !.at = "count", !.i = First(found), !.new = new]
<1>1. GInv' /\ GInv
  BY FindKeeps DEF LInv
<1>2. /\ c \in CallType /\ Inside(t) /\ c # Idle /\ c.at = "find" /\ c.op \in Opens
      /\ CallSound(c)
  BY <1>1, Within DEF Find, Inside, LInv, CallsSound
<1>3. CASE found = {}
  BY <1>1, <1>2, <1>3, LLeaves DEF Find
<1>4. CASE found # {}
  <2>1. First(found) \in found /\ found \subseteq Entries
    <3>1. found \subseteq Entries
      BY DEF inc_lock_found, BlankEntries, EntryOf
    <3> QED BY <1>4, <3>1, FirstIsMember
  <2>2. call' = [call EXCEPT ![t] = d] /\ UNCHANGED <<Files, there, handle>>
    BY <1>4 DEF Find
  <2>3. IF new THEN Files[First(found)].key = Blank ELSE Files[First(found)].key = KeyOf(c)
    BY <2>1 DEF inc_lock_found, BlankEntries, EntryOf
  <2>4. /\ d.at = "count" /\ d.op = c.op /\ d.h = c.h /\ d.p = c.p /\ d.acc = c.acc
        /\ d.i = First(found) /\ d.new = new
    <3> HIDE DEF found, new
    <3> QED BY <1>2 DEF CallType
  <2> HIDE DEF d, found
  <2>5. call'[t] = d
    BY <1>1, <2>2 DEF GInv, TypeOK
  <2>6. KeyOf(d) = KeyOf(c)
    BY <2>4 DEF KeyOf
  <2>7. EntryKept(d) /\ Admitted(d)
    BY <1>2, <2>1, <2>3, <2>4, <2>6 DEF EntryKept, CallSound, Admitted
  <2>8. CallSound(d)
    BY <1>2, <2>4, <2>7 DEF CallSound, Opens
  <2>9. CallSound(call[t])'
    BY <2>2, <2>5, <2>8 DEF CallSound, Admitted, EntryKept, EntryOf, KeyOf
  <2> QED BY <1>1, <1>2, <2>2, <2>4, <2>9, QuietKeeps
<1> QED BY <1>3, <1>4

LEMMA LChange == ASSUME SingleVolume, LInv, NEW t \in Threads, Change(t) PROVE LInv'
<1> DEFINE c == call[t]
<1>1. GInv' /\ GInv
  BY ChangeKeeps DEF LInv
<1>2. Inside(t) /\ c # Idle /\ c.p \in Places /\ c.q \in Places /\ there \in ThereType
  BY <1>1, Within DEF Change, Inside, GInv, TypeOK, ThereType
<1>3. \A p \in Places : there[p] = "file" /\ there'[p] # "file" => EntryOf(p) = {}
  <2>1. chk_lock(c.p, 2) => EntryOf(c.p) = {}
    BY DEF chk_lock
  <2> QED BY <1>2, <2>1 DEF Change, ThereType
<1> QED BY <1>1, <1>2, <1>3, LLeaves DEF Change

LEMMA LSync == ASSUME SingleVolume, LInv, NEW t \in Threads, Sync(t) PROVE LInv'
<1> DEFINE c == call[t]
<1>1. GInv' /\ GInv
  BY SyncKeeps DEF LInv
<1>2. c \in CallType /\ Inside(t) /\ c # Idle /\ c.op = "close"
  BY <1>1, Within DEF Sync, Inside
<1>3. CASE Leave(t)
  BY <1>1, <1>2, <1>3, LLeaves DEF Sync
<1>4. CASE Go(t, "again")
  <2>1. "again" \in Points /\ call'[t].at = "again" /\ call'[t].op = c.op
    BY <1>1, <1>2, <1>4, GoesFrom DEF Points
  <2>2. CallSound(call[t])'
    BY <1>2, <2>1 DEF CallSound, Opens
  <2> QED BY <1>1, <1>2, <1>4, <2>1, <2>2, LGoes DEF Sync
<1> QED BY <1>3, <1>4 DEF Sync

LEMMA LAgain == ASSUME SingleVolume, LInv, NEW t \in Threads, Again(t) PROVE LInv'
<1> DEFINE c == call[t]
           d == [c EXCEPT !.at = "wait", !.next = "release"]
<1>1. GInv' /\ GInv
  BY AgainKeeps DEF LInv
<1>2. c \in CallType /\ c # Idle /\ c.op = "close" /\ UNCHANGED <<Files, there, handle>>
  BY <1>1, Within DEF Again
<1>3. CASE ~handle[c.h].valid
  BY <1>1, <1>2, <1>3, LLeaves DEF Again
<1>4. CASE handle[c.h].valid
  <2>1. call' = [call EXCEPT ![t] = d]
    BY <1>4 DEF Again
  <2>2. d.h = c.h /\ d.op = c.op
    BY <1>2 DEF CallType
  <2> HIDE DEF d
  <2>3. call'[t] = d
    BY <1>1, <2>1 DEF GInv, TypeOK
  <2>4. CallSound(call[t])'
    BY <1>2, <1>4, <2>2, <2>3 DEF CallSound, Opens
  <2> QED BY <1>1, <1>2, <2>1, <2>2, <2>4, QuietKeeps
<1> QED BY <1>3, <1>4

(* A mount of the only volume closes everything.                           *)
LEMMA LMount == ASSUME SingleVolume, LInv, NEW t \in Threads, mount_volume(t) PROVE LInv'
<1> DEFINE v == call[t].v
<1>1. GInv' /\ GInv
  BY MountKeeps DEF LInv
<1>2. /\ call[t] \in CallType /\ Placed(call[t]) /\ call[t] # Idle /\ v \in Volumes
      /\ call[t].at = "wait" /\ ~ByHandle(t)
  BY <1>1, Within DEF mount_volume
<1>3. \A k \in Keys : VolumeOf[k] = v
  BY <1>2, KeysAssumption DEF SingleVolume
<1>4. \A h \in Handles : ~handle'[h].valid
  <2>1. SUFFICES ASSUME NEW h \in Handles PROVE ~handle'[h].valid
    OBVIOUS
  <2>2. handle'[h] = IF ~OfVolume(h, v) THEN handle[h]
                     ELSE IF InUse(h) THEN [handle[h] EXCEPT !.valid = FALSE] ELSE Closed
    BY DEF mount_volume
  <2>3. handle \in HandleType /\ (handle[h].valid => handle[h].key \in Keys)
    BY <1>1 DEF GInv, TypeOK, HandleType, HandlesKeyed
  <2>4. CASE ~OfVolume(h, v)
    <3>1. ~handle[h].valid
      BY <1>3, <2>3, <2>4, KeysAssumption DEF OfVolume, Blank
    <3> QED BY <2>2, <2>4, <3>1
  <2>5. CASE OfVolume(h, v) /\ InUse(h)
    <3>1. ~[handle[h] EXCEPT !.valid = FALSE].valid
      BY <2>3 DEF HandleType
    <3> QED BY <2>2, <2>5, <3>1
  <2>6. CASE OfVolume(h, v) /\ ~InUse(h)
    <3>1. ~Closed.valid
      BY DEF Closed
    <3> QED BY <2>2, <2>6, <3>1
  <2> QED BY <2>4, <2>5, <2>6
<1>5. \A i \in Entries : Files'[i].key = Blank
  <2>1. SUFFICES ASSUME NEW i \in Entries PROVE Files'[i].key = Blank
    OBVIOUS
  <2>2. Files'[i] = IF Files[i].key # Blank /\ VolumeOf[Files[i].key] = v THEN BlankEntry
                    ELSE Files[i]
    BY DEF mount_volume, clear_lock
  <2>3. Files[i].key # Blank => VolumeOf[Files[i].key] = v
    BY <1>1, <1>3 DEF GInv, TypeOK
  <2> QED BY <2>2, <2>3 DEF BlankEntry
<1>6. TableRight'
  BY <1>1, <1>4, <1>5 DEF TableRight, WritersAreFiles, LocksCount, WriterAlone, OpenFileStays, GInv
<1>7. \A u \in Threads : u # t => call'[u] = call[u]
  BY <1>1 DEF mount_volume, Go, GInv, TypeOK
<1>8. call[t].next \in Points \ {"wait"} /\ call'[t].at = call[t].next
      /\ call'[t].op = call[t].op /\ call'[t].h = call[t].h /\ call'[t].acc = call[t].acc
  <2>1. call[t].next \in {"check", "change", "sync", "release"}
    BY <1>2 DEF CallType
  <2> QED BY <1>1, <1>2, <2>1, GoesFrom DEF mount_volume, Points
<1>9. OwnHandles'
  BY <1>2, <1>7, <1>8, OwnHandlesKept DEF LInv
<1>10. CallSound(call[t])'
  <2>1. call[t].op \notin {"close"} /\ CallSound(call[t])
    BY <1>2 DEF ByHandle, LInv, CallsSound
  <2>2. call[t].op \in Opens => call[t].next = "check" /\ call[t].h \in Handles
    BY <1>2 DEF Placed
  <2> QED BY <1>2, <1>4, <1>8, <2>1, <2>2 DEF CallSound
<1>11. ASSUME NEW u \in Threads, u # t PROVE CallSound(call[u])'
  <2>1. call'[u] = call[u] /\ CallSound(call[u]) /\ Placed(call[u])
    BY <1>7, <1>11 DEF LInv, CallsSound, GInv, CallsPlaced
  <2>2. ~Inside(u)
    <3>1. grant[v] = Nobody
      BY DEF mount_volume
    <3>2. Inside(u) => call[u].v \in Volumes
      BY <1>1 DEF GInv, TypeOK, Inside, CallType, LeaveType
    <3>3. Inside(u) => grant[v] = u
      BY <1>1, <1>2, <3>2 DEF GInv, GrantHeld, SingleVolume
    <3> QED BY <3>1, <3>3, NobodyAssumption DEF Nobody
  <2>3. call[u] # Idle /\ call[u].at = "wait" => call[u].op # "close"
    BY DEF mount_volume, ByHandle, SingleVolume
  <2>4. call[u] # Idle /\ call[u].op \in Opens /\ call[u].at # "leave" => call[u].h \in Handles
    BY <2>1 DEF Placed
  <2>5. call[u] # Idle => call[u].at \in {"wait", "again"}
    BY <2>2 DEF Inside
  <2>6. ~(call[u] # Idle /\ call[u].op \in Opens /\ call[u].at = "again")
    BY <2>1 DEF Placed
  <2> QED BY <1>4, <2>1, <2>3, <2>4, <2>5, <2>6 DEF CallSound
<1> QED BY <1>1, <1>6, <1>9, <1>10, <1>11 DEF LInv, CallsSound

(* How many have an object open: fewer than the mark of a writer.          *)
LEMMA OpenCount ==
    ASSUME NEW key
    PROVE  /\ IsFiniteSet(Open(key)) /\ Cardinality(Open(key)) \in Nat
           /\ Cardinality(Open(key)) < WriteMark /\ Cardinality(Open(key)) # WriteMark
           /\ Open(key) # {} => Cardinality(Open(key)) >= 1
<1>1. Open(key) \in SUBSET Handles
  BY DEF Open
<1>2. IsFiniteSet(Open(key)) /\ Cardinality(Open(key)) <= Cardinality(Handles)
  BY <1>1, MarkAssumption, FS_Subset
<1>3. Cardinality(Open(key)) \in Nat /\ Cardinality(Handles) \in Nat
  BY <1>2, MarkAssumption, FS_CardinalityType
<1>4. Open(key) # {} => Cardinality(Open(key)) # 0
  BY <1>2, FS_EmptySet
<1> QED BY <1>2, <1>3, <1>4, MarkAssumption

(* dec_lock of an open object: it is no longer open, its entry counts the  *)
(* others that have it open, and is blank when there are none.             *)
LEMMA TableReleased ==
    ASSUME LInv, GInv', NEW h \in Handles, handle[h].valid, Released(h), UNCHANGED there
    PROVE  TableRight'
<1> PICK k : k = handle[h].key
  OBVIOUS
<1> DEFINE l == handle[h].lockid
           on == Open(k)
           rest == on \ {h}
           e == IF Files[l].ctr = WriteMark \/ Files[l].ctr <= 1 THEN BlankEntry
                ELSE [key |-> Files[l].key, ctr |-> Files[l].ctr - 1]
<1>1. GInv /\ LocksCount /\ WriterAlone /\ WritersAreFiles /\ OpenFileStays
  BY DEF LInv, TableRight
<1>2. l \in Entries /\ Files[l].key = k /\ k \in Keys /\ k # Blank
  BY <1>1, KeysAssumption DEF LocksCount, GInv, HandlesKeyed, Blank
<1>3. h \in on /\ on \subseteq Handles
  BY DEF Open
<1>4. handle' = [handle EXCEPT ![h] = Closed] /\ Files' = [Files EXCEPT ![l] = e]
  BY DEF Released, dec_lock
<1>5. /\ ~handle'[h].valid
      /\ \A g \in Handles : g # h => handle'[g] = handle[g]
      /\ Files'[l] = e
      /\ \A i \in Entries : i # l => Files'[i] = Files[i]
  BY <1>1, <1>2, <1>4 DEF Closed, GInv, TypeOK
<1>6. /\ Files[l].ctr = IF \E g \in on : handle[g].acc = 1 THEN WriteMark ELSE Cardinality(on)
      /\ \A i \in Entries : i # l => Files[i].key # k
  <2>1. Files[l].ctr = IF \E g \in on : handle[g].acc = 1 THEN WriteMark ELSE Cardinality(on)
    BY <1>1, <1>2, EntryCounts
  <2>2. \A i \in Entries : i # l => Files[i].key # k
    BY <1>1, <1>2 DEF LocksCount
  <2> QED BY <2>1, <2>2
<1> HIDE DEF l, on, e
(* who is still open, on k and on others *)
<1>7. Open(k)' = rest /\ \A x : x # k => Open(x)' = Open(x)
  <2>1. \A x : Open(x)' = Open(x) \ {h}
    BY <1>5 DEF Open
  <2>2. \A x : x # k => h \notin Open(x)
    BY DEF Open
  <2> QED BY <2>1, <2>2 DEF on
(* the entry that is left *)
<1>8. IF rest = {} THEN e.key = Blank
      ELSE /\ e.key = k
           /\ \A g \in rest : handle[g].acc = 0
           /\ e.ctr = Cardinality(rest)
  <2>1. /\ IsFiniteSet(on) /\ Cardinality(on) \in Nat /\ Cardinality(on) < WriteMark
        /\ Cardinality(on) # WriteMark
    BY OpenCount DEF on
  <2>2. Cardinality(rest) = Cardinality(on) - 1 /\ IsFiniteSet(rest)
    BY <1>3, <2>1, FS_RemoveElement
  <2>3. rest = {} <=> Cardinality(rest) = 0
    BY <2>2, FS_EmptySet
  <2>4. CASE \E g \in on : handle[g].acc = 1
    <3>1. PICK w \in on : handle[w].acc = 1
      BY <2>4
    <3>2. \A g \in on : g = w
      <4>1. SUFFICES ASSUME NEW g \in on, g # w PROVE FALSE
        OBVIOUS
      <4>2. handle[g].valid /\ handle[w].valid /\ handle[g].key = handle[w].key
        BY DEF on, Open
      <4> QED BY <1>1, <1>3, <3>1, <4>1, <4>2 DEF WriterAlone
    <3>3. rest = {}
      BY <1>3, <3>2
    <3> QED BY <1>6, <2>4, <3>3 DEF e, BlankEntry
  <2>5. CASE ~\E g \in on : handle[g].acc = 1
    <3>1. Files[l].ctr = Cardinality(on)
      BY <1>6, <2>5
    <3>2. \A g \in on : handle[g].acc = 0
      BY <1>1, <1>3, <2>5 DEF GInv, TypeOK
    <3>3. CASE rest = {}
      <4>1. Files[l].ctr <= 1
        BY <2>1, <2>2, <2>3, <3>1, <3>3
      <4> QED BY <3>3, <4>1 DEF e, BlankEntry
    <3>4. CASE rest # {}
      <4>1. Files[l].ctr # WriteMark /\ ~(Files[l].ctr <= 1)
        BY <2>1, <2>2, <2>3, <3>1, <3>4, FS_CardinalityType
      <4>2. e = [key |-> k, ctr |-> Cardinality(on) - 1]
        BY <1>2, <3>1, <4>1 DEF e
      <4> QED BY <2>2, <3>2, <3>4, <4>2
    <3> QED BY <3>3, <3>4
  <2> QED BY <2>4, <2>5
<1>9. LocksCount'
  <2>1. ASSUME NEW g \in Handles, handle'[g].valid
        PROVE  handle'[g].lockid \in Entries /\ Files'[handle'[g].lockid].key = handle'[g].key
    <3>1. /\ g # h /\ handle'[g] = handle[g]
          /\ handle[g].lockid \in Entries /\ Files[handle[g].lockid].key = handle[g].key
      BY <1>1, <1>5, <2>1 DEF LocksCount
    <3>2. CASE handle[g].lockid = l
      <4>1. g \in rest
        BY <1>2, <2>1, <3>1, <3>2 DEF on, Open
      <4> QED BY <1>2, <1>5, <1>8, <3>1, <3>2, <4>1
    <3>3. CASE handle[g].lockid # l
      BY <1>5, <3>1, <3>3
    <3> QED BY <3>2, <3>3
  <2>2. e.key \in {k, Blank}
    BY <1>8
  <2>3. ASSUME NEW i \in Entries, NEW j \in Entries, i # j
        PROVE  Files'[i].key # Files'[j].key \/ Files'[i].key = Blank
    <3>1. Files[i].key # Files[j].key \/ Files[i].key = Blank
      BY <1>1, <2>3 DEF LocksCount
    <3> QED BY <1>2, <1>5, <1>6, <2>2, <2>3, <3>1
  <2>4. ASSUME NEW i \in Entries, NEW x, x = Files'[i].key, x # Blank
        PROVE  /\ Open(x)' # {}
               /\ Files'[i].ctr = IF \E g \in Open(x)' : handle'[g].acc = 1 THEN WriteMark
                                  ELSE Cardinality(Open(x)')
    <3>1. CASE i = l
      <4>1. rest # {} /\ x = k /\ Open(x)' = rest
        BY <1>5, <1>7, <1>8, <2>4, <3>1
      <4>2. Files'[i].ctr = Cardinality(rest) /\ \A g \in rest : handle[g].acc = 0
        BY <1>5, <1>8, <3>1, <4>1
      <4>3. \A g \in rest : handle'[g].acc = 0
        BY <1>3, <1>5, <4>2
      <4> QED BY <4>1, <4>2, <4>3
    <3>2. CASE i # l
      <4>1. Files'[i] = Files[i] /\ x = Files[i].key /\ x # k
        BY <1>5, <1>6, <2>4, <3>2
      <4>2. Open(x)' = Open(x)
        BY <1>7, <4>1
      <4>3. \A g \in Open(x) : handle'[g] = handle[g]
        BY <1>5, <4>1 DEF Open
      <4> QED BY <1>1, <2>4, <4>1, <4>2, <4>3, EntryCounts
    <3> QED BY <3>1, <3>2
  <2>5. TypeOK'
    BY DEF GInv
  <2> QED BY <2>1, <2>3, <2>4, <2>5 DEF LocksCount, Open
<1>10. WritersAreFiles' /\ WriterAlone' /\ OpenFileStays'
  BY <1>1, <1>5 DEF WritersAreFiles, WriterAlone, OpenFileStays
<1> QED BY <1>9, <1>10 DEF TableRight

(* inc_lock of an object that is not open yet, or only to read.            *)
LEMMA TableCounted ==
    ASSUME LInv, GInv', UNCHANGED there, NEW h \in Handles, ~handle[h].valid,
           NEW k \in Keys, NEW acc \in {0, 1}, NEW l \in Entries, NEW new \in BOOLEAN,
           IF new THEN EntryOf(k) = {} /\ Files[l].key = Blank ELSE Files[l].key = k,
           inc_lock_counts(l, acc, new),
           acc = 1 => k \in Places, k \in Places => there[k] = "file",
           k \in Places /\ acc = 0 => \A i \in EntryOf(k) : Files[i].ctr # WriteMark,
           Files' = inc_lock(l, k, acc, new),
           handle' = [handle EXCEPT ![h] = [valid |-> TRUE, key |-> k, acc |-> acc, lockid |-> l]]
    PROVE  TableRight'
<1> DEFINE on == Open(k)
           e == [key |-> k, ctr |-> IF acc = 1 THEN WriteMark
                                    ELSE (IF new THEN 0 ELSE Files[l].ctr) + 1]
<1>1. GInv /\ LocksCount /\ WriterAlone /\ WritersAreFiles /\ OpenFileStays
  BY DEF LInv, TableRight
<1>2. k # Blank
  BY KeysAssumption DEF Blank
<1>3. /\ handle'[h] = [valid |-> TRUE, key |-> k, acc |-> acc, lockid |-> l]
      /\ \A g \in Handles : g # h => handle'[g] = handle[g]
      /\ Files'[l] = e
      /\ \A i \in Entries : i # l => Files'[i] = Files[i]
  BY <1>1 DEF inc_lock, GInv, TypeOK
<1>4. h \notin on /\ on \subseteq Handles
  BY DEF Open
(* nobody has the object open to write, and nobody at all if it is new *)
<1>5. \A g \in on : handle[g].acc = 0
  <2>1. SUFFICES ASSUME NEW w \in on, handle[w].acc = 1 PROVE FALSE
    BY <1>1, <1>4 DEF GInv, TypeOK
  <2>2. w \in Handles /\ handle[w].valid /\ handle[w].key = k
    BY DEF Open
  <2>3. k \in Places
    BY <1>1, <2>1, <2>2 DEF WritersAreFiles
  <2>4. ~new
    BY <1>1, <2>2, NoEntryNotOpen
  <2>5. Files[l].ctr = WriteMark /\ l \in EntryOf(k)
    BY <1>1, <1>2, <2>1, <2>4, EntryCounts DEF EntryOf
  <2>6. acc # 0
    BY <2>3, <2>5
  <2>7. WriteMark # 0
    BY OpenCount, <2>2
  <2> QED BY <2>4, <2>5, <2>6, <2>7 DEF inc_lock_counts
<1>6. IF new THEN on = {} ELSE on # {} /\ Files[l].ctr = Cardinality(on) /\ acc = 0
  <2>1. CASE new
    BY <1>1, <2>1, NoEntryNotOpen DEF Open
  <2>2. CASE ~new
    <3>1. on # {} /\ Files[l].ctr = Cardinality(on)
      BY <1>1, <1>2, <1>5, <2>2, EntryCounts
    <3>2. Files[l].ctr # 0
      BY <3>1, OpenCount
    <3> QED BY <2>2, <3>1, <3>2 DEF inc_lock_counts
  <2> QED BY <2>1, <2>2
<1>7. \A i \in Entries : i # l => Files[i].key # k
  BY <1>1, <1>2 DEF LocksCount, EntryOf
<1>8. Open(k)' = on \cup {h} /\ \A x : x # k => Open(x)' = Open(x)
  <2>1. \A x : Open(x)' = IF x = k THEN Open(x) \cup {h} ELSE Open(x)
    BY <1>3 DEF Open
  <2> QED BY <2>1
<1>9. e.ctr = IF acc = 1 THEN WriteMark ELSE Cardinality(on \cup {h})
  <2>1. IsFiniteSet(on) /\ Cardinality(on) \in Nat
    BY OpenCount
  <2>2. Cardinality(on \cup {h}) = Cardinality(on) + 1
    BY <1>4, <2>1, FS_AddElement
  <2>3. new => Cardinality(on) = 0
    BY <1>6, FS_EmptySet
  <2> HIDE DEF on
  <2> QED BY <1>6, <2>1, <2>2, <2>3
<1> HIDE DEF on, e
<1>10. e.key = k
  BY DEF e
<1>11. acc = 1 => on = {}
  BY <1>6
<1>12. LocksCount'
  <2>1. ASSUME NEW g \in Handles, handle'[g].valid
        PROVE  handle'[g].lockid \in Entries /\ Files'[handle'[g].lockid].key = handle'[g].key
    <3>1. CASE g = h
      BY <1>3, <1>10, <3>1
    <3>2. CASE g # h
      <4>1. /\ handle'[g] = handle[g]
            /\ handle[g].lockid \in Entries /\ Files[handle[g].lockid].key = handle[g].key
            /\ handle[g].key \in Keys
        BY <1>1, <1>3, <2>1, <3>2 DEF LocksCount, GInv, HandlesKeyed
      <4>2. handle[g].lockid = l => handle[g].key = k
        BY <4>1, KeysAssumption DEF Blank
      <4> QED BY <1>3, <1>10, <4>1, <4>2
    <3> QED BY <3>1, <3>2
  <2>2. ASSUME NEW i \in Entries, NEW j \in Entries, i # j
        PROVE  Files'[i].key # Files'[j].key \/ Files'[i].key = Blank
    <3>1. Files[i].key # Files[j].key \/ Files[i].key = Blank
      BY <1>1, <2>2 DEF LocksCount
    <3> QED BY <1>3, <1>7, <1>10, <2>2, <3>1
  <2>3. ASSUME NEW i \in Entries, NEW x, x = Files'[i].key, x # Blank
        PROVE  /\ Open(x)' # {}
               /\ Files'[i].ctr = IF \E g \in Open(x)' : handle'[g].acc = 1 THEN WriteMark
                                  ELSE Cardinality(Open(x)')
    <3>1. CASE i = l
      <4>1. x = k /\ Open(x)' = on \cup {h} /\ Files'[i].ctr = e.ctr
        BY <1>3, <1>8, <1>10, <2>3, <3>1
      <4>2. (\E g \in on \cup {h} : handle'[g].acc = 1) <=> acc = 1
        BY <1>3, <1>4, <1>5
      <4> QED BY <1>9, <4>1, <4>2
    <3>2. CASE i # l
      <4>1. Files'[i] = Files[i] /\ x = Files[i].key /\ x # k
        BY <1>3, <1>7, <2>3, <3>2
      <4>2. Open(x)' = Open(x)
        BY <1>8, <4>1
      <4>3. \A g \in Open(x) : handle'[g] = handle[g]
        BY <1>3 DEF Open
      <4> QED BY <1>1, <2>3, <4>1, <4>2, <4>3, EntryCounts
    <3> QED BY <3>1, <3>2
  <2>4. TypeOK'
    BY DEF GInv
  <2> QED BY <2>1, <2>2, <2>3, <2>4 DEF LocksCount, Open
<1>13. WriterAlone'
  <2>1. \A g \in Handles : g # h /\ handle[g].valid /\ handle[g].key = k => g \in on
    BY DEF on, Open
  <2> QED BY <1>1, <1>3, <1>5, <1>11, <2>1 DEF WriterAlone
<1>14. WritersAreFiles' /\ OpenFileStays'
  BY <1>1, <1>3 DEF WritersAreFiles, OpenFileStays
<1> QED BY <1>12, <1>13, <1>14 DEF TableRight

LEMMA LCount == ASSUME SingleVolume, LInv, NEW t \in Threads, Count(t) PROVE LInv'
<1> DEFINE c == call[t]
<1>1. GInv' /\ GInv
  BY CountKeeps DEF LInv
<1>2. /\ c \in CallType /\ Inside(t) /\ c # Idle /\ c.at = "count" /\ c.op \in Opens
      /\ c.h \in Handles /\ c.acc \in {0, 1} /\ c.p \in Places /\ c.new \in BOOLEAN
      /\ CallSound(c) /\ Placed(c)
  BY <1>1, Within DEF Count, Inside, LInv, CallsSound, CallType
<1>3. CASE ~inc_lock_counts(c.i, c.acc, c.new)
  BY <1>1, <1>2, <1>3, LLeaves DEF Count
<1>4. CASE inc_lock_counts(c.i, c.acc, c.new)
  <2>1. /\ Files' = inc_lock(c.i, KeyOf(c), c.acc, c.new) /\ UNCHANGED there
        /\ handle' = [handle EXCEPT ![c.h] =
                         [valid |-> TRUE, key |-> KeyOf(c), acc |-> c.acc, lockid |-> c.i]]
        /\ IF c.op = "opendir" THEN Leave(t) ELSE Go(t, "seek")
    BY <1>4 DEF Count
  <2>2. ~handle[c.h].valid /\ Admitted(c) /\ EntryKept(c) /\ (c.op = "opendir" => c.acc = 0)
    BY <1>2 DEF CallSound
  <2>3. /\ c.op = "opendir" => KeyOf(c) \in Tables /\ KeyOf(c) \notin Places
        /\ c.op # "opendir" => KeyOf(c) = c.p
    BY <1>2, KeysAssumption DEF Placed, KeyOf
  <2>4. PICK k : k = KeyOf(c)
    OBVIOUS
  <2>5. k \in Keys
    BY <1>2, <2>3, <2>4 DEF Keys
  <2>6. c.i \in Entries /\ IF c.new THEN EntryOf(k) = {} /\ Files[c.i].key = Blank
                           ELSE Files[c.i].key = k
    BY <2>2, <2>4 DEF EntryKept
  <2>7. /\ c.acc = 1 => k \in Places
        /\ k \in Places => there[k] = "file"
        /\ k \in Places /\ c.acc = 0 => \A i \in EntryOf(k) : Files[i].ctr # WriteMark
    BY <1>2, <2>2, <2>3, <2>4 DEF Admitted
  <2>8. TableRight'
    <3>1. /\ Files' = inc_lock(c.i, k, c.acc, c.new) /\ UNCHANGED there
          /\ handle' = [handle EXCEPT ![c.h] =
                           [valid |-> TRUE, key |-> k, acc |-> c.acc, lockid |-> c.i]]
      BY <2>1, <2>4
    <3>2. PICK h, acc, l, new : h = c.h /\ acc = c.acc /\ l = c.i /\ new = c.new
      OBVIOUS
    <3>3. /\ h \in Handles /\ ~handle[h].valid /\ acc \in {0, 1} /\ l \in Entries
          /\ new \in BOOLEAN /\ inc_lock_counts(l, acc, new) /\ GInv'
      BY <1>1, <1>2, <1>4, <2>2, <2>6, <3>2
    <3>4. IF new THEN EntryOf(k) = {} /\ Files[l].key = Blank ELSE Files[l].key = k
      BY <2>6, <3>2
    <3>5. /\ acc = 1 => k \in Places
          /\ k \in Places => there[k] = "file"
          /\ k \in Places /\ acc = 0 => \A i \in EntryOf(k) : Files[i].ctr # WriteMark
      BY <2>7, <3>2
    <3>6. /\ Files' = inc_lock(l, k, acc, new) /\ UNCHANGED there
          /\ handle' = [handle EXCEPT ![h] =
                           [valid |-> TRUE, key |-> k, acc |-> acc, lockid |-> l]]
      BY <3>1, <3>2
    <3> QED BY <2>5, <3>3, <3>4, <3>5, <3>6, TableCounted
  <2>9. /\ \A u \in Threads : u # t => call'[u] = call[u]
        /\ \A h \in Handles : h # c.h => handle'[h] = handle[h]
        /\ handle'[c.h].valid
    BY <1>1, <1>2, <2>1 DEF GInv, TypeOK, Leave, Go
  <2>10. CallSound(call[t])' /\ call'[t].h = c.h
    <3>1. CASE c.op = "opendir"
      <4>1. call'[t].h = c.h
        BY <1>1, <2>1, <3>1 DEF Leave, GInv, TypeOK
      <4> QED BY <1>1, <2>1, <3>1, <4>1, LeftSound
    <3>2. CASE c.op # "opendir"
      <4>1. /\ call'[t].at = "seek" /\ call'[t].op = c.op /\ call'[t].h = c.h
        BY <1>1, <1>2, <2>1, <3>2, GoesFrom DEF Points
      <4> QED BY <1>2, <2>9, <3>2, <4>1 DEF CallSound, Opens
    <3> QED BY <3>1, <3>2
  <2>11. CallsSound' /\ OwnHandles'
    BY <1>2, <2>9, <2>10, OthersSound, OwnHandlesKept DEF LInv
  <2> QED BY <1>1, <2>8, <2>11 DEF LInv
<1> QED BY <1>3, <1>4

(* Seek and Release close an object that is open.                          *)
LEMMA LReleases ==
    ASSUME SingleVolume, LInv, GInv', NEW t \in Threads, Inside(t), Leave(t),
           call[t].h \in Handles, handle[call[t].h].valid, Released(call[t].h), UNCHANGED there
    PROVE  LInv'
<1>1. TableRight'
  BY TableReleased
<1>2. /\ \A u \in Threads : u # t => call'[u] = call[u]
      /\ call'[t].h = call[t].h /\ call[t] # Idle
      /\ \A h \in Handles : h # call[t].h => handle'[h] = handle[h]
  BY DEF LInv, GInv, TypeOK, Leave, Released, Inside
<1>3. CallSound(call[t])'
  BY LeftSound DEF LInv
<1> QED BY <1>1, <1>2, <1>3, OthersSound, OwnHandlesKept DEF LInv

LEMMA LSeek == ASSUME SingleVolume, LInv, NEW t \in Threads, Seek(t) PROVE LInv'
<1>1. GInv' /\ Inside(t) /\ call[t] # Idle /\ call[t].h \in Handles /\ call[t].op \in Opens
      /\ CallSound(call[t])
  BY SeekKeeps, Within DEF LInv, Seek, Inside, CallsSound
<1>2. handle[call[t].h].valid
  BY <1>1 DEF CallSound, Seek
<1> QED BY <1>1, <1>2, LReleases, LLeaves DEF Seek

LEMMA LRelease == ASSUME SingleVolume, LInv, NEW t \in Threads, Release(t) PROVE LInv'
<1>1. GInv' /\ Inside(t) /\ call[t] # Idle /\ call[t].h \in Handles /\ call[t].op = "close"
      /\ CallSound(call[t])
  BY ReleaseKeeps, Within DEF LInv, Release, Inside, CallsSound
<1>2. handle[call[t].h].valid
  BY <1>1 DEF CallSound, Release
<1> QED BY <1>1, <1>2, LReleases DEF Release

LEMMA LNext == SingleVolume /\ LInv /\ [Next]_vars => LInv'
<1> SUFFICES ASSUME SingleVolume, LInv, [Next]_vars PROVE LInv'
  OBVIOUS
<1>1. CASE UNCHANGED vars
  <2>1. GInv'
    BY <1>1, GNext DEF LInv
  <2>2. TableRight'
    BY <1>1, <2>1, TableKept DEF vars
  <2> QED BY <1>1, <2>1, <2>2 DEF vars, LInv, CallsSound, CallSound, Admitted, EntryKept, EntryOf,
                KeyOf, OwnHandles
<1>2. ASSUME NEW t \in Threads, Steps(t) PROVE LInv'
  BY <1>2, LGrants, LMount, LCheck, LFind, LCount, LSeek, LChange, LSync, LAgain, LRelease
     DEF Steps
<1> QED BY <1>1, <1>2, LCalls DEF Next

(* What the table promises, for a volume of its own: it counts the objects *)
(* that are open, a file that is open to write is open once, and a file    *)
(* that is open is neither removed nor renamed.                            *)
THEOREM TableCounts == SingleVolume => (Spec => []LocksCount)
<1> SUFFICES ASSUME SingleVolume PROVE Spec => []LocksCount
  OBVIOUS
<1>1. LInv => LocksCount
  BY DEF LInv, TableRight
<1>2. LInv /\ [Next]_vars => LInv'
  BY LNext
<1> QED BY <1>1, <1>2, LInit, PTL DEF Spec

(* A file that is open to write is open once, whichever threads ask.       *)
THEOREM WritersAreAlone == SingleVolume => (Spec => []WriterAlone)
<1> SUFFICES ASSUME SingleVolume PROVE Spec => []WriterAlone
  OBVIOUS
<1>1. LInv => WriterAlone
  BY DEF LInv, TableRight
<1>2. LInv /\ [Next]_vars => LInv'
  BY LNext
<1> QED BY <1>1, <1>2, LInit, PTL DEF Spec

(* No thread removes, renames or replaces a file that another has open.    *)
THEOREM OpenFilesStay == SingleVolume => (Spec => []OpenFileStays)
<1> SUFFICES ASSUME SingleVolume PROVE Spec => []OpenFileStays
  OBVIOUS
<1>1. LInv => OpenFileStays
  BY DEF LInv, TableRight
<1>2. LInv /\ [Next]_vars => LInv'
  BY LNext
<1> QED BY <1>1, <1>2, LInit, PTL DEF Spec
=============================================================================
