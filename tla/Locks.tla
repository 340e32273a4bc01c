---------------------------------- MODULE Locks ----------------------------------
(***************************************************************************)
(* Threads on volumes: the grant a call needs for its volume               *)
(* (FF_FS_REENTRANT), and the table of open objects that keeps callers     *)
(* from opening for writing, removing or renaming what another has open    *)
(* (FF_FS_LOCK).                                                           *)
(*                                                                         *)
(* What calls do to a volume is cut down to which objects exist: a place   *)
(* in a directory holds nothing, a file, or a sub-directory, which is      *)
(* named by its first cluster.  A step of a thread is what it does between *)
(* two uses of the table: the grants are one per volume, the table is one  *)
(* for all.  Callers use a FIL or DIR in one call at a time.  A mount that *)
(* fails is not here: no call on the volume gets past it.                  *)
(***************************************************************************)
EXTENDS Integers, FiniteSets

CONSTANTS
    Threads,
    Volumes,            \* the filesystem objects
    Places,             \* directory entries, as [volume, containing cluster, offset]
    Tables,             \* first clusters of sub-directories, at offset 0
    VolumeOf,           \* the volume of a place or table
    Fils, Dirs,         \* the FIL and DIR objects of the callers
    FF_FS_LOCK,         \* entries of the table
    WriteMark,          \* ctr of a file open for writing: 0x100
    ExchangeAnytime     \* the medium may be exchanged while a call waits

Keys == Places \cup Tables
Handles == Fils \cup Dirs
NoHandle == "no handle"     \* of calls by path that open nothing

ASSUME TableAssumption == FF_FS_LOCK \in Nat \ {0}
ASSUME KeysAssumption == /\ VolumeOf \in [Keys -> Volumes]
                         /\ Places \cap Tables = {}
                         /\ {"none", "file"} \cap Tables = {} /\ "blank" \notin Keys
(* As many opens of one object would carry its counter up to the mark.     *)
ASSUME MarkAssumption == /\ IsFiniteSet(Handles) /\ WriteMark \in Nat
                         /\ Cardinality(Handles) < WriteMark
ASSUME NobodyAssumption == "nobody" \notin Threads /\ NoHandle \notin Handles

VARIABLES
    Files,              \* the table: [key, ctr]
    grant,              \* grant[v]: the thread that has the volume
    there,              \* there[p]: "none", "file" or the cluster of a directory
    handle,             \* handle[h]: [valid, key, acc, lockid]
    call                \* call[t]: what a thread is doing

vars == <<Files, grant, there, handle, call>>

Entries == 1..FF_FS_LOCK
Blank == "blank"
Nobody == "nobody"
BlankEntry == [key |-> Blank, ctr |-> 0]
Closed == [valid |-> FALSE, key |-> Blank, acc |-> 0, lockid |-> 0]

-----------------------------------------------------------------------------
(* The table.                                                              *)

EntryOf(key) == {i \in Entries : Files[i].key = key}
BlankEntries == EntryOf(Blank)

(* acc: 0 to read, 1 to write, 2 to remove or rename.                      *)
chk_lock_NoMark(key, acc) ==
    IF EntryOf(key) = {} THEN BlankEntries # {} \/ acc = 2 ELSE acc = 0
chk_lock_Removal(key, acc) ==
    IF EntryOf(key) = {} THEN BlankEntries # {} \/ acc = 2
    ELSE acc # 1 /\ \A i \in EntryOf(key) : Files[i].ctr # WriteMark
chk_lock(key, acc) ==
    IF EntryOf(key) = {} THEN BlankEntries # {} \/ acc = 2
    ELSE acc = 0 /\ \A i \in EntryOf(key) : Files[i].ctr # WriteMark

enq_lock == BlankEntries # {}

(* inc_lock first looks for the entry of the object or for a blank one, ...*)
First(S) == CHOOSE i \in S : \A j \in S : i <= j
inc_lock_found(key) == IF EntryOf(key) # {} THEN EntryOf(key) ELSE BlankEntries

(* ... and then counts, unless that is an access violation.                *)
inc_lock_counts(i, acc, new) == acc = 0 \/ new \/ Files[i].ctr = 0
inc_lock(i, key, acc, new) ==
    LET before == IF new THEN 0 ELSE Files[i].ctr
    IN [Files EXCEPT ![i] = [key |-> IF new THEN key ELSE Files[i].key,
                             ctr |-> IF acc = 1 THEN WriteMark ELSE before + 1]]

dec_lock(i) ==
    [Files EXCEPT ![i] = IF Files[i].ctr = WriteMark \/ Files[i].ctr <= 1 THEN BlankEntry
                         ELSE [key |-> Files[i].key, ctr |-> Files[i].ctr - 1]]

clear_lock(v) ==
    [i \in Entries |-> IF Files[i].key # Blank /\ VolumeOf[Files[i].key] = v
                       THEN BlankEntry ELSE Files[i]]

-----------------------------------------------------------------------------
(* Calls.  at: where the thread is; "wait" before lock_fs, with what comes *)
(* after it in next.                                                       *)

Idle == [at |-> "idle"]
InUse(h) == \E t \in Threads : call[t] # Idle /\ call[t].h = h

Go(t, at) == call' = [call EXCEPT ![t].at = at]
Leave(t) == call' = [call EXCEPT ![t] = [at |-> "leave", v |-> call[t].v, h |-> call[t].h]]
Return(t) == call' = [call EXCEPT ![t] = Idle]
Begin(t, op, v, h, p, q, acc, next) ==
    call' = [call EXCEPT ![t] = [at |-> "wait", op |-> op, v |-> v, h |-> h, p |-> p, q |-> q,
                                 acc |-> acc, next |-> next, i |-> 0, new |-> FALSE]]

(* f_open, with or without a flag that creates the file; f_opendir.        *)
f_open(t, h, p, acc, creates) ==
    /\ call[t] = Idle /\ ~InUse(h) /\ ~handle[h].valid /\ (creates => acc = 1)
    /\ Begin(t, IF creates THEN "create" ELSE "open", VolumeOf[p], h, p, p, acc, "check")
    /\ UNCHANGED <<Files, grant, there, handle>>
f_opendir(t, h, p) ==
    /\ call[t] = Idle /\ ~InUse(h) /\ ~handle[h].valid
    /\ Begin(t, "opendir", VolumeOf[p], h, p, p, 0, "check")
    /\ UNCHANGED <<Files, grant, there, handle>>

(* Calls by path that change the directory.                                *)
f_unlink(t, p) ==
    /\ call[t] = Idle /\ Begin(t, "unlink", VolumeOf[p], NoHandle, p, p, 2, "change")
    /\ UNCHANGED <<Files, grant, there, handle>>
f_rename(t, p, q) ==
    /\ call[t] = Idle /\ VolumeOf[p] = VolumeOf[q]
    /\ Begin(t, "rename", VolumeOf[p], NoHandle, p, q, 2, "change")
    /\ UNCHANGED <<Files, grant, there, handle>>
f_mkdir(t, p) ==
    /\ call[t] = Idle /\ Begin(t, "mkdir", VolumeOf[p], NoHandle, p, p, 0, "change")
    /\ UNCHANGED <<Files, grant, there, handle>>

(* f_close begins with f_sync, f_closedir does not.  Both start with       *)
(* validate, which looks at the object before it waits for the volume.     *)
f_close(t, h) ==
    /\ call[t] = Idle /\ ~InUse(h) /\ handle[h].valid
    /\ Begin(t, "close", VolumeOf[handle[h].key], h, handle[h].key, handle[h].key, 0,
             IF handle[h].key \in Places THEN "sync" ELSE "release")
    /\ UNCHANGED <<Files, grant, there, handle>>

-----------------------------------------------------------------------------
(* lock_fs: the volume is granted, or the time is up.                      *)

ByHandle(t) == call[t].op = "close"

lock_fs(t) ==
    LET v == call[t].v
    IN /\ call[t].at = "wait" /\ grant[v] = Nobody
       /\ grant' = [grant EXCEPT ![v] = t]
       /\ Go(t, call[t].next)
       /\ UNCHANGED <<Files, there, handle>>

TimeOut(t) ==
    /\ call[t].at = "wait" /\ grant[call[t].v] # Nobody
    /\ Return(t)
    /\ UNCHANGED <<Files, grant, there, handle>>

(* mount_volume finds that the medium was exchanged and mounts the new     *)
(* one, which is empty: the objects of the old one are no longer valid,    *)
(* but for what a waiting call has seen of them.                           *)
OfVolume(h, v) == handle[h].key # Blank /\ VolumeOf[handle[h].key] = v
mount_volume(t) ==
    LET v == call[t].v
    IN /\ call[t].at = "wait" /\ grant[v] = Nobody /\ ~ByHandle(t)
       /\ ExchangeAnytime \/ \A u \in Threads : call[u].at = "wait" => ~ByHandle(u)
       /\ grant' = [grant EXCEPT ![v] = t]
       /\ Files' = clear_lock(v)
       /\ handle' = [h \in Handles |-> IF ~OfVolume(h, v) THEN handle[h]
                                       ELSE IF InUse(h) THEN [handle[h] EXCEPT !.valid = FALSE]
                                       ELSE Closed]
       /\ there' = [p \in Places |-> IF VolumeOf[p] = v THEN "none" ELSE there[p]]
       /\ Go(t, call[t].next)

(* unlock_fs at the end of a call, whatever its result.                    *)
unlock_fs_Forgotten(t) ==
    /\ call[t].at = "leave"
    /\ Return(t)
    /\ UNCHANGED <<Files, grant, there, handle>>
unlock_fs(t) ==
    /\ call[t].at = "leave"
    /\ grant' = [grant EXCEPT ![call[t].v] = Nobody]
    /\ Return(t)
    /\ UNCHANGED <<Files, there, handle>>

-----------------------------------------------------------------------------
(* f_open and f_opendir with the volume.                                   *)

(* A file is there and may be opened, or is created.  The disk or the      *)
(* attributes of the file may still refuse.                                *)
MayOpen(c) == there[c.p] = "file" /\ chk_lock(c.p, c.acc)
MayCreate(c) == c.op = "create" /\ there[c.p] = "none" /\ enq_lock
Check(t) ==
    LET c == call[t]
    IN /\ c.at = "check"
       /\ \/ /\ c.op # "opendir" /\ MayOpen(c)
             /\ Go(t, "find") /\ UNCHANGED there
          \/ /\ MayCreate(c)
             /\ there' = [there EXCEPT ![c.p] = "file"]
             /\ Go(t, "find")
          \/ /\ c.op = "opendir" /\ there[c.p] \in Tables
             /\ Go(t, "find") /\ UNCHANGED there
          \/ Leave(t) /\ UNCHANGED there
       /\ UNCHANGED <<Files, grant, handle>>

(* A file is registered by its entry, a directory by its own cluster and   *)
(* offset 0, where dir_sdi has put it.                                     *)
KeyOf(c) == IF c.op = "opendir" THEN there[c.p] ELSE c.p

Find(t) ==
    LET c == call[t]
        found == inc_lock_found(KeyOf(c))
    IN /\ c.at = "find"
       /\ IF found = {} THEN Leave(t)
          ELSE call' = [call EXCEPT ![t] = [c EXCEPT !.at = "count", !.i = First(found),
                                                     !.new = EntryOf(KeyOf(c)) = {}]]
       /\ UNCHANGED <<Files, grant, there, handle>>

Count(t) ==
    LET c == call[t]
    IN /\ c.at = "count"
       /\ IF inc_lock_counts(c.i, c.acc, c.new)
          THEN /\ Files' = inc_lock(c.i, KeyOf(c), c.acc, c.new)
               /\ handle' = [handle EXCEPT ![c.h] =
                                [valid |-> TRUE, key |-> KeyOf(c), acc |-> c.acc, lockid |-> c.i]]
               /\ IF c.op = "opendir" THEN Leave(t) ELSE Go(t, "seek")
          ELSE Leave(t) /\ UNCHANGED <<Files, handle>>
       /\ UNCHANGED <<grant, there>>

(* FA_OPEN_APPEND: the walk to the end of the file may fail.               *)
Released_Kept(h) == UNCHANGED Files /\ handle' = [handle EXCEPT ![h] = Closed]
Released(h) == /\ Files' = dec_lock(handle[h].lockid)
               /\ handle' = [handle EXCEPT ![h] = Closed]
Seek(t) ==
    /\ call[t].at = "seek"
    /\ Leave(t)
    /\ Released(call[t].h) \/ UNCHANGED <<Files, handle>>
    /\ UNCHANGED <<grant, there>>

-----------------------------------------------------------------------------
(* f_unlink, f_rename and f_mkdir with the volume.                         *)

(* The cluster of a new directory is free: no directory has it.            *)
FreeTable(d, v) == VolumeOf[d] = v /\ \A p \in Places : there[p] # d
Change(t) ==
    LET c == call[t]
    IN /\ c.at = "change" /\ Leave(t)
       /\ \/ /\ c.op = "unlink" /\ there[c.p] # "none" /\ chk_lock(c.p, 2)
             /\ there' = [there EXCEPT ![c.p] = "none"]
          \/ /\ c.op = "rename" /\ there[c.p] # "none" /\ there[c.q] = "none" /\ chk_lock(c.p, 2)
             /\ there' = [there EXCEPT ![c.q] = there[c.p], ![c.p] = "none"]
          \/ /\ c.op = "mkdir" /\ there[c.p] = "none"
             /\ \E d \in Tables : FreeTable(d, c.v) /\ there' = [there EXCEPT ![c.p] = d]
          \/ UNCHANGED there
       /\ UNCHANGED <<Files, grant, handle>>

-----------------------------------------------------------------------------
(* f_close and f_closedir with the volume.                                 *)

(* f_sync fails, or gives the volume back ...                              *)
Sync(t) ==
    /\ call[t].at = "sync"
    /\ \/ Leave(t) /\ UNCHANGED grant
       \/ /\ Go(t, "again")
          /\ grant' = [grant EXCEPT ![call[t].v] = Nobody]
    /\ UNCHANGED <<Files, there, handle>>
(* ... and f_close validates the file once more.                           *)
Again(t) ==
    /\ call[t].at = "again"
    /\ IF handle[call[t].h].valid
       THEN call' = [call EXCEPT ![t] = [call[t] EXCEPT !.at = "wait", !.next = "release"]]
       ELSE Return(t)
    /\ UNCHANGED <<Files, grant, there, handle>>

Release(t) ==
    /\ call[t].at = "release"
    /\ Released(call[t].h) /\ Leave(t)
    /\ UNCHANGED <<grant, there>>

-----------------------------------------------------------------------------

Init ==
    /\ Files = [i \in Entries |-> BlankEntry]
    /\ grant = [v \in Volumes |-> Nobody]
    /\ there \in [Places -> {"none", "file"}]
    /\ handle = [h \in Handles |-> Closed]
    /\ call = [t \in Threads |-> Idle]

Calls(t) ==
    \/ \E h \in Fils, p \in Places, acc \in {0, 1}, c \in BOOLEAN : f_open(t, h, p, acc, c)
    \/ \E h \in Dirs, p \in Places : f_opendir(t, h, p)
    \/ \E h \in Handles : f_close(t, h)
    \/ \E p \in Places : f_unlink(t, p) \/ f_mkdir(t, p) \/ \E q \in Places : f_rename(t, p, q)

(* What a thread does in a call once it has begun.                         *)
Steps(t) ==
    \/ lock_fs(t) \/ mount_volume(t) \/ TimeOut(t) \/ unlock_fs(t)
    \/ Check(t) \/ Find(t) \/ Count(t) \/ Seek(t) \/ Change(t)
    \/ Sync(t) \/ Again(t) \/ Release(t)

Next == \E t \in Threads : Calls(t) \/ Steps(t)

Spec == Init /\ [][Next]_vars

-----------------------------------------------------------------------------
(* Types, and which fields are what at which point.                        *)
Points == {"wait", "check", "find", "count", "seek", "change", "sync", "again", "release"}
LeaveType == [at : {"leave"}, v : Volumes, h : Handles \cup {NoHandle}]
CallType ==
    [at : Points, op : {"open", "create", "opendir", "unlink", "rename", "mkdir", "close"},
     v : Volumes, h : Handles \cup {NoHandle}, p : Keys, q : Keys, acc : 0..2,
     next : {"check", "change", "sync", "release"}, i : 0..FF_FS_LOCK, new : BOOLEAN]
TypeOK ==
    /\ Files \in [Entries -> [key : Keys \cup {Blank}, ctr : Nat]]
    /\ grant \in [Volumes -> Threads \cup {Nobody}]
    /\ there \in [Places -> {"none", "file"} \cup Tables]
    /\ handle \in [Handles -> [valid : BOOLEAN, key : Keys \cup {Blank}, acc : {0, 1},
                               lockid : 0..FF_FS_LOCK]]
    /\ call \in [Threads -> CallType \cup LeaveType \cup {Idle}]

Open(key) == {h \in Handles : handle[h].valid /\ handle[h].key = key}

(* An object that is open has one entry in the table, and it counts the    *)
(* handles that are open on it; nothing else has an entry.  So a call that *)
(* failed leaves no lock behind, and none is taken away from another.      *)
LocksCount ==
    /\ TypeOK
    /\ \A h \in Handles : handle[h].valid =>
          handle[h].lockid \in Entries /\ Files[handle[h].lockid].key = handle[h].key
    /\ \A i, j \in Entries : i # j => Files[i].key # Files[j].key \/ Files[i].key = Blank
    /\ \A i \in Entries : Files[i].key # Blank =>
          LET on == Open(Files[i].key)
          IN /\ on # {}
             /\ Files[i].ctr = IF \E h \in on : handle[h].acc = 1 THEN WriteMark
                               ELSE Cardinality(on)

(* A file is open to write once, or to read.                               *)
WriterAlone ==
    \A g, h \in Handles :
        g # h /\ handle[g].valid /\ handle[h].valid /\ handle[g].key = handle[h].key
            => handle[g].acc = 0 /\ handle[h].acc = 0

(* An open file is where it was opened: it is neither removed nor renamed, *)
(* and its entry is not given to another.  Directories are not kept so.    *)
OpenFileStays ==
    \A h \in Handles : handle[h].valid /\ handle[h].key \in Places
                           => there[handle[h].key] = "file"

(* Only a thread in a call has a volume, and only the one of the call: no  *)
(* way out of a call keeps it, and two threads are never in the same one.  *)
Inside(t) == call[t] # Idle /\ call[t].at \notin {"wait", "again"}
GrantHeld ==
    \A t \in Threads, v \in Volumes :
        grant[v] = t <=> Inside(t) /\ call[t].v = v
=============================================================================
