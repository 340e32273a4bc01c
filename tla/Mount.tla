------------------------------- MODULE Mount -------------------------------
(***************************************************************************)
(* Which volume a call works on: f_mount registers a FATFS, the first call *)
(* by path mounts it, and validate decides whether an open FIL or DIR may  *)
(* still be used.  The medium can be pulled out and another one put in     *)
(* between any two calls; the driver learns of it from the status flags of *)
(* the disk layer only.                                                    *)
(*                                                                         *)
(* A FATFS that is not mounted (fs_type = 0) is Off, and an object that is *)
(* not open (obj.fs = 0) is Unused: their other fields are not read before *)
(* they are set.                                                           *)
(***************************************************************************)
EXTENDS Volume

CONSTANTS Fs,        \* the FATFS objects of the program
          Obj,       \* its FIL and DIR objects
          Media,     \* the media, one of which may be in the drive at first
          Spares,    \* bound: the media that may be put into it later
          Contents,  \* the boot records and partition table of each medium
          IdMod,     \* 2^16: number of values of a WORD, hence of mount ids
          Null,      \* the null pointer
          None       \* no medium in the drive

ASSUME IdAssumption == IdMod \in Nat /\ IdMod > 1

ASSUME MediaAssumption ==
    /\ Spares \subseteq Media
    /\ Media = DOMAIN Contents
    /\ \A m \in Media : IsMedium(Contents[m])

ASSUME NullAssumption == Null \notin Fs /\ None \notin Media

VARIABLES FatFs,     \* FatFs[0]: the registered FATFS, or Null
          Fsid,      \* the mount id given last
          fs,        \* the FATFS objects
          obj,       \* FFOBJID of the FIL and DIR objects, with FA_WRITE of flag
                     \* and, ghost, the age: mounts since it was opened
          drive,     \* the medium, and STA_NOINIT and STA_PROTECT
          missed     \* ghost: boot sectors that could not be read when mounting

vars == <<FatFs, Fsid, fs, obj, drive, missed>>

Off == [fs_type |-> 0]
Unused == [fs |-> Null, id |-> 0, write |-> FALSE, age |-> 0]

Inside == Contents[drive.medium]
BootSectors(m) == {0} \cup {m.table[i] : i \in 1 .. 4}

-----------------------------------------------------------------------------
(* mount_volume(f, write) when the FATFS objects are s: the outcomes.      *)
NextId_Stuck(id) == id
NextId(id) == (id + 1) % IdMod

(* The call may go on with the volume as it is mounted.                    *)
Mounted(f, s) == s[f].fs_type # 0 /\ ~drive.noinit

Forbidden(write) == write /\ drive.protect

Cleared_Not(f, s) == s
Cleared(f, s) == [g \in Fs |-> IF g = f THEN Off ELSE s[g]]

Stays(ok, s, noinit) ==
    [ok |-> ok, new |-> FALSE, fs |-> s, noinit |-> noinit, Fsid |-> Fsid, missed |-> missed]

(* The volume found when the sectors of bad cannot be read is mounted.     *)
FindAndMount(f, s, bad) ==
    LET v == find_volume(Inside, bad)
        b == Inside.boot[v.sect]
        new == {[fs_type |-> FatType(ClusterCount(b)), id |-> NextId(Fsid),
                 vol |-> Layout(b, v.sect), info |-> i] : i \in Info(b)}
    IN IF v.fmt >= 2 \/ ~Accepted(b) THEN {Stays(FALSE, s, FALSE)}
       ELSE {[ok |-> TRUE, new |-> TRUE, fs |-> [s EXCEPT ![f] = r], noinit |-> FALSE,
              Fsid |-> r.id, missed |-> bad] : r \in new}

mount_volume(f, s, write) ==
    IF f = Null THEN {Stays(FALSE, s, drive.noinit)}         \* FR_NOT_ENABLED
    ELSE IF Mounted(f, s) THEN {Stays(~Forbidden(write), s, drive.noinit)}
    ELSE LET off == Cleared(f, s)
         IN {Stays(FALSE, off, TRUE)} \cup                   \* FR_NOT_READY
            IF drive.medium = None THEN {}
            ELSE IF Forbidden(write) THEN {Stays(FALSE, off, FALSE)}
            ELSE UNION {FindAndMount(f, off, bad) : bad \in SUBSET BootSectors(Inside)}

Take(r) ==
    /\ fs' = r.fs
    /\ Fsid' = r.Fsid
    /\ drive' = [drive EXCEPT !.noinit = r.noinit]
    /\ missed' = r.missed

(* The objects after outcome r: one mount older if it was a mount.         *)
Aged(r) ==
    [o \in Obj |-> IF r.new /\ obj[o].fs # Null /\ obj[o].age < IdMod
                   THEN [obj[o] EXCEPT !.age = @ + 1] ELSE obj[o]]

-----------------------------------------------------------------------------
(* f_mount: f is the FATFS to register, or Null to unregister the present  *)
(* one; opt asks to mount at once.                                         *)
Registered(f) == [g \in Fs |-> IF g \in {f, FatFs} THEN Off ELSE fs[g]]

f_mount(f, opt) ==
    /\ FatFs' = f
    /\ \/ /\ opt
          /\ \E r \in mount_volume(f, Registered(f), FALSE) : Take(r) /\ obj' = Aged(r)
       \/ /\ ~opt
          /\ fs' = Registered(f)
          /\ UNCHANGED <<Fsid, obj, drive, missed>>

(* f_open and f_opendir: after a mount_volume that succeeds the object is  *)
(* found, or is not or cannot be read; then it is invalidated.             *)
Opened(r, write) == [fs |-> FatFs, id |-> r.fs[FatFs].id, write |-> write, age |-> 0]

Open(o, write) ==
    /\ \/ \E r \in mount_volume(FatFs, fs, write) :
             /\ Take(r)
             /\ \/ r.ok /\ obj' = [Aged(r) EXCEPT ![o] = Opened(r, write)]
                \/ obj' = [Aged(r) EXCEPT ![o] = Unused]
       \/ /\ obj' = [obj EXCEPT ![o] = Unused]               \* FR_INVALID_DRIVE
          /\ UNCHANGED <<Fsid, fs, drive, missed>>
    /\ UNCHANGED FatFs

(* The other calls by path: f_stat, f_getfree; f_unlink, f_mkdir, f_rename.*)
CallByPath(write) ==
    /\ \E r \in mount_volume(FatFs, fs, write) : Take(r) /\ obj' = Aged(r)
    /\ UNCHANGED FatFs

(* validate                                                                *)
Valid(o) ==
    LET f == obj[o].fs
    IN f # Null /\ fs[f].fs_type # 0 /\ obj[o].id = fs[f].id /\ ~drive.noinit

(* f_close, whose f_sync has succeeded, and f_closedir.                    *)
Close(o) ==
    /\ Valid(o)
    /\ obj' = [obj EXCEPT ![o] = Unused]
    /\ UNCHANGED <<FatFs, Fsid, fs, drive, missed>>

-----------------------------------------------------------------------------
(* The drive: a change of medium sets STA_NOINIT, and STA_PROTECT follows  *)
(* the switch of the medium.                                               *)
Eject ==
    /\ drive.medium # None
    /\ drive' = [medium |-> None, noinit |-> TRUE, protect |-> FALSE]
    /\ UNCHANGED <<FatFs, Fsid, fs, obj, missed>>

Insert(m, protect) ==
    /\ drive.medium = None
    /\ drive' = [medium |-> m, noinit |-> TRUE, protect |-> protect]
    /\ UNCHANGED <<FatFs, Fsid, fs, obj, missed>>

(* A FATFS that was never registered is uninitialised memory, which may    *)
(* look mounted.                                                           *)
Garbage == [fs_type |-> 12, id |-> 0, vol |-> "garbage", info |-> "garbage"]

Init ==
    /\ FatFs = Null /\ Fsid = 0
    /\ fs \in [Fs -> {Off, Garbage}]
    /\ obj = [o \in Obj |-> Unused]
    /\ drive \in [medium : Media \cup {None}, noinit : {TRUE}, protect : BOOLEAN]
    /\ missed = {}

Next ==
    \/ \E f \in Fs \cup {Null}, opt \in BOOLEAN : f_mount(f, opt)
    \/ \E write \in BOOLEAN : CallByPath(write) \/ \E o \in Obj : Open(o, write)
    \/ \E o \in Obj : Close(o)
    \/ Eject
    \/ \E m \in Spares, protect \in BOOLEAN : Insert(m, protect)

Spec == Init /\ [][Next]_vars

-----------------------------------------------------------------------------
(* Every variable keeps its type.                                          *)
TypeOK ==
    /\ FatFs \in Fs \cup {Null}
    /\ Fsid \in 0 .. IdMod - 1
    /\ \A f \in Fs : fs[f] = Off \/ fs[f].id \in 0 .. IdMod - 1
    /\ obj \in [Obj -> [fs : Fs \cup {Null}, id : 0 .. IdMod - 1,
                        write : BOOLEAN, age : 0 .. IdMod]]
    /\ drive \in [medium : Media \cup {None}, noinit : BOOLEAN, protect : BOOLEAN]
    /\ drive.medium = None => drive.noinit

(* An object opened less than IdMod mounts ago.                            *)
Recent(o) == obj[o].fs # Null /\ obj[o].age < IdMod

(* A FIL or DIR is usable only in the mount it was opened in, whatever was *)
(* mounted, unmounted, removed or inserted since, in the FATFS it was      *)
(* opened on or in another: neither the old sectors nor the old clusters   *)
(* are used on another volume.  A mount id recurs after 65536 mounts.      *)
OwnMount ==
    \A o \in Obj : Valid(o) /\ Recent(o) => obj[o].age = 0 /\ obj[o].fs = FatFs

(* While the drive reports its medium as initialised, the mounted volume   *)
(* is one of that medium, laid out by its own boot record: the one in      *)
(* sector 0, or that of the first FAT partition if all could be read.      *)
VolumeOfMedium ==
    FatFs # Null /\ Mounted(FatFs, fs) =>
        LET m == Inside
            vol == fs[FatFs].vol
        IN /\ vol.volbase \in BootSectors(m)
           /\ Checked(m, {}, vol.volbase) = 0
           /\ vol = Layout(m.boot[vol.volbase], vol.volbase)
           /\ vol.volbase # 0 =>
                 /\ Checked(m, {}, 0) = 2
                 /\ missed = {} => \E j \in 1 .. 4 :
                       /\ vol.volbase = m.table[j]
                       /\ \A i \in 1 .. j - 1 : Partition(m, {}, i) # 0

(* An object open for writing is usable only on a medium that is not       *)
(* write-protected.                                                        *)
WriteAllowed ==
    \A o \in Obj : Valid(o) /\ Recent(o) /\ obj[o].write => ~drive.protect

(* The rest of the driver can rely on the layout of a mounted volume, if   *)
(* the sizes in its boot record do not overflow a DWORD.                   *)
LayoutIsSound ==
    FatFs # Null /\ Mounted(FatFs, fs) =>
        LET vol == fs[FatFs].vol
            b == Inside.boot[vol.volbase]
        IN Representable(b, vol.volbase) => SoundLayout(vol, TotalSectors(b))

(* validate lets an object through only in its own mount, and one open for *)
(* writing only where writing is allowed.                                  *)
ObjectsInPlace == OwnMount /\ WriteAllowed

(* What is mounted is the volume in the drive, with areas that lie one     *)
(* behind the other in it.                                                 *)
VolumeTrue == VolumeOfMedium /\ LayoutIsSound
=============================================================================
