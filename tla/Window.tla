------------------------------- MODULE Window -------------------------------
(***************************************************************************)
(* The disk access window of a FatFs volume: the one-sector buffer win     *)
(* (FATFS.win, winsect, wflag) through which the FAT, the directories, the *)
(* boot record and the FSINFO sector are read and written.                 *)
(*                                                                         *)
(* One action per call the rest of the driver makes on the window.  Every  *)
(* disk_read and disk_write may fail; a failed write may have landed on    *)
(* the medium.  Whatever a power cut in the middle of a call can leave on  *)
(* the medium is also left by a failure of the same call, so that Crash,   *)
(* which only forgets RAM, covers power cuts at any point.                 *)
(***************************************************************************)
EXTENDS Integers

CONSTANTS Content,   \* the contents of a sector, up to what is told apart
          Zero,      \* the all-zero sector
          NoInfo,    \* FSINFO whose counters are both 0xFFFFFFFF (unknown)
          IsFAT32,   \* FATFS.fs_type = FS_FAT32
          NFats,     \* FATFS.n_fats
          FatBase,   \* FATFS.fatbase
          FSize,     \* FATFS.fsize
          DirBase,   \* first sector after the FATs (FATFS.dirbase on FAT12/16)
          DataBase,  \* FATFS.database
          CSize,     \* FATFS.csize
          NFatEnt    \* FATFS.n_fatent

ASSUME ContentAssumption == {Zero, NoInfo} \subseteq Content

ASSUME LayoutAssumption ==
    /\ IsFAT32 \in BOOLEAN
    /\ NFats \in {1, 2}
    /\ FatBase \in Nat /\ FatBase >= 1
    /\ IsFAT32 => FatBase > 1            \* FSINFO is a reserved sector
    /\ FSize \in Nat \ {0} /\ CSize \in Nat \ {0}
    /\ NFatEnt \in Nat /\ NFatEnt > 2
    /\ DirBase = FatBase + NFats * FSize
    /\ DataBase \in Nat /\ DataBase >= DirBase

VARIABLES disk,        \* the medium: contents of every sector of the volume
          win, winsect, wflag, fsi_flag,   \* the fields of FATFS
          info,        \* FSINFO image of FATFS.free_clst and last_clst
          mounted,     \* FATFS.fs_type # 0
          unmirrored,  \* ghost: FAT1 sectors whose copy in FAT2 was not written
          phantom,     \* ghost: win was to be written, was not, and counts as clean
          infoStale,   \* ghost: the FSINFO sector was not brought up to info
          synced       \* ghost: the last call was a sync_fs that returned FR_OK

vars == <<disk, win, winsect, wflag, fsi_flag, info, mounted,
          unmirrored, phantom, infoStale, synced>>

VolBase == 0
FsInfo == IF IsFAT32 THEN VolBase + 1 ELSE VolBase      \* used on FAT32 only
NoSector == -1                       \* (LBA_t)0 - 1
Clusters == 2 .. NFatEnt - 1
clst2sect(c) == DataBase + CSize * (c - 2)
Sector == VolBase .. clst2sect(NFatEnt) - 1
Fat1 == FatBase .. FatBase + FSize - 1
Primary == Sector \ (FatBase + FSize .. DirBase - 1)    \* all but the FAT copy

(* Sectors whose contents clients edit in place in the window.             *)
Editable == Fat1 \cup DirBase .. clst2sect(NFatEnt) - 1

Put(d, s, c) == [d EXCEPT ![s] = c]

-----------------------------------------------------------------------------
(* sync_window, as the pairs of medium and unmirrored set it can leave.    *)

Mirrored_LastMissed(s) == NFats = 2 /\ s \in Fat1 \ {FatBase + FSize - 1}
Mirrored(s) == NFats = 2 /\ s \in Fat1

sync_window_ok_Forgets == {<<disk, unmirrored>>}
sync_window_ok ==
    IF ~wflag THEN {<<disk, unmirrored>>}
    ELSE LET first == Put(disk, winsect, win) IN
         IF Mirrored(winsect)
         THEN {<<Put(first, winsect + FSize, win), unmirrored \ {winsect}>>,
               <<first, unmirrored \cup {winsect}>>}    \* result not looked at
         ELSE {<<first, unmirrored>>}

sync_window_err ==
    IF ~wflag THEN {}
    ELSE {<<disk, unmirrored>>,
          <<Put(disk, winsect, win),
            IF Mirrored(winsect) THEN unmirrored \cup {winsect}
                                 ELSE unmirrored>>}

(* A call gives up because sync_window failed: the window stays dirty.     *)
SyncFails ==
    /\ \E r \in sync_window_err : disk' = r[1] /\ unmirrored' = r[2]
    /\ synced' = FALSE
    /\ UNCHANGED <<win, winsect, wflag, fsi_flag, info, mounted,
                   phantom, infoStale>>

-----------------------------------------------------------------------------
(* disk_read into the window: on an error the window is invalidated.       *)
Load_ErrorIgnored(d, s) == winsect' = s /\ win' \in Content
Load(d, s) ==
    \/ winsect' = s /\ win' = d[s]
    \/ winsect' = NoSector /\ win' \in Content

move_window(s) ==
    /\ mounted
    /\ s # winsect
    /\ \/ SyncFails
       \/ /\ \E r \in sync_window_ok :
                /\ disk' = r[1] /\ unmirrored' = r[2]
                /\ Load(r[1], s)
          /\ wflag' = FALSE
          /\ phantom' = FALSE
          /\ synced' = FALSE
          /\ UNCHANGED <<fsi_flag, info, mounted, infoStale>>

(* What put_fat, dir_register, dir_remove, f_sync ... do once move_window  *)
(* has succeeded: edit the buffer and mark it dirty.                       *)
Edit(c) ==
    /\ mounted
    /\ winsect \in Editable
    /\ win' = c
    /\ wflag' = TRUE
    /\ phantom' = FALSE
    /\ synced' = FALSE
    /\ UNCHANGED <<disk, winsect, fsi_flag, info, mounted, unmirrored, infoStale>>

(* fsi_flag |= 1                                                           *)
FlagSet_Forgotten == fsi_flag
FlagSet == IF fsi_flag \in {0, 128} THEN fsi_flag + 1 ELSE fsi_flag

(* create_chain and remove_chain account for a cluster.                    *)
Account(v) ==
    /\ mounted
    /\ info' = v
    /\ fsi_flag' = FlagSet
    /\ synced' = FALSE
    /\ UNCHANGED <<disk, win, winsect, wflag, mounted, unmirrored, phantom, infoStale>>

(* f_open hints at the cluster it freed: last_clst changes, but not        *)
(* fsi_flag, so that nothing brings FSINFO up to date.                     *)
Hint(v) ==
    /\ mounted
    /\ info' = v
    /\ infoStale' = TRUE
    /\ synced' = FALSE
    /\ UNCHANGED <<disk, win, winsect, wflag, fsi_flag, mounted, unmirrored, phantom>>

sync_fs ==
    /\ mounted
    /\ \/ SyncFails
       \/ /\ \E r \in sync_window_ok :
                /\ unmirrored' = r[2]
                /\ \/ /\ IsFAT32 /\ fsi_flag = 1
                      /\ win' = info /\ winsect' = FsInfo
                      /\ fsi_flag' = 0
                      /\ disk' \in {r[1], Put(r[1], FsInfo, info)}
                      /\ phantom' = (disk'[FsInfo] # info)
                      /\ infoStale' = (disk'[FsInfo] # info)
                   \/ /\ ~(IsFAT32 /\ fsi_flag = 1)
                      /\ disk' = r[1]
                      /\ UNCHANGED <<win, winsect, fsi_flag, phantom, infoStale>>
          /\ wflag' = FALSE
          /\ synced' \in BOOLEAN      \* ioctl(CTRL_SYNC): FR_OK or FR_DISK_ERR
          /\ UNCHANGED <<info, mounted>>

(* dir_clear: n sectors are zeroed before the first error, if any; the     *)
(* sector of the error may have been zeroed too.                           *)
dir_clear(c) ==
    LET top == clst2sect(c)
        Zeroed(d, n) == [s \in Sector |->
                            IF s \in top .. top + n - 1 THEN Zero ELSE d[s]]
    IN /\ mounted
       /\ \/ SyncFails
          \/ /\ \E r \in sync_window_ok, n \in 0 .. CSize :
                   /\ disk' = Zeroed(r[1], n)
                   /\ unmirrored' = r[2]
             /\ win' = Zero /\ winsect' = top
             /\ wflag' = FALSE
             /\ phantom' = (disk'[top] # Zero)
             /\ synced' = FALSE
             /\ UNCHANGED <<fsi_flag, info, mounted, infoStale>>

-----------------------------------------------------------------------------
(* f_mount: the volume is registered anew, fs_type = 0; nothing is flushed.*)
f_mount ==
    /\ mounted
    /\ mounted' = FALSE
    /\ phantom' = FALSE
    /\ synced' = FALSE
    /\ UNCHANGED <<disk, win, winsect, wflag, fsi_flag, info, unmirrored, infoStale>>

(* Power is lost and comes back: the FATFS object is zeroed RAM.           *)
Crash ==
    /\ mounted' = FALSE
    /\ win' = Zero /\ winsect' = VolBase /\ wflag' = FALSE
    /\ fsi_flag' = 0 /\ info' = NoInfo
    /\ phantom' = FALSE
    /\ synced' = FALSE
    /\ UNCHANGED <<disk, unmirrored, infoStale>>

(* check_fs drops the window before it loads a sector.                     *)
check_fs(s) == wflag' = FALSE /\ Load(disk, s)

(* mount_volume: the boot record is looked at, then the FSINFO sector if   *)
(* there is one.                                                           *)
mount_volume ==
    /\ ~mounted
    /\ \/ /\ check_fs(VolBase)              \* no boot record, or not FAT
          /\ UNCHANGED <<fsi_flag, info, mounted, infoStale>>
       \/ /\ check_fs(VolBase) /\ winsect' = VolBase  \* a volume without FSINFO
          /\ fsi_flag' = 128 /\ info' = NoInfo
          /\ infoStale' = FALSE
          /\ mounted' = TRUE
       \/ /\ IsFAT32 /\ check_fs(FsInfo)    \* ... and FSINFO, in the window
          /\ \/ /\ winsect' = FsInfo
                /\ fsi_flag' = 0
                /\ info' \in {win', NoInfo}          \* signatures good or not
                /\ infoStale' = (info' # win')
             \/ /\ winsect' = NoSector
                /\ fsi_flag' = 128 /\ info' = NoInfo
                /\ infoStale' = FALSE
          /\ mounted' = TRUE
    /\ phantom' = FALSE
    /\ synced' = FALSE
    /\ UNCHANGED <<disk, unmirrored>>

Init ==
    /\ disk \in [Sector -> Content]
    /\ NFats = 2 => \A s \in Fat1 : disk[s + FSize] = disk[s]
    /\ win = Zero /\ winsect = VolBase /\ wflag = FALSE
    /\ fsi_flag = 0 /\ info = NoInfo
    /\ mounted = FALSE
    /\ unmirrored = {} /\ phantom = FALSE /\ infoStale = FALSE /\ synced = FALSE

Next ==
    \/ \E s \in Primary : move_window(s)
    \/ \E c \in Content : Edit(c) \/ Account(c) \/ Hint(c)
    \/ sync_fs
    \/ \E c \in Clusters : dir_clear(c)
    \/ f_mount
    \/ Crash
    \/ mount_volume

Spec == Init /\ [][Next]_vars

-----------------------------------------------------------------------------
(* Every variable keeps its type.                                          *)
TypeOK ==
    /\ disk \in [Sector -> Content]
    /\ win \in Content
    /\ winsect \in Primary \cup {NoSector}
    /\ wflag \in BOOLEAN
    /\ fsi_flag \in {0, 1, 128, 129}
    /\ info \in Content
    /\ mounted \in BOOLEAN
    /\ unmirrored \subseteq Fat1
    /\ phantom \in BOOLEAN /\ infoStale \in BOOLEAN /\ synced \in BOOLEAN

(* A clean, valid window shows what the medium holds, whatever reads and   *)
(* writes failed, unless a write error was dropped by sync_fs (FSINFO) or  *)
(* dir_clear left its zeroes in the window.                                *)
Coherent ==
    mounted /\ ~wflag /\ winsect # NoSector /\ ~phantom => win = disk[winsect]

(* A dirty window always has a place to go, one that clients may edit: it  *)
(* never overwrites the boot record, FSINFO or the FAT copy.               *)
DirtyIsEditable == mounted /\ wflag => winsect \in Editable /\ ~phantom

(* The two FATs are equal sector by sector, except where the write of the  *)
(* copy failed or power was lost before it.                                *)
MirrorAgrees ==
    NFats = 2 => \A s \in Fat1 \ unmirrored : disk[s + FSize] = disk[s]

(* With fsi_flag = 0 the FSINFO sector holds the volume's counters, unless *)
(* its write failed or f_open moved the hint: no count is ever forgotten.  *)
FsInfoFresh ==
    mounted /\ IsFAT32 /\ fsi_flag = 0 /\ ~infoStale => disk[FsInfo] = info

(* What a reader of the volume is shown of sector s.                       *)
View(s) == IF mounted /\ s = winsect THEN win ELSE disk[s]

(* After a sync_fs that returned FR_OK a power cut loses nothing: the      *)
(* medium alone shows every sector as the volume does, and the counters.   *)
SyncedIsDurable ==
    synced => /\ ~wflag
              /\ ~phantom => \A s \in Primary : View(s) = disk[s]
              /\ IsFAT32 /\ fsi_flag < 128 /\ ~infoStale => disk[FsInfo] = info

(* The window implements the sector store.                                 *)
Store == INSTANCE SectorStore WITH
            Sector  <- Primary,
            store   <- [s \in Primary |-> View(s)],
            durable <- [s \in Primary |-> disk[s]],
            lossy   <- mounted /\ phantom
RefinesStore == Store!Spec
=============================================================================
