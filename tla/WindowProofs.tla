---------------------------- MODULE WindowProofs ----------------------------
(***************************************************************************)
(* Window, for every layout of the volume and every set of contents: type  *)
(* correctness, coherence of the window, agreement of the two FATs, and    *)
(* the implementation of SectorStore.                                      *)
(***************************************************************************)
EXTENDS Window, TLAPS

(* Where the layout assumptions put a directory cluster: in the volume,    *)
(* after the FATs, and its first sector is one clients may edit.           *)
LEMMA ClusterPlace ==
    ASSUME NEW c \in Clusters
    PROVE  /\ clst2sect(c) \in Primary
           /\ clst2sect(c) \in Editable
           /\ clst2sect(c) \in Int
<1>1. CSize \in Nat /\ CSize >= 1 /\ DataBase \in Nat /\ NFatEnt \in Nat
      /\ c \in Nat /\ 2 <= c /\ c <= NFatEnt - 1
  BY LayoutAssumption DEF Clusters
<1> DEFINE k == c - 2
           m == NFatEnt - 2
<1>2. k \in Nat /\ m \in Nat /\ k + 1 <= m
  BY <1>1
<1>3. CSize * k \in Nat /\ CSize * m \in Nat
  BY <1>1, <1>2
<1>4. CSize * (k + 1) = CSize * k + CSize
  BY <1>1, <1>2
<1>5. CSize * (k + 1) <= CSize * m
  BY <1>1, <1>2
<1>6. CSize * k + 1 <= CSize * m
  <2> HIDE DEF k, m
  <2> QED BY <1>1, <1>2, <1>3, <1>4, <1>5
<1>7. clst2sect(c) = DataBase + CSize * k
      /\ clst2sect(NFatEnt) = DataBase + CSize * m
  BY DEF clst2sect
<1>8. DirBase <= DataBase /\ DirBase \in Nat /\ 0 <= DirBase
  <2>1. CASE NFats = 1 BY <2>1, LayoutAssumption
  <2>2. CASE NFats = 2 BY <2>2, LayoutAssumption
  <2> QED BY <2>1, <2>2, LayoutAssumption
<1>9. clst2sect(c) \in DirBase .. clst2sect(NFatEnt) - 1
  <2> HIDE DEF k, m
  <2> QED BY <1>1, <1>3, <1>6, <1>7, <1>8
<1>10. clst2sect(c) \notin FatBase + FSize .. DirBase - 1
  BY <1>8, <1>9, LayoutAssumption DEF clst2sect
<1> QED BY <1>7, <1>8, <1>9, <1>10, <1>1, <1>3
    DEF Primary, Editable, Sector, VolBase

(* The fixed places: boot record, FSINFO, the first FAT and its copy.      *)
LEMMA FixedPlaces ==
    /\ VolBase \in Primary /\ FsInfo \in Primary
    /\ FsInfo \notin Editable
    /\ Editable \subseteq Primary
    /\ Primary \subseteq Sector
    /\ NoSector \notin Sector
    /\ \A s \in Fat1 : NFats = 2 => /\ s + FSize \in Sector
                                    /\ s + FSize \notin Primary
<1>1. 2 \in Clusters
  BY LayoutAssumption DEF Clusters
<1>2. clst2sect(2) \in Sector /\ clst2sect(2) \in Int
  BY <1>1, ClusterPlace DEF Primary
<1>3. clst2sect(2) = DataBase
  BY LayoutAssumption DEF clst2sect
<1>4. clst2sect(NFatEnt) \in Int /\ DataBase < clst2sect(NFatEnt)
  <2>1. clst2sect(NFatEnt) \in Int
    BY LayoutAssumption DEF clst2sect
  <2> QED BY <1>2, <1>3, <2>1, LayoutAssumption DEF Sector, VolBase
<1>5. DirBase <= DataBase /\ DirBase \in Nat /\ FatBase + FSize <= DirBase
      /\ (NFats = 2 => DirBase = FatBase + FSize + FSize)
  <2>1. CASE NFats = 1 BY <2>1, LayoutAssumption
  <2>2. CASE NFats = 2 BY <2>2, LayoutAssumption
  <2> QED BY <2>1, <2>2, LayoutAssumption
<1> DEFINE end == clst2sect(NFatEnt)
<1>6. end \in Int /\ DataBase < end BY <1>4
<1> QED
  <2> HIDE DEF end
  <2> QED BY <1>5, <1>6, LayoutAssumption
      DEF Primary, Sector, Editable, Fat1, VolBase, FsInfo, NoSector, end

-----------------------------------------------------------------------------
Mirror(d, u) == NFats = 2 => \A s \in Fat1 \ u : d[s + FSize] = d[s]

(* The inductive invariant: what the runs check, and what sync_fs leaves.  *)
IInv ==
    /\ TypeOK
    /\ Coherent
    /\ DirtyIsEditable
    /\ MirrorAgrees
    /\ FsInfoFresh
    /\ phantom => mounted
    /\ synced => mounted /\ ~wflag /\ ~(IsFAT32 /\ fsi_flag = 1)

(* The medium once the pending sector, if any, has reached it.             *)
Written(s) == IF wflag /\ s = winsect THEN win ELSE disk[s]

(* What a sync_window that succeeds leaves: every sector the clients see   *)
(* holds its last contents, and the FATs still agree where they should.    *)
LEMMA SyncOk ==
    ASSUME IInv, mounted, NEW r \in sync_window_ok
    PROVE  /\ r[1] \in [Sector -> Content]
           /\ r[2] \subseteq Fat1
           /\ Mirror(r[1], r[2])
           /\ \A s \in Primary : r[1][s] = Written(s)
           /\ r[1][FsInfo] = disk[FsInfo]
<1> USE FixedPlaces
<1>1. disk \in [Sector -> Content] /\ win \in Content /\ unmirrored \subseteq Fat1
      /\ Mirror(disk, unmirrored)
  BY DEF IInv, TypeOK, MirrorAgrees, Mirror
<1>2. CASE ~wflag
  BY <1>1, <1>2 DEF sync_window_ok, Written
<1>3. CASE wflag
  <2>1. winsect \in Primary /\ winsect \in Sector /\ winsect # FsInfo
    BY <1>3 DEF IInv, DirtyIsEditable
  <2>2. CASE ~Mirrored(winsect)
    <3>1. r = <<Put(disk, winsect, win), unmirrored>>
      BY <1>3, <2>2 DEF sync_window_ok
    <3>2. Mirror(r[1], r[2])
      <4>1. CASE NFats = 2
        <5>1. winsect \notin Fat1
          BY <2>2, <4>1 DEF Mirrored
        <5>2. \A s \in Fat1 : s # winsect /\ s + FSize # winsect
          BY <2>1, <4>1, <5>1
        <5> QED BY <1>1, <2>1, <3>1, <5>2 DEF Mirror, Put
      <4> QED BY <4>1, LayoutAssumption DEF Mirror
    <3> QED BY <1>1, <1>3, <2>1, <3>1, <3>2 DEF Put, Written
  <2>3. CASE Mirrored(winsect)
    <3> DEFINE first == Put(disk, winsect, win)
               both == Put(first, winsect + FSize, win)
    <3>1. NFats = 2 /\ winsect \in Fat1 /\ winsect + FSize \in Sector
          /\ winsect + FSize \notin Primary /\ winsect \in Int /\ FSize \in Int
      BY <2>3, LayoutAssumption DEF Mirrored, Fat1
    <3>2. \/ r = <<both, unmirrored \ {winsect}>>
          \/ r = <<first, unmirrored \cup {winsect}>>
      BY <1>3, <2>3 DEF sync_window_ok
    <3>3. \A s \in Fat1 : s \in Int /\ s # winsect + FSize /\ s + FSize # winsect
                         /\ (s # winsect => s + FSize # winsect + FSize)
                         /\ s \in Sector /\ s + FSize \in Sector
      BY <2>1, <3>1 DEF Fat1, Editable
    <3>4. first \in [Sector -> Content] /\ both \in [Sector -> Content]
      BY <1>1, <2>1, <3>1 DEF Put
    <3>5. Mirror(both, unmirrored \ {winsect})
      BY <1>1, <2>1, <3>1, <3>3 DEF Mirror, Put
    <3>6. Mirror(first, unmirrored \cup {winsect})
      BY <1>1, <2>1, <3>1, <3>3 DEF Mirror, Put
    <3>7. \A s \in Primary : first[s] = Written(s) /\ both[s] = Written(s)
      BY <1>1, <1>3, <2>1, <3>1 DEF Put, Written
    <3>8. first[FsInfo] = disk[FsInfo] /\ both[FsInfo] = disk[FsInfo]
      BY <2>1, <3>7, <1>3 DEF Written
    <3>9. CASE r = <<both, unmirrored \ {winsect}>>
      <4> HIDE DEF first, both
      <4> QED BY <1>1, <3>9, <3>4, <3>5, <3>7, <3>8
    <3>10. CASE r = <<first, unmirrored \cup {winsect}>>
      <4> HIDE DEF first, both
      <4>1. unmirrored \cup {winsect} \subseteq Fat1
        BY <1>1, <3>1
      <4> QED BY <4>1, <3>10, <3>4, <3>6, <3>7, <3>8
    <3> QED BY <3>2, <3>9, <3>10
  <2> QED BY <2>2, <2>3
<1> QED BY <1>2, <1>3

(* What a sync_window that fails leaves: only the pending sector may have  *)
(* reached the medium, and then its copy is known to lag behind.           *)
LEMMA SyncErr ==
    ASSUME IInv, mounted, NEW r \in sync_window_err
    PROVE  /\ wflag
           /\ r[1] \in [Sector -> Content]
           /\ r[2] \subseteq Fat1
           /\ Mirror(r[1], r[2])
           /\ \/ \A s \in Primary : r[1][s] = disk[s]
              \/ \A s \in Primary : r[1][s] = Written(s)
           /\ r[1][FsInfo] = disk[FsInfo]
<1> USE FixedPlaces
<1>1. disk \in [Sector -> Content] /\ win \in Content /\ unmirrored \subseteq Fat1
      /\ Mirror(disk, unmirrored)
  BY DEF IInv, TypeOK, MirrorAgrees, Mirror
<1>2. wflag
  BY DEF sync_window_err
<1>3. winsect \in Primary /\ winsect \in Sector /\ winsect # FsInfo
  BY <1>2 DEF IInv, DirtyIsEditable
<1> DEFINE u == IF Mirrored(winsect) THEN unmirrored \cup {winsect} ELSE unmirrored
<1>4. r = <<disk, unmirrored>> \/ r = <<Put(disk, winsect, win), u>>
  BY <1>2 DEF sync_window_err
<1>5. CASE r = <<disk, unmirrored>>
  BY <1>1, <1>2, <1>5
<1>6. CASE r = <<Put(disk, winsect, win), u>>
  <2>1. u \subseteq Fat1
    BY <1>1 DEF Mirrored
  <2>2. Mirror(Put(disk, winsect, win), u)
    <3> SUFFICES ASSUME NFats = 2, NEW s \in Fat1 \ u
                 PROVE  Put(disk, winsect, win)[s + FSize] = Put(disk, winsect, win)[s]
      BY DEF Mirror
    <3>1. s # winsect
      BY DEF Mirrored
    <3>2. s + FSize # winsect /\ s + FSize \in Sector /\ s \in Sector
      BY <1>3 DEF Editable
    <3>3. s \notin unmirrored
      BY DEF Mirrored
    <3> QED BY <1>1, <3>1, <3>2, <3>3 DEF Put, Mirror
  <2> QED BY <1>1, <1>2, <1>3, <1>6, <2>1, <2>2 DEF Put, Written
<1> QED BY <1>4, <1>5, <1>6

-----------------------------------------------------------------------------
(* The initial states satisfy the inductive invariant.                     *)
LEMMA InitInv == Init => IInv
BY FixedPlaces, ContentAssumption
   DEF Init, IInv, TypeOK, Coherent, DirtyIsEditable, MirrorAgrees, FsInfoFresh

(* A call that gives up in sync_window keeps the invariant.                *)
LEMMA SyncFailsInv == IInv /\ mounted /\ SyncFails => IInv'
<1> SUFFICES ASSUME IInv, mounted, SyncFails PROVE IInv'
  OBVIOUS
<1> PICK r \in sync_window_err : disk' = r[1] /\ unmirrored' = r[2]
  BY DEF SyncFails
<1>1. /\ wflag
      /\ disk' \in [Sector -> Content]
      /\ unmirrored' \subseteq Fat1
      /\ Mirror(disk', unmirrored')
      /\ disk'[FsInfo] = disk[FsInfo]
  BY SyncErr
<1>2. /\ synced' = FALSE
      /\ UNCHANGED <<win, winsect, wflag, fsi_flag, info, mounted, phantom, infoStale>>
  BY DEF SyncFails
<1> QED BY <1>1, <1>2
    DEF IInv, TypeOK, Coherent, DirtyIsEditable, MirrorAgrees, FsInfoFresh, Mirror

(* Loading a sector into the window: what is valid afterwards is coherent. *)
LEMMA LoadResult ==
    ASSUME NEW d \in [Sector -> Content], NEW s \in Primary, Load(d, s)
    PROVE  /\ win' \in Content
           /\ winsect' \in Primary \cup {NoSector}
           /\ winsect' # NoSector => win' = d[winsect']
BY FixedPlaces DEF Load

LEMMA MoveWindowInv ==
    ASSUME IInv, NEW s \in Primary, move_window(s)
    PROVE  IInv'
<1>1. mounted
  BY DEF move_window
<1>2. CASE SyncFails
  BY <1>1, <1>2, SyncFailsInv
<1>3. CASE ~SyncFails
  <2> PICK r \in sync_window_ok : disk' = r[1] /\ unmirrored' = r[2] /\ Load(r[1], s)
    BY <1>3 DEF move_window
  <2>1. /\ disk' \in [Sector -> Content]
        /\ unmirrored' \subseteq Fat1
        /\ Mirror(disk', unmirrored')
        /\ disk'[FsInfo] = disk[FsInfo]
    BY <1>1, SyncOk
  <2>2. /\ win' \in Content
        /\ winsect' \in Primary \cup {NoSector}
        /\ winsect' # NoSector => win' = disk'[winsect']
    BY <2>1, LoadResult
  <2>3. /\ wflag' = FALSE /\ phantom' = FALSE /\ synced' = FALSE
        /\ UNCHANGED <<fsi_flag, info, mounted, infoStale>>
    BY <1>3 DEF move_window
  <2> QED BY <2>1, <2>2, <2>3
      DEF IInv, TypeOK, Coherent, DirtyIsEditable, MirrorAgrees, FsInfoFresh, Mirror
<1> QED BY <1>2, <1>3

LEMMA SyncFsInv == IInv /\ sync_fs => IInv'
<1> SUFFICES ASSUME IInv, sync_fs PROVE IInv'
  OBVIOUS
<1>1. mounted
  BY DEF sync_fs
<1>2. CASE SyncFails
  BY <1>1, <1>2, SyncFailsInv
<1>3. CASE ~SyncFails
  <2> USE FixedPlaces
  <2> PICK r \in sync_window_ok :
         /\ unmirrored' = r[2]
         /\ \/ /\ IsFAT32 /\ fsi_flag = 1
               /\ win' = info /\ winsect' = FsInfo
               /\ fsi_flag' = 0
               /\ disk' \in {r[1], Put(r[1], FsInfo, info)}
               /\ phantom' = (disk'[FsInfo] # info)
               /\ infoStale' = (disk'[FsInfo] # info)
            \/ /\ ~(IsFAT32 /\ fsi_flag = 1)
               /\ disk' = r[1]
               /\ UNCHANGED <<win, winsect, fsi_flag, phantom, infoStale>>
    BY <1>3 DEF sync_fs
  <2>1. /\ r[1] \in [Sector -> Content]
        /\ r[2] \subseteq Fat1
        /\ Mirror(r[1], r[2])
        /\ \A s \in Primary : r[1][s] = Written(s)
        /\ r[1][FsInfo] = disk[FsInfo]
    BY <1>1, SyncOk
  <2>2. wflag' = FALSE /\ synced' \in BOOLEAN /\ UNCHANGED <<info, mounted>>
    BY <1>3 DEF sync_fs
  <2>3. CASE /\ IsFAT32 /\ fsi_flag = 1
             /\ win' = info /\ winsect' = FsInfo
             /\ fsi_flag' = 0
             /\ disk' \in {r[1], Put(r[1], FsInfo, info)}
             /\ phantom' = (disk'[FsInfo] # info)
             /\ infoStale' = (disk'[FsInfo] # info)
    <3>1. disk' \in [Sector -> Content] /\ info \in Content
      BY <2>1, <2>3 DEF Put, IInv, TypeOK
    <3>2. \A s \in Fat1 : s # FsInfo /\ s + FSize # FsInfo
      BY LayoutAssumption DEF Fat1, FsInfo, VolBase
    <3>3. \A s \in Sector : s # FsInfo => disk'[s] = r[1][s]
      BY <2>1, <2>3 DEF Put
    <3>4. Mirror(disk', unmirrored')
      <4> SUFFICES ASSUME NFats = 2, NEW s \in Fat1 \ unmirrored'
                   PROVE  disk'[s + FSize] = disk'[s]
        BY DEF Mirror
      <4>1. s \in Sector /\ s + FSize \in Sector
        BY DEF Editable
      <4> QED BY <2>1, <3>2, <3>3, <4>1 DEF Mirror
    <3>5. phantom' \in BOOLEAN /\ infoStale' \in BOOLEAN
      BY <2>3
    <3>6. unmirrored' \subseteq Fat1 /\ mounted'
      BY <1>1, <2>1, <2>2
    <3>7. TypeOK'
      BY <2>2, <2>3, <3>1, <3>5, <3>6 DEF IInv, TypeOK
    <3>8. Coherent' /\ DirtyIsEditable' /\ FsInfoFresh'
      BY <2>2, <2>3 DEF Coherent, DirtyIsEditable, FsInfoFresh
    <3> QED BY <2>2, <2>3, <3>4, <3>6, <3>7, <3>8 DEF IInv, Mirror, MirrorAgrees
  <2>4. CASE /\ ~(IsFAT32 /\ fsi_flag = 1)
             /\ disk' = r[1]
             /\ UNCHANGED <<win, winsect, fsi_flag, phantom, infoStale>>
    <3>1. TypeOK'
      BY <2>1, <2>2, <2>4 DEF IInv, TypeOK
    <3>2. Coherent'
      <4>1. CASE wflag
        BY <1>1, <2>1, <2>4, <4>1 DEF Coherent, Written, IInv, DirtyIsEditable
      <4>2. CASE ~wflag
        BY <1>1, <2>1, <2>2, <2>4, <4>2 DEF Coherent, Written, IInv, TypeOK
      <4> QED BY <4>1, <4>2
    <3> QED BY <1>1, <2>1, <2>2, <2>4, <3>1, <3>2
        DEF IInv, DirtyIsEditable, MirrorAgrees, FsInfoFresh, Mirror
  <2> QED BY <2>3, <2>4
<1> QED BY <1>2, <1>3

LEMMA DirClearInv ==
    ASSUME IInv, NEW c \in Clusters, dir_clear(c)
    PROVE  IInv'
<1>1. mounted
  BY DEF dir_clear
<1>2. CASE SyncFails
  BY <1>1, <1>2, SyncFailsInv
<1>3. CASE ~SyncFails
  <2> USE FixedPlaces
  <2> DEFINE top == clst2sect(c)
             Zeroed(d, n) == [s \in Sector |->
                                IF s \in top .. top + n - 1 THEN Zero ELSE d[s]]
  <2> PICK r \in sync_window_ok, n \in 0 .. CSize :
         disk' = Zeroed(r[1], n) /\ unmirrored' = r[2]
    BY <1>3 DEF dir_clear
  <2>1. /\ r[1] \in [Sector -> Content]
        /\ r[2] \subseteq Fat1
        /\ Mirror(r[1], r[2])
        /\ r[1][FsInfo] = disk[FsInfo]
    BY <1>1, SyncOk
  <2>2. /\ win' = Zero /\ winsect' = top
        /\ wflag' = FALSE
        /\ phantom' = (disk'[top] # Zero)
        /\ synced' = FALSE
        /\ UNCHANGED <<fsi_flag, info, mounted, infoStale>>
    BY <1>3 DEF dir_clear
  <2>3. top \in Primary /\ top \in Int /\ top >= DataBase
    <3>1. CSize \in Nat /\ c - 2 \in Nat /\ DataBase \in Nat
      BY LayoutAssumption DEF Clusters
    <3>2. CSize * (c - 2) \in Nat
      BY <3>1
    <3> QED BY <3>1, <3>2, ClusterPlace DEF clst2sect
  <2>4. \A s \in top .. top + n - 1 :
            /\ s # FsInfo /\ s \notin Fat1
            /\ NFats = 2 => \A t \in Fat1 : t + FSize # s
    <3>1. NFats = 2 => DirBase = FatBase + FSize + FSize
      BY LayoutAssumption
    <3>2. FatBase + FSize <= DirBase /\ DirBase \in Nat
      <4>1. CASE NFats = 1 BY <4>1, LayoutAssumption
      <4>2. CASE NFats = 2 BY <4>2, LayoutAssumption
      <4> QED BY <4>1, <4>2, LayoutAssumption
    <3> HIDE DEF top
    <3> QED BY <2>3, <3>1, <3>2, LayoutAssumption DEF Fat1, FsInfo, VolBase
  <2>5. disk' \in [Sector -> Content]
    BY <2>1, ContentAssumption
  <2>6. disk'[FsInfo] = disk[FsInfo]
    BY <2>1, <2>4
  <2>7. Mirror(disk', unmirrored')
    <3> SUFFICES ASSUME NFats = 2, NEW s \in Fat1 \ unmirrored'
                 PROVE  disk'[s + FSize] = disk'[s]
      BY DEF Mirror
    <3>1. s \in Sector /\ s + FSize \in Sector
      BY DEF Editable
    <3>2. s \notin top .. top + n - 1 /\ s + FSize \notin top .. top + n - 1
      BY <2>4
    <3> QED BY <2>1, <3>1, <3>2 DEF Mirror
  <2> HIDE DEF top, Zeroed
  <2>8. TypeOK'
    BY <2>1, <2>2, <2>3, <2>5, ContentAssumption DEF IInv, TypeOK
  <2>9. Coherent' /\ DirtyIsEditable'
    BY <2>2 DEF Coherent, DirtyIsEditable
  <2>10. FsInfoFresh'
    BY <2>2, <2>6 DEF IInv, FsInfoFresh
  <2> QED BY <1>1, <2>2, <2>7, <2>8, <2>9, <2>10 DEF IInv, MirrorAgrees, Mirror
<1> QED BY <1>2, <1>3

LEMMA MountInv == IInv /\ mount_volume => IInv'
<1> SUFFICES ASSUME IInv, mount_volume PROVE IInv'
  OBVIOUS
<1> USE FixedPlaces
<1>1. /\ disk \in [Sector -> Content] /\ info \in Content /\ unmirrored \subseteq Fat1
      /\ fsi_flag \in {0, 1, 128, 129} /\ infoStale \in BOOLEAN
      /\ mounted \in BOOLEAN /\ ~mounted
  BY DEF IInv, TypeOK, mount_volume
<1>2. UNCHANGED <<disk, unmirrored>> /\ phantom' = FALSE /\ synced' = FALSE
      /\ wflag' = FALSE
  BY DEF mount_volume, check_fs
<1>3. \E s \in Primary : Load(disk, s)
  BY DEF mount_volume, check_fs
<1>4. /\ win' \in Content
      /\ winsect' \in Primary \cup {NoSector}
      /\ winsect' # NoSector => win' = disk[winsect']
  BY <1>1, <1>3, LoadResult
<1>5. /\ fsi_flag' \in {0, 1, 128, 129} /\ info' \in Content
      /\ mounted' \in BOOLEAN /\ infoStale' \in BOOLEAN
      /\ FsInfoFresh'
  <2>1. CASE UNCHANGED <<fsi_flag, info, mounted, infoStale>>
    <3>1. ~mounted' /\ mounted' \in BOOLEAN
      BY <1>1, <2>1
    <3>2. FsInfoFresh'
      BY <3>1 DEF FsInfoFresh
    <3> QED BY <1>1, <2>1, <3>1, <3>2
  <2>2. CASE /\ fsi_flag' = 128 /\ info' = NoInfo
             /\ infoStale' = FALSE /\ mounted' = TRUE
    <3>1. fsi_flag' # 0 /\ NoInfo \in Content
      BY <2>2, ContentAssumption
    <3>2. FsInfoFresh'
      BY <3>1 DEF FsInfoFresh
    <3> QED BY <2>2, <3>1, <3>2
  <2>3. CASE /\ winsect' = FsInfo /\ fsi_flag' = 0 /\ info' \in {win', NoInfo}
             /\ infoStale' = (info' # win') /\ mounted' = TRUE
    <3>0. fsi_flag' = 0 /\ mounted' \in BOOLEAN
      BY <2>3
    <3>1. disk'[FsInfo] = win' /\ info' \in Content
      BY <1>2, <1>4, <2>3, ContentAssumption
    <3>2. infoStale' \in BOOLEAN
      BY <2>3
    <3>3. FsInfoFresh'
      BY <2>3, <3>1 DEF FsInfoFresh
    <3> QED BY <3>0, <3>1, <3>2, <3>3
  <2>4. \/ UNCHANGED <<fsi_flag, info, mounted, infoStale>>
        \/ /\ fsi_flag' = 128 /\ info' = NoInfo
           /\ infoStale' = FALSE /\ mounted' = TRUE
        \/ /\ winsect' = FsInfo /\ fsi_flag' = 0 /\ info' \in {win', NoInfo}
           /\ infoStale' = (info' # win') /\ mounted' = TRUE
    BY Zenon DEF mount_volume, check_fs
  <2> QED BY <2>1, <2>2, <2>3, <2>4
<1>6. TypeOK'
  BY <1>1, <1>2, <1>4, <1>5 DEF TypeOK
<1>7. Coherent' /\ DirtyIsEditable'
  BY <1>2, <1>4 DEF Coherent, DirtyIsEditable
<1>8. MirrorAgrees'
  BY <1>2 DEF IInv, MirrorAgrees
<1> QED BY <1>2, <1>5, <1>6, <1>7, <1>8 DEF IInv

(* The actions that do no disk I/O.                                        *)
LEMMA NoIOInv ==
    ASSUME IInv,
           \/ \E c \in Content : Edit(c) \/ Account(c) \/ Hint(c)
           \/ f_mount
           \/ Crash
    PROVE  IInv'
<1> USE FixedPlaces
<1>1. CASE \E c \in Content : Edit(c)
  <2> PICK c \in Content : Edit(c)
    BY <1>1
  <2>1. /\ mounted /\ winsect \in Editable
        /\ win' \in Content /\ wflag' = TRUE /\ phantom' = FALSE /\ synced' = FALSE
        /\ UNCHANGED <<disk, winsect, fsi_flag, info, mounted, unmirrored, infoStale>>
    BY DEF Edit
  <2> QED BY <2>1
      DEF IInv, TypeOK, Coherent, DirtyIsEditable, MirrorAgrees, FsInfoFresh
<1>2. CASE \E c \in Content : Account(c)
  <2> PICK c \in Content : Account(c)
    BY <1>2
  <2>1. fsi_flag' \in {0, 1, 128, 129} /\ fsi_flag' # 0
    BY DEF Account, FlagSet, IInv, TypeOK
  <2>2. info' \in Content /\ synced' = FALSE
        /\ UNCHANGED <<disk, win, winsect, wflag, mounted, unmirrored, phantom, infoStale>>
    BY DEF Account
  <2> QED BY <2>1, <2>2
      DEF IInv, TypeOK, Coherent, DirtyIsEditable, MirrorAgrees, FsInfoFresh
<1>3. CASE f_mount
  BY <1>3 DEF f_mount, IInv, TypeOK, Coherent, DirtyIsEditable, MirrorAgrees, FsInfoFresh
<1>4. CASE Crash
  BY <1>4, ContentAssumption
     DEF Crash, IInv, TypeOK, Coherent, DirtyIsEditable, MirrorAgrees, FsInfoFresh
<1>5. CASE \E c \in Content : Hint(c)
  <2>1. info' \in Content /\ infoStale' = TRUE /\ synced' = FALSE
        /\ UNCHANGED <<disk, win, winsect, wflag, fsi_flag, mounted, unmirrored, phantom>>
    BY <1>5 DEF Hint
  <2> QED BY <2>1
      DEF IInv, TypeOK, Coherent, DirtyIsEditable, MirrorAgrees, FsInfoFresh
<1> QED BY <1>1, <1>2, <1>3, <1>4, <1>5

(* The invariant of every run, for every volume.                           *)
THEOREM Invariance == Spec => []IInv
<1>1. IInv /\ [Next]_vars => IInv'
  <2> SUFFICES ASSUME IInv, [Next]_vars PROVE IInv'
    OBVIOUS
  <2>1. CASE UNCHANGED vars
    BY <2>1 DEF vars, IInv, TypeOK, Coherent, DirtyIsEditable, MirrorAgrees, FsInfoFresh
  <2>2. CASE Next
    BY <2>2, MoveWindowInv, SyncFsInv, DirClearInv, MountInv, NoIOInv DEF Next
  <2> QED BY <2>1, <2>2
<1> QED BY <1>1, InitInv, PTL DEF Spec

(* Every variable keeps its type.                                          *)
THEOREM TypeCorrect == Spec => []TypeOK
<1>1. IInv => TypeOK
  BY DEF IInv
<1> QED BY <1>1, Invariance, PTL

(* A clean window shows the medium: no read of the FAT or of a directory   *)
(* is served stale, unless a failed write was dropped by the code.         *)
THEOREM Coherence == Spec => []Coherent
<1>1. IInv => Coherent
  BY DEF IInv
<1> QED BY <1>1, Invariance, PTL

(* The copy of the FAT follows the FAT.                                    *)
THEOREM FatCopyAgrees == Spec => []MirrorAgrees
<1>1. IInv => MirrorAgrees
  BY DEF IInv
<1> QED BY <1>1, Invariance, PTL

(* With fsi_flag = 0 the counters of the volume are those of FSINFO: what  *)
(* create_chain and remove_chain count is never taken for written.         *)
THEOREM CountersFresh == Spec => []FsInfoFresh
<1>1. IInv => FsInfoFresh
  BY DEF IInv
<1> QED BY <1>1, Invariance, PTL

(* What sync_fs promises when it returns FR_OK.                            *)
THEOREM SyncIsDurable == Spec => []SyncedIsDurable
<1>1. IInv => SyncedIsDurable
  BY FixedPlaces
     DEF IInv, TypeOK, Coherent, DirtyIsEditable, FsInfoFresh, SyncedIsDurable, View
<1> QED BY <1>1, Invariance, PTL

-----------------------------------------------------------------------------
(* The mapping to SectorStore, written out.                                *)
st == [s \in Primary |-> View(s)]
du == [s \in Primary |-> disk[s]]
lo == mounted /\ phantom

(* Once pending contents have settled, the store is the medium of a        *)
(* sync_window that succeeded.                                             *)
LEMMA SettledIsWritten ==
    ASSUME IInv, mounted
    PROVE  Store!Settled = [s \in Primary |-> Written(s)]
<1>1. CASE phantom
  <2>1. ~wflag
    BY <1>1 DEF IInv, DirtyIsEditable
  <2>2. Store!Settled = du
    BY <1>1 DEF Store!Settled, du
  <2> QED BY <2>1, <2>2 DEF du, Written
<1>2. CASE ~phantom
  <2>1. Store!Settled = st
    BY <1>2 DEF Store!Settled, st
  <2>2. \A s \in Primary : View(s) = Written(s)
    <3>1. CASE wflag
      BY <3>1 DEF View, Written
    <3>2. CASE ~wflag
      BY <1>2, <3>2, FixedPlaces DEF View, Written, IInv, Coherent
    <3> QED BY <3>1, <3>2
  <2> QED BY <2>1, <2>2 DEF st
<1> QED BY <1>1, <1>2

LEMMA SyncFailsStep ==
    ASSUME IInv, mounted, SyncFails
    PROVE  [Store!Next]_(Store!svars)
<1> PICK r \in sync_window_err : disk' = r[1] /\ unmirrored' = r[2]
  BY DEF SyncFails
<1>1. /\ wflag
      /\ \/ \A s \in Primary : disk'[s] = disk[s]
         \/ \A s \in Primary : disk'[s] = Written(s)
  BY SyncErr
<1>2. UNCHANGED <<win, winsect, wflag, mounted, phantom>>
  BY DEF SyncFails
<1>3. ~phantom
  BY <1>1 DEF IInv, DirtyIsEditable
<1>4. st' = st
  BY <1>1, <1>2 DEF st, View, Written
<1>5. CASE \A s \in Primary : disk'[s] = disk[s]
  <2>1. du' = du
    BY <1>5 DEF du
  <2>2. lo' = lo
    BY <1>2 DEF lo
  <2> QED BY <1>4, <2>1, <2>2 DEF Store!svars, st, du, lo
<1>6. CASE \A s \in Primary : disk'[s] = Written(s)
  <2>1. du' = st
    BY <1>1, <1>6 DEF du, st, View, Written
  <2>2. Store!Flush
    BY <1>2, <1>3, <1>4, <2>1 DEF Store!Flush, st, du, lo
  <2> QED BY <2>2 DEF Store!Next
<1> QED BY <1>1, <1>5, <1>6

LEMMA MoveWindowStep ==
    ASSUME IInv, NEW s \in Primary, move_window(s)
    PROVE  [Store!Next]_(Store!svars)
<1>1. mounted
  BY DEF move_window
<1>2. CASE SyncFails
  BY <1>1, <1>2, SyncFailsStep
<1>3. CASE ~SyncFails
  <2> PICK r \in sync_window_ok : disk' = r[1] /\ unmirrored' = r[2] /\ Load(r[1], s)
    BY <1>3 DEF move_window
  <2>1. disk' \in [Sector -> Content] /\ \A t \in Primary : disk'[t] = Written(t)
    BY <1>1, SyncOk
  <2>2. winsect' # NoSector => win' = disk'[winsect']
    BY <2>1, LoadResult
  <2>3. \A t \in Primary : View(t)' = disk'[t]
    BY <2>2, FixedPlaces DEF View
  <2>4. st' = Store!Settled /\ du' = Store!Settled
    BY <1>1, <2>1, <2>3, SettledIsWritten DEF st, du
  <2>5. phantom' = FALSE
    BY <1>3 DEF move_window
  <2>6. Store!Settle
    BY <2>4, <2>5 DEF Store!Settle, st, du
  <2> QED BY <2>6 DEF Store!Next
<1> QED BY <1>2, <1>3

LEMMA SyncFsStep ==
    ASSUME IInv, IInv', sync_fs
    PROVE  [Store!Next]_(Store!svars)
<1>1. mounted
  BY DEF sync_fs
<1>2. CASE SyncFails
  BY <1>1, <1>2, SyncFailsStep
<1>3. CASE ~SyncFails
  <2> USE FixedPlaces
  <2> PICK r \in sync_window_ok :
         /\ unmirrored' = r[2]
         /\ \/ /\ IsFAT32 /\ fsi_flag = 1
               /\ win' = info /\ winsect' = FsInfo
               /\ fsi_flag' = 0
               /\ disk' \in {r[1], Put(r[1], FsInfo, info)}
               /\ phantom' = (disk'[FsInfo] # info)
               /\ infoStale' = (disk'[FsInfo] # info)
            \/ /\ ~(IsFAT32 /\ fsi_flag = 1)
               /\ disk' = r[1]
               /\ UNCHANGED <<win, winsect, fsi_flag, phantom, infoStale>>
    BY <1>3 DEF sync_fs
  <2>1. r[1] \in [Sector -> Content] /\ \A s \in Primary : r[1][s] = Written(s)
    BY <1>1, SyncOk
  <2>2. wflag' = FALSE /\ mounted' = mounted
    BY <1>3 DEF sync_fs
  <2>3. CASE /\ win' = info /\ winsect' = FsInfo
             /\ disk' \in {r[1], Put(r[1], FsInfo, info)}
             /\ phantom' = (disk'[FsInfo] # info)
    <3> DEFINE done == IF disk'[FsInfo] = info THEN {FsInfo} ELSE {}
    <3>1. \A s \in Primary : s # FsInfo => disk'[s] = Written(s)
      BY <2>1, <2>3 DEF Put
    <3>2. disk'[FsInfo] # info => disk'[FsInfo] = Written(FsInfo)
      BY <2>1, <2>3 DEF Put
    <3>3. du' = [s \in Primary |-> IF s \in done THEN info ELSE Store!Settled[s]]
      BY <1>1, <3>1, <3>2, SettledIsWritten DEF du
    <3>4. st' = [s \in Primary |-> IF s \in done \cup {FsInfo} THEN info
                                                               ELSE Store!Settled[s]]
      BY <1>1, <2>2, <2>3, <3>1, SettledIsWritten DEF st, View
    <3>5. lo' = ~({FsInfo} \subseteq done)
      <4>1. CASE disk'[FsInfo] = info
        BY <2>3, <4>1 DEF lo
      <4>2. CASE disk'[FsInfo] # info
        BY <1>1, <2>2, <2>3, <4>2 DEF lo
      <4> QED BY <4>1, <4>2
    <3>6. done \in SUBSET {FsInfo} /\ {FsInfo} \in SUBSET Primary
      OBVIOUS
    <3>7. info \in Content
      BY DEF IInv, TypeOK
    <3> HIDE DEF done
    <3>8. Store!Through({FsInfo}, info, done, {FsInfo})
      BY <3>3, <3>4, <3>5, <3>6 DEF Store!Through, st, du, lo
    <3> QED BY <3>6, <3>7, <3>8 DEF Store!Next
  <2>4. CASE disk' = r[1] /\ UNCHANGED <<win, winsect, phantom>>
    <3>1. CASE phantom
      <4>1. ~wflag
        BY <3>1 DEF IInv, DirtyIsEditable
      <4>2. \A s \in Primary : disk'[s] = disk[s]
        BY <2>1, <2>4, <4>1 DEF Written
      <4>3. st' = st /\ du' = du /\ lo' = lo
        BY <2>2, <2>4, <4>2 DEF st, du, lo, View
      <4> QED BY <4>3 DEF Store!svars, st, du, lo
    <3>2. CASE ~phantom
      <4>1. du' = st
        <5>1. st = Store!Settled
          BY <3>2 DEF Store!Settled, st
        <5> QED BY <1>1, <2>1, <2>4, <5>1, SettledIsWritten DEF du
      <4>2. st' = st
        BY <2>2, <2>4, <4>1 DEF st, du, View
      <4>3. Store!Flush
        BY <2>2, <2>4, <3>2, <4>1, <4>2 DEF Store!Flush, st, du, lo
      <4> QED BY <4>3 DEF Store!Next
    <3> QED BY <3>1, <3>2
  <2> QED BY <2>3, <2>4
<1> QED BY <1>2, <1>3

LEMMA DirClearStep ==
    ASSUME IInv, NEW c \in Clusters, dir_clear(c)
    PROVE  [Store!Next]_(Store!svars)
<1>1. mounted
  BY DEF dir_clear
<1>2. CASE SyncFails
  BY <1>1, <1>2, SyncFailsStep
<1>3. CASE ~SyncFails
  <2> USE FixedPlaces
  <2> DEFINE top == clst2sect(c)
             Zeroed(d, n) == [s \in Sector |->
                                IF s \in top .. top + n - 1 THEN Zero ELSE d[s]]
  <2> PICK r \in sync_window_ok, n \in 0 .. CSize :
         disk' = Zeroed(r[1], n) /\ unmirrored' = r[2]
    BY <1>3 DEF dir_clear
  <2>1. \A s \in Primary : r[1][s] = Written(s)
    BY <1>1, SyncOk
  <2>2. /\ win' = Zero /\ winsect' = top
        /\ phantom' = (disk'[top] # Zero)
        /\ mounted' = mounted
    BY <1>3 DEF dir_clear
  <2>3. top \in Primary
    BY ClusterPlace
  <2> DEFINE S == (top .. top + n - 1 \cup {top}) \cap Primary
             done == {s \in S : disk'[s] = Zero}
  <2>4. \A s \in Primary : disk'[s] = IF s \in done THEN Zero ELSE Written(s)
    <3> SUFFICES ASSUME NEW s \in Primary
                 PROVE  disk'[s] = IF s \in done THEN Zero ELSE Written(s)
      OBVIOUS
    <3>1. CASE s \in top .. top + n - 1
      <4>1. disk'[s] = Zero
        BY <3>1
      <4> QED BY <3>1, <4>1
    <3>2. CASE s \notin top .. top + n - 1
      <4>1. disk'[s] = Written(s)
        BY <2>1, <3>2
      <4> QED BY <4>1
    <3> QED BY <3>1, <3>2
  <2>5. S \in SUBSET Primary /\ done \in SUBSET S /\ {top} \in SUBSET S
    BY <2>3
  <2>6. {top} \subseteq done <=> disk'[top] = Zero
    BY <2>3
  <2> HIDE DEF S, done, Zeroed
  <2>7. du' = [s \in Primary |-> IF s \in done THEN Zero ELSE Store!Settled[s]]
    BY <1>1, <2>4, SettledIsWritten DEF du
  <2>8. st' = [s \in Primary |-> IF s \in done \cup {top} THEN Zero
                                                          ELSE Store!Settled[s]]
    BY <1>1, <2>2, <2>4, SettledIsWritten DEF st, View
  <2>9. lo' = ~({top} \subseteq done)
    <3>1. CASE disk'[top] = Zero
      BY <2>2, <2>6, <3>1 DEF lo
    <3>2. CASE disk'[top] # Zero
      BY <1>1, <2>2, <2>6, <3>2 DEF lo
    <3> QED BY <3>1, <3>2
  <2> HIDE DEF top
  <2>10. Store!Through(S, Zero, done, {top})
    BY <2>5, <2>7, <2>8, <2>9 DEF Store!Through, st, du, lo
  <2> QED BY <2>5, <2>10, ContentAssumption DEF Store!Next
<1> QED BY <1>2, <1>3

(* A volume that is not mounted shows the medium; so does one just mounted.*)
LEMMA MountStep ==
    ASSUME IInv, mount_volume \/ f_mount \/ Crash
    PROVE  [Store!Next]_(Store!svars)
<1>1. du' = du
  BY DEF mount_volume, check_fs, f_mount, Crash, du
<1>2. lo' = FALSE
  BY DEF mount_volume, check_fs, f_mount, Crash, lo
<1>3. CASE f_mount \/ Crash
  <2>1. mounted' = FALSE
    BY <1>3 DEF f_mount, Crash
  <2>2. st' = du
    BY <1>1, <2>1 DEF st, du, View
  <2> QED BY <1>1, <1>2, <2>2 DEF Store!Next, Store!Reset, st, du, lo
<1>4. CASE mount_volume
  <2>1. ~mounted /\ disk' = disk /\ \E s \in Primary : Load(disk, s)
    BY <1>4, FixedPlaces DEF mount_volume, check_fs
  <2>2. winsect' # NoSector => win' = disk[winsect']
    BY <2>1, LoadResult DEF IInv, TypeOK
  <2>3. st = du /\ lo = FALSE
    BY <2>1 DEF st, du, lo, View
  <2>4. st' = du
    BY <2>1, <2>2, FixedPlaces DEF st, du, View
  <2> QED BY <1>1, <1>2, <2>3, <2>4 DEF Store!svars, st, du, lo
<1> QED BY <1>3, <1>4

(* The window implements the sector store: clients never see an update     *)
(* undone or out of order, whatever fails, but for dropped write errors.   *)
THEOREM Refinement == Spec => RefinesStore
<1>1. Init => Store!Init
  BY FixedPlaces DEF Init, Store!Init, View
<1>2. IInv /\ IInv' /\ [Next]_vars => [Store!Next]_(Store!svars)
  <2> SUFFICES ASSUME IInv, IInv', [Next]_vars PROVE [Store!Next]_(Store!svars)
    OBVIOUS
  <2>1. CASE UNCHANGED vars
    BY <2>1 DEF vars, Store!svars, View
  <2>2. CASE \E c \in Content : Edit(c)
    <3> PICK c \in Content : Edit(c)
      BY <2>2
    <3>1. /\ mounted /\ winsect \in Primary /\ win' = c /\ phantom' = FALSE
          /\ UNCHANGED <<disk, winsect, mounted>>
      BY FixedPlaces DEF Edit
    <3>2. st' = [st EXCEPT ![winsect] = c] /\ du' = du /\ lo' = FALSE
      BY <3>1 DEF st, du, lo, View
    <3>3. \A t \in Primary \ {winsect} : st[t] = du[t]
      BY DEF st, du, View
    <3>4. Store!Change(winsect, c)
      BY <3>2, <3>3 DEF Store!Change, st, du, lo
    <3> QED BY <3>1, <3>4 DEF Store!Next
  <2>3. CASE \E c \in Content : Account(c) \/ Hint(c)
    <3>1. UNCHANGED <<disk, win, winsect, mounted, phantom>>
      BY <2>3 DEF Account, Hint
    <3> QED BY <3>1 DEF Store!svars, View
  <2> QED BY <2>1, <2>2, <2>3, MoveWindowStep, SyncFsStep, DirClearStep, MountStep
      DEF Next
<1> QED BY <1>1, <1>2, Invariance, PTL DEF Spec, Store!Spec, RefinesStore
=============================================================================
