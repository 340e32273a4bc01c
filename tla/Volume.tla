------------------------------- MODULE Volume -------------------------------
(***************************************************************************)
(* How mount_volume finds a FAT volume on a medium and what it makes of    *)
(* the volume's boot record.  Numbers in a boot record are as wide as the  *)
(* code's: sums and products of sector counts are taken modulo Word32, the *)
(* number of values of a DWORD.                                            *)
(***************************************************************************)
EXTENDS Integers

CONSTANTS SectorSize,   \* FF_MIN_SS = FF_MAX_SS
          Word32,       \* 2^32: number of values of a DWORD and of an LBA_t
          MAX_FAT12, MAX_FAT16, MAX_FAT32,     \* greatest numbers of clusters
          MinTot16, MinTot32      \* 128 and 65536, for volumes without signature

ASSUME WidthAssumption ==
    /\ SectorSize \in Nat /\ SectorSize >= 32
    /\ {MAX_FAT12, MAX_FAT16, MAX_FAT32} \subseteq Nat \ {0}
    /\ MAX_FAT12 < MAX_FAT16 /\ MAX_FAT16 < MAX_FAT32
    /\ Word32 \in Nat /\ (MAX_FAT32 + 2) * 4 + SectorSize <= Word32

(* A boot record: jump (BS_JmpBoot is a jump), sign (BS_55AA), tag         *)
(* (BS_FilSysType32), the fields of the BPB, and the FSINFO that follows   *)
(* it: fsi (BPB_FSInfo32 = 1), good (its signatures), free and next.       *)
BootRecord ==
    [jump : BOOLEAN, sign : BOOLEAN, tag : BOOLEAN, bps : Nat, spc : Nat, rsvd : Nat,
     nfats : Nat, root : Nat, tot16 : Nat, tot32 : Nat, fsz16 : Nat, fsz32 : Nat,
     ver : Nat, clus : Nat, fsi : BOOLEAN, good : BOOLEAN, free : Nat, next : Nat]

(* A medium: the boot records at the sectors that hold one, and the four   *)
(* sector numbers of the partition table in sector 0, 0 for none.          *)
IsMedium(m) ==
    /\ \A s \in DOMAIN m.boot : m.boot[s] \in BootRecord
    /\ m.table \in [1 .. 4 -> Nat]

PowerOf2(n) == n \in {1, 2, 4, 8, 16, 32, 64, 128}     \* in a byte
EntriesPerSector == SectorSize \div 32
FatSectors(b) == IF b.fsz16 # 0 THEN b.fsz16 ELSE b.fsz32
TotalSectors(b) == IF b.tot16 # 0 THEN b.tot16 ELSE b.tot32

(* A boot record of early MS-DOS, that has no signature.                   *)
Presumable(b) ==
    /\ b.bps = SectorSize
    /\ PowerOf2(b.spc)
    /\ b.rsvd # 0
    /\ b.nfats \in {1, 2}
    /\ b.root # 0
    /\ b.tot16 >= MinTot16 \/ b.tot32 >= MinTot32
    /\ b.fsz16 # 0

(* check_fs: 0 FAT, 2 not FAT, 3 no boot record; 4 is an error of the disk *)
check_fs(b) ==
    IF b.jump /\ ((b.sign /\ b.tag) \/ Presumable(b)) THEN 0
    ELSE IF b.sign THEN 2 ELSE 3

-----------------------------------------------------------------------------
(* find_volume, when the sectors of bad cannot be read: the result and the *)
(* sector in the window.                                                   *)
Checked(m, bad, s) ==
    IF s \in bad THEN 4 ELSE IF s \in DOMAIN m.boot THEN check_fs(m.boot[s]) ELSE 3

Partition(m, bad, i) == IF m.table[i] = 0 THEN 3 ELSE Checked(m, bad, m.table[i])

FirstFat(m, bad) ==
    LET fats == {i \in 1 .. 4 : Partition(m, bad, i) < 2}
    IN IF fats = {} THEN 4 ELSE CHOOSE i \in fats : \A j \in fats : i <= j

find_volume(m, bad) ==
    LET i == FirstFat(m, bad)
    IN IF Checked(m, bad, 0) # 2 THEN [fmt |-> Checked(m, bad, 0), sect |-> 0]
       ELSE [fmt |-> Partition(m, bad, i), sect |-> m.table[i]]

-----------------------------------------------------------------------------
(* mount_volume, from the boot record to the fields of FATFS.              *)
FatArea(b) == (FatSectors(b) * b.nfats) % Word32
SystemSectors(b) == (b.rsvd + FatArea(b) + b.root \div EntriesPerSector) % Word32
ClusterCount(b) == (TotalSectors(b) - SystemSectors(b)) \div b.spc

FatType(n) ==
    IF n > MAX_FAT32 THEN 0
    ELSE IF n > MAX_FAT16 THEN 32 ELSE IF n > MAX_FAT12 THEN 16 ELSE 12

(* Bytes of a FAT of n entries.                                            *)
FatBytes(type, n) ==
    IF type = 32 THEN n * 4
    ELSE IF type = 16 THEN n * 2 ELSE (n * 3) \div 2 + (n % 2)

Accepted(b) ==
    /\ b.bps = SectorSize
    /\ b.nfats \in {1, 2}
    /\ PowerOf2(b.spc)
    /\ b.root % EntriesPerSector = 0
    /\ b.rsvd # 0
    /\ TotalSectors(b) >= SystemSectors(b)
    /\ ClusterCount(b) # 0
    /\ FatType(ClusterCount(b)) # 0
    /\ IF FatType(ClusterCount(b)) = 32 THEN b.ver = 0 /\ b.root = 0 ELSE b.root # 0
    /\ LET type == FatType(ClusterCount(b))
           bytes == FatBytes(type, ClusterCount(b) + 2)
       IN FatSectors(b) >= (bytes + SectorSize - 1) \div SectorSize

(* The layout of the volume whose boot record b is in sector s.            *)
Layout(b, s) ==
    LET type == FatType(ClusterCount(b))
        fatbase == (s + b.rsvd) % Word32
    IN [fs_type  |-> type,
        n_fats   |-> b.nfats,
        fsize    |-> FatSectors(b),
        csize    |-> b.spc,
        n_rootdir |-> b.root,
        n_fatent |-> ClusterCount(b) + 2,
        volbase  |-> s,
        fatbase  |-> fatbase,
        dirbase  |-> IF type = 32 THEN b.clus ELSE (fatbase + FatArea(b)) % Word32,
        database |-> (s + SystemSectors(b)) % Word32]

(* The FSINFO fields: whether FSINFO is used, and the counters, 0xFFFFFFFF *)
(* when they are not known (Word32 - 1).                                   *)
NoInfo == [fsi_flag |-> 128, free |-> Word32 - 1, next |-> Word32 - 1]
Info(b) ==
    IF FatType(ClusterCount(b)) = 32 /\ b.fsi
    THEN {NoInfo,                                       \* it cannot be read
          [fsi_flag |-> 0,
           free |-> IF b.good THEN b.free ELSE Word32 - 1,
           next |-> IF b.good THEN b.next ELSE Word32 - 1]}
    ELSE {NoInfo}

-----------------------------------------------------------------------------
(* The sizes in b are of a volume that ends within an LBA_t.               *)
Representable(b, s) ==
    /\ FatSectors(b) * b.nfats < Word32
    /\ b.rsvd + FatSectors(b) * b.nfats + b.root \div EntriesPerSector < Word32
    /\ s + TotalSectors(b) < Word32

(* What the rest of the driver takes for granted: the FATs follow the boot *)
(* record and do not reach into the data, there is a FAT entry for every   *)
(* cluster, and the clusters are in the volume.                            *)
SoundLayout(g, sectors) ==
    /\ g.volbase < g.fatbase
    /\ g.fatbase + g.n_fats * g.fsize <= g.database
    /\ g.fs_type # 32 =>
          /\ g.dirbase = g.fatbase + g.n_fats * g.fsize
          /\ g.dirbase + g.n_rootdir \div EntriesPerSector = g.database
    /\ g.n_fatent > 2
    /\ g.database + g.csize * (g.n_fatent - 2) <= g.volbase + sectors
    /\ g.n_fatent * g.fs_type <= 8 * g.fsize * SectorSize
=============================================================================
