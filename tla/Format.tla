--------------------------------- MODULE Format ---------------------------------
(***************************************************************************)
(* f_mkfs and f_fdisk (FF_USE_MKFS): where a volume lies on a drive, how   *)
(* its sectors are shared out, what is written where; and how find_volume  *)
(* and mount_volume read it back, with GPT (FF_LBA64) and exFAT.           *)
(*                                                                         *)
(* A drive is what was written on it: a sequence of records [at, n, what], *)
(* the n sectors from at on holding what.  LBA_t is a DWORD unless         *)
(* FF_LBA64; sums of DWORDs are taken modulo Word32.                       *)
(***************************************************************************)
EXTENDS Integers, Sequences, SequencesExt, FiniteSetsExt

CONSTANTS SectorSize, Word32, MAX_FAT12, MAX_FAT16, MAX_FAT32, MinTot16, MinTot32,
          MAX_EXFAT,            \* 0x7FFFFFFD
          FF_LBA64, FF_FS_EXFAT,
          FF_MIN_GPT,           \* drives of so many sectors get a GPT
          SzUpcase              \* bytes of the compressed up-case table

V == INSTANCE Volume

N_SEC_TRACK == 63
GPT_ITEMS == 128
SZ_GPTE == 128
GPT_ALIGN == 1048576
PTBL == (GPT_ITEMS * SZ_GPTE) \div SectorSize     \* sectors of a partition table

DW(x) == x % Word32
LBA(x) == IF FF_LBA64 THEN x ELSE x % Word32
RoundUp(x, n) == ((x + n - 1) \div n) * n
Least(x, y) == IF x < y THEN x ELSE y
Entry(list, i) == IF i <= Len(list) THEN list[i] ELSE 0
IsPowerOf2(n) == n \in {2 ^ k : k \in 0..24}

-----------------------------------------------------------------------------
(* What a sector holds.                                                    *)

Write(at, n, what) == [at |-> at, n |-> n, what |-> what]
Blank == [kind |-> "blank"]
Holds(disk, s) ==
    LET here == {i \in DOMAIN disk : disk[i].at <= s /\ s < disk[i].at + disk[i].n}
    IN IF here = {} THEN Blank ELSE disk[Max(here)].what

(* Writing stops at the write that fails, the fail-th, if it is checked    *)
(* for: those of FSINFO and of the backup boot record are not, and lost.   *)
Unchecked == {"backup", "fsinfo"}
Done(writes, fail) ==
    LET fails == fail \in DOMAIN writes
        lost == fails /\ writes[fail].what.kind \in Unchecked
    IN [res |-> IF fails /\ ~lost THEN "FR_DISK_ERR" ELSE "FR_OK", lost |-> lost,
        writes |-> IF lost THEN RemoveAt(writes, fail)
                   ELSE IF fails THEN SubSeq(writes, 1, fail - 1) ELSE writes]
(* The CTRL_SYNC of f_mkfs behind the last write may fail too.             *)
Synced(writes, fail) ==
    IF fail = Len(writes) + 1 THEN [Done(writes, 0) EXCEPT !.res = "FR_DISK_ERR"]
    ELSE Done(writes, fail)

-----------------------------------------------------------------------------
(* create_partition.                                                       *)

(* The heads of the drive: 8, 16 .. 128, or 255 when a byte overflows.     *)
Heads(sz) ==
    LET fit == {h \in {8, 16, 32, 64, 128} : (sz \div h) \div N_SEC_TRACK <= 1024}
    IN IF fit = {} THEN 255 ELSE Min(fit)
Chs(lba, heads) ==
    [cy |-> ((lba \div N_SEC_TRACK) \div heads) % 1024,
     hd |-> (lba \div N_SEC_TRACK) % heads,
     sc |-> (lba % N_SEC_TRACK) + 1]

(* Sizes up to 100 are percentages of the drive; what does not fit is      *)
(* clipped; the list ends at a size of 0.                                  *)
Wanted(sz, p) == IF p > 100 THEN p ELSE IF p = 100 THEN sz ELSE (sz \div 100) * p
Clipped_NoWrap(sz, nxt, size) == IF DW(nxt + size) <= sz THEN size ELSE sz - nxt
Clipped(sz, nxt, size) ==
    IF DW(nxt + size) <= sz /\ DW(nxt + size) >= nxt THEN size ELSE sz - nxt
RECURSIVE MbrFrom(_, _, _, _, _)
MbrFrom(sz, plst, sys, i, nxt) ==
    LET size == Clipped(sz, nxt, Wanted(sz, DW(Entry(plst, i))))
        heads == Heads(sz)
    IN IF i > 4 \/ nxt = 0 \/ nxt >= sz \/ size = 0 THEN <<>>
       ELSE <<[sys |-> sys, st |-> nxt, siz |-> size, from |-> Chs(nxt, heads),
               to |-> Chs(nxt + size - 1, heads)]>>
            \o MbrFrom(sz, plst, sys, i + 1, DW(nxt + size))
MbrEntries(sz, plst, sys) == MbrFrom(sz, plst, sys, 1, N_SEC_TRACK)

(* The same in a GPT, whose partitions start at multiples of GPT_ALIGN and *)
(* end before the backup table at top.                                     *)
GptTop(sz) == sz - PTBL - 1
GptAlign == GPT_ALIGN \div SectorSize
GptPool(sz) == GptTop(sz) - (2 + PTBL)
GptWanted(sz, p) == IF p > 100 THEN p ELSE RoundUp((GptPool(sz) * p) \div 100, GptAlign)
GptClipped(sz, nxt, size) ==
    IF nxt + size <= GptTop(sz) THEN size
    ELSE IF nxt < GptTop(sz) THEN GptTop(sz) - nxt ELSE 0
RECURSIVE GptFrom(_, _, _, _)
GptFrom(sz, plst, i, free) ==
    LET nxt == RoundUp(free, GptAlign)
        size == GptClipped(sz, nxt, GptWanted(sz, Entry(plst, i)))
    IN IF i > GPT_ITEMS \/ size = 0 THEN <<>>
       ELSE <<[fst |-> nxt, lst |-> nxt + size - 1]>> \o GptFrom(sz, plst, i + 1, nxt + size)
GptEntries(sz, plst) == GptFrom(sz, plst, 1, 2 + PTBL)

Mbr(table) == [kind |-> "mbr", table |-> table]
Protective == <<[sys |-> 238, st |-> 1, siz |-> Word32 - 1]>>
GptHeader(sz, cur, bak, table) ==
    [kind |-> "gpt", cur |-> cur, bak |-> bak, fst |-> 2 + PTBL, lst |-> GptTop(sz) - 1,
     size |-> SZ_GPTE, items |-> GPT_ITEMS, table |-> table]

(* The sectors of a GPT, which the code writes in turn to both tables, are *)
(* one write to each.                                                      *)
create_partition(sz, plst, sys) ==
    IF FF_LBA64 /\ sz >= FF_MIN_GPT
    THEN LET entries == [kind |-> "entries", list |-> GptEntries(sz, plst)]
         IN <<Write(2, PTBL, entries), Write(GptTop(sz), PTBL, entries),
              Write(1, 1, GptHeader(sz, 1, sz - 1, 2)),
              Write(sz - 1, 1, GptHeader(sz, sz - 1, 1, GptTop(sz))),
              Write(0, 1, Mbr(Protective))>>
    ELSE <<Write(0, 1, Mbr(MbrEntries(DW(sz), plst, sys)))>>

(* A drive: its number of sectors, its erase block in sectors (0 when it   *)
(* does not say), its status and what was written on it.                   *)
StatusError(d) ==
    CASE d.status = "noinit" -> "FR_NOT_READY"
      [] d.status = "protect" -> "FR_WRITE_PROTECTED"
      [] OTHER -> "FR_DISK_ERR"               \* its size cannot be read

f_fdisk(d, plst, fail) ==
    IF d.status # "ok" THEN [res |-> StatusError(d), writes |-> <<>>]
    ELSE Done(create_partition(d.sectors, plst, 7), fail)

-----------------------------------------------------------------------------
(* f_mkfs: options.  opt: [fmt, a subset of {FM_FAT, FM_FAT32, FM_EXFAT},  *)
(* sfd, n_fat, align, n_root, au], au in sectors.                          *)

Block(d, opt) ==
    LET b == IF opt.align = 0 THEN d.block ELSE opt.align
    IN IF b = 0 \/ b > 32768 \/ ~IsPowerOf2(b) THEN 1 ELSE b
Fats(opt) == IF opt.n_fat \in {1, 2} THEN opt.n_fat ELSE 1
RootEntries(opt) ==
    IF opt.n_root \in 1..32768 /\ opt.n_root % (SectorSize \div 32) = 0 THEN opt.n_root ELSE 512
Unit(opt) == IF opt.au * SectorSize <= 16777216 /\ IsPowerOf2(opt.au) THEN opt.au ELSE 0

(* Where the volume lies: in an existing partition or on the whole drive,  *)
(* of which a partition table takes its part.                              *)
Aborted == [res |-> "FR_MKFS_ABORTED"]
At(b_vol, sz_vol, gpt) == [res |-> "FR_OK", b_vol |-> b_vol, sz_vol |-> sz_vol, gpt |-> gpt]

test_gpt_header(h) == h.kind = "gpt" /\ h.size = SZ_GPTE /\ h.items <= 128
IsGpt(mbr) == FF_LBA64 /\ mbr.table # <<>> /\ mbr.table[1].sys = 238

ExistingPartition(disk, ipart) ==
    LET mbr == Holds(disk, 0)
        header == Holds(disk, 1)
        list == Holds(disk, header.table).list
    IN IF mbr.kind # "mbr" THEN Aborted
       ELSE IF IsGpt(mbr)
       THEN IF test_gpt_header(header) /\ ipart \in DOMAIN list
            THEN At(list[ipart].fst, list[ipart].lst - list[ipart].fst + 1, TRUE)
            ELSE Aborted
       ELSE IF ipart \in DOMAIN mbr.table /\ mbr.table[ipart].sys # 0
            THEN At(mbr.table[ipart].st, mbr.table[ipart].siz, FALSE)
            ELSE Aborted

WholeDrive(sz, sfd) ==
    IF sfd THEN At(0, sz, FALSE)
    ELSE IF FF_LBA64 /\ sz >= FF_MIN_GPT
    THEN LET b == GPT_ALIGN \div SectorSize IN At(b, sz - (b + PTBL + 1), TRUE)
    ELSE IF sz > N_SEC_TRACK THEN At(N_SEC_TRACK, sz - N_SEC_TRACK, FALSE)
    ELSE At(0, sz, FALSE)

Located(d, opt, ipart) ==
    LET l == IF ipart # 0 THEN ExistingPartition(d.disk, ipart)
             ELSE IF d.status # "ok" THEN [res |-> StatusError(d)]   \* its size is asked for here
             ELSE WholeDrive(d.sectors, opt.sfd)
    IN IF l.res = "FR_OK" /\ l.sz_vol < 128 THEN Aborted ELSE l

(* The type to try first; "" when the options leave none.                  *)
FirstType(fmt, sz_vol, au) ==
    CASE FF_FS_EXFAT /\ "EXFAT" \in fmt
         /\ (fmt = {"EXFAT"} \/ sz_vol >= 67108864 \/ au > 128) -> "EXFAT"
      [] OTHER -> IF "FAT" \in fmt THEN "FAT16" ELSE IF "FAT32" \in fmt THEN "FAT32" ELSE ""

-----------------------------------------------------------------------------
(* FAT volumes: one attempt to share out the sectors of volume l.          *)

cst == <<1, 4, 16, 64, 256, 512>>       \* of 4Ks
cst32 == <<1, 2, 4, 8, 16, 32>>         \* of 128Ks
Auto(bounds, n) == LET beyond(b) == b > n
                       k == SelectInSeq(bounds, beyond)
                   IN 2 ^ (IF k = 0 THEN Len(bounds) ELSE k - 1)

Sectors(bytes) == (bytes + SectorSize - 1) \div SectorSize

(* Before any alignment: guess clusters of pau sectors, FATs for so many.  *)
Areas(opt, type, pau, guess) ==
    [fsty |-> type, csize |-> pau, guess |-> guess, n_fats |-> Fats(opt),
     fsize |-> Sectors(CASE type = "FAT32" -> DW(guess * 4 + 8)
                         [] type = "FAT16" -> guess * 2 + 4
                         [] OTHER -> (guess * 3 + 1) \div 2 + 3),
     rsv |-> IF type = "FAT32" THEN 32 ELSE 1,
     n_root |-> IF type = "FAT32" THEN 0 ELSE RootEntries(opt)]
SzDir(a) == (a.n_root * 32) \div SectorSize
Data(l, a) == LBA(l.b_vol + a.rsv + a.fsize * a.n_fats + SzDir(a))

(* The data area is moved by gap to the next erase block: by reserved      *)
(* sectors on FAT32, by larger FATs otherwise.                             *)
Gap(b_data, blk) == DW(LBA(b_data + blk - 1) - (LBA(b_data + blk - 1) % blk) - b_data)
Moved_Whole(a, gap) ==
    IF a.fsty = "FAT32" THEN [a EXCEPT !.rsv = @ + gap]
    ELSE [a EXCEPT !.fsize = @ + gap \div a.n_fats]
Moved(a, gap) ==
    LET odd == IF gap % a.n_fats # 0 THEN 1 ELSE 0
    IN IF a.fsty = "FAT32" THEN [a EXCEPT !.rsv = @ + gap]
       ELSE [a EXCEPT !.fsize = @ + (gap - odd) \div a.n_fats, !.rsv = @ + odd]
Counted(l, a) ==
    a @@ [b_fat |-> LBA(l.b_vol + a.rsv),
          clusters |-> DW(l.sz_vol - a.rsv - a.fsize * a.n_fats - SzDir(a)) \div a.csize]

(* One attempt to share out the sectors of volume l.                       *)
TooSmall(l, a) == l.sz_vol < LBA(Data(l, a) + a.csize * 16 - l.b_vol)
Hopeless(l, a) == \/ a.fsty = "FAT32" /\ (a.guess <= MAX_FAT16 \/ a.guess > MAX_FAT32)
                  \/ TooSmall(l, a)
Attempt(l, opt, blk, fsty, au) ==
    LET pau == IF au # 0 THEN au
               ELSE IF fsty = "FAT32" THEN Auto(cst32, l.sz_vol \div 131072)
               ELSE Auto(cst, l.sz_vol \div 4096)
        guessed(u, guess) ==
            Areas(opt, IF fsty # "FAT32" /\ guess <= MAX_FAT12 THEN "FAT12" ELSE fsty, u, guess)
        unit(u) == guessed(u, l.sz_vol \div u)
        placed(a) == Counted(l, Moved(a, Gap(Data(l, a), blk))) @@ [hopeless |-> Hopeless(l, a)]
    IN placed(unit(pau))

(* The attempts, with other cluster sizes and types, until one suits.      *)
RECURSIVE Geometry(_, _, _, _, _)
Geometry(l, opt, blk, fsty, au) ==
    LET again(type, unit) == Geometry(l, opt, blk, type, unit)
        larger(a) == IF au = 0 /\ a.csize * 2 <= 128 THEN again("FAT16", a.csize * 2) ELSE Aborted
        judged(a) ==
            CASE a.hopeless -> Aborted
              [] a.fsty = "FAT32" /\ a.clusters <= MAX_FAT16 ->
                   IF au = 0 /\ a.csize > 1 THEN again("FAT32", a.csize \div 2) ELSE Aborted
              [] a.fsty = "FAT16" /\ a.clusters > MAX_FAT16 ->
                   IF au = 0 /\ a.csize * 2 <= 64 THEN again("FAT16", a.csize * 2)
                   ELSE IF "FAT32" \in opt.fmt THEN again("FAT32", au) ELSE larger(a)
              [] a.fsty = "FAT16" /\ a.clusters <= MAX_FAT12 -> larger(a)
              [] a.fsty = "FAT12" /\ a.clusters > MAX_FAT12 -> Aborted
              [] OTHER -> a @@ [res |-> "FR_OK"]
    IN judged(Attempt(l, opt, blk, fsty, au))

FatWrites(l, g) ==
    LET fat32 == g.fsty = "FAT32"
        boot == [kind |-> "boot", jump |-> TRUE, sign |-> TRUE, tag |-> fat32,
                 bps |-> SectorSize, spc |-> g.csize, rsvd |-> g.rsv, nfats |-> g.n_fats,
                 root |-> g.n_root,
                 tot16 |-> IF l.sz_vol < MinTot32 THEN l.sz_vol ELSE 0,
                 tot32 |-> IF l.sz_vol < MinTot32 THEN 0 ELSE l.sz_vol,
                 fsz16 |-> IF fat32 THEN 0 ELSE g.fsize, fsz32 |-> IF fat32 THEN g.fsize ELSE 0,
                 ver |-> 0, clus |-> IF fat32 THEN 2 ELSE 0, fsi |-> fat32]
        info == [kind |-> "fsinfo", free |-> g.clusters - 1, next |-> 2]
        fat(i) == Write(LBA(g.b_fat + (i - 1) * g.fsize), g.fsize,
                        [kind |-> "fat", type |-> g.fsty, root |-> fat32])
        root == LBA(g.b_fat + g.n_fats * g.fsize)
    IN <<Write(l.b_vol, 1, boot)>>
       \o (IF fat32 THEN <<Write(l.b_vol + 6, 1, [boot EXCEPT !.kind = "backup"]),
                           Write(l.b_vol + 7, 1, info), Write(l.b_vol + 1, 1, info)>>
           ELSE <<>>)
       \o [i \in 1 .. g.n_fats |-> fat(i)]
       \o <<Write(root, IF fat32 THEN g.csize ELSE SzDir(g), [kind |-> "empty"])>>

-----------------------------------------------------------------------------
(* exFAT volumes.                                                          *)

ExCounted(l, a) ==
    LET room == LBA(a.b_data - l.b_vol)
    IN a @@ [room |-> room, clusters |-> DW(l.sz_vol - room) \div a.csize]
ExPlaced(l, blk, a) ==
    LET up == LBA(a.b_fat + a.fsize + blk - 1)
    IN ExCounted(l, a @@ [b_data |-> up - (up % blk)])
ExGeometry(l, blk, au) ==
    LET pau == IF au # 0 THEN au
               ELSE IF l.sz_vol >= 67108864 THEN 256 ELSE IF l.sz_vol >= 524288 THEN 64 ELSE 8
        sized(u) == [fsty |-> "EXFAT", csize |-> u, n_fats |-> 1, b_fat |-> LBA(l.b_vol + 32),
                     fsize |-> DW((l.sz_vol \div u + 2) * 4 + SectorSize - 1) \div SectorSize]
        clen(a, bytes) == (bytes + a.csize * SectorSize - 1) \div (a.csize * SectorSize)
        judged(a) ==
            IF a.room >= l.sz_vol \div 2 \/ a.clusters < 16 \/ a.clusters > MAX_EXFAT THEN Aborted
            ELSE a @@ [res |-> "FR_OK",
                       clen |-> <<clen(a, (a.clusters + 7) \div 8), clen(a, SzUpcase), 1>>]
    IN IF l.sz_vol < 4096 THEN Aborted ELSE judged(ExPlaced(l, blk, sized(pau)))

(* The up-case table is written first, behind the clusters of the bitmap;  *)
(* the FAT holds the chains of bitmap, table and root, one after another;  *)
(* the boot region, of twelve sectors, is written twice.                   *)
ExWrites(l, g) ==
    LET used == g.clen[1] + g.clen[2] + g.clen[3]
        sect(before) == LBA(g.b_data + g.csize * before)
        boot == [kind |-> "exboot", tot |-> l.sz_vol, fatofs |-> g.b_fat - l.b_vol,
                 fatsz |-> g.fsize, dataofs |-> g.b_data - l.b_vol, nclus |-> g.clusters,
                 root |-> 2 + g.clen[1] + g.clen[2], bps |-> SectorSize, spc |-> g.csize,
                 nfats |-> 1, ver |-> 256]
        region(b) == <<Write(b, 1, boot), Write(b + 1, 8, [kind |-> "exboot+"]),
                       Write(b + 9, 2, [kind |-> "oem"]), Write(b + 11, 1, [kind |-> "sum"])>>
    IN <<Write(sect(g.clen[1]), Sectors(SzUpcase), [kind |-> "upcase"]),
         Write(g.b_data, Sectors((g.clusters + 7) \div 8), [kind |-> "bitmap", used |-> used]),
         Write(g.b_fat, g.fsize, [kind |-> "exfat", chains |-> g.clen]),
         Write(sect(g.clen[1] + g.clen[2]), g.csize,
               [kind |-> "exroot", bitmap |-> 2, upcase |-> 2 + g.clen[1]])>>
       \o region(l.b_vol) \o region(l.b_vol + 12)

-----------------------------------------------------------------------------
(* f_mkfs: the result, the writes, and where the volume is and its layout. *)

SystemId(g, sz_vol) ==
    CASE g.fsty = "EXFAT" -> 7
      [] g.fsty = "FAT32" -> 12
      [] OTHER -> IF sz_vol >= 65536 THEN 6 ELSE IF g.fsty = "FAT16" THEN 4 ELSE 1

Shared(l, opt, blk) ==
    LET au == Unit(opt)
        type == FirstType(opt.fmt, l.sz_vol, au)
    IN IF type = "EXFAT" THEN ExGeometry(l, blk, au)
       ELSE IF l.sz_vol >= Word32 THEN Aborted
       ELSE IF type = "" THEN [res |-> "FR_INVALID_PARAMETER"]
       ELSE Geometry(l, opt, blk, type, Least(au, 128))

(* The partition table comes last: the type of the partition in the table  *)
(* there is, or a table with the volume as its only partition.             *)
TableWrites(d, l, g, opt, ipart) ==
    LET sys == SystemId(g, l.sz_vol)
        mbr == Holds(d.disk, 0)
    IN IF ipart # 0
       THEN IF l.gpt THEN <<>> ELSE <<Write(0, 1, [mbr EXCEPT !.table[ipart].sys = sys])>>
       ELSE IF opt.sfd THEN <<>> ELSE create_partition(d.sectors, <<l.sz_vol>>, sys)

f_mkfs(d, opt, ipart, len, fail) ==
    LET error(res) == [res |-> res, writes |-> <<>>]
        body(l, g) == IF g.fsty = "EXFAT" THEN ExWrites(l, g) ELSE FatWrites(l, g)
        with(l, g) ==
            IF g.res # "FR_OK" THEN error(g.res)
            ELSE Synced(body(l, g) \o TableWrites(d, l, g, opt, ipart), fail) @@ [l |-> l, g |-> g]
        on(l) == IF l.res # "FR_OK" THEN error(l.res) ELSE with(l, Shared(l, opt, Block(d, opt)))
    IN IF d.status \in {"noinit", "protect"} THEN error(StatusError(d))
       ELSE IF len < SectorSize THEN error("FR_NOT_ENOUGH_CORE")
       ELSE on(Located(d, opt, ipart))

-----------------------------------------------------------------------------
(* Reading it back: find_volume and mount_volume.                          *)

Boot(disk, s) ==
    LET b == Holds(disk, s)
        i == Holds(disk, s + 1)
        info == IF i.kind = "fsinfo" THEN [good |-> TRUE, free |-> i.free, next |-> i.next]
                ELSE [good |-> FALSE, free |-> 0, next |-> 0]
    IN b @@ info

(* 1 exFAT; the rest as check_fs of Volume.                                *)
check_fs(disk, s) ==
    LET h == Holds(disk, s)
    IN CASE h.kind = "exboot" -> IF FF_FS_EXFAT THEN 1 ELSE 2
         [] h.kind \in {"boot", "backup"} -> V!check_fs(Boot(disk, s))
         [] h.kind \in {"mbr", "fsinfo", "exboot+"} -> 2
         [] OTHER -> 3

(* part: the partition that must hold the volume, 0 for any.               *)
Partition(disk, i) ==
    LET mbr == Holds(disk, 0)
        list == Holds(disk, Holds(disk, 1).table).list
    IN IF IsGpt(mbr) THEN IF i \in DOMAIN list THEN list[i].fst ELSE 0
       ELSE IF i \in DOMAIN mbr.table THEN mbr.table[i].st ELSE 0
StartingAt(disk, s) == [fmt |-> IF s = 0 THEN 3 ELSE check_fs(disk, s), sect |-> s]
InPartition(disk, i) == StartingAt(disk, Partition(disk, i))

Nowhere == [fmt |-> 3, sect |-> 0]
FirstOf(fats, disk) == IF fats = {} THEN Nowhere ELSE InPartition(disk, Min(fats))
find_volume(disk, part) ==
    LET items == 1 .. (IF IsGpt(Holds(disk, 0)) THEN GPT_ITEMS ELSE 4)
        Searched(f, mbr) ==
            IF f # 2 /\ (f >= 3 \/ part = 0) THEN [fmt |-> f, sect |-> 0]
            ELSE IF mbr.kind # "mbr" THEN Nowhere                        \* no table in a VBR
            ELSE IF IsGpt(mbr) /\ ~test_gpt_header(Holds(disk, 1)) THEN Nowhere
            ELSE IF part # 0 THEN InPartition(disk, part)
            ELSE FirstOf({i \in items : InPartition(disk, i).fmt < 2}, disk)
    IN Searched(check_fs(disk, 0), Holds(disk, 0))

(* The exFAT part of mount_volume: the boot record, the bitmap in the      *)
(* first cluster of the root, which must lie in one piece.                 *)
FS_EXFAT == 64          \* as the bits of an entry are for FAT types
ExLayout(disk, s) ==
    LET b == Holds(disk, s)
        database == LBA(s + b.dataofs)
    IN [fs_type |-> FS_EXFAT, n_fats |-> b.nfats, fsize |-> b.fatsz, csize |-> b.spc,
        n_rootdir |-> 0, n_fatent |-> b.nclus + 2, volbase |-> s, fatbase |-> LBA(s + b.fatofs),
        dirbase |-> b.root, database |-> database]
Cluster(g, c) == g.database + g.csize * (c - 2)
ExAccepted(disk, s) ==
    LET b == Holds(disk, s)
        g == ExLayout(disk, s)
        root == Holds(disk, Cluster(g, b.root))
        fat == Holds(disk, g.fatbase)
    IN /\ b.ver = 256 /\ b.bps = SectorSize /\ b.nfats = 1 /\ b.spc # 0
       /\ FF_LBA64 \/ b.tot + s < Word32
       /\ b.nclus <= MAX_EXFAT
       /\ b.tot + s >= g.database + DW(b.nclus * b.spc)
       /\ root.kind = "exroot" /\ root.bitmap \in 2 .. b.nclus + 1
       /\ fat.kind = "exfat" /\ root.bitmap = 2 /\ fat.chains[1] > 0

(* The layout of the volume that is mounted, or none.                      *)
NoVolume == [fs_type |-> 0]
Mounted(disk, f) ==
    CASE f.fmt = 1 -> IF ExAccepted(disk, f.sect) THEN ExLayout(disk, f.sect) ELSE NoVolume
      [] f.fmt = 0 -> IF V!Accepted(Boot(disk, f.sect)) THEN V!Layout(Boot(disk, f.sect), f.sect)
                      ELSE NoVolume
      [] OTHER -> NoVolume
mount_volume(disk, part) == Mounted(disk, find_volume(disk, part))
=============================================================================
