------------------------------- MODULE Formatting -------------------------------
(***************************************************************************)
(* What f_mkfs and f_fdisk promise.  "format": [scale, sectors, block,     *)
(* status, steps], a drive and the calls that are made for it, one after   *)
(* another.  scale gives the widths and limits (see Format); a step is     *)
(* [op |-> "fdisk", plst, fail] or [op |-> "mkfs", opt, ipart, len, fail]. *)
(***************************************************************************)
EXTENDS Questions, CodePages, FiniteSetsExt

CONSTANT UpcaseBytes    \* the size of UpcaseTable

F == INSTANCE Format WITH
        SectorSize <- Q.scale.ss, Word32 <- Q.scale.word, MAX_FAT12 <- Q.scale.fat12,
        MAX_FAT16 <- Q.scale.fat16, MAX_FAT32 <- Q.scale.fat32, MinTot16 <- 128,
        MinTot32 <- 65536, MAX_EXFAT <- Q.scale.word \div 2 - 3, FF_LBA64 <- Q.scale.lba64,
        FF_FS_EXFAT <- Q.scale.exfat, FF_MIN_GPT <- Q.scale.minGpt, SzUpcase <- UpcaseBytes

FormatSpec == NotAsked /\ [][AskSome]_asked

-----------------------------------------------------------------------------
(* The calls.  made: the results of the calls of f_mkfs whose volumes      *)
(* should still be there, by the partition they were made for.             *)
Drive(disk) == [sectors |-> Q.sectors, block |-> Q.block, status |-> Q.status, disk |-> disk]
Call(disk, c) == IF c.op = "fdisk" THEN F!f_fdisk(Drive(disk), c.plst, c.fail)
                 ELSE F!f_mkfs(Drive(disk), c.opt, c.ipart, c.len, c.fail)
Without(made, p) == [i \in DOMAIN made \ {p} |-> made[i]]
Made(made, c, r) ==
    IF r.writes = <<>> THEN made
    ELSE IF c.op = "fdisk" \/ c.ipart = 0
         THEN IF c.op = "mkfs" /\ r.res = "FR_OK" THEN [i \in {0} |-> r] ELSE <<>>
         ELSE LET others == Without(Without(made, 0), c.ipart)
              IN IF r.res = "FR_OK"
                 THEN [i \in DOMAIN others \cup {c.ipart} |-> IF i = c.ipart THEN r ELSE others[i]]
                 ELSE others
After(k) ==
    LET with(st, c, r) == [disk |-> st.disk \o r.writes, made |-> Made(st.made, c, r)]
        step(st, c) == with(st, c, Call(st.disk, c))
    IN FoldLeft(step, [disk |-> <<>>, made |-> <<>>], SubSeq(Q.steps, 1, k))
End == After(Len(Q.steps))

-----------------------------------------------------------------------------

TypeNumber(type) == CASE type = "FAT12" -> 12 [] type = "FAT16" -> 16
                      [] type = "FAT32" -> 32 [] type = "EXFAT" -> F!FS_EXFAT
Kind(disk, s) == F!Holds(disk, s).kind

(* mount_volume sees the volume that f_mkfs meant.                         *)
SeenAsMeant(disk, m, r) ==
    /\ m.fs_type = TypeNumber(r.g.fsty)
    /\ m.volbase = r.l.b_vol /\ m.fatbase = r.g.b_fat
    /\ m.csize = r.g.csize /\ m.n_fats = r.g.n_fats /\ m.n_fatent = r.g.clusters + 2
    /\ m.database + m.csize * r.g.clusters <= r.l.b_vol + r.l.sz_vol

(* Its FATs and its root are those that were written, empty but for what   *)
(* the system holds, and FSINFO counts their free clusters: unless writing *)
(* it failed, which f_mkfs does not look at.                               *)
EmptyFat(disk, m, r) ==
    LET root == IF m.fs_type = 32 THEN m.database ELSE m.dirbase
        size == IF m.fs_type = 32 THEN m.csize ELSE m.n_rootdir \div (Q.scale.ss \div 32)
        info == F!Holds(disk, m.volbase + 1)
    IN /\ F!V!SoundLayout(m, r.l.sz_vol)
       /\ \A i \in 1..m.n_fats : LET f == F!Holds(disk, m.fatbase + i * m.fsize - 1)
                                 IN f.kind = "fat" /\ f.type = r.g.fsty
       /\ Kind(disk, m.fatbase) = "fat"
       /\ Kind(disk, root) = "empty" /\ Kind(disk, root + size - 1) = "empty"
       /\ info.kind = "fsinfo" /\ ~r.lost => info.free = r.g.clusters - 1
EmptyEx(disk, m, r) ==
    LET root == F!Holds(disk, F!Cluster(m, m.dirbase))
        fat == F!Holds(disk, m.fatbase)
        bitmap == F!Holds(disk, F!Cluster(m, root.bitmap))
    IN /\ m.fatbase + m.fsize <= m.database
       /\ m.n_fatent * 4 <= m.fsize * Q.scale.ss
       /\ Kind(disk, F!Cluster(m, root.upcase)) = "upcase"
       /\ bitmap.kind = "bitmap" /\ bitmap.used = m.dirbase - 1
       /\ FoldLeft(LAMBDA a, b : a + b, 0, fat.chains) = bitmap.used
       /\ bitmap.used <= r.g.clusters
       /\ r.g.clusters <= 8 * m.csize * Q.scale.ss * (root.upcase - root.bitmap)
       /\ r.l.b_vol + r.l.sz_vol - (m.database + m.csize * r.g.clusters) < m.csize

(* A volume of so many sectors or clusters outgrows the DWORDs in which    *)
(* f_mkfs reckons an exFAT volume.                                         *)
Outgrown(r) == r.g.fsty = "EXFAT" /\ \/ r.l.sz_vol >= Q.scale.word
                                     \/ (r.g.clusters + 4) * 4 + Q.scale.ss >= Q.scale.word

(* "upcase": [].  The up-case table expanded as an exFAT driver does:      *)
(* 0xFFFF and a number skip so many characters.                            *)
Read(st, ch) ==
    IF st.skip THEN [uc |-> st.uc + ch, skip |-> FALSE,
                     ok |-> \A c \in st.uc .. st.uc + ch - 1 : f_wtoupper(c) = c]
    ELSE IF ch = 65535 THEN [st EXCEPT !.skip = TRUE]
    ELSE [uc |-> st.uc + 1, skip |-> FALSE, ok |-> f_wtoupper(st.uc) = ch]
RECURSIVE ReadAll(_, _, _, _)
ReadAll(table, i, j, st) ==
    LET middle == (i + j) \div 2
    IN IF ~st.ok THEN st
       ELSE IF i = j THEN Read(st, table[i])
       ELSE ReadAll(table, middle + 1, j, ReadAll(table, i, middle, st))
UpcaseExpands ==
    Asks("upcase") => LET table == UpcaseTable
                      IN /\ ReadAll(table, 1, Len(table), [uc |-> 0, skip |-> FALSE, ok |-> TRUE])
                              = [uc |-> 65536, skip |-> FALSE, ok |-> TRUE]
                         /\ 2 * Len(table) = UpcaseBytes

(* The data area starts at an erase block if the volume came last.         *)
InBlocks(p, m) ==
    LET c == Q.steps[Len(Q.steps)]
    IN c.op = "mkfs" /\ c.ipart = p => m.database % F!Block(Drive(<<>>), c.opt) = 0
FoundAs(disk, p, r, m) ==
    /\ SeenAsMeant(disk, m, r)
    /\ IF m.fs_type = F!FS_EXFAT THEN EmptyEx(disk, m, r) ELSE EmptyFat(disk, m, r)
    /\ InBlocks(p, m)

(* A volume that f_mkfs makes is found when it is mounted, as the volume   *)
(* it was meant to be, empty and sound, whatever was on the drive before;  *)
(* and it stays so when other partitions are formatted, or formatting them *)
(* fails.  The table of an exFAT volume gives every upper case.            *)
VolumesFound ==
    /\ UpcaseExpands
    /\ Asks("format") =>
        \A end \in {End} : \A p \in DOMAIN end.made :
           ~Outgrown(end.made[p]) =>
              FoundAs(end.disk, p, end.made[p], F!mount_volume(end.disk, p))

-----------------------------------------------------------------------------

Disjoint(w, x) == w.at + w.n <= x.at \/ x.at + x.n <= w.at

(* The partitions in the table that is on the drive.                       *)
Ends(e) == IF "fst" \in DOMAIN e THEN [at |-> e.fst, n |-> e.lst - e.fst + 1]
           ELSE [at |-> e.st, n |-> e.siz]
Placed(c, heads) == (c.cy * heads + c.hd) * 63 + c.sc - 1
TableIsSound(disk) ==
    LET mbr == F!Holds(disk, 0)
        gpt == F!Holds(disk, 1)
        back == F!Holds(disk, Q.sectors - 1)
        list == IF F!IsGpt(mbr) THEN F!Holds(disk, gpt.table).list ELSE mbr.table
        first == IF F!IsGpt(mbr) THEN gpt.fst ELSE 1
        last == IF F!IsGpt(mbr) THEN gpt.lst ELSE Q.sectors - 1
    IN /\ \A i \in DOMAIN list : Ends(list[i]).n > 0 /\ Ends(list[i]).at >= first
                                 /\ Ends(list[i]).at + Ends(list[i]).n - 1 <= last
       /\ \A i, j \in DOMAIN list : i # j => Disjoint(Ends(list[i]), Ends(list[j]))
       /\ IF F!IsGpt(mbr)
          THEN /\ gpt.kind = "gpt" /\ back.kind = "gpt"
               /\ gpt.bak = Q.sectors - 1 /\ gpt.cur = back.bak /\ back.cur = gpt.bak
               /\ F!Holds(disk, back.table).list = list
               /\ back.table + F!PTBL <= back.cur /\ gpt.table + F!PTBL <= first
          ELSE \A i \in DOMAIN list :
                  LET h == F!Heads(Q.sectors)
                  IN Placed(list[i].from, h) = list[i].st % (1024 * h * 63)

(* The writes of one call: none on top of another, all on the drive, and   *)
(* those of the volume within it.                                          *)
Apart(r, w) ==
    /\ \A i, j \in DOMAIN w : i < j => Disjoint(w[i], w[j])
    /\ \A i \in DOMAIN w : w[i].at >= 0 /\ w[i].at + w[i].n <= Q.sectors
    /\ "l" \in DOMAIN r /\ ~Outgrown(r) =>
          \A i \in DOMAIN w : w[i].what.kind \notin {"mbr", "gpt", "entries"} =>
              r.l.b_vol <= w[i].at /\ w[i].at + w[i].n <= r.l.b_vol + r.l.sz_vol
WritesAreApart(k) ==
    \A r \in {Call(After(k - 1).disk, Q.steps[k])} : Apart(r, r.writes)

(* Partitions lie within the drive, behind its table and apart from each   *)
(* other, their addresses agree, and both copies of a GPT; a call writes   *)
(* no sector twice and formatting none outside the volume but the table.   *)
PartitionsApart ==
    Asks("format") =>
        /\ \A disk \in {End.disk} : Kind(disk, 0) = "mbr" => TableIsSound(disk)
        /\ \A k \in DOMAIN Q.steps : WritesAreApart(k)
=============================================================================
