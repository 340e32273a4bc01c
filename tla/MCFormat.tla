-------------------------------- MODULE MCFormat --------------------------------
(***************************************************************************)
(* Drives and calls for Formatting.  Real: the limits of the code, but for *)
(* the width of a DWORD.  Small: limits and widths that drives of some     *)
(* hundred sectors reach.                                                  *)
(***************************************************************************)
EXTENDS Formatting

Real == [ss |-> 512, word |-> 2^30, fat12 |-> 4085, fat16 |-> 65525, fat32 |-> 2^27,
         lba64 |-> FALSE, exfat |-> TRUE, minGpt |-> 0]
Small == [Real EXCEPT !.word = 65536, !.fat12 = 40, !.fat16 = 100, !.fat32 = 8000]
Narrow == [Small EXCEPT !.word = 1024, !.fat32 = 110]
Gpt == [Small EXCEPT !.ss = 4096, !.lba64 = TRUE, !.minGpt = 2000]

Types == SUBSET {"FAT", "FAT32", "EXFAT"}
Each == {{"FAT"}, {"FAT32"}, {"EXFAT"}, {"FAT", "FAT32", "EXFAT"}}
Options(fmts, sfds, aligns, roots, aus) ==
    [fmt : fmts, sfd : sfds, n_fat : {1, 2}, align : aligns, n_root : roots, au : aus]
Plain(fmts, sfds) == [fmt : fmts, sfd : sfds, n_fat : {2}, align : {0}, n_root : {0}, au : {0}]
Mkfs(opt, i, fail) ==
    [op |-> "mkfs", opt |-> opt, ipart |-> i, len |-> 4096, fail |-> fail]
Fdisk(plst) == [op |-> "fdisk", plst |-> plst, fail |-> 0]
On(scale, sectors, block, status, steps) ==
    [scale |-> scale, sectors |-> sectors, block |-> block, status |-> status, steps |-> steps]

Once(scale, sectors, opts) ==
    [scale : {scale}, sectors : sectors, block : {0}, status : {"ok"},
     steps : {<<Mkfs(o, 0, 0)>> : o \in opts}]

(* One volume on a whole drive: sizes around those that change its layout. *)
Around(ns) == UNION {{n - 63, n - 1, n, n + 1, n + 62, n + 63, n + 64} : n \in ns}
RealSizes == {191, 200, 2880, 5000, 66000, 70000, 300000, 600000, 16777216}
             \cup Around({2^12, 2^16, 2^17, 2^18, 2^19, 2^21, 2^22})
OnReal == Once(Real, RealSizes, Options(Types, BOOLEAN, {0, 8}, {0, 32}, {0, 1, 64, 256}))
OnSmall == Once(Small, 183..303, Options({{"FAT"}, {"FAT32"}, {"FAT", "FAT32"}}, {FALSE},
                                         {0, 3, 16, 64}, {0, 32}, {0, 1, 2}))

(* What the drive says of itself, and partitions that are not there.       *)
Refused == {On(Small, 300, b, st, <<Mkfs(o, i, 0)>>) : b \in {0, 3, 8}, i \in 0..2,
               st \in {"ok", "noinit", "protect", "nocount"}, o \in Plain({{"FAT"}, {}}, BOOLEAN)}

(* Partitions, by percentage and by size, to the end of the drive and of a *)
(* DWORD, formatted one after the other; a write may fail.                 *)
Sizes == {0, 1, 30, 50, 100, 101, 130, 400, 960, 1023}
InMbr == {On(Narrow, n, 0, "ok", <<Fdisk(<<a, b, c>>), Mkfs(o, 2, 0), Mkfs(p, 1, f)>>) :
             n \in {64, 99, 500, 1000, 1023}, a \in Sizes, b \in Sizes, c \in {0, 40, 1023},
             o \in Plain({{"FAT"}}, {FALSE}), p \in Plain({{"FAT32"}, {"FAT"}}, {FALSE}),
             f \in {0, 2}}
InGpt == {On(Gpt, n, 1, "ok", <<Fdisk(<<a, b, c>>), Mkfs(o, 2, 0), Mkfs(p, 1, f)>>) :
             n \in {1999, 2000, 5000, 16000}, a \in {0, 1, 40, 100, 500, 4100},
             b \in {0, 50, 129, 257, 5000, 70000}, c \in {0, 40, 1023}, f \in {0, 3},
             o \in Plain({{"FAT"}, {"EXFAT"}}, {FALSE}),
             p \in Plain({{"FAT32"}, {"EXFAT"}}, {FALSE})}

(* A drive formatted again.                                                *)
Again == {On(s, n, 0, "ok", <<Mkfs(o, 0, 0), Mkfs(p, 0, f)>>) :
             s \in {Small, Gpt}, n \in {300, 1500, 2400, 10000}, f \in 0..6,
             o \in Plain(Each, BOOLEAN), p \in Plain(Each, BOOLEAN)}

FormatQuestions ==
    [k \in {"format", "upcase"} |->
        IF k = "format" THEN UNION {OnReal, OnSmall, Refused, InMbr, InGpt, Again} ELSE {<<>>}]
=============================================================================
