------------------------------ MODULE MCMount ------------------------------
(***************************************************************************)
(* Media for Mount: boot records with their fields at, below and above the *)
(* values that mount_volume tells apart, alone in sector 0 or behind a     *)
(* partition table.  A medium is named by what is written on it.           *)
(***************************************************************************)
EXTENDS Mount, Sequences, TLC

Base == [jump |-> TRUE, sign |-> TRUE, tag |-> TRUE, bps |-> SectorSize, spc |-> 1,
         rsvd |-> 1, nfats |-> 2, root |-> 2, tot16 |-> 0, tot32 |-> 10,
         fsz16 |-> 1, fsz32 |-> 0, ver |-> 0, clus |-> 2,
         fsi |-> FALSE, good |-> FALSE, free |-> 3, next |-> 2]

(* FAT12 and FAT16: FATs, sectors per cluster, reserved, root, total, FAT. *)
Small == {1, 2} \X {1, 2} \X {1, 2} \X {2} \X {7, 46, 47, 48, 52} \X {1, 2, 256}
SmallBoot(x) ==
    [Base EXCEPT !.nfats = x[1], !.spc = x[2], !.rsvd = x[3], !.root = x[4],
                 !.tot32 = x[5], !.fsz16 = x[6]]

(* FAT32: no FSINFO, a bad one or a good one; FAT, version.                *)
Large == (0 .. 2) \X {3, 4} \X {0, 1}
LargeBoot(x) ==
    [Base EXCEPT !.root = 0, !.rsvd = 2, !.fsi = (x[1] > 0), !.good = (x[1] = 2),
                 !.tot32 = 56, !.fsz16 = 0, !.fsz32 = x[2], !.ver = x[3]]

(* Without the tag: signature, root, total, 16 bits or 32.                 *)
Old == {0, 1} \X {0, 2} \X {0, 7} \X {10, 20}
OldBoot(x) ==
    [Base EXCEPT !.tag = FALSE, !.sign = (x[1] = 1), !.root = x[2], !.tot16 = x[3],
                 !.tot32 = x[4]]

Samples ==
    <<Base, [Base EXCEPT !.tot32 = 48], [Base EXCEPT !.jump = FALSE],
      [Base EXCEPT !.tag = FALSE, !.root = 0], [Base EXCEPT !.nfats = 3],
      [Base EXCEPT !.bps = 0], [Base EXCEPT !.spc = 3], [Base EXCEPT !.spc = 0],
      [Base EXCEPT !.rsvd = 0], [Base EXCEPT !.root = 1],
      [Base EXCEPT !.tot32 = 70], [Base EXCEPT !.tot32 = 4], [Base EXCEPT !.fsz16 = 0],
      [Base EXCEPT !.jump = FALSE, !.sign = FALSE]>>
Pairs == (1 .. 5) \X (1 .. 5)

Alone(b) == [boot |-> (0 :> b), table |-> <<0, 0, 0, 0>>]
MCMedia == Small \cup Large \cup Old \cup {<<i>> : i \in DOMAIN Samples} \cup Pairs
MCContents ==
    [x \in MCMedia |->
        CASE Len(x) = 6 -> Alone(SmallBoot(x))
          [] Len(x) = 3 -> Alone(LargeBoot(x))
          [] Len(x) = 4 -> Alone(OldBoot(x))
          [] Len(x) = 1 -> Alone(Samples[x[1]])
          [] Len(x) = 2 -> [boot |-> (0 :> [Base EXCEPT !.jump = FALSE])
                                     @@ (8 :> Samples[x[1]]) @@ (100 :> Samples[x[2]]),
                            table |-> <<0, 8, 100, 0>>]]
MCSpares == {<<1>>, <<3>>, <<2, 1>>}
MCNone == <<>>

(* While no call can go on with the mounted volume its layout is not read. *)
View == <<FatFs, Fsid, obj, drive, missed,
          IF FatFs # Null /\ Mounted(FatFs, fs) THEN fs ELSE [f \in Fs |-> fs[f].fs_type # 0]>>
=============================================================================
