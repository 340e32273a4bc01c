------------------------------- MODULE FileIO -------------------------------
(***************************************************************************)
(* Open files: f_open, f_read, f_forward, f_write, f_lseek, f_truncate,    *)
(* f_sync and f_close over the FAT, the data area and the directory        *)
(* entries of a volume whose disk may fail any transfer.                   *)
(*                                                                         *)
(* A FIL keeps a position, the cluster of that position, and one sector    *)
(* buffer (FF_FS_TINY is 0) that may be newer than the disk; transfers of  *)
(* whole sectors go past the buffer.  f_read, f_write and f_lseek are a    *)
(* step per turn of their loop.  The driver runs one call at a time.       *)
(*                                                                         *)
(* A byte is <<f, i>>, "what byte i of file f should now be", or Old,      *)
(* anything else: a write or a truncation turns every other copy of the    *)
(* bytes it replaces Old.  create_chain and remove_chain are sets of       *)
(* outcomes here; module FatChain has them in full.                        *)
(***************************************************************************)
EXTENDS Integers, Sequences, FiniteSets, Linked

CONSTANTS File,       \* files of the volume, each with a directory entry
          Cluster,    \* clusters of the volume
          SS,         \* bytes of a sector
          CSize,      \* sectors of a cluster (FATFS.csize)
          MaxSize,    \* bound: offsets reached by writing and seeking
          None, EOC,  \* the cluster number 0 (no cluster, free) and end of chain
          Old         \* a byte that is not what any file should hold

ASSUME GeometryAssumption ==
    /\ SS \in Nat \ {0} /\ CSize \in Nat \ {0} /\ MaxSize \in Nat
    /\ None \notin Cluster /\ EOC \notin Cluster /\ None # EOC
    /\ None \notin Cluster \X (0 .. CSize - 1)     \* nor is it a sector
    /\ IsFiniteSet(Cluster)

VARIABLES disk,    \* data area
          fat,     \* as get_fat reads it
          entry,   \* directory entries, as the access window shows them
          cached,  \* an entry was edited and the window not written back since
          fil,     \* file objects
          call,    \* f_read, f_forward, f_write or f_lseek under way
          undef,   \* ghost: offsets that no completed call gave a value
          misread, \* ghost: f_read or f_forward delivered something else than the bytes
          stray    \* ghost: f_sync wrote a sector its file does not own

vars == <<disk, fat, entry, cached, fil, call, undef, misread, stray>>

BCS == CSize * SS                       \* bytes of a cluster
Sector == Cluster \X (0 .. CSize - 1)
Offset == 0 .. MaxSize - 1
Byte == (File \X Offset) \cup {Old}
Content == [0 .. SS - 1 -> Byte]
All(x) == [b \in 0 .. SS - 1 |-> x]
Value == Cluster \cup {None, EOC}       \* of a FAT entry

NoCall == [op |-> "none", f |-> None, left |-> 0]
Closed == [open |-> FALSE, wr |-> FALSE, fptr |-> 0, objsize |-> 0,
           sclust |-> None, clust |-> None, sect |-> None, buf |-> None,
           dirty |-> FALSE, mod |-> FALSE, err |-> "none"]

(* The clusters of the chain that starts at c.                             *)
Chain(c, t) == Follow(c, t, Cluster)
Reached(c, t) == {Chain(c, t)[i] : i \in DOMAIN Chain(c, t)}

(* The sector of the data area that holds byte i of a chain, and the byte. *)
SectorAt(ch, i) == <<ch[i \div BCS + 1], (i % BCS) \div SS>>
ByteAt(d, ch, i) == d[SectorAt(ch, i)][i % SS]

SectorOf(r) == <<r.clust, (r.fptr % BCS) \div SS>>  \* clst2sect(clust) + csect

Init ==
    /\ disk = [s \in Sector |-> All(Old)]
    /\ fat = [c \in Cluster |-> None]
    /\ entry = [f \in File |-> [sclust |-> None, size |-> 0]]
    /\ cached = FALSE
    /\ fil = [f \in File |-> Closed]
    /\ call = NoCall
    /\ undef = [f \in File |-> {}]
    /\ misread = FALSE
    /\ stray = FALSE

-----------------------------------------------------------------------------
(* The FAT: what create_chain, get_fat and remove_chain may come to.       *)

Outcome(res, c, t) == [res |-> res, clst |-> c, fat |-> t]
FreeClusters == {c \in Cluster : fat[c] = None}

(* The volume may look full before it is: FSINFO may count too few.        *)
create_chain(c) ==
    IF c # None /\ fat[c] = None THEN {Outcome("int", None, fat)}
    ELSE IF c # None /\ fat[c] # EOC
    THEN {Outcome("ok", fat[c], fat), Outcome("disk", None, fat)}
    ELSE {Outcome("full", None, fat), Outcome("disk", None, fat)}
         \cup {Outcome("ok", n, IF c = None THEN [fat EXCEPT ![n] = EOC]
                                ELSE [fat EXCEPT ![n] = EOC, ![c] = n]) : n \in FreeClusters}
         \cup {Outcome("disk", None, [fat EXCEPT ![n] = EOC]) : n \in
                   IF c = None THEN {} ELSE FreeClusters}    \* not linked

get_fat(c) ==
    {Outcome(IF fat[c] \in Cluster THEN "ok" ELSE "int", fat[c], fat),
     Outcome("disk", None, fat)}

(* The first k clusters of the chain are freed, its rest is not.           *)
remove_chain(c, pclst) ==
    LET ch == Chain(c, fat)
        Cut == IF pclst = None THEN fat ELSE [fat EXCEPT ![pclst] = EOC]
        Upto(k) == [x \in Cluster |->
                      IF x \in {ch[i] : i \in 1 .. k} THEN None ELSE Cut[x]]
    IN IF c = None THEN {Outcome("int", None, fat)}
       ELSE {Outcome("ok", None, Upto(Len(ch))), Outcome("disk", None, fat)}
            \cup {Outcome("disk", None, Upto(k)) : k \in 0 .. Len(ch) - 1}

-----------------------------------------------------------------------------
(* The sector buffer of a file object.                                     *)

Forget(x, f, S) == [b \in 0 .. SS - 1 |-> IF x[b] \in {<<f, i>> : i \in S} THEN Old ELSE x[b]]
ForgetOnDisk(d, f, S) == [s \in Sector |-> Forget(d[s], f, S)]

Moved(res, r, d) == [res |-> res, r |-> r, disk |-> d]

(* Write-back of a dirty buffer; a write that fails may have landed.       *)
Flush_Skipped(r, d) == {Moved("ok", [r EXCEPT !.dirty = FALSE], d)}
Flush(r, d) ==
    LET written == [d EXCEPT ![r.sect] = r.buf]
    IN IF ~r.dirty THEN {Moved("ok", r, d)}
       ELSE {Moved("ok", [r EXCEPT !.dirty = FALSE], written),
             Moved("disk", r, written), Moved("disk", r, d)}

(* Fill the buffer from s.  A read that fails leaves it undefined while    *)
(* sect still names the sector it held.                                    *)
Fill(r, s, d) == {Moved("ok", [r EXCEPT !.buf = d[s], !.sect = s], d),
                  Moved("disk", [r EXCEPT !.buf = All(Old)], d)}

(* Both, unless the buffer has s already.                                  *)
Bring(r, s, d) ==
    IF r.sect = s THEN {Moved("ok", r, d)}
    ELSE UNION {IF m.res = "ok" THEN Fill(m.r, s, m.disk) ELSE {m} : m \in Flush(r, d)}

(* ABORT(fs, res): the file object refuses everything but f_sync and       *)
(* f_close from now on.                                                    *)
Abort(f, r, res, d, t) ==
    /\ fil' = [fil EXCEPT ![f] = [r EXCEPT !.err = res]]
    /\ disk' = d
    /\ fat' = t
    /\ call' = NoCall

Ready(f) == call = NoCall /\ fil[f].open /\ fil[f].err = "none"
Running(op, f) == call.op = op /\ call.f = f
OnSector(r) == r.fptr % SS = 0
OnCluster(r) == r.fptr % BCS = 0
Lesser(a, b) == IF a < b THEN a ELSE b

(* Whole sectors that a transfer of n bytes moves past the buffer: up to   *)
(* the end of the cluster.                                                 *)
Direct(r, n) == Lesser(n \div SS, CSize - SectorOf(r)[2])
DirectSectors(r, n) == {<<r.clust, SectorOf(r)[2] + k>> : k \in 0 .. Direct(r, n) - 1}

-----------------------------------------------------------------------------
(* f_open                                                                  *)

Opened(f, w) == [Closed EXCEPT !.open = TRUE, !.wr = w, !.buf = All(Old),
                               !.sclust = entry[f].sclust, !.objsize = entry[f].size]

f_open(f, w) ==
    /\ call = NoCall /\ ~fil[f].open
    /\ fil' = [fil EXCEPT ![f] = Opened(f, w)]
    /\ UNCHANGED <<disk, fat, entry, cached, call, undef, misread, stray>>

(* FA_OPEN_APPEND: the position is at the end and the buffer filled if     *)
(* that is inside a sector; when a read fails the file stays closed.       *)
f_open_append(f) ==
    LET r == Opened(f, TRUE)
        ch == Chain(r.sclust, fat)
        end == [r EXCEPT !.fptr = r.objsize, !.clust = ch[(r.objsize - 1) \div BCS + 1]]
    IN /\ call = NoCall /\ ~fil[f].open
       /\ r.objsize > 0
       /\ fil' = [fil EXCEPT ![f] =
                    IF OnSector(end) THEN end
                    ELSE [end EXCEPT !.sect = SectorOf(end), !.buf = disk[SectorOf(end)]]]
       /\ UNCHANGED <<disk, fat, entry, cached, call, undef, misread, stray>>

(* FA_CREATE_ALWAYS on an existing file: its entry is emptied in the       *)
(* window, its chain removed, and the window moved back to the entry.      *)
(* With any of these failing the file stays closed, and empty.             *)
f_open_overwrite(f) ==
    LET cl == entry[f].sclust
        emptied == [Closed EXCEPT !.open = TRUE, !.wr = TRUE, !.mod = TRUE, !.buf = All(Old)]
    IN /\ call = NoCall /\ ~fil[f].open
       /\ entry' = [entry EXCEPT ![f] = [sclust |-> None, size |-> 0]]
       /\ \E o \in IF cl = None THEN {Outcome("ok", None, fat)} ELSE remove_chain(cl, None) :
            /\ fat' = o.fat
            /\ \/ o.res = "ok" /\ fil' = [fil EXCEPT ![f] = emptied]
               \/ cl # None /\ UNCHANGED fil
       /\ cached' \in {cl = None, TRUE}     \* the FAT needed the window
       /\ disk' = ForgetOnDisk(disk, f, Offset)
       /\ undef' = [undef EXCEPT ![f] = {}]
       /\ UNCHANGED <<call, misread, stray>>

-----------------------------------------------------------------------------
(* f_read                                                                  *)

(* btr clipped to what remains of the file.                                *)
Readable(r, n) == Lesser(n, r.objsize - r.fptr)

f_read(f, n) ==
    LET r == fil[f]
    IN /\ Ready(f)
       /\ r.fptr < r.objsize                 \* else there is nothing to do
       /\ call' = [op |-> "read", f |-> f, left |-> Readable(r, n)]
       /\ UNCHANGED <<disk, fat, entry, cached, fil, undef, misread, stray>>

(* What a direct transfer hands over of the byte at i: the dirty buffer    *)
(* stands in for its sector.                                               *)
Delivered_FromDisk(r, i) == disk[<<r.clust, (i % BCS) \div SS>>][i % SS]
Delivered(r, i) ==
    LET s == <<r.clust, (i % BCS) \div SS>>
    IN IF r.dirty /\ r.sect = s THEN r.buf[i % SS] ELSE disk[s][i % SS]

(* n bytes handed over from the buffer of r, or directly.                  *)
Handed(f, r, n, d, direct) ==
    LET given(i) == IF direct THEN Delivered(r, i) ELSE r.buf[i % SS]
        wrong == \E i \in (r.fptr .. r.fptr + n - 1) \ undef[f] : given(i) # <<f, i>>
    IN /\ fil' = [fil EXCEPT ![f] = [r EXCEPT !.fptr = @ + n]]
       /\ disk' = d
       /\ fat' = fat
       /\ call' = IF call.left = n THEN NoCall ELSE [call EXCEPT !.left = @ - n]
       /\ misread' = (misread \/ wrong)

(* The cluster of the position, followed on the FAT at its boundaries.     *)
FollowTo(r) ==
    IF ~OnCluster(r) THEN {Outcome("ok", r.clust, fat)}
    ELSE IF r.fptr > 0 THEN get_fat(r.clust)
    ELSE {Outcome(IF r.sclust = None THEN "int" ELSE "ok", r.sclust, fat)}

ReadStep(f) ==
    LET r == fil[f]
        rest(x) == Lesser(SS - (x.fptr % SS), call.left)
    IN /\ Running("read", f)
       /\ \/ ~OnSector(r) /\ Handed(f, r, rest(r), disk, FALSE)
          \/ /\ OnSector(r)
             /\ \E o \in FollowTo(r) :
                  IF o.res # "ok" THEN Abort(f, r, o.res, disk, fat) /\ UNCHANGED misread
                  ELSE LET r1 == [r EXCEPT !.clust = o.clst]
                       IN IF call.left >= SS
                          THEN \/ Handed(f, r1, Direct(r1, call.left) * SS, disk, TRUE)
                               \/ Abort(f, r1, "disk", disk, fat) /\ UNCHANGED misread
                          ELSE \E m \in Bring(r1, SectorOf(r1), disk) :
                                 IF m.res = "ok" THEN Handed(f, m.r, rest(m.r), m.disk, FALSE)
                                 ELSE Abort(f, m.r, m.res, m.disk, fat) /\ UNCHANGED misread
       /\ UNCHANGED <<entry, cached, undef, stray>>

-----------------------------------------------------------------------------
(* f_forward: like f_read, but every byte goes through the buffer, and the *)
(* stream takes as many bytes as it likes.                                 *)

f_forward(f, n) ==
    /\ Ready(f)
    /\ fil[f].fptr < fil[f].objsize
    /\ call' = [op |-> "forward", f |-> f, left |-> Readable(fil[f], n)]
    /\ UNCHANGED <<disk, fat, entry, cached, fil, undef, misread, stray>>

(* A stream that is ready but takes nothing is answered with FR_INT_ERR;   *)
(* "stream" tells it from the internal errors of the driver.               *)
ForwardStep(f) ==
    LET r == fil[f]
        Failed(x, res, d) == Abort(f, x, res, d, fat) /\ UNCHANGED misread
        offered(x) == Lesser(SS - (x.fptr % SS), call.left)
    IN /\ Running("forward", f)
       /\ \E o \in FollowTo(r) :
            LET r1 == [r EXCEPT !.clust = o.clst]
            IN IF o.res # "ok" THEN Failed(r, o.res, disk)
               ELSE \E m \in Bring(r1, SectorOf(r1), disk) :
                      \/ m.res # "ok" /\ Failed(m.r, m.res, m.disk)
                      \/ m.res = "ok" /\ Failed(m.r, "stream", m.disk)
                      \/ m.res = "ok" /\ \E n \in 1 .. offered(m.r) : Handed(f, m.r, n, m.disk, FALSE)
       /\ UNCHANGED <<entry, cached, undef, stray>>

(* The stream is not ready: what was forwarded so far counts.              *)
ForwardEnds(f) ==
    /\ Running("forward", f)
    /\ call' = NoCall
    /\ UNCHANGED <<disk, fat, entry, cached, fil, undef, misread, stray>>

-----------------------------------------------------------------------------
(* f_write                                                                 *)

f_write(f, n) ==
    /\ Ready(f)
    /\ fil[f].wr
    /\ fil[f].fptr + n <= MaxSize
    /\ call' = [op |-> "write", f |-> f, left |-> n]
    /\ UNCHANGED <<disk, fat, entry, cached, fil, undef, misread, stray>>

(* The position moves n bytes on, and the end of the file with it.         *)
Advanced(r, n) == [r EXCEPT !.fptr = @ + n,
                            !.objsize = IF r.fptr + n > @ THEN r.fptr + n ELSE @]

(* The loop is over: the file has changed.                                 *)
Wrote(r) == [r EXCEPT !.mod = TRUE]

Written(f, r, n, d, t) ==
    /\ fil' = [fil EXCEPT ![f] = IF call.left = n THEN Wrote(Advanced(r, n)) ELSE Advanced(r, n)]
    /\ disk' = d
    /\ fat' = t
    /\ call' = IF call.left = n THEN NoCall ELSE [call EXCEPT !.left = @ - n]
    /\ undef' = [undef EXCEPT ![f] = @ \ (r.fptr .. r.fptr + n - 1)]

(* Bytes fitted into the buffer.                                           *)
Fitted(f, r, d, t) ==
    LET n == Lesser(SS - (r.fptr % SS), call.left)
        new == r.fptr .. r.fptr + n - 1
        top == r.fptr - (r.fptr % SS)
        buf == [b \in 0 .. SS - 1 |-> IF top + b \in new THEN <<f, top + b>>
                                                         ELSE Forget(r.buf, f, new)[b]]
    IN Written(f, [r EXCEPT !.buf = buf, !.dirty = TRUE], n, ForgetOnDisk(d, f, new), t)

(* The buffer after whole sectors, S, were written past it.                *)
Refilled(r, S, d) ==
    IF r.sect \in S THEN [r EXCEPT !.buf = d[r.sect], !.dirty = FALSE] ELSE r

(* Whole sectors written past the buffer; if that fails, what they hold is *)
(* not known.                                                              *)
Straight(f, r, d, t) ==
    LET n == Direct(r, call.left) * SS
        new == r.fptr .. r.fptr + n - 1
        base == r.fptr - (r.fptr % BCS)
        r1 == [r EXCEPT !.buf = Forget(@, f, new)]
        d1 == ForgetOnDisk(d, f, new)
        d2 == [s \in Sector |-> IF s \in DirectSectors(r, call.left)
                                THEN [b \in 0 .. SS - 1 |-> <<f, base + s[2] * SS + b>>]
                                ELSE d1[s]]
    IN \/ Written(f, Refilled(r1, DirectSectors(r, call.left), d2), n, d2, t)
       \/ /\ Abort(f, r1, "disk", d1, t)
          /\ undef' = [undef EXCEPT ![f] = @ \cup {i \in new : i < r.objsize}]

(* The buffer for a partial sector: filled unless the file grows here.     *)
Prepare(r, d) ==
    IF r.sect = SectorOf(r) \/ r.fptr >= r.objsize
    THEN {Moved("ok", [r EXCEPT !.sect = SectorOf(r)], d)}
    ELSE Fill(r, SectorOf(r), d)

(* The cluster of the position: created when the file has none, followed   *)
(* or stretched at the other boundaries.                                   *)
Acquire(r) ==
    IF ~OnCluster(r) THEN {Outcome("ok", r.clust, fat)}
    ELSE IF r.fptr > 0 THEN create_chain(r.clust)
    ELSE IF r.sclust = None THEN create_chain(None)
    ELSE {Outcome("ok", r.sclust, fat)}

(* The file object with its new cluster.                                   *)
Adopt(r, c) == [r EXCEPT !.clust = c, !.sclust = IF @ = None THEN c ELSE @]

WriteStep(f) ==
    LET r == fil[f]
        Failed(x, res, d, t) == Abort(f, x, res, d, t) /\ UNCHANGED undef
    IN /\ Running("write", f)
       /\ IF ~OnSector(r) THEN Fitted(f, r, disk, fat)
          ELSE \E o \in Acquire(r) :
            \/ /\ o.res = "full"
               /\ fil' = [fil EXCEPT ![f] = Wrote(r)]
               /\ call' = NoCall
               /\ UNCHANGED <<disk, fat, undef>>
            \/ o.res \in {"int", "disk"} /\ Failed(r, o.res, disk, o.fat)
            \/ /\ o.res = "ok"
               /\ \E m \in Flush(Adopt(r, o.clst), disk) :
                    IF m.res # "ok" THEN Failed(m.r, m.res, m.disk, o.fat)
                    ELSE IF call.left >= SS THEN Straight(f, m.r, m.disk, o.fat)
                    ELSE \E p \in Prepare(m.r, m.disk) :
                           IF p.res = "ok" THEN Fitted(f, p.r, p.disk, o.fat)
                                           ELSE Failed(p.r, p.res, p.disk, o.fat)
       /\ UNCHANGED <<entry, cached, misread, stray>>

-----------------------------------------------------------------------------
(* f_lseek                                                                 *)

(* Where the walk starts: at the current cluster when the target is not    *)
(* before it, else at the first cluster, made if there is none.            *)
FromCurrent_SameCounts(r, ofs) == r.fptr > 0 /\ ofs \div BCS >= (r.fptr - 1) \div BCS
FromCurrent(r, ofs) == r.fptr > 0 /\ (ofs - 1) \div BCS >= (r.fptr - 1) \div BCS

f_lseek(f, to) ==
    LET r == fil[f]
        ofs == IF to > r.objsize /\ ~r.wr THEN r.objsize ELSE to
        Walk(x, left) == /\ fil' = [fil EXCEPT ![f] = x]
                         /\ call' = [op |-> "seek", f |-> f, left |-> left]
                         /\ UNCHANGED disk
        base == ((r.fptr - 1) \div BCS) * BCS
    IN /\ Ready(f)
       /\ IF ofs = 0 THEN /\ fil' = [fil EXCEPT ![f].fptr = 0]
                          /\ UNCHANGED <<disk, fat, call>>
          ELSE IF FromCurrent(r, ofs)
          THEN Walk([r EXCEPT !.fptr = base], ofs - base) /\ UNCHANGED fat
          ELSE LET r0 == [r EXCEPT !.fptr = 0]
               IN \E o \in IF r.sclust = None THEN create_chain(None)
                           ELSE {Outcome("ok", r.sclust, fat)} :
                    /\ fat' = o.fat
                    /\ CASE o.res = "ok" -> Walk(Adopt(r0, o.clst), ofs)
                         [] o.res = "full" -> Walk([r0 EXCEPT !.clust = None], 0)
                         [] OTHER -> Abort(f, r0, o.res, disk, o.fat)
       /\ UNCHANGED <<entry, cached, undef, misread, stray>>

(* The next cluster, forced when the file is open for writing; on a full   *)
(* volume the walk ends at the end of the last cluster.                    *)
SeekStep(f) ==
    LET r == fil[f]
        r1 == [r EXCEPT !.fptr = @ + BCS]
        Walk(x, left) == /\ fil' = [fil EXCEPT ![f] = x]
                         /\ call' = [call EXCEPT !.left = left]
                         /\ UNCHANGED disk
    IN /\ Running("seek", f) /\ call.left > BCS
       /\ \E o \in IF r.wr THEN create_chain(r.clust) ELSE get_fat(r.clust) :
            /\ fat' = o.fat
            /\ CASE o.res = "ok" -> Walk([r1 EXCEPT !.clust = o.clst], call.left - BCS)
                 [] o.res = "full" -> Walk(r1, 0)
                 [] OTHER -> Abort(f, r1, o.res, disk, o.fat)
       /\ UNCHANGED <<entry, cached, undef, misread, stray>>

(* The position and, past the end, the size; then the buffer is filled if  *)
(* the position is inside a sector.                                        *)
SeekEnd(f) ==
    LET r == [fil[f] EXCEPT !.fptr = @ + call.left]
        grown == IF r.fptr > r.objsize THEN [r EXCEPT !.objsize = r.fptr, !.mod = TRUE] ELSE r
    IN /\ Running("seek", f) /\ call.left <= BCS
       /\ \E m \in IF OnSector(r) THEN {Moved("ok", grown, disk)}
                   ELSE Bring(grown, SectorOf(r), disk) :
            /\ fil' = [fil EXCEPT ![f] = IF m.res = "ok" THEN m.r ELSE [m.r EXCEPT !.err = m.res]]
            /\ disk' = m.disk
       /\ undef' = [undef EXCEPT ![f] = @ \cup (r.objsize .. grown.objsize - 1)]
       /\ call' = NoCall
       /\ UNCHANGED <<fat, entry, cached, misread, stray>>

-----------------------------------------------------------------------------
(* f_truncate                                                              *)

(* What follows the position is removed; at offset 0, the whole chain.     *)
Cut(r) ==
    IF r.fptr = 0 THEN remove_chain(r.sclust, None)
    ELSE {Outcome("disk", None, fat)} \cup
         (IF fat[r.clust] = EOC THEN {Outcome("ok", None, fat)}
                                ELSE remove_chain(fat[r.clust], r.clust))

(* The file object once cut, whether or not the removal succeeded.         *)
Shortened(r) == [r EXCEPT !.objsize = r.fptr, !.mod = TRUE,
                          !.sclust = IF r.fptr = 0 THEN None ELSE @]

f_truncate(f) ==
    LET r == fil[f]
        gone == r.fptr .. r.objsize - 1
        cut == Shortened([r EXCEPT !.buf = Forget(@, f, gone)])
        d == ForgetOnDisk(disk, f, gone)
    IN /\ Ready(f)
       /\ r.wr
       /\ r.fptr < r.objsize
       /\ \E o \in Cut(r) :
            /\ fat' = o.fat
            /\ \E m \in IF o.res = "ok" THEN Flush(cut, d) ELSE {Moved(o.res, cut, d)} :
                 /\ fil' = [fil EXCEPT ![f] = IF m.res = "ok" THEN m.r ELSE [m.r EXCEPT !.err = m.res]]
                 /\ disk' = m.disk
       /\ undef' = [undef EXCEPT ![f] = @ \ gone]
       /\ UNCHANGED <<entry, cached, call, misread, stray>>

-----------------------------------------------------------------------------
(* f_sync and f_close                                                      *)

(* Closed for good: what the object alone knew is lost, which is a dirty   *)
(* buffer that FA_MODIFIED does not announce, and a size not recorded.     *)
Dropped(f) ==
    LET lost == IF fil[f].dirty THEN {i \in Offset : \E b \in 0 .. SS - 1 : fil[f].buf[b] = <<f, i>>}
                                ELSE {}
    IN /\ fil' = [fil EXCEPT ![f] = Closed]
       /\ undef' = [undef EXCEPT ![f] = {i \in @ \cup lost : i < entry[f].size}]

SyncNothing(f, closing) ==
    /\ call = NoCall /\ fil[f].open /\ ~fil[f].mod
    /\ IF closing THEN Dropped(f) ELSE UNCHANGED <<fil, undef>>
    /\ UNCHANGED <<disk, fat, entry, cached, call, misread, stray>>

(* The file object after the entry was written to the window.              *)
Synced(r) == [r EXCEPT !.mod = FALSE]
Recording(r) == [sclust |-> r.sclust, size |-> r.objsize]

(* The buffer, then the entry, then sync_fs.  When sync_fs fails the entry *)
(* stays in the window, but FA_MODIFIED is cleared all the same.           *)
SyncModified(f, closing) ==
    LET r == fil[f]
    IN /\ call = NoCall /\ r.open /\ r.mod
       /\ stray' = (stray \/ (r.dirty /\ r.sect[1] \notin Reached(r.sclust, fat)))
       /\ \E m \in Flush(r, disk) :
            /\ disk' = m.disk
            /\ \/ /\ fil' = [fil EXCEPT ![f] = m.r]       \* write, or move_window, failed
                  /\ UNCHANGED <<entry, cached>>
               \/ /\ m.res = "ok"                         \* sync_fs failed
                  /\ fil' = [fil EXCEPT ![f] = Synced(m.r)]
                  /\ entry' = [entry EXCEPT ![f] = Recording(r)]
                  /\ cached' \in BOOLEAN
               \/ /\ m.res = "ok"
                  /\ fil' = [fil EXCEPT ![f] = IF closing THEN Closed ELSE Synced(m.r)]
                  /\ entry' = [entry EXCEPT ![f] = Recording(r)]
                  /\ cached' = FALSE
       /\ UNCHANGED <<fat, call, undef, misread>>

f_sync(f) == SyncNothing(f, FALSE) \/ SyncModified(f, FALSE)
f_close(f) == SyncNothing(f, TRUE) \/ SyncModified(f, TRUE)

(* Another call moves the access window away from the entry.               *)
WindowMoves == /\ call = NoCall /\ cached /\ cached' = FALSE
               /\ UNCHANGED <<disk, fat, entry, fil, call, undef, misread, stray>>

Next ==
    \/ \E f \in File :
         \/ \E w \in BOOLEAN : f_open(f, w)
         \/ f_open_append(f) \/ f_open_overwrite(f)
         \/ \E n \in 1 .. MaxSize : f_read(f, n) \/ f_forward(f, n) \/ f_write(f, n)
         \/ \E to \in 0 .. MaxSize : f_lseek(f, to)
         \/ ReadStep(f) \/ ForwardStep(f) \/ ForwardEnds(f) \/ WriteStep(f) \/ SeekStep(f) \/ SeekEnd(f)
         \/ f_truncate(f) \/ f_sync(f) \/ f_close(f)
    \/ WindowMoves

Spec == Init /\ [][Next]_vars

-----------------------------------------------------------------------------
(* Every variable keeps its type.                                          *)
TypeOK ==
    /\ disk \in [Sector -> Content]
    /\ fat \in [Cluster -> Value]
    /\ entry \in [File -> [sclust : Cluster \cup {None}, size : 0 .. MaxSize]]
    /\ cached \in BOOLEAN
    /\ fil \in [File -> [open : BOOLEAN, wr : BOOLEAN, fptr : 0 .. MaxSize,
                         objsize : 0 .. MaxSize, sclust : Cluster \cup {None},
                         clust : Cluster \cup {None}, sect : Sector \cup {None},
                         buf : Content \cup {None}, dirty : BOOLEAN, mod : BOOLEAN,
                         err : {"none", "disk", "int", "stream"}]]
    /\ call = NoCall \/ call \in [op : {"read", "forward", "write", "seek"}, f : File, left : 0 .. MaxSize]
    /\ undef \in [File -> SUBSET Offset]
    /\ misread \in BOOLEAN /\ stray \in BOOLEAN

(* The clusters of a file: those its object knows of while it is open,     *)
(* those of its entry else.                                                *)
First(f) == IF fil[f].open THEN fil[f].sclust ELSE entry[f].sclust
Size(f) == IF fil[f].open THEN fil[f].objsize ELSE entry[f].size
OwnChain(f) == Chain(First(f), fat)
Ok(f) == call.f # f /\ fil[f].open /\ fil[f].err = "none"

(* Files do not share a cluster, none of their clusters is free, and their *)
(* chains are long enough for their sizes, whatever call failed before: a  *)
(* write, seek or truncation that stops half way leaves no file without    *)
(* clusters for its bytes or with another file's.                          *)
ChainsHoldFiles ==
    \A f \in File :
        /\ Len(OwnChain(f)) * BCS >= Size(f)
        /\ \A c \in Reached(First(f), fat) : fat[c] # None
        /\ \A g \in File \ {f} : Reached(First(f), fat) \cap Reached(First(g), fat) = {}

(* Between calls clust is the cluster that holds the byte before the       *)
(* position, and in the middle of a sector the buffer is that sector: the  *)
(* loops of f_read, f_forward, f_write and f_lseek, which only look at the *)
(* FAT at cluster boundaries and at the disk at sector boundaries, rely on *)
(* it; so no call reports FR_INT_ERR, which is kept for damaged FATs, but  *)
(* f_forward when the stream takes nothing.                                *)
Positioned ==
    \A f \in File : fil[f].err # "int" /\ (Ok(f) =>
        LET r == fil[f]
        IN /\ r.fptr > 0 => /\ (r.fptr - 1) \div BCS < Len(OwnChain(f))
                            /\ r.clust = OwnChain(f)[(r.fptr - 1) \div BCS + 1]
           /\ ~OnSector(r) => r.sect = SectorOf(r))

(* Every byte written to an open file is in its dirty buffer or else on    *)
(* the disk, between the turns of a loop and after an error as well; and a *)
(* clean buffer never holds an older copy of its sector: direct writes and *)
(* truncations do not leave it behind.                                     *)
Stored ==
    ~stray => \A f \in File : fil[f].open =>
        \A i \in (0 .. Size(f) - 1) \ undef[f] :
            LET inBuffer == fil[f].sect = SectorAt(OwnChain(f), i)
            IN /\ inBuffer /\ (fil[f].dirty \/ Ok(f)) => fil[f].buf[i % SS] = <<f, i>>
               /\ ~(inBuffer /\ fil[f].dirty) => ByteAt(disk, OwnChain(f), i) = <<f, i>>

(* Nothing done to other files changes the bytes of a closed file: what    *)
(* f_sync and f_close write back is cached data of their own file.         *)
ClosedFilesUndisturbed ==
    \A f \in File : ~fil[f].open =>
        \A i \in (0 .. Size(f) - 1) \ undef[f] : ByteAt(disk, OwnChain(f), i) = <<f, i>>

(* Once a file is closed the disk and its entry give back what was written,*)
(* but for bytes whose write failed.                                       *)
Kept ==
    ~stray => ClosedFilesUndisturbed

(* FA_MODIFIED covers every change: an object that f_sync would skip has   *)
(* no dirty buffer and agrees with its directory entry.                    *)
Recorded ==
    \A f \in File : Ok(f) /\ ~fil[f].mod =>
        ~fil[f].dirty /\ entry[f] = Recording(fil[f])

(* The object, its chain, its buffer and its entry stay in step although   *)
(* every call updates only some of them and may stop anywhere.             *)
InStep == TypeOK /\ ChainsHoldFiles /\ Positioned /\ Stored /\ Recorded

(* f_read and f_forward hand over the bytes of the file, whichever mix of  *)
(* buffer and direct transfers they come from.                             *)
ReadsRight == ~stray => ~misread
=============================================================================
