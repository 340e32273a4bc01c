---------------------------- MODULE MountProofs ----------------------------
(***************************************************************************)
(* Theorems about Volume and Mount: the layout of an accepted boot record  *)
(* is sound whatever its sizes, and an object is usable only in the mount  *)
(* it was opened in, whatever the number of mount ids.                     *)
(***************************************************************************)
EXTENDS Mount, TLAPS

(* A remainder of a number that is already small enough is that number.    *)
LEMMA SmallRemainder ==
    ASSUME NEW a \in Nat, NEW n \in Nat, a < n
    PROVE  a % n = a
  BY SMT

LEMMA QuotientBelow ==
    ASSUME NEW a \in Nat, NEW n \in Nat, n > 0
    PROVE  a \div n \in Nat /\ n * (a \div n) <= a
  BY SMT

(* A size in sectors rounded up holds the bytes.                           *)
LEMMA RoundedUp ==
    ASSUME NEW bytes \in Nat, NEW n \in Nat, n > 0, NEW sectors \in Nat,
           sectors >= (bytes + n - 1) \div n
    PROVE  sectors * n >= bytes
  BY SMT


-----------------------------------------------------------------------------
(* mount_volume's checks are enough: whatever the boot record, if its      *)
(* sizes do not overflow then the FATs are big enough for all clusters,    *)
(* and FATs, root directory and clusters lie one behind the other within   *)
(* the volume.                                                             *)
THEOREM AcceptedIsSound ==
    ASSUME NEW b \in BootRecord, NEW s \in Nat, Accepted(b), Representable(b, s)
    PROVE  SoundLayout(Layout(b, s), TotalSectors(b))
<1> DEFINE fsz == FatSectors(b)
           tot == TotalSectors(b)
           fats == FatSectors(b) * b.nfats
           rootSectors == b.root \div EntriesPerSector
           sys == b.rsvd + fats + rootSectors
           n == ClusterCount(b)
           type == FatType(n)
           g == Layout(b, s)
<1>1. /\ b.spc \in Nat /\ b.rsvd \in Nat /\ b.root \in Nat /\ b.nfats \in {1, 2} /\ b.clus \in Nat
      /\ b.rsvd # 0 /\ n # 0 /\ type # 0
  BY DEF BootRecord, Accepted
<1>2. fsz \in Nat /\ tot \in Nat
  BY DEF BootRecord, FatSectors, TotalSectors
<1>3. EntriesPerSector \in Nat /\ EntriesPerSector > 0
  BY WidthAssumption DEF EntriesPerSector
<1>4. rootSectors \in Nat
  BY <1>1, <1>3, QuotientBelow
<1>5. fats \in Nat
  BY <1>1, <1>2
<1>6. FatArea(b) = fats
  BY <1>5, SmallRemainder, WidthAssumption DEF FatArea, Representable
<1>7. SystemSectors(b) = sys /\ sys \in Nat
  <2>1. sys \in Nat /\ sys < Word32
    BY <1>1, <1>4, <1>5 DEF Representable
  <2> QED BY <2>1, <1>6, SmallRemainder, WidthAssumption DEF SystemSectors
<1>8. b.spc > 0
  BY DEF Accepted, PowerOf2
<1>9. tot >= sys
  BY <1>7 DEF Accepted
<1>10. n \in Nat /\ b.spc * n <= tot - sys
  <2>1. tot - sys \in Nat
    BY <1>9, <1>7, <1>2
  <2>2. n = (tot - sys) \div b.spc
    BY <1>7 DEF ClusterCount
  <2> HIDE DEF tot, sys, n
  <2> QED BY <2>1, <2>2, <1>1, <1>8, QuotientBelow
<1>11. g.volbase = s /\ g.n_fats = b.nfats /\ g.fsize = fsz /\ g.csize = b.spc
       /\ g.n_rootdir = b.root /\ g.n_fatent = n + 2 /\ g.fs_type = type
  BY DEF Layout
<1>12. s + tot < Word32 /\ s + sys < Word32 /\ s + b.rsvd < Word32 /\ s + b.rsvd + fats < Word32
  <2>1. s + tot < Word32
    BY DEF Representable
  <2> HIDE DEF tot, sys, fats, rootSectors
  <2>2. sys = b.rsvd + fats + rootSectors
    BY DEF sys
  <2> QED BY <2>1, <2>2, <1>1, <1>2, <1>4, <1>5, <1>9, WidthAssumption
<1>13. g.fatbase = s + b.rsvd /\ g.database = s + sys
  <2>1. s + b.rsvd \in Nat /\ s + sys \in Nat
    BY <1>1, <1>7
  <2>2. (s + b.rsvd) % Word32 = s + b.rsvd /\ (s + sys) % Word32 = s + sys
    BY <2>1, <1>12, SmallRemainder, WidthAssumption
  <2> QED BY <2>2, <1>7 DEF Layout
<1>14. type # 32 => g.dirbase = g.fatbase + fats
  <2>1. s + b.rsvd + fats \in Nat
    BY <1>1, <1>5
  <2>2. (s + b.rsvd + fats) % Word32 = s + b.rsvd + fats
    BY <2>1, <1>12, SmallRemainder, WidthAssumption
  <2> QED BY <2>2, <1>13, <1>6 DEF Layout
<1>15. (n + 2) * type <= 8 * fsz * SectorSize
  <2> DEFINE bytes == FatBytes(type, n + 2)
  <2>1. fsz >= (bytes + SectorSize - 1) \div SectorSize
    BY DEF Accepted
  <2>2. type \in {12, 16, 32}
    BY <1>1 DEF FatType
  <2>3. bytes \in Nat /\ (n + 2) * type <= 8 * bytes
    <3> HIDE DEF n, type
    <3>1. CASE type = 12
      BY <3>1, <1>10 DEF FatBytes
    <3>2. CASE type = 16
      BY <3>2, <1>10 DEF FatBytes
    <3>3. CASE type = 32
      BY <3>3, <1>10 DEF FatBytes
    <3> QED BY <2>2, <3>1, <3>2, <3>3
  <2> HIDE DEF bytes, fsz, n, type
  <2>4. fsz * SectorSize >= bytes
    BY <2>1, <2>3, <1>2, RoundedUp, WidthAssumption
  <2>5. fsz * SectorSize \in Nat /\ 8 * fsz * SectorSize = 8 * (fsz * SectorSize)
    BY <1>2, WidthAssumption
  <2>6. (n + 2) * type \in Int
    BY <2>2, <1>10
  <2> QED BY <2>3, <2>4, <2>5, <2>6
<1> HIDE DEF fsz, tot, n, type, g
<1>16. fats = b.nfats * fsz
  BY <1>1, <1>2 DEF fsz
<1> HIDE DEF fats
<1>17. s < s + b.rsvd /\ s + b.rsvd + fats <= s + sys
  BY <1>1, <1>4, <1>5
<1>18. s + sys + b.spc * n <= s + tot
  BY <1>10, <1>7, <1>2, <1>1
<1>19. n + 2 > 2 /\ (n + 2) - 2 = n
  BY <1>1, <1>10
<1>20. s + b.rsvd + fats + rootSectors = s + sys
  BY <1>1, <1>4, <1>5
<1> HIDE DEF sys, rootSectors
<1> QED
  <2>1. g.volbase < g.fatbase /\ g.fatbase + g.n_fats * g.fsize <= g.database
    BY <1>11, <1>13, <1>16, <1>17
  <2>2. g.fs_type # 32 => /\ g.dirbase = g.fatbase + g.n_fats * g.fsize
                          /\ g.dirbase + g.n_rootdir \div EntriesPerSector = g.database
    BY <1>11, <1>13, <1>14, <1>16, <1>20 DEF rootSectors
  <2>3. g.n_fatent > 2 /\ g.database + g.csize * (g.n_fatent - 2) <= g.volbase + tot
    BY <1>11, <1>13, <1>18, <1>19
  <2>4. g.n_fatent * g.fs_type <= 8 * g.fsize * SectorSize
    BY <1>11, <1>15
  <2> QED BY <2>1, <2>2, <2>3, <2>4 DEF SoundLayout, g, tot


-----------------------------------------------------------------------------
(* The inductive invariant, of a registered FATFS F, the last mount id,    *)
(* FATFS objects S, file objects O and the drive D.                        *)
Record == [fs : Fs \cup {Null}, id : 0 .. IdMod - 1, write : BOOLEAN, age : 0 .. IdMod]

Typed(F, id, S, O, D) ==
    /\ F \in Fs \cup {Null}
    /\ id \in 0 .. IdMod - 1
    /\ DOMAIN S = Fs
    /\ \A f \in Fs : S[f] = Off \/ S[f].id \in 0 .. IdMod - 1
    /\ O \in [Obj -> Record]
    /\ D \in [medium : Media \cup {None}, noinit : BOOLEAN, protect : BOOLEAN]
    /\ D.medium = None => D.noinit

(* The registered FATFS, once mounted, has the last id: any later mount    *)
(* would have been its own.                                                *)
Latest(F, id, S) == F # Null /\ S[F].fs_type # 0 => S[F].id = id
(* An object on another FATFS finds it unmounted.                          *)
Orphan(F, S, x) == x.fs # F => S[x.fs].fs_type = 0
(* The ids given since an object was opened follow its own.                *)
Counted(id, x) == x.age < IdMod => x.id + x.age \in {id, id + IdMod}
(* An object open for writing, in its own mount.                           *)
Writer(S, D, x) ==
    x.age = 0 /\ x.write /\ S[x.fs].fs_type # 0 /\ ~D.noinit => ~D.protect

Tracked(F, id, S, D, x) ==
    x.fs # Null => Orphan(F, S, x) /\ Counted(id, x) /\ Writer(S, D, x)

Consistent(F, id, S, O, D) ==
    /\ Typed(F, id, S, O, D)
    /\ Latest(F, id, S)
    /\ \A o \in Obj : Tracked(F, id, S, D, O[o])

IInv == Consistent(FatFs, Fsid, fs, obj, drive)

LEMMA NextIdWraps ==
    ASSUME NEW id \in 0 .. IdMod - 1
    PROVE  NextId(id) \in 0 .. IdMod - 1 /\ NextId(id) = IF id + 1 = IdMod THEN 0 ELSE id + 1
  BY IdAssumption, SMT DEF NextId

(* What mount_volume can do: leave the volume as it is, unmount it, or     *)
(* mount a volume it found.                                                *)
LEMMA MountOutcomes ==
    ASSUME NEW f \in Fs \cup {Null}, NEW s, DOMAIN s = Fs, NEW write \in BOOLEAN,
           drive.noinit \in BOOLEAN, drive.medium = None => drive.noinit,
           NEW r \in mount_volume(f, s, write)
    PROVE  \/ /\ r = Stays(r.ok, s, drive.noinit)
              /\ r.ok => f # Null /\ Mounted(f, s) /\ ~Forbidden(write)
           \/ /\ f \in Fs
              /\ \E noinit \in BOOLEAN :
                    r = Stays(FALSE, Cleared(f, s), noinit) /\ (drive.medium = None => noinit)
           \/ /\ f \in Fs /\ drive.medium # None /\ ~Forbidden(write)
              /\ \E bad \in SUBSET BootSectors(Inside) :
                    r.new /\ r \in FindAndMount(f, Cleared(f, s), bad)
<1>1. CASE f = Null
  BY <1>1 DEF mount_volume, Stays
<1>2. CASE f # Null /\ Mounted(f, s)
  <2>1. r = Stays(~Forbidden(write), s, drive.noinit)
    BY <1>2 DEF mount_volume
  <2>2. r.ok = ~Forbidden(write)
    BY <2>1 DEF Stays
  <2>3. r = Stays(r.ok, s, drive.noinit)
    BY <2>1, <2>2
  <2>4. r.ok => f # Null /\ Mounted(f, s) /\ ~Forbidden(write)
    BY <1>2, <2>2
  <2> QED BY <2>3, <2>4
<1>3. CASE f # Null /\ ~Mounted(f, s)
  <2> DEFINE off == Cleared(f, s)
  <2>1. \/ r = Stays(FALSE, off, TRUE)
        \/ drive.medium # None /\ Forbidden(write) /\ r = Stays(FALSE, off, FALSE)
        \/ /\ drive.medium # None /\ ~Forbidden(write)
           /\ \E bad \in SUBSET BootSectors(Inside) : r \in FindAndMount(f, off, bad)
    BY <1>3 DEF mount_volume
  <2>2. ASSUME NEW bad \in SUBSET BootSectors(Inside), r \in FindAndMount(f, off, bad)
        PROVE  r.new \/ r = Stays(FALSE, off, FALSE)
    <3> HIDE DEF off
    <3>1. CASE find_volume(Inside, bad).fmt >= 2
               \/ ~Accepted(Inside.boot[find_volume(Inside, bad).sect])
      BY <2>2, <3>1 DEF FindAndMount
    <3>2. CASE ~(find_volume(Inside, bad).fmt >= 2
                 \/ ~Accepted(Inside.boot[find_volume(Inside, bad).sect]))
      <4>1. \E x : r = [ok |-> TRUE, new |-> TRUE, fs |-> [off EXCEPT ![f] = x],
                        noinit |-> FALSE, Fsid |-> x.id, missed |-> bad]
        BY <2>2, <3>2 DEF FindAndMount
      <4> QED BY <4>1
    <3> QED BY <3>1, <3>2
  <2> HIDE DEF off
  <2> QED BY <1>3, <2>1, <2>2 DEF off
<1> QED BY <1>1, <1>2, <1>3

(* What a mount leaves in the FATFS.                                       *)
LEMMA FoundVolume ==
    ASSUME NEW f \in Fs, NEW s, DOMAIN s = Fs, NEW bad, NEW r \in FindAndMount(f, s, bad), r.new
    PROVE  \E x :
             /\ r = [ok |-> TRUE, new |-> TRUE, fs |-> [s EXCEPT ![f] = x], noinit |-> FALSE,
                     Fsid |-> NextId(Fsid), missed |-> bad]
             /\ x.id = NextId(Fsid) /\ x.fs_type # 0
             /\ LET v == find_volume(Inside, bad)
                    b == Inside.boot[v.sect]
                IN ~(v.fmt >= 2) /\ Accepted(b) /\ x.vol = Layout(b, v.sect)
<1> DEFINE v == find_volume(Inside, bad)
           b == Inside.boot[v.sect]
           new == {[fs_type |-> FatType(ClusterCount(b)), id |-> NextId(Fsid),
                    vol |-> Layout(b, v.sect), info |-> i] : i \in Info(b)}
<1>1. ~(v.fmt >= 2 \/ ~Accepted(b))
  <2> HIDE DEF new
  <2>1. Stays(FALSE, s, FALSE).new = FALSE
    BY DEF Stays
  <2> QED BY <2>1 DEF FindAndMount
<1>2. PICK x \in new : r = [ok |-> TRUE, new |-> TRUE, fs |-> [s EXCEPT ![f] = x],
                           noinit |-> FALSE, Fsid |-> x.id, missed |-> bad]
  BY <1>1 DEF FindAndMount
<1>3. PICK i \in Info(b) : x = [fs_type |-> FatType(ClusterCount(b)), id |-> NextId(Fsid),
                               vol |-> Layout(b, v.sect), info |-> i]
  BY <1>2
<1>4. x.id = NextId(Fsid) /\ x.vol = Layout(b, v.sect) /\ x.fs_type # 0
  BY <1>1, <1>3 DEF Accepted
<1> HIDE DEF new
<1>5. r = [ok |-> TRUE, new |-> TRUE, fs |-> [s EXCEPT ![f] = x], noinit |-> FALSE,
           Fsid |-> NextId(Fsid), missed |-> bad]
  BY <1>2, <1>4
<1> WITNESS x
<1> QED BY <1>1, <1>4, <1>5


-----------------------------------------------------------------------------
LEMMA OffIsUnmounted == Off.fs_type = 0 /\ Unused \in Record /\ Unused.fs = Null
  BY IdAssumption DEF Off, Unused, Record

LEMMA ClearedKeeps ==
    ASSUME NEW f \in Fs, NEW s, NEW noinit \in BOOLEAN, drive.medium = None => noinit,
           Consistent(f, Fsid, s, obj, drive)
    PROVE  Consistent(f, Fsid, Cleared(f, s), obj, [drive EXCEPT !.noinit = noinit])
<1> DEFINE S == Cleared(f, s)
           D == [drive EXCEPT !.noinit = noinit]
<1>1. DOMAIN S = Fs /\ S[f].fs_type = 0 /\ S[f] = Off /\ \A g \in Fs \ {f} : S[g] = s[g]
  BY OffIsUnmounted DEF Cleared
<1>2. D \in [medium : Media \cup {None}, noinit : BOOLEAN, protect : BOOLEAN]
      /\ D.medium = drive.medium /\ D.noinit = noinit
  BY DEF Consistent, Typed
<1> HIDE DEF S, D
<1>3. Typed(f, Fsid, S, obj, D)
  BY <1>1, <1>2 DEF Consistent, Typed
<1>4. Latest(f, Fsid, S)
  BY <1>1 DEF Latest
<1>5. ASSUME NEW o \in Obj, obj[o].fs # Null
      PROVE  Orphan(f, S, obj[o]) /\ Counted(Fsid, obj[o]) /\ Writer(S, D, obj[o])
  <2>1. obj[o].fs \in Fs
    BY <1>5 DEF Consistent, Typed, Record
  <2>2. Orphan(f, s, obj[o]) /\ Counted(Fsid, obj[o])
    BY <1>5 DEF Consistent, Tracked
  <2>3. S[obj[o].fs].fs_type = 0
    BY <1>1, <2>1, <2>2 DEF Orphan
  <2> QED BY <2>2, <2>3 DEF Orphan, Writer
<1> QED BY <1>3, <1>4, <1>5 DEF Consistent, Tracked, S, D

LEMMA MountedKeeps ==
    ASSUME NEW f \in Fs, NEW s, NEW x, x.id = NextId(Fsid), NEW r,
           r.new, r.fs = [s EXCEPT ![f] = x], r.Fsid = NextId(Fsid), drive.medium # None,
           Consistent(f, Fsid, s, obj, drive)
    PROVE  Consistent(f, r.Fsid, r.fs, Aged(r), [drive EXCEPT !.noinit = FALSE])
<1> DEFINE S == r.fs
           D == [drive EXCEPT !.noinit = FALSE]
           O == Aged(r)
<1>0. obj \in [Obj -> Record] /\ Fsid \in 0 .. IdMod - 1 /\ DOMAIN s = Fs
  BY DEF Consistent, Typed
<1>1. DOMAIN S = Fs /\ S[f] = x /\ \A g \in Fs \ {f} : S[g] = s[g]
  BY <1>0
<1>2. D \in [medium : Media \cup {None}, noinit : BOOLEAN, protect : BOOLEAN]
      /\ D.medium = drive.medium
  BY DEF Consistent, Typed
<1>3. r.Fsid \in 0 .. IdMod - 1
      /\ r.Fsid = IF Fsid + 1 = IdMod THEN 0 ELSE Fsid + 1
  BY <1>0, NextIdWraps
<1>4. ASSUME NEW o \in Obj
      PROVE  /\ O[o] \in Record /\ O[o].fs = obj[o].fs /\ O[o].id = obj[o].id
             /\ O[o].write = obj[o].write
             /\ O[o].age = IF obj[o].fs # Null /\ obj[o].age < IdMod
                           THEN obj[o].age + 1 ELSE obj[o].age
  <2>1. obj[o] \in Record /\ obj[o].age \in 0 .. IdMod
    BY <1>0 DEF Record
  <2>2. O[o] = IF obj[o].fs # Null /\ obj[o].age < IdMod
               THEN [obj[o] EXCEPT !.age = obj[o].age + 1] ELSE obj[o]
    BY DEF Aged
  <2>3. CASE obj[o].fs # Null /\ obj[o].age < IdMod
    <3>1. O[o] = [obj[o] EXCEPT !.age = obj[o].age + 1]
      BY <2>2, <2>3
    <3>2. obj[o].age + 1 \in 0 .. IdMod
      BY <2>1, <2>3, IdAssumption
    <3> HIDE DEF O
    <3> QED BY <2>1, <2>3, <3>1, <3>2 DEF Record
  <2>4. CASE ~(obj[o].fs # Null /\ obj[o].age < IdMod)
    BY <2>1, <2>2, <2>4
  <2> QED BY <2>3, <2>4
<1>5. O \in [Obj -> Record]
  <2>1. DOMAIN O = Obj /\ O = [o \in Obj |-> O[o]]
    BY DEF Aged
  <2> HIDE DEF O
  <2> QED BY <2>1, <1>4
<1> HIDE DEF S, D, O
<1>6. Typed(f, r.Fsid, S, O, D)
  BY <1>0, <1>1, <1>2, <1>3, <1>5, NextIdWraps DEF Consistent, Typed
<1>7. Latest(f, r.Fsid, S)
  BY <1>1 DEF Latest
<1>8. ASSUME NEW o \in Obj, O[o].fs # Null
      PROVE  Orphan(f, S, O[o]) /\ Counted(r.Fsid, O[o]) /\ Writer(S, D, O[o])
  <2>1. obj[o].fs \in Fs /\ obj[o].id \in 0 .. IdMod - 1 /\ obj[o].age \in 0 .. IdMod
    BY <1>0, <1>4, <1>8 DEF Record
  <2>2. Orphan(f, s, obj[o]) /\ Counted(Fsid, obj[o])
    BY <1>4, <1>8 DEF Consistent, Tracked
  <2>3. Orphan(f, S, O[o])
    BY <1>1, <1>4, <2>1, <2>2 DEF Orphan
  <2>4. Counted(r.Fsid, O[o])
    BY <1>0, <1>3, <1>4, <1>8, <2>1, <2>2, IdAssumption DEF Counted
  <2>5. O[o].age # 0
    BY <1>4, <1>8, <2>1, IdAssumption
  <2> QED BY <2>3, <2>4, <2>5 DEF Writer
<1> QED BY <1>6, <1>7, <1>8 DEF Consistent, Tracked, S, D, O

(* mount_volume keeps the invariant; if it succeeds the call goes on with  *)
(* a mounted volume, and writes only where that is allowed.                *)
LEMMA MountKeeps ==
    ASSUME NEW f \in Fs \cup {Null}, NEW s, NEW write \in BOOLEAN,
           Consistent(f, Fsid, s, obj, drive), NEW r \in mount_volume(f, s, write)
    PROVE  /\ Consistent(f, r.Fsid, r.fs, Aged(r), [drive EXCEPT !.noinit = r.noinit])
           /\ r.ok => f # Null /\ r.fs[f].fs_type # 0 /\ ~Forbidden(write)
<1>0. /\ DOMAIN s = Fs /\ obj \in [Obj -> Record]
      /\ drive \in [medium : Media \cup {None}, noinit : BOOLEAN, protect : BOOLEAN]
      /\ drive.noinit \in BOOLEAN /\ (drive.medium = None => drive.noinit)
  BY DEF Consistent, Typed
<1>1. ASSUME ~r.new
      PROVE  Aged(r) = obj
  BY <1>0, <1>1 DEF Aged
<1>2. CASE /\ r = Stays(r.ok, s, drive.noinit)
           /\ r.ok => f # Null /\ Mounted(f, s) /\ ~Forbidden(write)
  <2>1. r.new = FALSE /\ r.fs = s /\ r.Fsid = Fsid /\ r.noinit = drive.noinit
    BY <1>2 DEF Stays
  <2>2. [drive EXCEPT !.noinit = r.noinit] = drive
    BY <1>0, <2>1
  <2> QED BY <1>1, <1>2, <2>1, <2>2 DEF Mounted
<1>3. ASSUME f \in Fs, NEW noinit \in BOOLEAN, drive.medium = None => noinit,
             r = Stays(FALSE, Cleared(f, s), noinit)
      PROVE  Consistent(f, r.Fsid, r.fs, Aged(r), [drive EXCEPT !.noinit = r.noinit]) /\ ~r.ok
  <2>1. r.new = FALSE /\ r.fs = Cleared(f, s) /\ r.Fsid = Fsid /\ r.noinit = noinit /\ r.ok = FALSE
    BY <1>3 DEF Stays
  <2> QED BY <1>1, <1>3, <2>1, ClearedKeeps
<1>4. ASSUME f \in Fs, drive.medium # None, ~Forbidden(write), r.new,
             NEW bad, r \in FindAndMount(f, Cleared(f, s), bad)
      PROVE  /\ Consistent(f, r.Fsid, r.fs, Aged(r), [drive EXCEPT !.noinit = r.noinit])
             /\ r.fs[f].fs_type # 0 /\ f # Null
  <2>1. Consistent(f, Fsid, Cleared(f, s), obj, drive)
    <3>1. drive = [drive EXCEPT !.noinit = drive.noinit]
      BY <1>0
    <3> QED BY <1>0, <1>4, <3>1, ClearedKeeps
  <2>2. DOMAIN Cleared(f, s) = Fs
    BY DEF Cleared
  <2>3. PICK x : /\ r = [ok |-> TRUE, new |-> TRUE, fs |-> [Cleared(f, s) EXCEPT ![f] = x],
                         noinit |-> FALSE, Fsid |-> NextId(Fsid), missed |-> bad]
                 /\ x.id = NextId(Fsid) /\ x.fs_type # 0
    BY <1>4, <2>2, FoundVolume
  <2>4. r.fs = [Cleared(f, s) EXCEPT ![f] = x] /\ r.noinit = FALSE /\ r.Fsid = NextId(Fsid)
    BY <2>3
  <2>5. Consistent(f, r.Fsid, r.fs, Aged(r), [drive EXCEPT !.noinit = FALSE])
    BY <1>4, <2>1, <2>3, <2>4, MountedKeeps
  <2> QED BY <1>4, <2>2, <2>3, <2>4, <2>5, NullAssumption
<1> QED BY <1>0, <1>2, <1>3, <1>4, MountOutcomes


-----------------------------------------------------------------------------
(* One lemma per kind of step.                                             *)
LEMMA ObjectKeeps ==
    ASSUME NEW F, NEW id, NEW S, NEW O, NEW D, Consistent(F, id, S, O, D),
           NEW o \in Obj, NEW x \in Record, Tracked(F, id, S, D, x)
    PROVE  Consistent(F, id, S, [O EXCEPT ![o] = x], D)
<1>1. O \in [Obj -> Record]
  BY DEF Consistent, Typed
<1>2. [O EXCEPT ![o] = x] \in [Obj -> Record]
      /\ \A p \in Obj : [O EXCEPT ![o] = x][p] = IF p = o THEN x ELSE O[p]
  BY <1>1
<1>3. Typed(F, id, S, [O EXCEPT ![o] = x], D) /\ Latest(F, id, S)
  BY <1>2 DEF Consistent, Typed
<1>4. \A p \in Obj : Tracked(F, id, S, D, [O EXCEPT ![o] = x][p])
  <2>1. \A p \in Obj : Tracked(F, id, S, D, O[p])
    BY DEF Consistent
  <2> QED BY <1>2, <2>1
<1> QED BY <1>3, <1>4 DEF Consistent

LEMMA InitConsistent == Init => IInv
<1> SUFFICES ASSUME Init PROVE IInv
  OBVIOUS
<1>1. \A f \in Fs : fs[f] = Off \/ fs[f].id \in 0 .. IdMod - 1
  <2>1. Garbage.id = 0
    BY DEF Garbage
  <2> QED BY <2>1, IdAssumption DEF Init
<1>2. obj \in [Obj -> Record] /\ \A o \in Obj : obj[o].fs = Null
  BY OffIsUnmounted DEF Init
<1>3. drive.noinit = TRUE /\ drive \in [medium : Media \cup {None}, noinit : BOOLEAN,
                                        protect : BOOLEAN]
  BY DEF Init
<1>4. Typed(FatFs, Fsid, fs, obj, drive)
  BY <1>1, <1>2, <1>3, IdAssumption DEF Init, Typed
<1>5. Latest(FatFs, Fsid, fs) /\ \A o \in Obj : Tracked(FatFs, Fsid, fs, drive, obj[o])
  BY <1>2 DEF Init, Latest, Tracked
<1> QED BY <1>4, <1>5 DEF IInv, Consistent

LEMMA RegisteredKeeps ==
    ASSUME IInv, NEW f \in Fs \cup {Null}
    PROVE  Consistent(f, Fsid, Registered(f), obj, drive)
<1> DEFINE S == Registered(f)
<1>1. DOMAIN S = Fs /\ \A g \in Fs : S[g] = IF g \in {f, FatFs} THEN Off ELSE fs[g]
  BY DEF Registered
<1>2. /\ Typed(FatFs, Fsid, fs, obj, drive)
      /\ \A o \in Obj : Tracked(FatFs, Fsid, fs, drive, obj[o])
  BY DEF IInv, Consistent
<1> HIDE DEF S
<1>3. Typed(f, Fsid, S, obj, drive)
  BY <1>1, <1>2 DEF Typed
<1>4. Latest(f, Fsid, S)
  BY <1>1, <1>2, OffIsUnmounted, NullAssumption DEF Latest, Typed
<1>5. ASSUME NEW o \in Obj, obj[o].fs # Null
      PROVE  Orphan(f, S, obj[o]) /\ Counted(Fsid, obj[o]) /\ Writer(S, drive, obj[o])
  <2>1. obj[o].fs \in Fs
    BY <1>2, <1>5 DEF Typed, Record
  <2>2. Orphan(FatFs, fs, obj[o]) /\ Counted(Fsid, obj[o])
    BY <1>2, <1>5 DEF Tracked
  <2>3. S[obj[o].fs].fs_type = 0
    BY <1>1, <2>1, <2>2, OffIsUnmounted DEF Orphan
  <2> QED BY <2>2, <2>3 DEF Orphan, Writer
<1> QED BY <1>3, <1>4, <1>5 DEF Consistent, Tracked, S

LEMMA MountingKeeps ==
    ASSUME IInv, NEW f \in Fs \cup {Null}, NEW opt \in BOOLEAN, f_mount(f, opt)
    PROVE  IInv'
<1>1. FatFs' = f /\ Consistent(f, Fsid, Registered(f), obj, drive)
  BY RegisteredKeeps DEF f_mount
<1>2. CASE \E r \in mount_volume(f, Registered(f), FALSE) : Take(r) /\ obj' = Aged(r)
  <2>1. PICK r \in mount_volume(f, Registered(f), FALSE) : Take(r) /\ obj' = Aged(r)
    BY <1>2
  <2>2. Consistent(f, r.Fsid, r.fs, Aged(r), [drive EXCEPT !.noinit = r.noinit])
    BY <1>1, MountKeeps
  <2>3. fs' = r.fs /\ Fsid' = r.Fsid /\ drive' = [drive EXCEPT !.noinit = r.noinit]
    BY <2>1 DEF Take
  <2> QED BY <1>1, <2>1, <2>2, <2>3 DEF IInv
<1>3. CASE fs' = Registered(f) /\ UNCHANGED <<Fsid, obj, drive, missed>>
  BY <1>1, <1>3 DEF IInv
<1> QED BY <1>2, <1>3 DEF f_mount

LEMMA CallKeeps ==
    ASSUME IInv, NEW write \in BOOLEAN, CallByPath(write)
    PROVE  IInv'
<1>1. PICK r \in mount_volume(FatFs, fs, write) : Take(r) /\ obj' = Aged(r)
  BY DEF CallByPath
<1>2. FatFs \in Fs \cup {Null} /\ FatFs' = FatFs
  BY DEF IInv, Consistent, Typed, CallByPath
<1>3. Consistent(FatFs, r.Fsid, r.fs, Aged(r), [drive EXCEPT !.noinit = r.noinit])
  BY <1>2, MountKeeps DEF IInv
<1>4. fs' = r.fs /\ Fsid' = r.Fsid /\ drive' = [drive EXCEPT !.noinit = r.noinit]
  BY <1>1 DEF Take
<1> QED BY <1>1, <1>2, <1>3, <1>4 DEF IInv

LEMMA UnusedTracked ==
    ASSUME NEW F, NEW id, NEW S, NEW D
    PROVE  Tracked(F, id, S, D, Unused)
  BY OffIsUnmounted DEF Tracked

LEMMA OpenKeeps ==
    ASSUME IInv, NEW o \in Obj, NEW write \in BOOLEAN, Open(o, write)
    PROVE  IInv'
<1>1. FatFs \in Fs \cup {Null} /\ FatFs' = FatFs
  BY DEF IInv, Consistent, Typed, Open
<1>2. CASE \E r \in mount_volume(FatFs, fs, write) :
             /\ Take(r)
             /\ \/ r.ok /\ obj' = [Aged(r) EXCEPT ![o] = Opened(r, write)]
                \/ obj' = [Aged(r) EXCEPT ![o] = Unused]
  <2>1. PICK r \in mount_volume(FatFs, fs, write) :
             /\ Take(r)
             /\ \/ r.ok /\ obj' = [Aged(r) EXCEPT ![o] = Opened(r, write)]
                \/ obj' = [Aged(r) EXCEPT ![o] = Unused]
    BY <1>2
  <2> DEFINE D == [drive EXCEPT !.noinit = r.noinit]
             x == Opened(r, write)
  <2>2. /\ Consistent(FatFs, r.Fsid, r.fs, Aged(r), D)
        /\ r.ok => FatFs # Null /\ r.fs[FatFs].fs_type # 0 /\ ~Forbidden(write)
    BY <1>1, MountKeeps DEF IInv
  <2>3. fs' = r.fs /\ Fsid' = r.Fsid /\ drive' = D
    BY <2>1 DEF Take
  <2>4. D.protect = drive.protect
    BY DEF IInv, Consistent, Typed
  <2>5. ASSUME r.ok
        PROVE  x \in Record /\ Tracked(FatFs, r.Fsid, r.fs, D, x)
    <3>1. x.fs = FatFs /\ x.id = r.fs[FatFs].id /\ x.write = write /\ x.age = 0
      BY DEF Opened
    <3>2. r.fs[FatFs].id = r.Fsid /\ r.Fsid \in 0 .. IdMod - 1
      BY <2>2, <2>5 DEF Consistent, Typed, Latest
    <3>3. x \in Record
      BY <1>1, <3>1, <3>2, IdAssumption DEF Opened, Record
    <3>4. Orphan(FatFs, r.fs, x)
      BY <3>1 DEF Orphan
    <3>5. Counted(r.Fsid, x)
      BY <3>1, <3>2 DEF Counted
    <3>6. Writer(r.fs, D, x)
      BY <2>2, <2>4, <2>5, <3>1 DEF Writer, Forbidden
    <3> QED BY <3>3, <3>4, <3>5, <3>6 DEF Tracked
  <2> HIDE DEF D, x
  <2>6. CASE r.ok /\ obj' = [Aged(r) EXCEPT ![o] = x]
    <3>1. Consistent(FatFs, r.Fsid, r.fs, [Aged(r) EXCEPT ![o] = x], D)
      BY <2>2, <2>5, <2>6, ObjectKeeps
    <3> QED BY <1>1, <2>3, <2>6, <3>1 DEF IInv
  <2>7. CASE obj' = [Aged(r) EXCEPT ![o] = Unused]
    <3>1. Consistent(FatFs, r.Fsid, r.fs, [Aged(r) EXCEPT ![o] = Unused], D)
      BY <2>2, UnusedTracked, ObjectKeeps, OffIsUnmounted
    <3> QED BY <1>1, <2>3, <2>7, <3>1 DEF IInv
  <2> QED BY <2>1, <2>6, <2>7 DEF x
<1>3. CASE obj' = [obj EXCEPT ![o] = Unused] /\ UNCHANGED <<Fsid, fs, drive, missed>>
  <2>1. Consistent(FatFs, Fsid, fs, [obj EXCEPT ![o] = Unused], drive)
    BY UnusedTracked, ObjectKeeps, OffIsUnmounted DEF IInv
  <2> QED BY <1>1, <1>3, <2>1 DEF IInv
<1> QED BY <1>2, <1>3 DEF Open

LEMMA CloseKeeps ==
    ASSUME IInv, NEW o \in Obj, Close(o)
    PROVE  IInv'
<1>1. Consistent(FatFs, Fsid, fs, [obj EXCEPT ![o] = Unused], drive)
  BY UnusedTracked, ObjectKeeps, OffIsUnmounted DEF IInv
<1> QED BY <1>1 DEF IInv, Close

(* A drive whose medium changed is not initialised.                        *)
LEMMA DriveKeeps ==
    ASSUME IInv, NEW D \in [medium : Media \cup {None}, noinit : {TRUE}, protect : BOOLEAN],
           drive' = D, UNCHANGED <<FatFs, Fsid, fs, obj>>
    PROVE  IInv'
<1>1. D.noinit = TRUE /\ D \in [medium : Media \cup {None}, noinit : BOOLEAN, protect : BOOLEAN]
  OBVIOUS
<1>2. Typed(FatFs, Fsid, fs, obj, D) /\ Latest(FatFs, Fsid, fs)
  BY <1>1 DEF IInv, Consistent, Typed
<1>3. \A o \in Obj : Tracked(FatFs, Fsid, fs, D, obj[o])
  BY <1>1 DEF IInv, Consistent, Tracked, Writer
<1> QED BY <1>2, <1>3 DEF IInv, Consistent

LEMMA Invariance == IInv /\ [Next]_vars => IInv'
<1> SUFFICES ASSUME IInv, [Next]_vars PROVE IInv'
  OBVIOUS
<1>1. ASSUME NEW f \in Fs \cup {Null}, NEW opt \in BOOLEAN, f_mount(f, opt) PROVE IInv'
  BY <1>1, MountingKeeps
<1>2. ASSUME NEW write \in BOOLEAN, CallByPath(write) PROVE IInv'
  BY <1>2, CallKeeps
<1>3. ASSUME NEW write \in BOOLEAN, NEW o \in Obj, Open(o, write) PROVE IInv'
  BY <1>3, OpenKeeps
<1>4. ASSUME NEW o \in Obj, Close(o) PROVE IInv'
  BY <1>4, CloseKeeps
<1>5. CASE Eject
  <2>1. [medium |-> None, noinit |-> TRUE, protect |-> FALSE]
           \in [medium : Media \cup {None}, noinit : {TRUE}, protect : BOOLEAN]
    OBVIOUS
  <2> QED BY <1>5, <2>1, DriveKeeps DEF Eject
<1>6. ASSUME NEW m \in Spares, NEW protect \in BOOLEAN, Insert(m, protect) PROVE IInv'
  <2>1. [medium |-> m, noinit |-> TRUE, protect |-> protect]
           \in [medium : Media \cup {None}, noinit : {TRUE}, protect : BOOLEAN]
    BY MediaAssumption
  <2> QED BY <1>6, <2>1, DriveKeeps DEF Insert
<1>7. CASE UNCHANGED vars
  BY <1>7 DEF vars, IInv
<1> QED BY <1>1, <1>2, <1>3, <1>4, <1>5, <1>6, <1>7 DEF Next

-----------------------------------------------------------------------------
(* The variables keep their types: mount ids are WORDs.                    *)
THEOREM TypeCorrect == Spec => []TypeOK
<1>1. IInv => TypeOK
  BY DEF IInv, Consistent, Typed, TypeOK, Record
<1> QED BY <1>1, InitConsistent, Invariance, PTL DEF Spec

(* validate refuses every object of an earlier mount that is less than     *)
(* IdMod mounts old, on whichever FATFS it was opened.                     *)
THEOREM UsableInOwnMount == Spec => []OwnMount
<1>1. IInv => OwnMount
  <2> SUFFICES ASSUME IInv, NEW o \in Obj, Valid(o), Recent(o)
               PROVE  obj[o].age = 0 /\ obj[o].fs = FatFs
    BY DEF OwnMount
  <2>1. /\ obj[o].fs # Null /\ fs[obj[o].fs].fs_type # 0 /\ obj[o].id = fs[obj[o].fs].id
        /\ obj[o].age < IdMod
    BY DEF Valid, Recent
  <2>2. Orphan(FatFs, fs, obj[o]) /\ Counted(Fsid, obj[o]) /\ Latest(FatFs, Fsid, fs)
    BY <2>1 DEF IInv, Consistent, Tracked
  <2>3. obj[o].fs = FatFs /\ obj[o].id = Fsid
    BY <2>1, <2>2 DEF Orphan, Latest
  <2>4. obj[o].age \in 0 .. IdMod /\ Fsid \in 0 .. IdMod - 1
    BY DEF IInv, Consistent, Typed, Record
  <2> QED BY <2>1, <2>2, <2>3, <2>4, IdAssumption DEF Counted
<1> QED BY <1>1, InitConsistent, Invariance, PTL DEF Spec

(* No object open for writing passes validate on a write-protected medium. *)
THEOREM WritesAreAllowed == Spec => []WriteAllowed
<1>1. IInv => WriteAllowed
  <2> SUFFICES ASSUME IInv, NEW o \in Obj, Valid(o), Recent(o), obj[o].write
               PROVE  ~drive.protect
    BY DEF WriteAllowed
  <2>1. obj[o].fs # Null /\ fs[obj[o].fs].fs_type # 0 /\ ~drive.noinit
        /\ obj[o].id = fs[obj[o].fs].id /\ obj[o].age < IdMod
    BY DEF Valid, Recent
  <2>2. /\ Orphan(FatFs, fs, obj[o]) /\ Counted(Fsid, obj[o]) /\ Latest(FatFs, Fsid, fs)
        /\ Writer(fs, drive, obj[o])
    BY <2>1 DEF IInv, Consistent, Tracked
  <2>3. obj[o].fs = FatFs /\ obj[o].id = Fsid
    BY <2>1, <2>2 DEF Orphan, Latest
  <2>4. obj[o].age \in 0 .. IdMod /\ Fsid \in 0 .. IdMod - 1
    BY DEF IInv, Consistent, Typed, Record
  <2>5. obj[o].age = 0
    BY <2>1, <2>2, <2>3, <2>4, IdAssumption DEF Counted
  <2> QED BY <2>1, <2>2, <2>5 DEF Writer
<1> QED BY <1>1, InitConsistent, Invariance, PTL DEF Spec


-----------------------------------------------------------------------------
(* The volume that find_volume finds.                                      *)
FoundOn(m, s, bad) ==
    /\ s \in BootSectors(m)
    /\ Checked(m, {}, s) = 0
    /\ s # 0 =>
          /\ Checked(m, {}, 0) = 2
          /\ bad = {} => \E j \in 1 .. 4 :
                /\ s = m.table[j]
                /\ \A i \in 1 .. j - 1 : Partition(m, {}, i) # 0

LEMMA CheckedReadable ==
    ASSUME NEW m, NEW bad, NEW s
    PROVE  /\ Checked(m, bad, s) \in {0, 2, 3, 4}
           /\ Checked(m, bad, s) \in {0, 2} =>
                 s \in DOMAIN m.boot /\ Checked(m, {}, s) = Checked(m, bad, s)
  BY DEF Checked, check_fs

LEMMA FirstFatIsLeast ==
    ASSUME NEW m, NEW bad, NEW i \in 1 .. 4, Partition(m, bad, i) < 2
    PROVE  /\ FirstFat(m, bad) \in 1 .. 4
           /\ Partition(m, bad, FirstFat(m, bad)) < 2
           /\ \A j \in 1 .. 4 : Partition(m, bad, j) < 2 => FirstFat(m, bad) <= j
<1> DEFINE fats == {j \in 1 .. 4 : Partition(m, bad, j) < 2}
<1>1. i \in fats
  OBVIOUS
<1>2. FirstFat(m, bad) = CHOOSE j \in fats : \A k \in fats : j <= k
  BY <1>1 DEF FirstFat
<1>3. fats \subseteq {1, 2, 3, 4}
  OBVIOUS
<1> HIDE DEF fats
<1>4. \E j \in fats : \A k \in fats : j <= k
  <2>1. CASE 1 \in fats
    BY <2>1, <1>3
  <2>2. CASE 1 \notin fats /\ 2 \in fats
    BY <2>2, <1>3
  <2>3. CASE 1 \notin fats /\ 2 \notin fats /\ 3 \in fats
    BY <2>3, <1>3
  <2>4. CASE 1 \notin fats /\ 2 \notin fats /\ 3 \notin fats
    BY <2>4, <1>1, <1>3
  <2> QED BY <2>1, <2>2, <2>3, <2>4
<1>5. FirstFat(m, bad) \in fats /\ \A k \in fats : FirstFat(m, bad) <= k
  BY <1>2, <1>4
<1> QED BY <1>5 DEF fats

LEMMA FindVolumeFinds ==
    ASSUME NEW m, NEW bad, ~(find_volume(m, bad).fmt >= 2)
    PROVE  FoundOn(m, find_volume(m, bad).sect, bad)
<1> DEFINE i == FirstFat(m, bad)
           v == find_volume(m, bad)
<1>1. CASE Checked(m, bad, 0) # 2
  <2>1. v.sect = 0 /\ v.fmt = Checked(m, bad, 0)
    BY <1>1 DEF find_volume
  <2>2. Checked(m, bad, 0) = 0
    BY <2>1, CheckedReadable
  <2> QED BY <2>1, <2>2, CheckedReadable DEF FoundOn, BootSectors
<1>2. CASE Checked(m, bad, 0) = 2
  <2>1. v.sect = m.table[i] /\ v.fmt = Partition(m, bad, i)
    BY <1>2 DEF find_volume
  <2>2. \A j \in 1 .. 4 : Partition(m, bad, j) \in {0, 2, 3, 4}
    BY CheckedReadable DEF Partition
  <2>3. \E j \in 1 .. 4 : Partition(m, bad, j) < 2
    <3> SUFFICES ASSUME \A j \in 1 .. 4 : ~(Partition(m, bad, j) < 2) PROVE FALSE
      OBVIOUS
    <3>1. i = 4
      BY DEF FirstFat
    <3> QED BY <3>1, <2>1, <2>2
  <2>4. /\ i \in 1 .. 4 /\ Partition(m, bad, i) < 2
        /\ \A j \in 1 .. 4 : Partition(m, bad, j) < 2 => i <= j
    BY <2>3, FirstFatIsLeast
  <2>5. Partition(m, bad, i) = 0
    BY <2>2, <2>4
  <2>6. Checked(m, bad, m.table[i]) = 0
    BY <2>5 DEF Partition
  <2>7. Checked(m, {}, m.table[i]) = 0 /\ Checked(m, {}, 0) = 2
    BY <1>2, <2>6, CheckedReadable
  <2> HIDE DEF i, v
  <2>8. \A j \in 1 .. i - 1 : Partition(m, bad, j) # 0
    BY <2>4
  <2> QED BY <2>1, <2>4, <2>7, <2>8 DEF FoundOn, BootSectors, v
<1> QED BY <1>1, <1>2

(* The second inductive invariant: a volume that a call may go on with was *)
(* found on the medium in the drive and accepted.                          *)
Described(m, vol, bad) ==
    /\ FoundOn(m, vol.volbase, bad)
    /\ vol = Layout(m.boot[vol.volbase], vol.volbase)
    /\ Accepted(m.boot[vol.volbase])

Present(F, S, D, bad) ==
    F # Null /\ S[F].fs_type # 0 /\ ~D.noinit => Described(Contents[D.medium], S[F].vol, bad)

VInv == IInv /\ Present(FatFs, fs, drive, missed)

LEMMA MountPresents ==
    ASSUME NEW f \in Fs \cup {Null}, NEW s, NEW write \in BOOLEAN,
           Consistent(f, Fsid, s, obj, drive), Present(f, s, drive, missed),
           NEW r \in mount_volume(f, s, write)
    PROVE  Present(f, r.fs, [drive EXCEPT !.noinit = r.noinit], r.missed)
<1> DEFINE D == [drive EXCEPT !.noinit = r.noinit]
<1>0. /\ DOMAIN s = Fs
      /\ drive \in [medium : Media \cup {None}, noinit : BOOLEAN, protect : BOOLEAN]
      /\ drive.noinit \in BOOLEAN /\ (drive.medium = None => drive.noinit)
      /\ D.medium = drive.medium /\ D.noinit = r.noinit
  BY DEF Consistent, Typed
<1> HIDE DEF D
<1>1. CASE r = Stays(r.ok, s, drive.noinit)
  <2>1. r.fs = s /\ r.noinit = drive.noinit /\ r.missed = missed
    BY <1>1 DEF Stays
  <2> QED BY <1>0, <2>1 DEF Present, D
<1>2. ASSUME f \in Fs, NEW noinit, r = Stays(FALSE, Cleared(f, s), noinit)
      PROVE  r.fs[f].fs_type = 0
  <2>1. r.fs = Cleared(f, s)
    BY <1>2 DEF Stays
  <2> QED BY <1>2, <2>1, OffIsUnmounted DEF Cleared
<1>3. ASSUME f \in Fs, r.new, NEW bad, r \in FindAndMount(f, Cleared(f, s), bad)
      PROVE  Described(Inside, r.fs[f].vol, r.missed)
  <2>1. DOMAIN Cleared(f, s) = Fs
    BY DEF Cleared
  <2>2. PICK x : /\ r = [ok |-> TRUE, new |-> TRUE, fs |-> [Cleared(f, s) EXCEPT ![f] = x],
                         noinit |-> FALSE, Fsid |-> NextId(Fsid), missed |-> bad]
                 /\ LET v == find_volume(Inside, bad)
                        b == Inside.boot[v.sect]
                    IN ~(v.fmt >= 2) /\ Accepted(b) /\ x.vol = Layout(b, v.sect)
    BY <1>3, <2>1, FoundVolume
  <2>3. r.fs = [Cleared(f, s) EXCEPT ![f] = x] /\ r.missed = bad
    BY <2>2
  <2>4. r.fs[f] = x
    BY <1>3, <2>1, <2>3
  <2> DEFINE v == find_volume(Inside, bad)
  <2>5. /\ FoundOn(Inside, v.sect, bad) /\ Accepted(Inside.boot[v.sect])
        /\ x.vol = Layout(Inside.boot[v.sect], v.sect)
    BY <2>2, FindVolumeFinds
  <2> HIDE DEF v
  <2>6. x.vol.volbase = v.sect
    BY <2>5 DEF Layout
  <2> QED BY <2>3, <2>4, <2>5, <2>6 DEF Described
<1>4. \/ r = Stays(r.ok, s, drive.noinit)
      \/ f \in Fs /\ \E noinit \in BOOLEAN : r = Stays(FALSE, Cleared(f, s), noinit)
      \/ f \in Fs /\ r.new /\ \E bad : r \in FindAndMount(f, Cleared(f, s), bad)
  BY <1>0, MountOutcomes
<1>5. CASE r.fs[f].fs_type = 0
  BY <1>5 DEF Present
<1>6. CASE Described(Inside, r.fs[f].vol, r.missed)
  BY <1>0, <1>6 DEF Present, Inside, D
<1> QED BY <1>1, <1>2, <1>3, <1>4, <1>5, <1>6 DEF D

LEMMA InitPresent == Init => Present(FatFs, fs, drive, missed)
  BY DEF Init, Present

LEMMA StaysPresent == VInv /\ [Next]_vars => Present(FatFs, fs, drive, missed)'
<1> SUFFICES ASSUME VInv, [Next]_vars PROVE Present(FatFs', fs', drive', missed')
  BY DEF Present, Described
<1>0. /\ FatFs \in Fs \cup {Null} /\ IInv
      /\ Present(FatFs, fs, drive, missed) /\ Consistent(FatFs, Fsid, fs, obj, drive)
  BY DEF VInv, IInv, Consistent, Typed
<1>1. ASSUME NEW f \in Fs \cup {Null}, NEW s, NEW write \in BOOLEAN,
             Consistent(f, Fsid, s, obj, drive), Present(f, s, drive, missed),
             NEW r \in mount_volume(f, s, write), Take(r), FatFs' = f
      PROVE  Present(FatFs', fs', drive', missed')
  <2>1. Present(f, r.fs, [drive EXCEPT !.noinit = r.noinit], r.missed)
    BY <1>1, MountPresents
  <2> QED BY <1>1, <2>1 DEF Take
<1>2. ASSUME NEW f \in Fs \cup {Null}, NEW opt \in BOOLEAN, f_mount(f, opt)
      PROVE  Present(FatFs', fs', drive', missed')
  <2>1. Consistent(f, Fsid, Registered(f), obj, drive)
    BY <1>0, RegisteredKeeps
  <2>2. f # Null => Registered(f)[f].fs_type = 0
    BY OffIsUnmounted DEF Registered
  <2>3. Present(f, Registered(f), drive, missed)
    BY <2>2 DEF Present
  <2>4. CASE \E r \in mount_volume(f, Registered(f), FALSE) : Take(r)
    BY <1>1, <1>2, <2>1, <2>3, <2>4 DEF f_mount
  <2>5. CASE fs' = Registered(f) /\ UNCHANGED <<Fsid, obj, drive, missed>>
    BY <1>2, <2>3, <2>5 DEF f_mount
  <2> QED BY <1>2, <2>4, <2>5 DEF f_mount
<1>3. ASSUME NEW write \in BOOLEAN, CallByPath(write)
      PROVE  Present(FatFs', fs', drive', missed')
  <2>1. FatFs' = FatFs /\ \E r \in mount_volume(FatFs, fs, write) : Take(r)
    BY <1>3 DEF CallByPath
  <2> QED BY <1>0, <1>1, <2>1
<1>4. ASSUME NEW write \in BOOLEAN, NEW o \in Obj, Open(o, write)
      PROVE  Present(FatFs', fs', drive', missed')
  <2>1. FatFs' = FatFs
    BY <1>4 DEF Open
  <2>2. CASE \E r \in mount_volume(FatFs, fs, write) : Take(r)
    BY <1>0, <1>1, <2>1, <2>2
  <2>3. CASE UNCHANGED <<Fsid, fs, drive, missed>>
    BY <1>0, <2>1, <2>3
  <2> QED BY <1>4, <2>2, <2>3 DEF Open
<1>5. ASSUME NEW o \in Obj, Close(o)
      PROVE  Present(FatFs', fs', drive', missed')
  BY <1>0, <1>5 DEF Close
<1>6. CASE drive'.noinit = TRUE
  BY <1>6 DEF Present
<1>7. ASSUME Eject \/ \E m \in Spares, protect \in BOOLEAN : Insert(m, protect)
      PROVE  drive'.noinit = TRUE
  BY <1>7 DEF Eject, Insert
<1>8. CASE UNCHANGED vars
  BY <1>0, <1>8 DEF vars
<1> QED BY <1>2, <1>3, <1>4, <1>5, <1>6, <1>7, <1>8 DEF Next

(* The mounted volume is one of the medium in the drive, as its own boot   *)
(* record lays it out, whatever media come and go and whatever cannot be   *)
(* read.                                                                   *)
THEOREM MountedVolume == Spec => []VolumeOfMedium
<1>1. VInv => VolumeOfMedium
  BY DEF VInv, Present, Described, FoundOn, VolumeOfMedium, Mounted, Inside
<1>2. Init => VInv
  BY InitConsistent, InitPresent DEF VInv
<1>3. VInv /\ [Next]_vars => VInv'
  BY Invariance, StaysPresent DEF VInv
<1> QED BY <1>1, <1>2, <1>3, PTL DEF Spec

(* Its layout is sound, unless the sizes in the boot record overflow.      *)
THEOREM MountedLayout == Spec => []LayoutIsSound
<1>1. VInv => LayoutIsSound
  <2> SUFFICES ASSUME VInv, FatFs # Null, Mounted(FatFs, fs),
                      Representable(Inside.boot[fs[FatFs].vol.volbase], fs[FatFs].vol.volbase)
               PROVE  SoundLayout(fs[FatFs].vol,
                                  TotalSectors(Inside.boot[fs[FatFs].vol.volbase]))
    BY DEF LayoutIsSound
  <2> DEFINE vol == fs[FatFs].vol
             s == vol.volbase
             b == Inside.boot[s]
  <2>1. Described(Inside, vol, missed)
    BY DEF VInv, Present, Mounted, Inside
  <2>2. s \in BootSectors(Inside) /\ Checked(Inside, {}, s) = 0 /\ Accepted(b)
        /\ vol = Layout(b, s)
    BY <2>1 DEF Described, FoundOn
  <2>3. drive.medium \in Media
    BY DEF VInv, IInv, Consistent, Typed, Mounted
  <2>4. IsMedium(Inside)
    BY <2>3, MediaAssumption DEF Inside
  <2>5. s \in DOMAIN Inside.boot
    BY <2>2, CheckedReadable
  <2>6. b \in BootRecord
    BY <2>4, <2>5 DEF IsMedium
  <2>7. s \in Nat
    BY <2>2, <2>4 DEF BootSectors, IsMedium
  <2> QED BY <2>2, <2>6, <2>7, AcceptedIsSound
<1>2. Init => VInv
  BY InitConsistent, InitPresent DEF VInv
<1>3. VInv /\ [Next]_vars => VInv'
  BY Invariance, StaysPresent DEF VInv
<1> QED BY <1>1, <1>2, <1>3, PTL DEF Spec

(* Objects are used in their own mount, and written where that is allowed. *)
THEOREM ObjectsStayInPlace == Spec => []ObjectsInPlace
<1>1. OwnMount /\ WriteAllowed => ObjectsInPlace
  BY DEF ObjectsInPlace
<1> QED BY <1>1, UsableInOwnMount, WritesAreAllowed, PTL

(* The mounted volume is the one in the drive and its layout is sound.     *)
THEOREM MountedTruly == Spec => []VolumeTrue
<1>1. VolumeOfMedium /\ LayoutIsSound => VolumeTrue
  BY DEF VolumeTrue
<1> QED BY <1>1, MountedVolume, MountedLayout, PTL
=============================================================================
