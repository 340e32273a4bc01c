----------------------------- MODULE Directory -----------------------------
(***************************************************************************)
(* One directory table, static (the root directory of FAT12/16) or a chain *)
(* of clusters: dir_sdi, dir_next, dir_alloc, dir_read, dir_find,          *)
(* dir_register, dir_remove, and the calls that use them on it (f_open,    *)
(* f_stat, f_mkdir, f_unlink, f_rename) while an open DIR (f_opendir,      *)
(* f_readdir) goes through it.                                             *)
(*                                                                         *)
(* The unit of offsets is one entry.  A call is a step per entry it looks  *)
(* at, and any step may fail on the disk; the driver is single-threaded,   *)
(* so calls do not overlap, but an open DIR lives from call to call.       *)
(* Sectors are those the window shows (module Window).                     *)
(***************************************************************************)
EXTENDS Integers, FiniteSets

CONSTANTS Name,        \* 8.3 names
          SS,          \* entries per sector
          CSize,       \* sectors per cluster
          NRootDir,    \* FATFS.n_rootdir: entries of the static table
          NFatEnt,     \* FATFS.n_fatent
          MaxDir,      \* MAX_DIR / SZDIRE
          Room         \* bound: free entries of the table to begin with

ASSUME SizeAssumption ==
    /\ SS \in Nat \ {0} /\ CSize \in Nat \ {0}
    /\ NRootDir \in Nat /\ NRootDir % SS = 0 /\ NRootDir <= MaxDir
    /\ NFatEnt \in Nat /\ NFatEnt > 2
    /\ MaxDir \in Nat /\ MaxDir % (SS * CSize) = 0 /\ MaxDir > 0
    /\ Room \in Nat

(* What an entry holds besides the name of an object: nothing, and nothing *)
(* after it; a deleted object; what no call looks for (a volume label, the *)
(* dot entries); what an old cluster or one of a file happens to hold.     *)
Mark == {"end", "deleted", "other", "junk"}
ASSUME NameAssumption == Name \cap Mark = {} /\ "none" \notin Name

VARIABLES sclust,   \* first cluster of the table (FFOBJID), 0 if it is static
          slot,     \* the entries of every sector
          fat,      \* the FAT, as get_fat returns it
          rd,       \* the open DIR: dptr, sect, clust
          job,      \* the call under way
          last,     \* ghost: how the last call ended
          scan,     \* ghost: the reader is "on" its way, was told of the end
                    \* ("ended"), was told of an error and ended by it ("off")
                    \* or not ("failed"), and got a further item then ("wild")
          must,     \* ghost: names there since the reader started
          seen,     \* ghost: how often the reader got a name since
          twice,    \* ghost: names renamed to themselves without success
          garbled   \* ghost: dir_clear failed on a cluster of the table

ghosts == <<scan, must, seen, twice, garbled>>
vars == <<sclust, slot, fat, rd, job, last, scan, must, seen, twice, garbled>>

Clusters == 2 .. NFatEnt - 1
EOC == NFatEnt
Dirbase == 1                                  \* the static table
Database == Dirbase + NRootDir \div SS
clst2sect(c) == Database + (c - 2) * CSize
Sector == Dirbase .. clst2sect(NFatEnt) - 1
Index == 0 .. SS - 1
IsFree(e) == e \in {"end", "deleted"}

-----------------------------------------------------------------------------
(* DIR objects                                                             *)

(* dir_sdi(dp, 0).                                                         *)
Top == [dptr |-> 0, clust |-> sclust,
        sect |-> IF sclust = 0 THEN Dirbase ELSE clst2sect(sclust)]

(* The entry at dp->dir, once move_window(dp->sect) succeeded.             *)
At(dp) == slot[dp.sect][dp.dptr % SS]

Disabled(dp) == [dp EXCEPT !.sect = 0]
InSector(dp) == [dp EXCEPT !.dptr = @ + 1]
InNextSector(dp) == [dp EXCEPT !.dptr = @ + 1, !.sect = @ + 1]
InCluster(dp, c) == [dptr |-> dp.dptr + 1, clust |-> c, sect |-> clst2sect(c)]
(* What a failing get_fat leaves: the sector number has already moved on.  *)
Derailed(dp) == [dp EXCEPT !.sect = @ + 1]

AtSectorEnd(dp) == (dp.dptr + 1) % SS = 0
AtClusterEnd(dp) ==
    AtSectorEnd(dp) /\ dp.clust # 0 /\ ((dp.dptr + 1) \div SS) % CSize = 0
AtTableEnd(dp) ==
    \/ dp.dptr + 1 >= MaxDir
    \/ AtSectorEnd(dp) /\ dp.clust = 0 /\ dp.dptr + 1 >= NRootDir

EndOfChain(v) == v >= NFatEnt

(* The ways dir_next can end; "chain_end" is the end of a chain, where the *)
(* table is stretched or ends.                                             *)
dir_next(dp) ==
    IF dp.sect = 0 \/ AtTableEnd(dp) THEN {[res |-> "no_file", dp |-> Disabled(dp)]}
    ELSE IF AtClusterEnd(dp)
    THEN {[res |-> "disk_err", dp |-> Derailed(dp)],
          CASE fat[dp.clust] < 2        -> [res |-> "int_err", dp |-> Derailed(dp)]
            [] EndOfChain(fat[dp.clust]) -> [res |-> "chain_end", dp |-> Disabled(dp)]
            [] OTHER -> [res |-> "ok", dp |-> InCluster(dp, fat[dp.clust])]}
    ELSE {[res |-> "ok", dp |-> IF AtSectorEnd(dp) THEN InNextSector(dp) ELSE InSector(dp)]}

(* The names in the table.                                                 *)
Places(n) == {p \in Sector \X Index : slot[p[1]][p[2]] = n}
NotSeen == [n \in Name |-> 0]
Names == {slot[s][i] : s \in Sector, i \in Index} \cap Name

-----------------------------------------------------------------------------
(* Calls                                                                   *)

Idle == [op |-> "none", pc |-> "idle", name |-> "none", new |-> "none",
         dp |-> Top, old |-> Top]
NoAnswer == [name |-> "none", res |-> "none"]
Ops == {"open", "create", "unlink", "rename"}
Answers == {"ok", "no_file", "exist", "denied", "full", "disk_err", "int_err"}

Call(op, n, new) ==
    /\ job = Idle
    /\ job' = [op |-> op, pc |-> "find", name |-> n, new |-> new, dp |-> Top, old |-> Top]
    /\ last' = NoAnswer
    /\ UNCHANGED <<slot, fat, rd, ghosts>>

f_open(n) == Call("open", n, "none")      \* an existing file; f_stat, f_opendir
f_create(n) == Call("create", n, "none")  \* f_open of a new file, f_mkdir
f_unlink(n) == Call("unlink", n, "none")
f_rename(n, m) == Call("rename", n, m)

Target == IF job.pc = "find_new" THEN job.new ELSE job.name

Answer(res) ==
    /\ job' = Idle
    /\ last' = [name |-> Target, res |-> res]

Goto(pc, dp) == job' = [job EXCEPT !.pc = pc, !.dp = dp] /\ UNCHANGED last

(* dir_find came to the end of the table.                                  *)
NotFound ==
    \/ /\ job.op = "create" \/ job.pc = "find_new"
       /\ Goto("alloc", Top)
    \/ /\ job.op # "create" /\ job.pc = "find"
       /\ Answer("no_file")

(* f_rename takes the entry to be renamed for no collision.                *)
SameEntry(dp) == dp.dptr = job.old.dptr

(* dir_find found the entry at job.dp.  f_unlink refuses read-only objects *)
(* and sub-directories that are not empty or cannot be read.               *)
Found ==
    \/ job.op = "open" /\ Answer("ok")
    \/ job.op = "create" /\ Answer("exist")
    \/ /\ job.op = "unlink"
       /\ \/ Goto("remove", job.dp)
          \/ \E r \in {"denied", "disk_err", "int_err"} : Answer(r)
    \/ /\ job.op = "rename" /\ job.pc = "find"
       /\ job' = [job EXCEPT !.pc = "find_new", !.dp = Top, !.old = job.dp]
       /\ UNCHANGED last
    \/ /\ job.pc = "find_new"
       /\ IF SameEntry(job.dp) THEN Goto("alloc", Top) ELSE Answer("exist")

(* The entry dir_find stops at for want of another.                        *)
EndsSearch_Deleted(e) == IsFree(e)
EndsSearch(e) == e = "end"

(* One turn of dir_find.                                                   *)
dir_find ==
    /\ job.pc \in {"find", "find_new"}
    /\ \/ Answer("disk_err")
       \/ EndsSearch(At(job.dp)) /\ NotFound
       \/ At(job.dp) = Target /\ Found
       \/ /\ ~EndsSearch(At(job.dp)) /\ At(job.dp) # Target
          /\ \E o \in dir_next(job.dp) :
                \/ o.res = "ok" /\ Goto(job.pc, o.dp)
                \/ o.res \in {"no_file", "chain_end"} /\ NotFound
                \/ o.res \in {"disk_err", "int_err"} /\ Answer(o.res)
    /\ UNCHANGED <<slot, fat, rd, ghosts>>

-----------------------------------------------------------------------------
(* dir_alloc and dir_register                                              *)

(* The entry dir_alloc takes.                                              *)
Takes(e) == IsFree(e)

(* dir_register writes the name; f_rename goes on to remove the old entry. *)
Put ==
    LET n == IF job.op = "rename" THEN job.new ELSE job.name
    IN /\ slot' = [slot EXCEPT ![job.dp.sect][job.dp.dptr % SS] = n]
       /\ must' = must \ {n}
       /\ seen' = [seen EXCEPT ![n] = 0]
       /\ IF job.op = "rename" THEN Goto("remove", job.old) ELSE Answer("ok")
       /\ UNCHANGED <<fat, rd, scan, twice, garbled>>

Cleared_TopOnly(c) ==
    [s \in Sector |-> IF s = clst2sect(c) THEN [i \in Index |-> "end"] ELSE slot[s]]
(* dir_clear(c) for the first k sectors.                                   *)
ClearedTo(c, k) ==
    [s \in Sector |-> IF s \in clst2sect(c) .. clst2sect(c) + k - 1
                      THEN [i \in Index |-> "end"] ELSE slot[s]]
Cleared(c) == ClearedTo(c, CSize)

(* dir_next at the end of the chain with stretch: create_chain takes some  *)
(* free cluster and links it, or links nothing (and may lose a cluster),   *)
(* then dir_clear.                                                         *)
Stretch ==
    LET dp == job.dp
    IN \/ /\ \E r \in {"full", "disk_err", "int_err"} : Answer(r)
          /\ UNCHANGED <<slot, fat, ghosts>>
       \/ \E c \in {d \in Clusters : fat[d] = 0} :
            \/ /\ fat' = [fat EXCEPT ![c] = EOC]
               /\ Answer("disk_err")
               /\ UNCHANGED <<slot, ghosts>>
            \/ /\ fat' = [fat EXCEPT ![c] = EOC, ![dp.clust] = c]
               /\ slot' = Cleared(c)
               /\ Goto("alloc", InCluster(dp, c))
               /\ UNCHANGED ghosts
            \/ /\ fat' = [fat EXCEPT ![c] = EOC, ![dp.clust] = c]
               /\ \E k \in 0 .. CSize - 1 : slot' = ClearedTo(c, k)
               /\ garbled' = TRUE
               /\ Answer("disk_err")
               /\ UNCHANGED <<scan, must, seen, twice>>

(* One turn of dir_alloc.                                                  *)
dir_alloc ==
    /\ job.pc = "alloc"
    /\ \/ Answer("disk_err") /\ UNCHANGED <<slot, fat, rd, ghosts>>
       \/ Takes(At(job.dp)) /\ Put
       \/ /\ ~Takes(At(job.dp))
          /\ UNCHANGED rd
          /\ \E o \in dir_next(job.dp) :
                \/ o.res = "chain_end" /\ Stretch
                \/ /\ \/ o.res = "ok" /\ Goto("alloc", o.dp)
                      \/ o.res = "no_file" /\ Answer("full")
                      \/ o.res \in {"disk_err", "int_err"} /\ Answer(o.res)
                   /\ UNCHANGED <<slot, fat, ghosts>>

(* dir_remove, for f_unlink and at the end of f_rename.  If it fails, a    *)
(* renamed object is left with two entries.                                *)
dir_remove ==
    /\ job.pc = "remove"
    /\ \/ /\ slot' = [slot EXCEPT ![job.dp.sect][job.dp.dptr % SS] = "deleted"]
          /\ must' = must \ {job.name}
          /\ seen' = [seen EXCEPT ![job.name] = 0]
          /\ Answer("ok")
          /\ UNCHANGED twice
       \/ /\ Answer("disk_err")
          /\ twice' = IF job.name = job.new THEN twice \cup {job.new} ELSE twice
          /\ UNCHANGED <<slot, must, seen>>
    /\ UNCHANGED <<fat, rd, scan, garbled>>

-----------------------------------------------------------------------------
(* The open directory                                                      *)

(* f_opendir, f_readdir(dp, NULL).                                         *)
f_opendir ==
    /\ job = Idle
    /\ rd' = Top
    /\ scan' = "on"
    /\ must' = Names
    /\ seen' = NotSeen
    /\ last' = NoAnswer
    /\ UNCHANGED <<slot, fat, job, twice, garbled>>

f_readdir ==
    /\ job = Idle
    /\ job' = [Idle EXCEPT !.op = "readdir", !.pc = "read"]
    /\ last' = NoAnswer
    /\ UNCHANGED <<slot, fat, rd, ghosts>>

(* dir_read's end of table and errors: the DIR is disabled.                *)
ReadStops(how) ==
    /\ rd' = Disabled(rd)
    /\ scan' = how /\ must' = {} /\ seen' = NotSeen
    /\ job' = Idle

(* dir_read stops at an entry; f_readdir then moves on.  If that fails the *)
(* caller gets the error and no item, and the DIR stays enabled.           *)
Item(e) ==
    \E o \in dir_next(rd) :
       /\ rd' = o.dp
       /\ \/ /\ o.res \in {"ok", "no_file", "chain_end"}
             /\ scan' = IF scan = "on" THEN "on" ELSE "wild"
             /\ seen' = IF scan = "on" /\ e \in Name
                        THEN [seen EXCEPT ![e] = IF @ = 0 THEN 1 ELSE 2] ELSE seen
             /\ UNCHANGED must
          \/ /\ o.res \in {"disk_err", "int_err"}
             /\ scan' = "failed" /\ must' = {} /\ seen' = NotSeen

Skips(e) == e \in {"deleted", "other"}

(* One turn of dir_read, and the end of f_readdir.                         *)
dir_read ==
    /\ job.pc = "read"
    /\ \/ rd.sect = 0 /\ ReadStops("ended")
       \/ rd.sect # 0 /\ ReadStops("off")          \* move_window fails
       \/ /\ rd.sect \in Sector
          /\ \/ EndsSearch(At(rd)) /\ ReadStops("ended")
             \/ /\ Skips(At(rd))
                /\ \E o \in dir_next(rd) :
                      \/ o.res = "ok" /\ rd' = o.dp /\ UNCHANGED <<job, scan, must, seen>>
                      \/ o.res \in {"no_file", "chain_end"} /\ ReadStops("ended")
                      \/ o.res \in {"disk_err", "int_err"} /\ ReadStops("off")
             \/ /\ ~EndsSearch(At(rd)) /\ ~Skips(At(rd))
                /\ Item(At(rd))
                /\ job' = Idle
    /\ UNCHANGED <<slot, fat, last, twice, garbled>>

-----------------------------------------------------------------------------
InitCalls ==
    /\ rd = Disabled(Top)
    /\ job = Idle
    /\ last = NoAnswer
    /\ scan = "off"
    /\ must = {} /\ seen = NotSeen /\ twice = {}
    /\ garbled = FALSE

(* A table on n clusters in a row.                                         *)
InitChain(n) ==
    fat = [c \in Clusters |-> IF c < n + 1 THEN c + 1 ELSE IF c = n + 1 THEN EOC ELSE 0]

(* The table begins with other entries and has at most Room free ones.     *)
InitSlots(first, sectors) ==
    \E k \in sectors * SS - Room .. sectors * SS :
       slot = [s \in Sector |-> [i \in Index |->
                 IF s \notin first .. first + sectors - 1 THEN "junk"
                 ELSE IF (s - first) * SS + i < k THEN "other" ELSE "end"]]

Init ==
    /\ \/ /\ sclust = 0 /\ NRootDir > 0
          /\ InitChain(1)
          /\ InitSlots(Dirbase, NRootDir \div SS)
       \/ /\ sclust = 2
          /\ \E n \in 1 .. NFatEnt - 2 :
                /\ n * CSize * SS <= MaxDir
                /\ InitChain(n)
                /\ InitSlots(clst2sect(2), n * CSize)
    /\ InitCalls

Step == dir_find \/ dir_alloc \/ dir_remove \/ dir_read

Calls ==
    \/ \E n \in Name : f_open(n) \/ f_create(n) \/ f_unlink(n)
    \/ \E n, m \in Name : f_rename(n, m)
    \/ f_opendir
    \/ f_readdir

Next == (Calls \/ Step) /\ UNCHANGED sclust

Spec == Init /\ [][Next]_vars

-----------------------------------------------------------------------------
(* Position p of the table; there is nothing after its last cluster.       *)
NthCluster[k \in Nat] ==
    IF k = 0 THEN sclust
    ELSE LET c == NthCluster[k - 1] IN IF c \in Clusters THEN fat[c] ELSE EOC
Position == 0 .. MaxDir - 1
PlaceOf(p) ==
    IF sclust = 0 THEN Dirbase + p \div SS
    ELSE clst2sect(NthCluster[p \div (SS * CSize)]) + ((p \div SS) % CSize)
InTable(p) ==
    IF sclust = 0 THEN p < NRootDir ELSE NthCluster[p \div (SS * CSize)] \in Clusters
EntryAt(p) == IF InTable(p) THEN slot[PlaceOf(p)][p % SS] ELSE "end"

(* Every variable keeps its type.                                          *)
Dirs == [dptr : Position, sect : {0} \cup Sector, clust : {0} \cup Clusters]
TypeOK ==
    /\ sclust \in {0, 2}
    /\ slot \in [Sector -> [Index -> Mark \cup Name]]
    /\ fat \in [Clusters -> {0, 1, EOC} \cup Clusters]
    /\ rd.dptr \in Position /\ rd.sect \in Nat /\ rd.clust \in {0} \cup Clusters
    /\ job.op \in Ops \cup {"none", "readdir"}
    /\ job.pc \in {"idle", "find", "find_new", "alloc", "remove", "read"}
    /\ {job.name, job.new} \subseteq Name \cup {"none"}
    /\ job.dp \in Dirs /\ job.old \in Dirs
    /\ last.res \in Answers \cup {"none"}
    /\ scan \in {"off", "ended", "on", "failed", "wild"}
    /\ must \cup twice \subseteq Name /\ seen \in [Name -> 0 .. 2]
    /\ garbled \in BOOLEAN

(* No two entries of one name: what dir_find did not see between the first *)
(* entry and the end mark dir_alloc does not put in a second time. Only    *)
(* f_rename to the same name has two entries, until it removed the old one,*)
(* and for good if it fails to (twice).                                    *)
Renaming(n) == job.pc = "remove" /\ job.op = "rename" /\ job.name = n /\ job.new = n
UniqueNames ==
    \A n \in Name \ twice : Cardinality(Places(n)) > 1 => Renaming(n)

(* Nothing lies behind the end mark, also in a cluster that was added: no  *)
(* later entry brings back what an old cluster held.  A cluster that was   *)
(* linked and could not be cleared (garbled) is left out: it does.         *)
NothingBehindEnd ==
    ~garbled => \A p \in Position \ {0} :
        EntryAt(p - 1) = "end" => EntryAt(p) = "end"

(* A call is refused for want of an entry only if every entry is in use,   *)
(* deleted ones having been taken again.                                   *)
FullMeansFull ==
    last.res = "full" => \A p \in Position : InTable(p) => ~IsFree(EntryAt(p))

(* A DIR in use is at the entry its offset says: offset, sector and        *)
(* cluster move together over sector and cluster boundaries, for a reader  *)
(* whose table is stretched meanwhile too.                                 *)
Located(dp) == InTable(dp.dptr) /\ dp.sect = PlaceOf(dp.dptr)
InPlace ==
    /\ job.pc \notin {"idle", "read"} => Located(job.dp)
    /\ job.pc = "remove" => EntryAt(job.dp.dptr) = job.name
    /\ rd.sect # 0 /\ scan # "failed" => Located(rd)

(* Whatever call is under way or has failed, the table is one that the next*)
(* search, allocation and reading can rely on, but for two failures: of the*)
(* last step of renaming a name to itself, and of clearing a linked cluster*)
(* (hidden 957).                                                           *)
TableSound == TypeOK /\ UniqueNames /\ NothingBehindEnd /\ FullMeansFull /\ InPlace

(* The table and its reader keep the promise of Listing: creating and      *)
(* removing change one name, a reader gets what was there all the time and *)
(* nothing twice, although entries come, go and move while it is on its    *)
(* way.                                                                    *)
List == INSTANCE Listing WITH names <- Names, state <- scan
RefinesListing == List!Spec
=============================================================================
