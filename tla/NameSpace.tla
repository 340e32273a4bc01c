----------------------------- MODULE NameSpace -----------------------------
(***************************************************************************)
(* What the calls that create, remove and move files and directories leave *)
(* on the disk when a transfer fails or the power is cut: f_open, f_write, *)
(* f_truncate, f_sync, f_close, f_unlink, f_mkdir, f_rename, f_chmod and   *)
(* f_utime as the sequences of sector updates they make through the        *)
(* window; f_chdir and f_getcwd with the current directory, which only the *)
(* volume object knows (FF_FS_RPATH).                                      *)
(*                                                                         *)
(* Every FAT entry has a sector of its own and every table is one sector:  *)
(* entries that share a sector only reach the disk together more often.    *)
(* The turns of a search move the window without changing anything; one    *)
(* move stands for all that have no update between them, because only the  *)
(* first can find a dirty window.  Tables that grow or are full, names     *)
(* that collide and chains that are damaged are in Directory and FatChain. *)
(***************************************************************************)
EXTENDS Integers, Sequences, FiniteSets, Linked

CONSTANTS Name, Cluster,
          Zero, EOC,    \* what a FAT entry holds besides a cluster
          MaxLen,       \* bound: clusters of a file
          MaxFaults     \* bound: failing transfers and power cuts

ASSUME ClusterAssumption == Cluster \cap {Zero, EOC} = {} /\ Zero # EOC
ASSUME BoundAssumption == MaxLen \in Nat \ {0} /\ MaxFaults \in Nat

VARIABLES disk,    \* the sectors of the FAT and the tables or data of clusters
          win,     \* the window: sect, data, dirty
          fp,      \* the one open file
          cdir,    \* current directory: the cluster of its table
          job,     \* the rest of the call under way
          faults,  \* how many transfers have failed and power cuts there were
          cut,     \* ghost: places of files truncated and not recorded since
          moved,   \* ghost: first clusters of objects that are being renamed
          safe     \* ghost: objects that were synchronised and the places
                   \* where they may be since

ghosts == <<cut, moved, safe>>
vars == <<disk, win, fp, cdir, job, faults, cut, moved, safe>>

(* Cluster 0 stands for the root, for no cluster and for a free FAT entry. *)
Root == Zero
(* A sector of the FAT, and the sector of a cluster or of the root.        *)
Fat(c) == <<"fat", c>>
Body(c) == <<"body", c>>
At(d, s) == d[s[1]][s[2]]
Put(d, s, data) == [d EXCEPT ![s[1]][s[2]] = data]
Place == ({Root} \cup Cluster) \X Name

NoEntry == [kind |-> "none", clust |-> Zero, len |-> 0]
(* up: what the dot-dot entry refers to, if there is one.                  *)
Blank == [kind |-> "table", ent |-> [n \in Name |-> NoEntry], up |-> {}]
Data == [kind |-> "data"]
Junk == [kind |-> "junk"]

-----------------------------------------------------------------------------
(* The volume d, which is the disk or what the window makes of it          *)

Seen == IF win.sect = <<>> THEN disk ELSE Put(disk, win.sect, win.data)

EntryAt(d, p) ==
    IF d.body[p[1]].kind = "table" THEN d.body[p[1]].ent[p[2]] ELSE NoEntry

(* The clusters from c on.                                                 *)
ChainFrom(d, c) == Follow(c, d.fat, Cluster)
Chain(d, p) == ChainFrom(d, EntryAt(d, p).clust)
Used(d, p) == LET ch == Chain(d, p) IN {ch[i] : i \in DOMAIN ch}

(* The tables that lead on from table t, and those reached from the root.  *)
Below(d, T) ==
    {EntryAt(d, p).clust : p \in {q \in T \X Name : EntryAt(d, q).kind = "dir"}}
Under(d, t) ==
    LET down[k \in Nat] ==
          IF k = 0 THEN {t} ELSE LET T == down[k - 1] IN T \cup Below(d, T)
    IN down[Cardinality(Cluster)]
Entries(d) == {p \in Under(d, Root) \X Name : EntryAt(d, p).kind # "none"}

(* The pairs of places in P that have a cluster in common.                 *)
Shared(d, P) ==
    LET owns == UNION {{p} \X Used(d, p) : p \in P}
    IN {<<x[1], y[1]>> : <<x, y>> \in {z \in owns \X owns : z[1][1] # z[2][1] /\ z[1][2] = z[2][2]}}
Backed(d, p) ==
    LET ch == Chain(d, p)
    IN /\ Len(ch) >= EntryAt(d, p).len
       /\ ch # <<>> => d.fat[ch[Len(ch)]] = EOC
Ready(d, p) == d.body[EntryAt(d, p).clust].kind = "table"

-----------------------------------------------------------------------------
(* The steps of a call                                                     *)

Look(t) == [do |-> "look", at |-> Body(t)]
Link(c, v) == [do |-> "link", at |-> Fat(c), val |-> v]
Enter(p, e) == [do |-> "enter", at |-> Body(p[1]), name |-> p[2], val |-> e]
Up(c, t) == [do |-> "up", at |-> Body(c), val |-> t]
Clear(c) == [do |-> "clear", at |-> Body(c)]
Write(c) == [do |-> "write", at |-> Body(c)]
Sync == [do |-> "sync"]
Fp(v) == [do |-> "fp", val |-> v]       \* the object of the caller
Cdir(t) == [do |-> "cdir", val |-> t]
Undo(s) == [do |-> "undo", val |-> s]   \* what is done if a later step fails

(* follow_path begins at the root, or for what is in the current directory *)
(* there, with a relative path: then a dirty window may be there already.  *)
Path(t) == <<Look(IF t = cdir THEN t ELSE Root)>>

(* remove_chain, from the first cluster on.                                *)
remove_chain(ch) == [i \in 1 .. Len(ch) |-> Link(ch[i], Zero)]

(* create_chain: the new cluster is an end of chain before a link leads    *)
(* to it.                                                                  *)
Stretch(ch, c) == <<Link(c, EOC), Link(ch[Len(ch)], c)>>

FreeClusters == {c \in Cluster : Seen.fat[c] = Zero}

Closed == [at |-> <<>>, clust |-> Zero, len |-> 0, mod |-> FALSE, err |-> FALSE]
Idle == [plan |-> <<>>, undo |-> <<>>, aborts |-> FALSE]

(* Calls on the object at p and on another at q.  The volume has to be     *)
(* sound: what a cut in f_rename or after f_truncate broke stays as it is. *)
Sound ==
    LET here == Entries(Seen) \ (cut \cap {fp.at})
    IN /\ Shared(Seen, here) = {}
       /\ \A p \in here : Backed(Seen, p)
       /\ \A p \in here : EntryAt(Seen, p).kind = "dir" => Ready(Seen, p)
MayCall == job = Idle /\ Sound
Missing(p) == p \in (Under(Seen, Root) \X Name) \ Entries(Seen)
Object(p) == p \in Entries(Seen) \ {fp.at}      \* FF_FS_LOCK = 0: not an open one
Begin(plan, aborts) == job' = [plan |-> plan, undo |-> <<>>, aborts |-> aborts]
Opened(p, e) == [at |-> p, clust |-> e.clust, len |-> e.len, mod |-> FALSE, err |-> FALSE]
Empty == [kind |-> "file", clust |-> Zero, len |-> 0]
Forget(p) == safe' = {s \in safe : p \notin s.at}

-----------------------------------------------------------------------------
(* Files                                                                   *)

f_open(p) ==
    /\ fp = Closed
    /\ Object(p) /\ EntryAt(Seen, p).kind = "file"
    /\ Begin(Path(p[1]) \o <<Fp(Opened(p, EntryAt(Seen, p)))>>, FALSE)
    /\ UNCHANGED <<disk, fp, ghosts>>

(* FA_CREATE_ALWAYS and the like, no such file: nothing is synchronised.   *)
f_open_create(p) ==
    /\ fp = Closed
    /\ Missing(p)
    /\ Begin(Path(p[1]) \o <<Enter(p, Empty), Fp([Opened(p, Empty) EXCEPT !.mod = TRUE])>>, FALSE)
    /\ UNCHANGED <<disk, fp, ghosts>>

(* FA_CREATE_ALWAYS, there is a file: the entry goes first.                *)
Reset(p) == <<Enter(p, Empty)>> \o remove_chain(Chain(Seen, p)) \o <<Look(p[1])>>
f_open_overwrite(p) ==
    /\ fp = Closed
    /\ Object(p) /\ EntryAt(Seen, p).kind = "file"
    /\ Begin(Path(p[1]) \o Reset(p) \o <<Fp([Opened(p, Empty) EXCEPT !.mod = TRUE])>>, FALSE)
    /\ Forget(p)
    /\ UNCHANGED <<disk, fp, cut, moved>>

(* The sectors of one further cluster, which the chain has already if an   *)
(* earlier call was aborted.  The first cluster is fp's alone until f_sync. *)
Filling(f, c) == <<Write(c), Fp([f EXCEPT !.len = @ + 1, !.mod = TRUE])>>
f_write ==
    LET ch == ChainFrom(Seen, fp.clust)
    IN /\ fp # Closed /\ ~fp.err
       /\ fp.len < MaxLen
       /\ \/ fp.len < Len(ch) /\ Begin(Filling(fp, ch[fp.len + 1]), TRUE)
          \/ /\ fp.len = Len(ch)
             /\ \E c \in FreeClusters :
                   IF ch = <<>>
                   THEN LET f == [fp EXCEPT !.clust = c]
                        IN Begin(<<Link(c, EOC), Fp(f)>> \o Filling(f, c), TRUE)
                   ELSE Begin(Stretch(ch, c) \o Filling(fp, c), TRUE)
       /\ UNCHANGED <<disk, fp, ghosts>>

(* Down to k clusters.  The object forgets its chain whatever happens; the *)
(* entry still has it.                                                     *)
Shorter(k) ==
    [fp EXCEPT !.clust = IF k = 0 THEN Zero ELSE @, !.len = k, !.mod = TRUE]
f_truncate(k) ==
    /\ fp # Closed /\ ~fp.err
    /\ k < fp.len
    /\ LET ch == ChainFrom(Seen, fp.clust)
           rest == remove_chain(SubSeq(ch, k + 1, Len(ch)))
       IN Begin(IF k = 0 THEN rest ELSE <<Link(ch[k], EOC)>> \o rest, TRUE)
    /\ fp' = Shorter(k)
    /\ cut' = cut \cup {fp.at}
    /\ Forget(fp.at)
    /\ UNCHANGED <<disk, moved>>

(* FA_MODIFIED is cleared although sync_fs may fail.                       *)
Recording ==
    IF fp.mod
    THEN <<Enter(fp.at, [Empty EXCEPT !.clust = fp.clust, !.len = fp.len]),
           Fp([fp EXCEPT !.mod = FALSE]), Sync>>
    ELSE <<>>
f_sync ==
    /\ fp # Closed /\ fp.mod
    /\ Begin(Recording, FALSE)
    /\ Forget(fp.at)
    /\ UNCHANGED <<disk, fp, cut, moved>>
f_close ==
    /\ fp # Closed
    /\ Begin(Recording \o <<Fp(Closed)>>, FALSE)
    /\ IF fp.mod THEN Forget(fp.at) ELSE UNCHANGED safe
    /\ UNCHANGED <<disk, fp, cut, moved>>

-----------------------------------------------------------------------------
(* The name space                                                          *)

(* The entry goes before the chain.                                        *)
Removal(p) == <<Enter(p, NoEntry)>> \o remove_chain(Chain(Seen, p))

IsCurrent(t) == t = cdir

f_unlink(p) ==
    LET e == EntryAt(Seen, p)
    IN /\ Object(p)
       /\ e.kind = "dir" => /\ ~IsCurrent(e.clust)
                            /\ Under(Seen, e.clust) \X Name \cap Entries(Seen) = {}
       /\ Begin(Path(p[1]) \o (IF e.kind = "dir" THEN <<Look(e.clust)>> ELSE <<>>)
                \o Removal(p) \o <<Sync>>, FALSE)
       /\ Forget(p)
       /\ UNCHANGED <<disk, fp, cut, moved>>

(* The table is cleared and has its dot entries before it is registered;   *)
(* the cluster is given back if that fails, and no more when it is done.   *)
Directory(p, c) == [kind |-> "dir", clust |-> c, len |-> 1]
MakeTable_Late(p, c) == <<Enter(p, Directory(p, c)), Clear(c), Up(c, p[1])>>
MakeTable(p, c) == <<Clear(c), Up(c, p[1]), Enter(p, Directory(p, c))>>
f_mkdir(p) ==
    /\ Missing(p)
    /\ \E c \in FreeClusters :
         Begin(Path(p[1]) \o <<Link(c, EOC), Undo(remove_chain(<<c>>))>>
               \o MakeTable(p, c) \o <<Undo(<<>>), Sync>>, FALSE)
    /\ UNCHANGED <<disk, fp, ghosts>>

(* The new entry, the dot-dot entry, then the old entry.                   *)
Moving_OldFirst(p, q, e) ==
    <<Enter(p, NoEntry), Enter(q, e)>>
    \o (IF e.kind = "dir" /\ p[1] # q[1] THEN <<Up(e.clust, q[1])>> ELSE <<>>)
Moving(p, q, e) ==
    <<Enter(q, e)>> \o (IF e.kind = "dir" /\ p[1] # q[1] THEN <<Up(e.clust, q[1])>> ELSE <<>>)
    \o <<Enter(p, NoEntry)>>
(* A directory that is moved below itself is out of reach afterwards, with *)
(* all that is in it: the code does not look for this.                     *)
IntoItself(q, e) == e.kind = "dir" /\ q[1] \in Under(Seen, e.clust)
OutOfReach(p, q, e) ==
    {s \in safe : IntoItself(q, e) /\ \E x \in s.at : x = p \/ x[1] \in Under(Seen, e.clust)}
f_rename(p, q) ==
    LET e == EntryAt(Seen, p)
    IN /\ Object(p) /\ Missing(q)
       /\ Begin(Path(p[1]) \o Path(q[1]) \o Moving(p, q, e) \o <<Sync>>, FALSE)
       /\ moved' = moved \cup ({e.clust} \ {Zero})
       /\ safe' = {IF p \in s.at THEN [s EXCEPT !.at = @ \cup {q}] ELSE s
                    : s \in safe \ OutOfReach(p, q, e)}
       /\ UNCHANGED <<disk, fp, cut>>

(* The attributes or the time in the entry change, which nothing here      *)
(* tells apart, and everything is synchronised.                            *)
Retouch(p) ==
    /\ p \in Entries(Seen)
    /\ Begin(Path(p[1]) \o <<Enter(p, EntryAt(Seen, p)), Sync>>, FALSE)
    /\ UNCHANGED <<disk, fp, ghosts>>
f_chmod(p) == Retouch(p)
f_utime(p) == Retouch(p)

-----------------------------------------------------------------------------
(* The current directory                                                   *)

(* The table that the dot-dot entry of t leads to.                         *)
Parent(d, t) == IF d.body[t].kind # "table" \/ d.body[t].up = {} THEN Root
                ELSE CHOOSE u \in d.body[t].up : TRUE
(* t and the tables above it; on the way up no table comes twice.          *)
Upward(d, t) ==
    LET up[k \in Nat] ==
          IF k = 0 THEN <<t>>
          ELSE LET ts == up[k - 1]
                   next == Parent(d, ts[Len(ts)])
               IN IF ts[Len(ts)] = Root \/ next \in {ts[i] : i \in DOMAIN ts} THEN ts
                  ELSE Append(ts, next)
    IN up[Cardinality(Cluster)]

(* To a directory below the root, or by a relative path to one below or    *)
(* above the current directory.                                            *)
f_chdir(t) ==
    /\ t # cdir
    /\ \/ t \in Under(Seen, Root) /\ Begin(Path(t) \o <<Cdir(t)>>, FALSE)
       \/ /\ t \in Under(Seen, cdir) \cup {Parent(Seen, cdir)}
          /\ Begin(Path(cdir) \o <<Cdir(t)>>, FALSE)
    /\ UNCHANGED <<disk, fp, ghosts>>

(* From the current directory to the root, looking in each table for the   *)
(* entry of the one below; the last table is that of the root.             *)
f_getcwd ==
    /\ cdir # Root
    /\ Begin(<<Look(Root)>>, FALSE)
    /\ UNCHANGED <<disk, fp, ghosts>>

-----------------------------------------------------------------------------
(* The window, and how a call runs                                         *)

NoWindow == [sect |-> <<>>, data |-> Junk, dirty |-> FALSE]
Written == IF win.dirty THEN Put(disk, win.sect, win.data) ELSE disk
Out(ok, d, w) == [ok |-> ok, disk |-> d, win |-> w]

(* sync_window, and the first half of move_window and dir_clear.           *)
sync_window ==
    {Out(TRUE, Written, [win EXCEPT !.dirty = FALSE])}
    \cup IF win.dirty THEN {Out(FALSE, d, win) : d \in {disk, Written}} ELSE {}

move_window(s) ==
    IF win.sect = s THEN {Out(TRUE, disk, win)}
    ELSE UNION {IF ~o.ok THEN {o}
                ELSE {Out(TRUE, o.disk, [sect |-> s, data |-> At(o.disk, s), dirty |-> FALSE]),
                      Out(FALSE, o.disk, NoWindow)} : o \in sync_window}

Edited(op, data) ==
    CASE op.do = "link"  -> op.val
      [] op.do = "enter" -> [data EXCEPT !.ent[op.name] = op.val]
      [] op.do = "up"    -> [data EXCEPT !.up = {op.val}]

Edit(op) ==
    {IF o.ok THEN [o EXCEPT !.win.data = Edited(op, @), !.win.dirty = TRUE] ELSE o
     : o \in move_window(op.at)}

(* dir_clear: the window is blank and counts as clean even if the writing  *)
(* fails.                                                                  *)
dir_clear(s) ==
    UNION {IF ~o.ok THEN {o}
           ELSE LET w == [sect |-> s, data |-> Blank, dirty |-> FALSE]
                    done == Put(o.disk, s, Blank)
                IN {Out(TRUE, done, w), Out(FALSE, done, w), Out(FALSE, o.disk, w)}
           : o \in sync_window}

(* disk_write past the window.                                             *)
Direct(s) ==
    LET done == Put(disk, s, Data)
    IN {Out(TRUE, done, win), Out(FALSE, done, win), Out(FALSE, disk, win)}

Outcomes(op) ==
    CASE op.do = "look"  -> move_window(op.at)
      [] op.do = "clear" -> dir_clear(op.at)
      [] op.do = "write" -> Direct(op.at)
      [] op.do = "sync"  -> sync_window
      [] op.do \in {"fp", "cdir", "undo"} -> {Out(TRUE, disk, win)}
      [] OTHER -> Edit(op)

(* What a successful sync_fs makes safe: all that is there, but for a file *)
(* that lost its clusters when the power went after f_truncate; an object  *)
(* that was moved is where it is now.                                      *)
Intact(d, p) ==
    LET e == EntryAt(d, p)
        ch == Chain(d, p)
    IN /\ Len(ch) >= e.len
       /\ \A i \in 1 .. e.len :
             d.body[ch[i]].kind = IF e.kind = "dir" THEN "table" ELSE "data"
Settled(d) ==
    {[at |-> {p}, e |-> EntryAt(d, p)] : p \in {q \in Entries(d) : Intact(d, q)} \ cut}
    \cup {[s EXCEPT !.at = {p \in @ : EntryAt(d, p) = s.e}] : s \in safe}

(* What a call does in memory it does together with the update before it.  *)
InMemory(op) == op.do \in {"fp", "cdir", "undo"}
Passed(plan) == IF Len(plan) > 1 /\ InMemory(plan[2]) THEN 2 ELSE 1

Step ==
    LET op == job.plan[1]
        k == Passed(job.plan)
        effect == job.plan[k]
        Changed(do, old) == IF effect.do = do THEN effect.val ELSE old
    IN /\ job.plan # <<>>
       /\ \E o \in Outcomes(op) :
            /\ o.ok \/ faults < MaxFaults
            /\ faults' = IF o.ok THEN faults ELSE faults + 1
            /\ disk' = o.disk /\ win' = o.win
            /\ job' = IF ~o.ok THEN [Idle EXCEPT !.plan = job.undo]
                      ELSE IF Len(job.plan) = k THEN Idle
                      ELSE [job EXCEPT !.plan = SubSeq(@, k + 1, Len(@)),
                                       !.undo = Changed("undo", @)]
            /\ fp' = IF o.ok THEN Changed("fp", fp)
                     ELSE [fp EXCEPT !.err = @ \/ job.aborts]
            /\ cdir' = IF o.ok THEN Changed("cdir", cdir) ELSE cdir
            /\ IF o.ok /\ op.do = "sync"
               THEN /\ cut' = IF fp.mod THEN cut ELSE {}
                    /\ moved' = {}
                    /\ safe' = Settled(o.disk)
               ELSE UNCHANGED ghosts

(* The power goes, and comes back.                                         *)
Crash ==
    /\ faults < MaxFaults
    /\ faults' = faults + 1
    /\ win' = NoWindow /\ fp' = Closed /\ cdir' = Root /\ job' = Idle
    /\ UNCHANGED <<disk, ghosts>>

Init ==
    /\ disk = [fat |-> [c \in Cluster |-> Zero],
               body |-> [c \in {Root} \cup Cluster |-> IF c = Root THEN Blank ELSE Junk]]
    /\ win = NoWindow /\ fp = Closed /\ cdir = Root /\ job = Idle
    /\ faults = 0 /\ cut = {} /\ moved = {} /\ safe = {}

(* Bounds: a file is opened, and f_chmod and f_utime are called, while the *)
(* root is the current directory; f_chdir, f_chmod and f_utime while no    *)
(* file is open: neither side looks at what the other changes.  The        *)
(* current directory is changed before the first fault only.               *)
Call ==
    \/ \E p \in Entries(Seen) :
          \/ cdir = Root /\ (f_open(p) \/ f_open_overwrite(p))
          \/ cdir = Root /\ fp = Closed /\ (f_chmod(p) \/ f_utime(p))
          \/ f_unlink(p)
          \/ \E q \in Place : f_rename(p, q)
    \/ \E p \in Place : (cdir = Root /\ f_open_create(p)) \/ f_mkdir(p)
    \/ \E k \in 0 .. MaxLen - 1 : f_truncate(k)
    \/ f_write \/ f_sync \/ f_close
    \/ f_getcwd \/ (fp = Closed /\ faults = 0 /\ \E t \in {Root} \cup Cluster : f_chdir(t))

(* Calls that change nothing, such as f_stat and f_readdir, may have moved *)
(* a clean window since the last call: to where this one does not look.    *)
Elsewhere == win' = IF win.dirty THEN win ELSE NoWindow

Next == (MayCall /\ Call /\ Elsewhere /\ UNCHANGED <<cdir, faults>>) \/ Step \/ Crash

Spec == Init /\ [][Next]_vars

-----------------------------------------------------------------------------
(* Every variable keeps its type; a file that has a size has a cluster.    *)
Entry == [kind : {"none", "file", "dir"}, clust : {Zero} \cup Cluster, len : 0 .. MaxLen]
Table == [kind : {"table"}, ent : [Name -> Entry], up : SUBSET ({Root} \cup Cluster)]
TypeOK ==
    /\ disk.fat \in [Cluster -> {Zero, EOC} \cup Cluster]
    /\ \A c \in {Root} \cup Cluster : disk.body[c] \in {Junk, Data} \cup Table
    /\ win.dirty => win.sect # <<>>
    /\ fp = Closed \/ fp.at \in Place
    /\ fp.clust \in {Zero} \cup Cluster /\ fp.len \in 0 .. MaxLen
    /\ fp.len > 0 => fp.clust # Zero
    /\ fp.mod \in BOOLEAN /\ fp.err \in BOOLEAN /\ job.aborts \in BOOLEAN
    /\ faults \in 0 .. MaxFaults
    /\ cdir \in {Root} \cup Cluster
    /\ cut \subseteq Place /\ moved \subseteq Cluster
    /\ \A s \in safe : s.at \subseteq Place /\ s.e \in Entry

(* The properties are about the disk in every state, so about what a power *)
(* cut leaves at any moment.                                               *)

(* No two objects have a cluster in common, except one that is being       *)
(* renamed with itself (the critical section of f_rename), and except with *)
(* a file that was truncated and whose entry is still the old one.         *)
EntriesApart(here) ==
    \A x \in Shared(disk, here) :
        \E m \in moved : \A i \in {1, 2} : EntryAt(disk, x[i]).clust = m

(* What an entry refers to is a chain in use, long enough for its size.    *)
EntriesBacked(here) == \A p \in here : Backed(disk, p)

(* A directory that has an entry has a cleared table whose dot-dot entry   *)
(* leads back to where the entry is, or did before a renaming under way.   *)
TablesReady(here) ==
    \A p \in here :
        LET e == EntryAt(disk, p)
        IN e.kind = "dir" =>
              /\ Ready(disk, p)
              /\ disk.body[e.clust].up = {p[1]} \/ e.clust \in moved

(* Between calls the current directory is one that is there: f_getcwd finds*)
(* it, and every directory above it, in the table that its dot-dot entry   *)
(* leads to, also after directories above it were moved or a call on them  *)
(* failed half way.                                                        *)
CurrentFound ==
    LET ts == Upward(Seen, cdir)
        found(t) == /\ Seen.body[t].kind = "table"
                    /\ \E n \in Name : LET e == EntryAt(Seen, <<Parent(Seen, t), n>>)
                                      IN e.kind = "dir" /\ e.clust = t
    IN job = Idle => \A i \in DOMAIN ts : ts[i] # Root => found(ts[i])

(* At every moment the disk holds a volume that can be mounted and used:   *)
(* entries with chains of their own, directories with their tables; and    *)
(* between calls the current directory is one of them.                     *)
VolumeSound ==
    LET here == Entries(disk) \ cut
    IN TypeOK /\ EntriesApart(here) /\ EntriesBacked(here) /\ TablesReady(here) /\ CurrentFound

(* What was synchronised stays reachable with its clusters, whichever call *)
(* on other objects fails or is cut off; a renamed object is under its old *)
(* name or its new one at every moment.  Only a directory that the caller  *)
(* moves below itself is lost, and what is in it.                          *)
NothingLost ==
    LET entries == Entries(disk)
    IN \A s \in safe : \E p \in s.at \cap entries :
         /\ EntryAt(disk, p) = s.e
         /\ p \notin cut => Intact(disk, p)
=============================================================================
