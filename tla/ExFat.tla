------------------------------- MODULE ExFat -------------------------------
(***************************************************************************)
(* Allocation on an exFAT volume.  A bitmap says which clusters are in     *)
(* use; the FAT is filled in only for chains that are not contiguous, and  *)
(* late: an object carries in stat, n_cont and n_frag what its FAT entries *)
(* do not say yet.  Freed clusters keep their old FAT entries.             *)
(*                                                                         *)
(* Sizes and offsets are in clusters.  Every call is one step, but f_lseek *)
(* takes one for each turn of its loop: the driver is single-threaded and  *)
(* here no transfer fails.  The files are in one sub-directory, Home, whose*)
(* entry is in the root directory; a file has a single handle, opened for  *)
(* reading and writing.                                                    *)
(***************************************************************************)
EXTENDS Integers, FiniteSets, Sequences, Linked

CONSTANTS NFatEnt,   \* FATFS.n_fatent
          Reserved,  \* clusters of the bitmap, the up-case table and the root
          Files,     \* names in Home that are used for files
          Subdirs,   \* names that are used for sub-directories
          Home,
          HomeClust, \* the first cluster of Home
          Blocks,    \* entry blocks that fit in a cluster of Home
          Garbage,   \* what fields that f_mkdir leaves uninitialised may hold
          MaxSize    \* bound on the size of a file

Clusters == 2 .. NFatEnt - 1
ASSUME VolumeAssumption ==
    /\ NFatEnt \in Nat /\ Reserved \subseteq Clusters
    /\ 2 \in Reserved                \* the bitmap comes first
    /\ HomeClust \in Clusters \ Reserved
    /\ Home \notin Files \cup Subdirs /\ Files \cap Subdirs = {}
    /\ IsFiniteSet(Files) /\ IsFiniteSet(Subdirs)
    /\ Garbage \subseteq [sclust : Nat, objsize : Nat]
    /\ Blocks \in Nat \ {0} /\ MaxSize \in Nat

VARIABLES fat,        \* the FAT as it is on the volume, what is stale included
          bits,       \* clusters marked in the bitmap
          last_clst, free_clst,
          entry,      \* alloc fields of the entry block of each object, or None
          place,      \* index of that block in Home
          handle,     \* FIL of each file, or Closed
          seek,       \* clusters that f_lseek has still to follow in each file
          failed,     \* ghost: a call has ended with FR_INT_ERR
          chain,      \* ghost: the clusters each object was given, in order
          lost,       \* ghost: what f_mkdir could not give back
          stray       \* ghost: f_mkdir took more than its own cluster to be its chain

vars == <<fat, bits, last_clst, free_clst, entry, place, handle, seek, failed, chain, lost,
          stray>>
volume == [fat |-> fat, bits |-> bits, last |-> last_clst, free |-> free_clst]

Names == Files \cup Subdirs
Objects == Names \cup {Home}
NClusters == NFatEnt - 2
EOC == 2 * NFatEnt
Unknown == NFatEnt                  \* 0xFFFFFFFF, not a count of clusters
None == [sclust |-> 0, objsize |-> 0, stat |-> 0, exists |-> FALSE]
Closed == [open |-> FALSE]
Least(S) == CHOOSE x \in S : \A y \in S : x <= y
Larger(x, y) == IF x > y THEN x ELSE y

-----------------------------------------------------------------------------
(* The FAT entry of cluster c of an object: made up for what the FAT does  *)
(* not hold.                                                               *)
get_fat_Recorded(s, obj, c) ==
    IF c \notin Clusters THEN 1
    ELSE IF obj.stat = 2 THEN IF c - obj.sclust = obj.objsize - 1 THEN EOC ELSE c + 1
    ELSE s.fat[c]
get_fat(s, obj, c) ==
    LET cofs == c - obj.sclust
        Sized == (obj.objsize # 0 /\ obj.sclust # 0) \/ obj.stat = 0
    IN IF c \notin Clusters \/ ~Sized THEN 1
       ELSE CASE obj.stat = 2 -> IF cofs \notin 0 .. obj.objsize - 1 THEN 1
                                 ELSE IF cofs = obj.objsize - 1 THEN EOC ELSE c + 1
              [] obj.stat = 3 /\ cofs \in 0 .. obj.n_cont - 1 -> c + 1
              [] OTHER -> IF obj.n_frag # 0 THEN EOC ELSE s.fat[c]

(* The first run of n free clusters from clst on, once round the volume.   *)
find_bitmap(s, clst, n) ==
    LET start == IF clst \in Clusters THEN clst ELSE 2
        At(k) == ((start - 2 + k) % NClusters) + 2
        Runs == {k \in 0 .. NClusters - n : \A j \in k .. k + n - 1 : At(j) \notin s.bits}
    IN IF Runs = {} THEN 0 ELSE At(Least(Runs))

(* Flip n bits from clst on, up to one that has the new value already.     *)
change_bitmap(s, clst, n, bv) ==
    LET Block == clst .. clst + n - 1
        Odd == {c \in Block : (c \in s.bits) = bv}
        Done == IF Odd = {} THEN Block ELSE clst .. Least(Odd) - 1
    IN [ok |-> Odd = {},
        s |-> [s EXCEPT !.bits = IF bv THEN @ \cup Done ELSE @ \ Done]]

(* Link the clusters of S to their successors.                             *)
Joined(s, S) == [s EXCEPT !.fat = [c \in Clusters |-> IF c \in S THEN c + 1 ELSE @[c]]]

(* Write down the first fragment of a chain that got fragmented.           *)
fill_first_frag_Short(s, obj) ==
    IF obj.stat # 3 THEN [s |-> s, obj |-> obj]
    ELSE [s |-> Joined(s, obj.sclust .. obj.sclust + obj.n_cont - 2),
          obj |-> [obj EXCEPT !.stat = 0, !.n_cont = 0]]
fill_first_frag(s, obj) ==
    IF obj.stat # 3 THEN [s |-> s, obj |-> obj]
    ELSE [s |-> Joined(s, obj.sclust .. obj.sclust + obj.n_cont - 1),
          obj |-> [obj EXCEPT !.stat = 0, !.n_cont = 0]]

(* Write down the fragment that ends with cluster lcl, and what follows it.*)
fill_last_frag(s, obj, lcl, term) ==
    IF obj.n_frag = 0 THEN [s |-> s, obj |-> obj]
    ELSE [s |-> [Joined(s, lcl - obj.n_frag + 1 .. lcl - 1) EXCEPT !.fat[lcl] = term],
          obj |-> [obj EXCEPT !.n_frag = 0]]

-----------------------------------------------------------------------------
(* create_chain(obj, clst): what becomes of the object when ncl is marked  *)
(* for it, the volume being s.                                             *)
Stretched_Unlinked(s, obj, clst, ncl) ==
    LET o == IF obj.stat = 2 /\ ncl # clst + 1
             THEN [obj EXCEPT !.n_cont = clst - obj.sclust, !.stat = 3] ELSE obj
    IN CASE o.stat = 2 -> [s |-> s, obj |-> o]
         [] o.stat # 2 /\ ncl = clst + 1 ->
              [s |-> s, obj |-> [o EXCEPT !.n_frag = IF @ = 0 THEN 2 ELSE @ + 1]]
         [] OTHER -> [s |-> s, obj |-> [o EXCEPT !.n_frag = 1]]
Stretched(s, obj, clst, ncl) ==
    LET o == IF obj.stat = 2 /\ ncl # clst + 1         \* it gets fragmented
             THEN [obj EXCEPT !.n_cont = clst - obj.sclust, !.stat = 3] ELSE obj
        r == fill_last_frag(s, [o EXCEPT !.n_frag = Larger(@, 1)], clst, ncl)
    IN CASE clst = 0 -> [s |-> s, obj |-> [obj EXCEPT !.stat = 2]]
         [] clst # 0 /\ o.stat = 2 -> [s |-> s, obj |-> o]
         [] clst # 0 /\ o.stat # 2 /\ ncl = clst + 1 ->
              [s |-> s, obj |-> [o EXCEPT !.n_frag = IF @ = 0 THEN 2 ELSE @ + 1]]
         [] OTHER -> [s |-> r.s, obj |-> [r.obj EXCEPT !.n_frag = 1]]

(* The cluster after clst, the first one if clst is 0: its number (0: the  *)
(* volume is full, 1: internal error), and whether it is new.              *)
Taken_Uncounted(s, ncl) == [change_bitmap(s, ncl, 1, TRUE).s EXCEPT !.last = ncl]
Taken(s, ncl) == [change_bitmap(s, ncl, 1, TRUE).s EXCEPT
                     !.last = ncl, !.free = IF @ <= NClusters THEN @ - 1 ELSE @]
create_chain(s, obj, clst) ==
    LET scl == IF clst # 0 THEN clst ELSE IF s.last \in Clusters THEN s.last ELSE 1
        Same(c) == [s |-> s, obj |-> obj, clst |-> c, new |-> FALSE]
        New(ncl, r) == [s |-> r.s, obj |-> r.obj, clst |-> ncl, new |-> TRUE]
        Stretch(ncl) == IF s.free = 0 \/ ncl = 0 THEN Same(0)
                        ELSE New(ncl, Stretched(Taken(s, ncl), obj, clst, ncl))
        Following(cs) == IF cs < 2 THEN Same(1) ELSE IF cs < NFatEnt THEN Same(cs)
                      ELSE Stretch(find_bitmap(s, scl, 1))
    IN Following(IF clst = 0 THEN NFatEnt ELSE get_fat(s, obj, clst))

-----------------------------------------------------------------------------
(* remove_chain(obj, clst, pclst): the clusters are counted one by one and *)
(* cleared in the bitmap block by block, v.scl .. v.clst being the present *)
(* one.  A turn leaves what get_fat says, or 1 for an error, in v.clst.    *)
ClearTurn(obj, v) ==
    LET nxt == get_fat(v.s, obj, v.clst)
        t == [v.s EXCEPT !.free = IF @ < NClusters THEN @ + 1 ELSE @]
        r == change_bitmap(t, v.scl, v.clst - v.scl + 1, FALSE)
    IN CASE v.clst \notin Clusters -> v
         [] v.clst \in Clusters /\ nxt < 2 -> [v EXCEPT !.clst = nxt]
         [] v.clst \in Clusters /\ nxt >= 2 /\ nxt = v.clst + 1 ->
              [s |-> t, scl |-> v.scl, clst |-> nxt]
         [] OTHER -> [s |-> r.s, scl |-> nxt, clst |-> IF r.ok THEN nxt ELSE 1]
Cleared(s, obj, clst) ==
    LET walk[n \in Nat] == IF n = 0 THEN [s |-> s, scl |-> clst, clst |-> clst]
                           ELSE ClearTurn(obj, walk[n - 1])
    IN walk[2 * NFatEnt]

(* Where a chain stops being contiguous, if not at pclst.                  *)
RunEnd(s, obj, pclst) ==
    Least({c \in obj.sclust .. NFatEnt : c = pclst \/ get_fat(s, obj, c) # c + 1})

(* The status of a chain that now ends with pclst, and whether it is sane. *)
Shortened(s, obj, pclst) ==
    CASE pclst = 0 -> 0
      [] pclst # 0 /\ obj.stat = 0 -> IF RunEnd(s, obj, pclst) = pclst THEN 2 ELSE 0
      [] OTHER -> IF obj.stat = 3 /\ pclst >= obj.sclust
                     /\ pclst <= obj.sclust + obj.n_cont
                  THEN 2 ELSE obj.stat
Sane(s, obj, pclst) ==
    pclst # 0 /\ obj.stat = 0 =>
        RunEnd(s, obj, pclst) = pclst \/ get_fat(s, obj, RunEnd(s, obj, pclst)) >= 2

(* n_cont means nothing but in status 3; it is 0 here when it does not.    *)
Settled(obj) == IF obj.stat = 3 THEN obj ELSE [obj EXCEPT !.n_cont = 0]

remove_chain(s, obj, clst, pclst) ==
    LET t == IF pclst # 0 /\ obj.stat # 2 THEN [s EXCEPT !.fat[pclst] = EOC] ELSE s
        v == Cleared(t, obj, clst)
    IN IF clst \notin Clusters THEN [s |-> s, obj |-> obj, ok |-> FALSE]
       ELSE IF v.clst = 1 \/ ~Sane(v.s, obj, pclst)
       THEN [s |-> v.s, obj |-> obj, ok |-> FALSE]
       ELSE [s |-> v.s, ok |-> TRUE,
             obj |-> Settled([obj EXCEPT !.stat = Shortened(v.s, obj, pclst)])]

-----------------------------------------------------------------------------
(* Directories                                                             *)

(* FFOBJID as init_alloc_info reads it from an entry block.                *)
Loaded(e) == [sclust |-> e.sclust, objsize |-> e.objsize,
              stat |-> IF e.stat \in {2, 3} THEN 2 ELSE 0, n_cont |-> 0, n_frag |-> 0]
(* The entry block with the fields of obj.                                 *)
Stored(obj) == [sclust |-> obj.sclust, objsize |-> obj.objsize, stat |-> obj.stat,
                exists |-> TRUE]
Empty == Loaded(None)

(* The clusters of an object as get_fat tells them.                        *)
ChainOf(s, obj) == Follow(obj.sclust, [c \in Clusters |-> get_fat(s, obj, c)], Clusters)

(* A place for an entry block in Home: the first one that is free, on a new*)
(* cluster if there is none, and the block of Home in the root kept up to  *)
(* date.                                                                   *)
Registered(r) == LET first == fill_first_frag(r.s, r.obj)
                    IN fill_last_frag(first.s, first.obj, r.clst, EOC)
dir_register(s) ==
    LET d == Loaded(entry[Home])
        Used == {place[o] : o \in {n \in Names : entry[n].exists}}
        p == Least(0 .. Cardinality(Names) \ Used)
        Grown(w, c) == [clst |-> c, s |-> w.s, home |-> [w.obj EXCEPT !.objsize = @ + 1],
                        place |-> p, new |-> <<c>>]
        Stretch(r) == IF r.clst < 2 THEN [clst |-> r.clst, s |-> s]
                      ELSE Grown(Registered(r), r.clst)
        In(table) == IF p < Blocks * Len(table)
                     THEN [clst |-> table[1], s |-> s, home |-> d, place |-> p, new |-> <<>>]
                     ELSE Stretch(create_chain(s, d, table[Len(table)]))
    IN In(ChainOf(s, d))

Becomes(s) == /\ fat' = s.fat /\ bits' = s.bits
              /\ last_clst' = s.last /\ free_clst' = s.free

(* How the call ends: the result 1 of create_chain is FR_INT_ERR, 0 that   *)
(* there is no room.                                                       *)
Ends(ok) == failed' = (failed \/ ~ok)
Fails(clst) ==
    /\ Ends(clst # 1)
    /\ UNCHANGED <<fat, bits, last_clst, free_clst, entry, place, handle, chain, lost>>

(* o gets the entry block e at the place reg of Home.                      *)
Entered(o, e, reg) ==
    /\ entry' = [entry EXCEPT ![o] = e, ![Home] = Stored(reg.home)]
    /\ place' = [place EXCEPT ![o] = reg.place]

(* A handle on a file just opened; it remembers its directory.             *)
Opened(obj, home, modified) ==
    [open |-> TRUE, obj |-> obj, fptr |-> 0, clust |-> 0, modified |-> modified,
     home |-> home]

IsOpen(f) == f \in Files /\ handle[f].open
(* No f_lseek is under way.                                                *)
Idle == \A f \in Files : seek[f] = 0

-----------------------------------------------------------------------------
(* Calls on names                                                          *)

(* f_open of a new file.                                                   *)
f_open_new(f) ==
    /\ ~entry[f].exists
    /\ \E reg \in {dir_register(volume)} :
          IF reg.clst < 2 THEN Fails(reg.clst)
          ELSE /\ Becomes(reg.s)
               /\ Entered(f, Stored(Empty), reg)
               /\ handle' = [handle EXCEPT ![f] = Opened(Empty, reg.home, TRUE)]
               /\ chain' = [chain EXCEPT ![Home] = @ \o reg.new]
               /\ Ends(TRUE)
               /\ UNCHANGED lost

(* f_open that overwrites the file: the block is cleared, the chain given  *)
(* up, and the hole is where the next search starts.                       *)
f_open_overwrite(f) ==
    LET old == Loaded(entry[f]) IN
    /\ entry[f].exists /\ ~IsOpen(f)
    /\ \E r \in {remove_chain(volume, old, old.sclust, 0)} :
       /\ IF old.sclust = 0 THEN Becomes(volume)
          ELSE Becomes([r.s EXCEPT !.last = old.sclust - 1])
       /\ entry' = [entry EXCEPT ![f] = Stored(Empty)]
       /\ IF old.sclust = 0 \/ r.ok
          THEN /\ handle' = [handle EXCEPT ![f] = Opened(Empty, Loaded(entry[Home]), TRUE)]
               /\ chain' = [chain EXCEPT ![f] = <<>>]
               /\ Ends(TRUE)
          ELSE Ends(FALSE) /\ UNCHANGED <<handle, chain>>
       /\ UNCHANGED <<place, lost>>

(* f_open of a file as it is, or at its end for appending.                 *)
f_open_existing(f, append) ==
    LET obj == Loaded(entry[f])
        h == Opened(obj, Loaded(entry[Home]), FALSE)
        Passed == ChainOf(volume, obj)
    IN /\ entry[f].exists /\ ~IsOpen(f)
       /\ IF ~append \/ obj.objsize = 0
          THEN handle' = [handle EXCEPT ![f] = h] /\ Ends(TRUE)
          ELSE IF Len(Passed) < obj.objsize THEN Ends(FALSE) /\ UNCHANGED handle
          ELSE /\ handle' = [handle EXCEPT ![f] =
                     [h EXCEPT !.fptr = obj.objsize, !.clust = Passed[obj.objsize]]]
               /\ Ends(TRUE)
       /\ UNCHANGED <<fat, bits, last_clst, free_clst, entry, place, chain, lost>>

(* f_mkdir: the cluster first, then the entry.  The object sobj that is to *)
(* give the cluster back is not initialised but for its status: get_fat    *)
(* takes the cluster for no part of that object (1), for its end, or, when *)
(* it is Misled, for a part that the next cluster follows.  What           *)
(* remove_chain answers is not looked at.                                  *)
Misled(s, obj, c) == get_fat(s, obj, c) = c + 1
f_mkdir(d) ==
    /\ ~entry[d].exists
    /\ \E new \in {create_chain(volume, Empty, 0)} : \E reg \in {dir_register(new.s)} :
          IF new.clst = 0 THEN Fails(0) /\ UNCHANGED stray
          ELSE IF reg.clst >= 2
          THEN /\ Becomes(reg.s)
               /\ Entered(d, [sclust |-> new.clst, objsize |-> 1, stat |-> 2,
                              exists |-> TRUE], reg)
               /\ chain' = [chain EXCEPT ![d] = <<new.clst>>, ![Home] = @ \o reg.new]
               /\ Ends(TRUE)
               /\ UNCHANGED <<handle, lost, stray>>
          ELSE \E g \in Garbage :
               LET sobj == [new.obj EXCEPT !.sclust = g.sclust, !.objsize = g.objsize]
               IN \E r \in {remove_chain(reg.s, sobj, new.clst, 0)} :
                    /\ Becomes(r.s)
                    /\ lost' = lost \cup ({new.clst} \cap r.s.bits)
                    /\ IF Misled(reg.s, sobj, new.clst) THEN stray' = TRUE ELSE UNCHANGED stray
                    /\ Ends(reg.clst # 1)
                    /\ UNCHANGED <<entry, place, handle, chain>>

(* f_unlink of a file, or of a sub-directory (an empty one here).          *)
f_unlink(o) ==
    LET obj == Loaded(entry[o]) IN
    /\ entry[o].exists /\ ~IsOpen(o)
    /\ \E r \in {remove_chain(volume, obj, obj.sclust, 0)} :
       /\ entry' = [entry EXCEPT ![o] = None]
       /\ IF obj.sclust = 0 THEN Becomes(volume) ELSE Becomes(r.s)
       /\ Ends(obj.sclust = 0 \/ r.ok)
       /\ chain' = [chain EXCEPT ![o] = <<>>]
       /\ place' = [place EXCEPT ![o] = 0]
       /\ UNCHANGED <<handle, lost>>

(* f_rename: a new block with the same contents, then the old one goes.    *)
f_rename(o) ==
    /\ entry[o].exists /\ ~IsOpen(o)
    /\ \E reg \in {dir_register(volume)} :
          IF reg.clst < 2 THEN Fails(reg.clst)
          ELSE /\ Becomes(reg.s)
               /\ Entered(o, entry[o], reg)
               /\ chain' = [chain EXCEPT ![Home] = @ \o reg.new]
               /\ Ends(TRUE)
               /\ UNCHANGED <<handle, lost>>

-----------------------------------------------------------------------------
(* Calls on open files                                                     *)

(* The file after a call: its handle, and the clusters it was given.       *)
Left(f, h, new, ok) ==
    /\ handle' = [handle EXCEPT ![f] = h]
    /\ chain' = [chain EXCEPT ![f] = @ \o new]
    /\ Ends(ok)
    /\ UNCHANGED <<entry, place, lost>>
Given(r) == IF r.new THEN <<r.clst>> ELSE <<>>

(* f_write of one cluster; more are as many calls.                         *)
f_write(f) ==
    LET h == handle[f]
        obj(r) == [r.obj EXCEPT !.sclust = IF @ = 0 THEN r.clst ELSE @,
                                !.objsize = Larger(@, h.fptr + 1)]
    IN /\ IsOpen(f) /\ h.fptr < MaxSize
       /\ \E r \in {IF h.fptr = 0 /\ h.obj.sclust # 0
                    THEN [s |-> volume, obj |-> h.obj, clst |-> h.obj.sclust, new |-> FALSE]
                    ELSE create_chain(volume, h.obj, IF h.fptr = 0 THEN 0 ELSE h.clust)} :
          /\ Becomes(r.s)
          /\ CASE r.clst = 0 -> Left(f, [h EXCEPT !.obj = r.obj, !.modified = TRUE], <<>>, TRUE)
               [] r.clst = 1 -> Left(f, h, <<>>, FALSE)
               [] OTHER -> Left(f, [h EXCEPT !.obj = obj(r), !.clust = r.clst, !.fptr = @ + 1,
                                             !.modified = TRUE], Given(r), TRUE)

(* f_read, and f_forward, of one cluster.                                  *)
f_read(f) ==
    LET h == handle[f]
        clst == IF h.fptr = 0 THEN h.obj.sclust ELSE get_fat(volume, h.obj, h.clust)
    IN /\ IsOpen(f) /\ h.fptr < h.obj.objsize
       /\ Becomes(volume)
       /\ IF clst \in Clusters
          THEN Left(f, [h EXCEPT !.clust = clst, !.fptr = @ + 1], <<>>, TRUE)
          ELSE Left(f, h, <<>>, FALSE)

(* f_lseek writes down the last fragment and starts where the file is, or  *)
(* at its first cluster, and follows the chain from there, stretching it at*)
(* its end; a full volume clips the offset.  The size is raised before each*)
(* turn, as get_fat needs it, and at the end.                              *)
Sized(h) == IF h.fptr <= h.obj.objsize THEN h
            ELSE [h EXCEPT !.obj.objsize = h.fptr, !.modified = TRUE]
Started(s, h, ofs) ==
    LET At_first(r) == [s |-> r.s, clst |-> r.clst, new |-> Given(r),
                        h |-> [h EXCEPT !.obj = [r.obj EXCEPT !.sclust = r.clst],
                                        !.clust = r.clst, !.fptr = IF r.clst = 0 THEN 0 ELSE 1]]
    IN IF h.fptr > 0 /\ ofs >= h.fptr THEN [s |-> s, clst |-> h.clust, new |-> <<>>, h |-> h]
       ELSE At_first(IF h.obj.sclust = 0 THEN create_chain(s, h.obj, 0)
                     ELSE [s |-> s, obj |-> h.obj, clst |-> h.obj.sclust, new |-> FALSE])
f_lseek(f, ofs) ==
    /\ IsOpen(f)
    /\ \E filled \in {fill_last_frag(volume, handle[f].obj, handle[f].clust, EOC)} :
       \E st \in {Started(filled.s, [handle[f] EXCEPT !.obj = filled.obj], ofs)} :
          IF ofs = 0
          THEN /\ Becomes(filled.s)
               /\ Left(f, [handle[f] EXCEPT !.obj = filled.obj, !.fptr = 0, !.clust = 0], <<>>, TRUE)
               /\ UNCHANGED seek
          ELSE /\ Becomes(st.s)
               /\ Left(f, Sized(st.h), st.new, TRUE)
               /\ seek' = [seek EXCEPT ![f] = IF st.clst = 0 THEN 0 ELSE ofs - st.h.fptr]
LseekTurn(f) ==
    LET h == handle[f] IN
    /\ seek[f] > 0
    /\ \E r \in {create_chain(volume, h.obj, h.clust)} :
          /\ Becomes(r.s)
          /\ IF r.clst < 2 THEN Left(f, h, <<>>, r.clst = 0) /\ seek' = [seek EXCEPT ![f] = 0]
             ELSE /\ Left(f, Sized([h EXCEPT !.obj = r.obj, !.clust = r.clst, !.fptr = @ + 1]),
                          Given(r), TRUE)
                  /\ seek' = [seek EXCEPT ![f] = @ - 1]

(* f_truncate at the present offset.                                       *)
f_truncate(f) ==
    LET h == handle[f]
        ncl == get_fat(volume, h.obj, h.clust)
        obj(o) == [o EXCEPT !.objsize = h.fptr, !.sclust = IF h.fptr = 0 THEN 0 ELSE @]
    IN /\ IsOpen(f) /\ h.fptr < h.obj.objsize
       /\ \E r \in {IF h.fptr # 0 /\ ncl >= NFatEnt
                    THEN [s |-> volume, obj |-> h.obj, ok |-> TRUE]
                    ELSE remove_chain(volume, h.obj, IF h.fptr = 0 THEN h.obj.sclust ELSE ncl,
                                      IF h.fptr = 0 THEN 0 ELSE h.clust)} :
          /\ Becomes(r.s)
          /\ handle' = [handle EXCEPT ![f].obj = obj(r.obj), ![f].modified = TRUE]
          /\ chain' = [chain EXCEPT ![f] = SubSeq(@, 1, h.fptr)]
          /\ Ends(r.ok)
          /\ UNCHANGED <<entry, place, lost>>

(* f_sync writes down what the FAT lacks, then the entry block.            *)
Synced(f) ==
    LET h == handle[f]
        first == fill_first_frag(volume, h.obj)
        second == fill_last_frag(first.s, first.obj, h.clust, EOC)
    IN IF ~h.modified THEN Becomes(volume) /\ UNCHANGED entry
       ELSE Becomes(second.s) /\ entry' = [entry EXCEPT ![f] = Stored(second.obj)]
f_sync(f) ==
    LET h == handle[f]
        first == fill_first_frag(volume, h.obj)
        second == fill_last_frag(first.s, first.obj, h.clust, EOC)
    IN /\ IsOpen(f) /\ h.modified
       /\ Synced(f)
       /\ handle' = [handle EXCEPT ![f].obj = second.obj, ![f].modified = FALSE]
       /\ Ends(TRUE)
       /\ UNCHANGED <<place, chain, lost>>

f_close(f) ==
    /\ IsOpen(f)
    /\ Synced(f)
    /\ handle' = [handle EXCEPT ![f] = Closed]
    /\ Ends(TRUE)
    /\ UNCHANGED <<place, chain, lost>>

(* f_expand: one block of n clusters for an empty file, given to it now or *)
(* hinted at for later.                                                    *)
f_expand(f, n, now) ==
    LET h == handle[f]
        scl == find_bitmap(volume, last_clst, n)
        r == change_bitmap(volume, scl, n, TRUE)
        taken == [r.s EXCEPT !.last = scl + n - 1,
                             !.free = IF @ <= NClusters THEN @ - n ELSE @]
    IN /\ IsOpen(f) /\ h.obj.objsize = 0
       /\ CASE scl = 0 -> Fails(0)
            [] scl # 0 /\ ~now -> /\ Becomes([volume EXCEPT !.last = scl - 1])
                                  /\ Left(f, h, <<>>, TRUE)
            [] OTHER -> /\ Becomes(taken)
                        /\ Left(f, [h EXCEPT !.obj.sclust = scl, !.obj.objsize = n,
                                             !.obj.stat = 2, !.modified = TRUE],
                                [k \in 1 .. n |-> scl + k - 1], TRUE)

(* f_getfree counts the clear bits if the count is not known.              *)
f_getfree ==
    /\ free_clst > NClusters
    /\ free_clst' = Cardinality(Clusters \ bits)
    /\ Ends(TRUE)
    /\ UNCHANGED <<fat, bits, last_clst, entry, place, handle, chain, lost>>

-----------------------------------------------------------------------------
(* A volume just mounted, on which Home has been made.                     *)
Init ==
    /\ fat = [c \in Clusters |-> 0]
    /\ bits = Reserved \cup {HomeClust}
    /\ entry = [o \in Objects |->
          IF o = Home THEN [sclust |-> HomeClust, objsize |-> 1, stat |-> 2,
                            exists |-> TRUE] ELSE None]
    /\ chain = [o \in Objects |-> IF o = Home THEN <<HomeClust>> ELSE <<>>]
    /\ last_clst = Unknown /\ free_clst = Unknown
    /\ place = [o \in Names |-> 0]
    /\ handle = [f \in Files |-> Closed]
    /\ seek = [f \in Files |-> 0]
    /\ failed = FALSE
    /\ lost = {}
    /\ stray = FALSE

Call ==
    \/ \E o \in Names : f_unlink(o) \/ f_rename(o)
    \/ \E f \in Files :
          \/ f_open_new(f) \/ f_open_overwrite(f)
          \/ \E append \in BOOLEAN : f_open_existing(f, append)
          \/ f_write(f) \/ f_read(f) \/ f_truncate(f) \/ f_sync(f) \/ f_close(f)
          \/ \E n \in 2 .. MaxSize, now \in BOOLEAN : f_expand(f, n, now)
    \/ f_getfree

Next ==
    \/ Idle /\ Call /\ UNCHANGED <<seek, stray>>
    \/ Idle /\ \E d \in Subdirs : f_mkdir(d) /\ UNCHANGED seek
    \/ Idle /\ \E f \in Files, ofs \in 0 .. MaxSize : f_lseek(f, ofs) /\ UNCHANGED stray
    \/ \E f \in Files : LseekTurn(f) /\ UNCHANGED stray

Spec == Init /\ [][Next]_vars

-----------------------------------------------------------------------------
TypeOK ==
    /\ fat \in [Clusters -> {0, EOC} \cup Clusters] /\ bits \subseteq Clusters
    /\ free_clst \in 0 .. Unknown
    /\ failed \in BOOLEAN /\ stray \in BOOLEAN
    /\ \A f \in Files : IsOpen(f) => entry[f].exists /\ handle[f].obj.stat \in {0, 2, 3}

(* What a handle remembers of its directory leads to its entry block, even *)
(* if the directory has grown since.                                       *)
HomeFound(f) ==
    LET i == place[f] \div Blocks + 1
        Table == ChainOf(volume, handle[f].home)
    IN i <= Len(Table) /\ Table[i] = chain[Home][i]

(* The properties hold as long as f_mkdir has given back no more than its  *)
(* own cluster (~stray): the object it does that with is not initialised,  *)
(* and when what the stack holds makes the cluster look like the middle of *)
(* a chain, clusters of other objects are cleared in the bitmap, and the   *)
(* free count is raised too often.                                         *)

(* Whatever an open file keeps to itself of its chain, get_fat tells the   *)
(* clusters the file was given, in order; while the last fragment is not   *)
(* on the FAT the file is at its end, where nobody asks.  And its entry    *)
(* block can be found again.                                               *)
ChainKnown ==
    ~stray => \A f \in Files : IsOpen(f) =>
        LET h == handle[f]
        IN /\ h.obj.objsize = Len(chain[f])
           /\ h.fptr > 0 => h.clust = chain[f][h.fptr]
           /\ IF h.obj.n_frag = 0 THEN ChainOf(volume, h.obj) = chain[f]
              ELSE h.fptr = h.obj.objsize
           /\ HomeFound(f)

(* What the volume says of an object no call has changed since it was      *)
(* written is enough to find its clusters again.                           *)
Recorded ==
    ~stray => \A o \in Objects : entry[o].exists /\ (IsOpen(o) => ~handle[o].modified) =>
        /\ ChainOf(volume, Loaded(entry[o])) = chain[o]
        /\ entry[o].objsize = Len(chain[o])

(* Every cluster the bitmap marks is accounted for: it is reserved, or the *)
(* cluster of exactly one object, or one that a failed f_mkdir has taken   *)
(* and its remove_chain has refused to give back (lost), which is then no  *)
(* object's and stays marked; and every cluster of these is marked.  A free*)
(* count that is known is that of the clear bits.                          *)
BitmapAccounted ==
    LET Of(o) == {chain[o][i] : i \in DOMAIN chain[o]}
    IN ~stray =>
       /\ TypeOK
       /\ bits = Reserved \cup lost \cup UNION {Of(o) : o \in Objects}
       /\ \A o \in Objects : Of(o) \cap (Reserved \cup lost) = {}
       /\ \A o, p \in Objects : o # p => Of(o) \cap Of(p) = {}
       /\ free_clst # Unknown => free_clst = Cardinality(Clusters \ bits)

(* On a volume of the driver's own making no call answers FR_INT_ERR.  The *)
(* one that remove_chain answers to f_mkdir is not among them: f_mkdir does*)
(* not look at it, and the cluster is lost.                                *)
NeverInternal == ~stray => ~failed
=============================================================================
