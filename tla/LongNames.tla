-------------------------------- MODULE LongNames --------------------------------
(***************************************************************************)
(* A directory table with long names (FF_USE_LFN): an object is a run of   *)
(* long name entries, last piece first, and a short name entry behind      *)
(* them, tied by a checksum.  dir_find, dir_read, dir_alloc, dir_register  *)
(* and dir_remove on it, for f_open, f_mkdir, f_unlink, f_rename,          *)
(* f_readdir, f_findfirst, f_findnext and f_setlabel.                      *)
(*                                                                         *)
(* What a name becomes is computed by Names.  Moving from entry to entry   *)
(* is one step here; how the table lies in sectors and clusters is in      *)
(* Directory.  The driver is single-threaded: a call is one action.  It    *)
(* may fail on the disk before each entry it writes, and then leaves what  *)
(* it has written.                                                         *)
(***************************************************************************)
EXTENDS Names, TLC

CONSTANTS NAMES,        \* the names callers use, as strings of the API
          Size,         \* entries of the table
          NumLimit,     \* dir_register tries the numbers below; 100
          Stale,        \* what fills the name buffer from earlier calls
          Ids           \* objects, in the order they are created

VARIABLES table,        \* the entries
          made,         \* ghost: the name an object was given last
          torn,         \* ghost: some call has failed half way
          sure          \* ghost: objects no failed call worked on, and none named
                        \* after a call failed: it may lie behind pieces that
                        \* call left, and be taken for the object of theirs

vars == <<table, made, torn, sure>>

Pos == 1..Size
End == [t |-> "end"]
Deleted == [t |-> "deleted"]
Label == [t |-> "label"]
Dot == [t |-> "dot"]
IsFree(e) == e.t \in {"end", "deleted"}
NoBlock == 0                \* blk_ofs 0xFFFFFFFF
NoName == <<>>

(* What the names become, known: for each of NAMES.                        *)
Known == [n \in NAMES |-> create_name(n, 1)]
BufferOf(lfn) == [k \in 1..(FF_MAX_LFN + 1) |->
                     IF k <= Len(lfn) THEN lfn[k] ELSE IF k = Len(lfn) + 1 THEN 0 ELSE Stale]

-----------------------------------------------------------------------------
(* dir_find: st.ord is the number of the piece that must come next, 0 when *)
(* all have come, 255 for none; st.sum the checksum they carry; st.blk     *)
(* their first entry.                                                      *)

Lost == [ord |-> 255, sum |-> -1, blk |-> NoBlock]

(* A piece continues the sequence, or starts one.                          *)
Piece(st, e, i, fits) ==
    LET s == IF e.last THEN [ord |-> e.ord, sum |-> e.sum, blk |-> i] ELSE st
    IN [s EXCEPT !.ord = IF e.ord = @ /\ e.sum = s.sum /\ fits THEN @ - 1 ELSE 255]

RECURSIVE Search(_, _, _)
Search(r, i, st) ==
    LET e == table[i]
        short == /\ e.t = "sfn"
                 /\ \/ st.ord = 0 /\ st.sum = sum_sfn(e.fn)
                    \/ "NS_LOSS" \notin r.cf /\ e.fn = r.fn
    IN IF i > Size THEN [at |-> 0, blk |-> NoBlock]
       ELSE IF e.t = "end" THEN [at |-> 0, blk |-> NoBlock]
       ELSE IF short THEN [at |-> i, blk |-> st.blk]
       ELSE IF e.t = "lfn"
            THEN Search(r, i + 1, IF "NS_NOLFN" \in r.cf THEN st
                                  ELSE Piece(st, e, i, cmp_lfn(BufferOf(r.lfn), e)))
            ELSE Search(r, i + 1, Lost)
dir_find(r) == Search(r, 1, Lost)

(* dir_read from entry i on: the next object, or the label if vol.         *)
RECURSIVE Read(_, _, _, _)
Read(vol, i, st, buf) ==
    LET e == table[i]
        p == pick_lfn(buf, e)
        s == Piece(st, e, i, p.ok)
        uses == LET q == IF e.last THEN [ord |-> e.ord, sum |-> e.sum] ELSE st
                IN e.ord = q.ord /\ e.sum = q.sum
    IN IF i > Size THEN [at |-> 0]
       ELSE IF e.t = "end" THEN [at |-> 0]
       ELSE IF e.t \in {"deleted", "dot"} \/ (e.t = "label") # vol
            THEN Read(vol, i + 1, [st EXCEPT !.ord = 255], buf)
       ELSE IF e.t = "lfn" THEN Read(vol, i + 1, s, IF uses THEN p.buf ELSE buf)
       ELSE [at |-> i, buf |-> buf,
             long |-> e.t = "sfn" /\ st.ord = 0 /\ st.sum = sum_sfn(e.fn)]
dir_read(i) == Read(FALSE, i, Lost, [k \in 1..(FF_MAX_LFN + 1) |-> Stale])
ReadLabel == Read(TRUE, 1, Lost, <<>>)

Text(buf) == SubSeq(buf, 1, SelectInSeq(buf, LAMBDA c : c = 0) - 1)

(* f_readdir, called until it returns no name: the items, in order.        *)
RECURSIVE Items(_)
Items(i) ==
    LET info(e, d) == get_fileinfo(e.fn, e.nt, IF d.long THEN Text(d.buf) ELSE NoName, 99, 99)
        read(d) == IF d.at = 0 THEN <<>>
                   ELSE <<[id |-> table[d.at].id] @@ info(table[d.at], d)>> \o Items(d.at + 1)
    IN read(dir_read(i))

(* f_findfirst and f_findnext with a pattern (FF_USE_FIND 2).              *)
Matching(items, pat) ==
    LET is(s) == s # NoName /\ pattern_match(pat, s, 1, 1, 0, FALSE, FIND_RECURS)
    IN SelectSeq(items, LAMBDA f : is(f.fname) \/ is(f.altname))

-----------------------------------------------------------------------------
(* dir_alloc: the first n free entries in a row, 0 if there are none.      *)
dir_alloc_Scattered(n) ==
    LET fits(i) == i + n - 1 <= Size /\ IsFree(table[i])
    IN IF \E i \in Pos : fits(i) THEN CHOOSE i \in Pos : fits(i) /\ \A j \in 1..(i - 1) : ~fits(j)
       ELSE 0
dir_alloc(n) ==
    LET fits(i) == i + n - 1 <= Size /\ \A k \in i..(i + n - 1) : IsFree(table[k])
    IN IF \E i \in Pos : fits(i) THEN CHOOSE i \in Pos : fits(i) /\ \A j \in 1..(i - 1) : ~fits(j)
       ELSE 0

(* The first number whose short name is not taken, NumLimit if none.       *)
Taken(fn) == dir_find([fn |-> fn, cf |-> {"NS_NOLFN"}]).at # 0
Numbered_First(r) == {gen_numname(r.fn, r.lfn, 1)}
Numbered(r) ==
    LET numbers == {n \in 1..(NumLimit - 1) : ~Taken(gen_numname(r.fn, r.lfn, n))}
    IN IF numbers = {} THEN {}
       ELSE {gen_numname(r.fn, r.lfn, CHOOSE n \in numbers : \A m \in numbers : n <= m)}
ShortNames(r) == IF "NS_LOSS" \in r.cf THEN Numbered(r) ELSE {r.fn}

Pieces(r) == IF "NS_LFN" \in r.cf THEN LfnEntries(r.lfn) ELSE 0

(* What is written for a new object: its pieces, the last first, and its   *)
(* entry.                                                                  *)
Entries(r, fn, id) ==
    LET n == Pieces(r)
    IN Append([i \in 1..n |-> [t |-> "lfn", sum |-> sum_sfn(fn)] @@ put_lfn(r.lfn, n + 1 - i)],
              [t |-> "sfn", fn |-> fn, nt |-> r.cf \cap {"NS_BODY", "NS_EXT"}, id |-> id])

(* The table when k of them are written; there is none if no number is     *)
(* left or no run of free entries.                                         *)
dir_register(r, id, k) ==
    LET put(new, at) == IF at = 0 THEN {}
                        ELSE {[i \in Pos |-> IF i \in at..(at + k - 1) THEN new[i - at + 1]
                                             ELSE table[i]]}
    IN UNION {put(Entries(r, fn, id), dir_alloc(Pieces(r) + 1)) : fn \in ShortNames(r)}

(* The table t when k of the entries of the object found at f are deleted. *)
Block(f) == (IF f.blk = NoBlock THEN f.at ELSE f.blk)..f.at
dir_remove_ShortOnly(t, f, k) == [t EXCEPT ![f.at] = Deleted]
dir_remove(t, f, k) ==
    LET first == IF f.blk = NoBlock THEN f.at ELSE f.blk
    IN [i \in Pos |-> IF i \in first..(first + k - 1) THEN Deleted ELSE t[i]]

-----------------------------------------------------------------------------
(* Calls                                                                   *)

IdsIn(t) == {t[i].id : i \in {j \in Pos : t[j].t = "sfn"}}
Unused(id) == made[id] = NoName

(* A call that writes or deletes n entries makes k of them; bound: only one *)
(* call fails.                                                             *)
Reached(n) == IF torn THEN {n} ELSE 0..n

(* r: what the name becomes; f: what dir_find finds for it, or for the old *)
(* name.                                                                   *)
Accepted == {n \in NAMES : Known[n].res = "FR_OK"}
FoundFor == [n \in Accepted |-> dir_find(Known[n])]

f_open(r, f) ==
    LET n == Pieces(r) + 1
    IN /\ f.at = 0
       /\ \E id \in Ids, k \in Reached(n) :
            /\ Unused(id) /\ \A j \in Ids : j < id => ~Unused(j)
            /\ table' \in dir_register(r, id, k)
            /\ made' = IF k = 0 THEN made ELSE [made EXCEPT ![id] = r.lfn]
            /\ torn' = (torn \/ k \in 1..(n - 1))
            /\ sure' = IF k = n /\ ~torn THEN sure \cup {id} ELSE sure

f_unlink(f) ==
    /\ f.at # 0
    /\ LET id == table[f.at].id
           n == Cardinality(Block(f))
       IN \E k \in Reached(n) \ {0} :
            /\ table' = dir_remove(table, f, k)
            /\ torn' = (torn \/ k < n)
            /\ made' = IF k = n THEN [made EXCEPT ![id] = NoName] ELSE made
            /\ sure' = sure \ {id}

(* Adding the new entries comes first, removing the old ones second.       *)
Least(k, n) == IF k < n THEN k ELSE n
f_rename(f, r, there) ==
    /\ f.at # 0 /\ there.at \in {0, f.at}
    /\ LET id == table[f.at].id
           n == Pieces(r) + 1
           m == Cardinality(Block(f))
       IN \E k \in Reached(n + m) \ {0} : \E added \in dir_register(r, id, Least(k, n)) :
            /\ table' = IF k <= n THEN added ELSE dir_remove(added, f, k - n)
            /\ torn' = (torn \/ k < n + m)
            /\ made' = IF k < n THEN made ELSE [made EXCEPT ![id] = r.lfn]
            /\ sure' = IF torn' THEN sure \ {id} ELSE sure

(* f_setlabel: some label or none.                                         *)
SetLabel(set) ==
    \E l \in {ReadLabel.at} :
       /\ IF set /\ l = 0
          THEN \E at \in {dir_alloc(1)} : at # 0 /\ table' = [table EXCEPT ![at] = Label]
          ELSE l # 0 /\ table' = [table EXCEPT ![l] = IF set THEN Label ELSE Deleted]
       /\ UNCHANGED <<made, torn, sure>>

(* A new directory, or a root directory with a label.                      *)
Init ==
    /\ \E first \in {<<Dot, Dot>>, <<Label>>, <<>>} :
         table = [i \in Pos |-> IF i \in DOMAIN first THEN first[i] ELSE End]
    /\ made = [id \in Ids |-> NoName]
    /\ torn = FALSE /\ sure = {}

Root == table[1] # Dot

Next ==
    \/ \E found \in {FoundFor} :
          \/ \E n \in Accepted : f_open(Known[n], found[n]) \/ f_unlink(found[n])
          \/ \E o, n \in Accepted : f_rename(found[o], Known[n], found[n])
    \/ \E set \in BOOLEAN : Root /\ SetLabel(set)

Spec == Init /\ [][Next]_vars

-----------------------------------------------------------------------------
Objects == {i \in Pos : table[i].t = "sfn"}
SameLong(a, b) == Len(a) = Len(b) /\ \A k \in DOMAIN a : f_wtoupper(a[k]) = f_wtoupper(b[k])

(* A directory shows every object it has once, under the name it was given,*)
(* case included, and where a call failed, the objects it did not work on. *)
ListedAsMade(items) ==
    /\ sure \subseteq IdsIn(table)
    /\ \A i \in DOMAIN items :
          items[i].id \in sure => create_name(items[i].fname, 1).lfn = made[items[i].id]
    /\ Len(items) = Cardinality(Objects)

(* What was made is listed; a name opens the object that was given it,     *)
(* whatever the case, and the short name shown beside it opens the same;   *)
(* an object that is not there is not found.  A search without wildcards   *)
(* agrees.                                                                 *)
FoundByName ==
    \A items \in {Items(1)}, found \in {FoundFor} :
       /\ ListedAsMade(items)
       /\ \A i \in Objects : table[i].id \in sure =>
             /\ \A n \in Accepted : SameLong(Known[n].lfn, made[table[i].id]) => found[n].at = i
             /\ dir_find(create_name(AltName(table[i].fn, 99), 1)).at = i
       /\ ~torn => \A n \in Accepted :
             {m.id : m \in Range(Matching(items, Known[n].lfn))}
                = IF found[n].at = 0 THEN {} ELSE {table[found[n].at].id}

(* No two objects share a short name, and no two a long one.               *)
NamesApart ==
    \A i, j \in Objects : i # j /\ table[i].id \in sure /\ table[j].id \in sure =>
        /\ table[i].fn # table[j].fn
        /\ ~SameLong(made[table[i].id], made[table[j].id])

(* Every piece of a long name is one of the run in front of its object, in *)
(* order and with its checksum: what is removed is removed whole, and a    *)
(* run never overlaps what was there, whatever free entries it was put on. *)
NoOrphans ==
    ~torn => \A i \in Pos : table[i].t = "lfn" =>
        LET o == i + table[i].ord
        IN /\ o \in Objects /\ table[i].sum = sum_sfn(table[o].fn)
           /\ \A k \in (i + 1)..(o - 1) : table[k].t = "lfn" /\ table[k].ord = o - k
=============================================================================
