---------------------------------- MODULE Text ----------------------------------
(***************************************************************************)
(* What names, characters and code pages promise.  A behaviour either is a *)
(* call of the string functions (StringIO), or asks one question of the    *)
(* functions of Names, Encoding and CodePages: an input they may be given, *)
(* with the build (code page, encoding of the API) it is given to.         *)
(***************************************************************************)
EXTENDS StringIO, CodePages, Questions

CONSTANTS
    BODY, EXT, LFN_CHARS, FF_MAX_LFN,   \* widths, as in Names
    VolumeStr,                          \* FF_VOLUME_STRS
    CHARMAP             \* CHARMAP[page]: some pairs <<OEM code, Unicode>>

(* f_setcp sets the table of the page; the other kind of table is null.    *)
ExCvtOf(page) ==
    CASE f_setcp(page) # "ExCvt" -> [c \in Extended |-> c]
      [] page = 437 -> Ct437 [] page = 720 -> Ct720 [] page = 737 -> Ct737
      [] page = 771 -> Ct771 [] page = 775 -> Ct775 [] page = 850 -> Ct850
      [] page = 852 -> Ct852 [] page = 855 -> Ct855 [] page = 857 -> Ct857
      [] page = 860 -> Ct860 [] page = 861 -> Ct861 [] page = 862 -> Ct862
      [] page = 863 -> Ct863 [] page = 864 -> Ct864 [] page = 865 -> Ct865
      [] page = 866 -> Ct866 [] page = 869 -> Ct869

(* The page of the question, on the characters of CHARMAP.                 *)
Page == Q.page
Look(of, k) == LET m == {p \in CHARMAP[Page] : p[k] = of}
               IN IF m = {} THEN 0 ELSE (CHOOSE p \in m : TRUE)[3 - k]
UniOf(oem) == IF oem < 128 THEN oem ELSE Look(oem, 1)
OemOf(uni) == IF uni < 128 THEN uni ELSE Look(uni, 2)
LeadOf(c) == f_setcp(Page) = "DbcTbl" /\ dbc_1st(Page, c)
TrailOf(c) == f_setcp(Page) = "DbcTbl" /\ dbc_2nd(Page, c)
DotNames == IF "rpath" \in DOMAIN Q THEN Q.rpath ELSE 0

N == INSTANCE Names WITH
        Uni <- UniOf, Oem <- OemOf, Lead <- LeadOf, Trail <- TrailOf,
        FF_LFN_UNICODE <- Q.api, FF_FS_RPATH <- DotNames, ExCvt <- ExCvtOf(Page),
        SignedChar <- FALSE, FF_STR_VOLUME_ID <- Q.id

-----------------------------------------------------------------------------

TextInit == Init /\ NotAsked

Ask == /\ AskSome /\ put = <<>> /\ result = Open
       /\ conf = CHOOSE c \in CONFS : TRUE
       /\ UNCHANGED vars

TextNext == Ask \/ (NotAsked /\ Next /\ UNCHANGED asked)
TextSpec == TextInit /\ [][TextNext]_<<vars, asked>>

-----------------------------------------------------------------------------
(* Paths.  "sfn" and "lfn": [page, api, s], s a path; with rpath = 1 the   *)
(* build understands dot names.                                            *)

(* The names follow_path takes from a path; <<>> stands for an error.      *)
RECURSIVE Walk_sfn(_, _), Walk_lfn(_, _)
Walk_sfn(s, p) ==
    LET with(r) == IF r.res # "FR_OK" THEN <<<<>>>>
                   ELSE <<r.fn>> \o (IF r.last THEN <<>> ELSE Walk_sfn(s, r.next))
    IN with(N!create_name_sfn(s, p))
Walk_lfn(s, p) ==
    LET with(r) == IF r.res # "FR_OK" THEN <<<<>>>>
                   ELSE <<r.lfn>> \o (IF r.last THEN <<>> ELSE Walk_lfn(s, r.next))
    IN with(N!create_name(s, p))

(* The segments of a path: separated by separators, which may be the       *)
(* second byte of a double-byte character but not its first.               *)
RECURSIVE Cut(_, _, _)
Cut(s, p, segment) ==
    LET c == At(s, p)
        pair == Q.api = 0 /\ LeadOf(c) /\ TrailOf(At(s, p + 1))
        done == IF segment = <<>> THEN <<>> ELSE <<segment>>
    IN IF c < SPACE \/ (Asks("sfn") /\ c = SPACE) THEN done
       ELSE IF N!IsSeparator(c) THEN done \o Cut(s, p + 1, <<>>)
       ELSE IF pair THEN Cut(s, p + 2, segment \o <<c, s[p + 1]>>)
       ELSE Cut(s, p + 1, Append(segment, c))

UpToError(names) == LET bad(n) == n = <<>>
                        k == SelectInSeq(names, bad)
                    IN IF k = 0 THEN names ELSE SubSeq(names, 1, k)

(* "volume": [id, prefix, vol, rest], a path that names volume vol by its  *)
(* prefix and the path behind it.                                          *)
VolumeNamed ==
    Asks("volume") => N!get_ldnumber(Q.prefix \o Q.rest, TRUE, 0)
                        = [vol |-> Q.vol, p |-> Len(Q.prefix) + 1]

(* Without long names only one separator is taken with a dot name: what    *)
(* else is there begins the next segment, which is then none.              *)
NotSkipped(s) ==
    /\ Asks("sfn") /\ DotNames = 1
    /\ \E k \in DOMAIN s :
          /\ s[k] = 46 /\ N!IsSeparator(At(s, k + 1))
          /\ N!IsSeparator(At(s, k + 2)) \/ At(s, k + 2) <= SPACE

(* The names taken from a path are those of its segments, each on its own, *)
(* up to the first that is no name: no segment is skipped, cut short, read *)
(* twice, or taken for the last when it is not.  A volume prefix gives the *)
(* volume and is left behind.                                              *)
SegmentsFollowPath ==
  /\ VolumeNamed
  /\ LET start == N!PastSeparators(Q.s, 1)
         own(seg) == IF Asks("sfn") THEN Walk_sfn(seg, 1)[1] ELSE Walk_lfn(seg, 1)[1]
         segs == Cut(Q.s, 1, <<>>)
         names == IF Asks("sfn") THEN Walk_sfn(Q.s, start) ELSE Walk_lfn(Q.s, start)
     IN (Asks("sfn") \/ Asks("lfn")) /\ At(Q.s, start) > SPACE /\ ~NotSkipped(Q.s) =>
            names = UpToError([k \in DOMAIN segs |-> own(segs[k])])

-----------------------------------------------------------------------------

(* Up-casing twice is up-casing once, but in two pages.                    *)
Unsettled == {737, 775}

(* A single name s that is accepted: without long names, the name shown    *)
(* for its entry opens the same entry (a null name is shown for none).     *)
ShownSfn(s) ==
    \A r \in {N!create_name_sfn(s, 1)} :
        r.res = "FR_OK" /\ Page \notin Unsettled =>
            \A shown \in {N!get_fileinfo_sfn(r.fn)} :
                shown # <<>> =>
                    \A again \in {N!create_name_sfn(shown, 1)} :
                        again.res = "FR_OK" /\ again.fn = r.fn

(* With them, the entries hold exactly the name that was given (case       *)
(* included, whether as flags or as a long name), and the short name shown *)
(* beside it, numbered if the name was lossy, names the same entry.        *)
Registered(r) == IF "NS_LOSS" \in r.cf THEN N!gen_numname(r.fn, r.lfn, 1) ELSE r.fn
Shown(r, fn) == N!get_fileinfo(fn, r.cf \cap {"NS_BODY", "NS_EXT"},
                               IF "NS_LFN" \in r.cf THEN r.lfn ELSE <<>>, 99, 99)
ShownLfn(s) ==
    \A r \in {N!create_name(s, 1)} : r.res = "FR_OK" =>
        \A fn \in {Registered(r)} : \A info \in {Shown(r, fn)} :
            /\ \A again \in {N!create_name(info.fname, 1)} :
                  again.res = "FR_OK" /\ again.lfn = r.lfn /\ again.fn = r.fn
            /\ info.altname # <<>> =>
                  \A alt \in {N!create_name(info.altname, 1)} :
                      alt.res = "FR_OK" /\ alt.fn = fn /\ "NS_LOSS" \notin alt.cf

(* What a directory shows for a name opens what the name created.          *)
ShownNameOpens ==
    /\ Asks("sfn") /\ Len(Cut(Q.s, 1, <<>>)) = 1 => ShownSfn(Q.s)
    /\ Asks("lfn") /\ Len(Cut(Q.s, 1, <<>>)) = 1 => ShownLfn(Q.s)

-----------------------------------------------------------------------------
(* "numbered": [page, api, s], a name whose short form needs a number.     *)

(* The first five numbered names differ, and each is a name of its own: it *)
(* is shown and found as it is, no double-byte character cut in half.  But *)
(* a first byte 0xE5 is stored as 0x05, which gen_numname does not take    *)
(* for the first of two.                                                   *)
NumberedApart ==
    Asks("numbered") =>
        \A r \in {N!create_name(Q.s, 1)} : r.res = "FR_OK" =>
        \A name \in {[n \in 1..7 |-> N!gen_numname(r.fn, r.lfn, n)]} :
            /\ \A m, n \in 1..5 : m # n => name[m] # name[n]
            /\ r.fn[1] # N!RDDEM =>
                  \A n \in 1..7 : \A again \in {N!create_name(N!AltName(name[n], 99), 1)} :
                      again.res = "FR_OK" /\ again.fn = name[n]

-----------------------------------------------------------------------------
(* "entries": [lfn, other, stale], two long names and what fills the name  *)
(* buffer.                                                                 *)

Buffer(lfn, stale) == [k \in 1..(FF_MAX_LFN + 1) |->
                          IF k <= Len(lfn) THEN lfn[k] ELSE IF k = Len(lfn) + 1 THEN 0 ELSE stale]
Entries(lfn) == [k \in 1..N!LfnEntries(lfn) |-> N!put_lfn(lfn, N!LfnEntries(lfn) + 1 - k)]
Picked(lfn, stale) ==
    LET pick(st, e) == IF st.ok THEN N!pick_lfn(st.buf, e) ELSE st
    IN FoldLeft(pick, [ok |-> TRUE, buf |-> [k \in 1..(FF_MAX_LFN + 1) |-> stale]], Entries(lfn))
SameName(a, b) == Len(a) = Len(b) /\ \A k \in DOMAIN a : f_wtoupper(a[k]) = f_wtoupper(b[k])

(* The entries written for a long name, read from the last to the first,   *)
(* put it into the buffer whatever is left there from an earlier name, and *)
(* match another name exactly if the two are equal but for case; beside    *)
(* it stands a short name of its own.                                      *)
LongNameFound ==
  /\ NumberedApart
  /\ Asks("entries") =>
        \A p \in {Picked(Q.lfn, Q.stale)} :
           /\ p.ok /\ Len(Q.lfn) = SelectInSeq(p.buf, LAMBDA c : c = 0) - 1
           /\ \A k \in DOMAIN Q.lfn : p.buf[k] = Q.lfn[k]
           /\ (\A e \in Range(Entries(Q.lfn)) : N!cmp_lfn(Buffer(Q.other, Q.stale), e))
                <=> SameName(Q.lfn, Q.other)

-----------------------------------------------------------------------------
(* "match": [page, api, pat, nam].                                         *)

RECURSIVE Glob(_, _)
Glob(pat, nam) ==
    IF pat = <<>> THEN nam = <<>>
    ELSE IF pat[1] = N!STAR
         THEN Glob(Tail(pat), nam) \/ (nam # <<>> /\ Glob(pat, Tail(nam)))
         ELSE /\ nam # <<>> /\ Glob(Tail(pat), Tail(nam))
              /\ pat[1] = N!QUESTION \/ f_wtoupper(pat[1]) = f_wtoupper(nam[1])

WildTerms(pat) == Cardinality({k \in DOMAIN pat : /\ N!IsWild(pat[k])
                                                  /\ k = Len(pat) \/ ~N!IsWild(pat[k + 1])})

(* f_findfirst finds the names the pattern stands for, ? for any character *)
(* and * for any number of them, if it has no more terms of wildcards than *)
(* the recursion allows; never another.                                    *)
PatternMatches ==
    Asks("match") =>
        \A found \in {N!pattern_match(Q.pat, Q.nam, 1, 1, 0, FALSE, N!FIND_RECURS)} :
           /\ found => Glob(Q.pat, Q.nam)
           /\ WildTerms(Q.pat) <= N!FIND_RECURS => (Glob(Q.pat, Q.nam) => found)

-----------------------------------------------------------------------------
(* "char": [page, api, uc]; "sbcs": [page]; "dbcs": [page, from];          *)
(* "upper": [from]; "cluster": [fat32, cl].  Blocks of 256.                *)

Block256(from) == from..(from + 255)

CharReads ==
    Asks("char") =>
        \A s \in {N!put_utf(Q.api, N!Paired(Q.uc), 4)} :
            s # <<>> /\ N!tchar2uni(Q.api, s, 1) = [c |-> N!Paired(Q.uc), next |-> Len(s) + 1]
ClusterReads ==
    Asks("cluster") =>
        LET dir == [k \in 1..32 |-> 255]
            put2 == st_clust(Q.fat32, dir, 26, 20, Q.cl)
        IN /\ ld_clust(Q.fat32, put2, 26, 20) = Q.cl
           /\ \A k \in 1..32 : put2[k] # 255 => k \in {27, 28} \/ (Q.fat32 /\ k \in {21, 22})
SbcsFound ==
    Asks("sbcs") => /\ \A c \in Extended \ SbcsTable(Page).holes :
                          LET uni == f_oem2uni(c, Page)
                          IN f_oem2uni(f_uni2oem(uni, Page), Page) = uni
                    /\ Page \notin Unsettled =>
                          \A c \in Extended : ToUpper(ExCvtOf(Page), ToUpper(ExCvtOf(Page), c))
                                               = ToUpper(ExCvtOf(Page), c)

(* Ten characters of page 950 have two codes: those that are not found.    *)
Doubled == {\HA2A2, \HA2A3, \HA2A4, \HA2A5, \HA451, \HA4CA, \HF9EA, \HF9EB, \HF9FA, \HF9FB}

DbcsFound ==
    Asks("dbcs") =>
        \A i \in Block256(Q.from) \ {0} :
           /\ \A t \in {uni2oem(Page), oem2uni(Page)} :
                 i < Len(t) => LET at == Found(t, t[i][1]) IN at # 0 /\ t[at][1] = t[i][1]
           /\ i < Len(uni2oem(Page)) /\ uni2oem(Page)[i][2] # Unspelled =>
                 LET uni == uni2oem(Page)[i][1] IN f_oem2uni(f_uni2oem(uni, Page), Page) = uni
           /\ i < Len(oem2uni(Page)) /\ oem2uni(Page)[i][2] # Unspelled =>
                 LET oem == oem2uni(Page)[i][1]
                 IN oem \notin Doubled => f_uni2oem(f_oem2uni(oem, Page), Page) = oem
UpperSettles ==
    Asks("upper") => \A uc \in Block256(Q.from) :
                        f_wtoupper(uc) < 65536 /\ f_wtoupper(f_wtoupper(uc)) = f_wtoupper(uc)

-----------------------------------------------------------------------------
(* "label": [exfat, lfn, page, api, s].                                    *)

RECURSIVE CharsOf(_, _)
CharsOf(s, p) ==
    LET with(u) == IF u.c = BadChar THEN <<BadChar>> ELSE <<u.c>> \o CharsOf(s, u.next)
    IN IF p > Len(s) THEN <<>> ELSE with(N!tchar2uni(Q.api, s, p))

(* Without long names a double-byte character stays as it is, and the      *)
(* table of the code page rules: it may take an accent off.                *)
Capital(u) == IF Q.lfn THEN f_wtoupper(u)
              ELSE IF OemOf(u) >= 256 THEN u ELSE UniOf(ToUpper(ExCvtOf(Page), OemOf(u)))
Folded(chars) == [k \in DOMAIN chars |-> IF chars[k].hi = 0 THEN Unit(Capital(chars[k].lo))
                                         ELSE chars[k]]
Forbidden == {34, 42, 47, 58, 60, 62, 63, 92, 124, 127}
             \cup IF Q.exfat THEN {} ELSE {43, 44, 46, 59, 61, 91, 93}

(* The look-up takes the low byte of what it looks for, so that characters *)
(* that end like a forbidden one, or like the 0 behind them, are refused.  *)
LooksForbidden(c) ==
    (IF Q.exfat THEN c.lo ELSE OemOf(Capital(c.lo))) % 256 \in Forbidden \cup {0}
Fits(chars) ==
    LET size(c) == IF Q.exfat THEN IF c.hi = 0 THEN 1 ELSE 2
                   ELSE IF OemOf(Capital(c.lo)) >= 256 THEN 2 ELSE 1
        first == OemOf(Capital(chars[1].lo))
    IN /\ FoldLeft(LAMBDA n, c : n + size(c), 0, chars) <= N!LABEL
       /\ Q.exfat \/ chars = <<>> \/ 229 \notin {first, first \div 256}
       /\ Q.exfat \/ \A k \in DOMAIN chars : chars[k].hi = 0

(* A label that f_setlabel accepts is what f_getlabel returns, in upper    *)
(* case and without trailing blanks on FAT, as it is on exFAT; and every   *)
(* label that fits and has no forbidden character is accepted.             *)
LabelComesBack ==
    Asks("label") =>
        \A r \in {N!f_setlabel(Q.exfat, Q.lfn, Q.s)} : \A all \in {CharsOf(Q.s, 1)} :
        LET back == CharsOf(N!f_getlabel(Q.exfat, Q.lfn, r.vn), 1)
            said == CharsOf(IF Q.exfat THEN Q.s ELSE N!Trimmed(Q.s), 1)
        IN /\ r.res = "FR_OK" => IF Q.exfat THEN back = said ELSE back = Folded(said)
           /\ (/\ BadChar \notin Range(all) /\ Fits(all)
               /\ \A k \in DOMAIN all : ~LooksForbidden(all[k])) => r.res = "FR_OK"

-----------------------------------------------------------------------------
(* "print": [left, zero, w, long, type, arg], a directive for a number.    *)

Decimal(n) == IF n < 10 THEN <<48 + n>> ELSE <<48 + (n \div 10), 48 + (n % 10)>>
Spelling == <<PERCENT>> \o (IF Q.left THEN <<45>> ELSE IF Q.zero THEN <<ZERO>> ELSE <<>>)
            \o (IF Q.w > 0 THEN Decimal(Q.w) ELSE <<>>)
            \o (IF Q.long THEN <<108>> ELSE <<>>) \o <<Q.type>>
Value(c) == IF IsDigit(c) THEN c - 48 ELSE IF c >= 97 THEN c - 87 ELSE c - 55
ValueOf(text) == LET add(v, c) == v * Radix(Q.type) + Value(c) IN FoldLeft(add, 0, text)

(* f_printf of a number is as wide as asked, wider only if the number is,  *)
(* and what it shows is the number, whatever the padding.                  *)
PrintedReadsBack ==
    Asks("print") =>
        \A out \in {f_printf(Append(Spelling, 33), <<Q.arg>>)} :
        \A text \in {SelectSeq(SubSeq(out, 1, Len(out) - 1), LAMBDA c : c # SPACE)} :
        LET minus == 45 \in Range(text)
            value == ValueOf(SelectSeq(text, LAMBDA c : c # 45))
        IN /\ Len(out) - 1 >= Q.w /\ (Len(out) - 1 > Q.w => Len(text) = Len(out) - 1)
           /\ (IF minus THEN -value ELSE value) % 2 ^ WORD_BITS = Q.arg % 2 ^ WORD_BITS
           /\ minus <=> Q.type = 100 /\ Q.arg < 0
           /\ minus /\ ~(Q.zero /\ ~Q.left) => text[1] = 45

(* Every character survives: written in an encoding it is read back whole; *)
(* every character of a code page is found in its table within 16 probes,  *)
(* and stands for itself there and back; what is in upper case stays so.   *)
(* A cluster number in a directory entry and a printed number survive too.   *)
CharactersSurvive ==
    /\ CharReads /\ ClusterReads
    /\ SbcsFound /\ DbcsFound /\ UpperSettles
    /\ PrintedReadsBack
=============================================================================
