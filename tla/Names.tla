--------------------------------- MODULE Names ---------------------------------
(***************************************************************************)
(* Names: from a path to the name in directory form and the long name      *)
(* (create_name), from a directory entry to the name that is shown         *)
(* (get_fileinfo), numbered short names, the pieces of a long name in      *)
(* directory entries, wildcards, the volume a path names, volume labels.   *)
(*                                                                         *)
(* Strings are sequences of the code's units; a buffer or path in memory   *)
(* is followed by 0.  Both configurations are here: operators named _sfn   *)
(* are the branches without FF_USE_LFN, the others those with it.          *)
(***************************************************************************)
EXTENDS Encoding, CodePages, FiniteSets, Bitwise

CONSTANTS
    BODY, EXT,          \* width of the fields of a short name: 8 and 3
    LFN_CHARS,          \* characters in a long name entry: 13
    FF_MAX_LFN,         \* longest long name
    FF_LFN_UNICODE,     \* encoding of the API
    FF_FS_RPATH,        \* dot names are understood
    ExCvt,              \* up-case table of the code page, as in CodePages
    SignedChar,         \* the compiler's char is signed
    VolumeStr,          \* FF_VOLUME_STRS: the volumes' names
    FF_STR_VOLUME_ID

W == BODY + EXT
SPACE == 32
DOT == 46
DDEM == 229
RDDEM == 5
IsSeparator(c) == c \in {47, 92}
IsTerminator(c) == c < SPACE

Blank == [k \in 1..W |-> SPACE]
Invalid == [res |-> "FR_INVALID_NAME"]

(* The first position from p on that is no separator.                      *)
PastSeparators(s, p) ==
    CHOOSE q \in p..(Len(s) + 2) :
        /\ ~IsSeparator(At(s, q))
        /\ \A k \in p..(q - 1) : IsSeparator(At(s, k))

-----------------------------------------------------------------------------
(* create_name without long names.                                         *)

NotInSfn == {42, 43, 44, 58, 59, 60, 61, 62, 91, 93, 124, 34, 63, 127}

Kept(st, c) == [st EXCEPT !.fn[st.i + 1] = c, !.i = @ + 1]

(* st.si: next character of the path; st.i of st.ni: the field being       *)
(* filled; st.c: the character the scan stopped at.                        *)
RECURSIVE Scan_sfn(_, _)
Scan_sfn(s, st) ==
    LET b == At(s, st.si)
        c == IF b \in Extended THEN ExCvt[b] ELSE b
        d == At(s, st.si + 1)
        next == [st EXCEPT !.si = @ + 1]
    IN CASE b <= SPACE -> [next EXCEPT !.c = b]
         [] IsSeparator(b) -> [st EXCEPT !.si = PastSeparators(s, st.si + 1), !.c = b]
         [] b > SPACE /\ ~IsSeparator(b) /\ (b = DOT \/ st.i >= st.ni) ->
              IF st.ni = W \/ b # DOT THEN Invalid
              ELSE Scan_sfn(s, [next EXCEPT !.i = BODY, !.ni = W])
         [] OTHER ->
              IF Lead(c)
              THEN IF ~Trail(d) \/ st.i >= st.ni - 1 THEN Invalid
                   ELSE Scan_sfn(s, Kept(Kept([next EXCEPT !.si = @ + 1], c), d))
              ELSE IF c \in NotInSfn THEN Invalid
                   ELSE Scan_sfn(s, Kept(next, IF IsLower(c) THEN c - 32 ELSE c))

(* p[si] <= ' ' compares a char: a byte above 127 is negative if char is   *)
(* signed.                                                                 *)
EndsPath(s, p) == At(s, p) <= SPACE \/ (SignedChar /\ At(s, p) >= 128)

Dots(s, p) == IF At(s, p + 1) = DOT THEN 2 ELSE 1

create_name_sfn(s, p) ==
    LET n == Dots(s, p)
        after == At(s, p + n)
        scanned(st) ==
            IF st.res # "FR_OK" \/ st.i = 0 THEN Invalid
            ELSE [res |-> "FR_OK", next |-> st.si, dot |-> FALSE,
                  fn |-> [st.fn EXCEPT ![1] = IF @ = DDEM THEN RDDEM ELSE @],
                  last |-> st.c <= SPACE \/ EndsPath(s, st.si)]
    IN IF FF_FS_RPATH # 0 /\ At(s, p) = DOT
       THEN IF ~IsSeparator(after) /\ after > SPACE THEN Invalid
            ELSE [res |-> "FR_OK", fn |-> [k \in 1..W |-> IF k <= n THEN DOT ELSE SPACE],
                  next |-> p + n + 1, last |-> after <= SPACE, dot |-> TRUE]
       ELSE scanned(Scan_sfn(s, [res |-> "FR_OK", si |-> p, i |-> 0, ni |-> BODY,
                                 fn |-> Blank, c |-> 0]))

(* get_fileinfo without long names.                                        *)
get_fileinfo_sfn_Raw(fn) ==
    LET show(out, si) ==
            IF fn[si] = SPACE THEN out
            ELSE (IF si = BODY + 1 THEN Append(out, DOT) ELSE out) \o <<fn[si]>>
    IN FoldLeft(show, <<>>, [k \in 1..W |-> k])
get_fileinfo_sfn(fn) ==
    LET show(out, si) ==
            IF fn[si] = SPACE THEN out
            ELSE (IF si = BODY + 1 THEN Append(out, DOT) ELSE out)
                 \o <<IF fn[si] = RDDEM THEN DDEM ELSE fn[si]>>
    IN FoldLeft(show, <<>>, [k \in 1..W |-> k])

-----------------------------------------------------------------------------
(* create_name with long names: first the long name, in UTF-16.            *)

NotInLfn == {42, 58, 60, 62, 124, 34, 63, 127}

(* The units of a character but its last.                                  *)
WithPair(lfn, c) == IF c.hi # 0 THEN Append(lfn, c.hi) ELSE lfn

RECURSIVE Collect(_, _, _)
Collect(s, p, lfn) ==
    LET go_on(u, wc, lfn1) ==
            IF u.c = BadChar THEN Invalid
            ELSE IF wc < SPACE \/ IsSeparator(wc)
                 THEN [res |-> "FR_OK", lfn |-> lfn1, p |-> u.next, wc |-> wc]
            ELSE IF wc \in NotInLfn \/ Len(lfn1) >= FF_MAX_LFN THEN Invalid
                 ELSE Collect(s, u.next, Append(lfn1, wc))
        with(u) == go_on(u, u.c.lo, WithPair(lfn, u.c))
    IN with(tchar2uni(FF_LFN_UNICODE, s, p))

(* Trailing spaces and dots are snipped off.                               *)
Snipped(lfn) ==
    LET keep == {k \in DOMAIN lfn : lfn[k] \notin {SPACE, DOT}}
    IN SubSeq(lfn, 1, IF keep = {} THEN 0 ELSE CHOOSE k \in keep : \A j \in keep : j <= k)

(* The character in the code page, extended ones up-cased.                 *)
OemUpper(wc) ==
    IF wc < 128 THEN wc
    ELSE IF \E c \in Extended : Lead(c) THEN Oem(f_wtoupper(wc))
    ELSE IF Oem(wc) \in Extended THEN ExCvt[Oem(wc)] ELSE Oem(wc)

NotInBoth == {43, 44, 59, 61, 91, 93}
Lossy(st) == [st EXCEPT !.cf = @ \cup {"NS_LOSS", "NS_LFN"}]

(* Then the short name: st.si of lfn is next, lfn[di] is its last dot (0   *)
(* if there is none); st.caps: the cases met in the body and in the        *)
(* extension; st.cf: the flags.                                            *)
RECURSIVE Shorten(_, _, _)
Shorten(lfn, di, st) ==
    LET wc == At(lfn, st.si)
        next == [st EXCEPT !.si = @ + 1]
        ext == [next EXCEPT !.cf = @ \cup IF wc >= 128 THEN {"NS_LFN"} ELSE {}]
        field == IF st.ni = BODY THEN "body" ELSE "ext"
        case(c) == IF IsUpper(c) THEN {"upper"} ELSE IF IsLower(c) THEN {"lower"} ELSE {}
        full == st.i >= st.ni \/ st.si = di
        over == IF st.si # di THEN Lossy(next) ELSE next
        put(o) ==
            IF o >= 256
            THEN IF st.i >= st.ni - 1
                 THEN Shorten(lfn, di, [Lossy(ext) EXCEPT !.i = st.ni])
                 ELSE Shorten(lfn, di, Kept(Kept(ext, o \div 256), o % 256))
            ELSE IF o = 0 \/ o \in NotInBoth
                 THEN Shorten(lfn, di, Kept(Lossy(ext), 95))
                 ELSE Shorten(lfn, di,
                        Kept([ext EXCEPT !.caps[field] = @ \cup case(o)],
                             IF IsLower(o) THEN o - 32 ELSE o))
    IN CASE wc = 0 -> st
         [] wc = SPACE \/ (wc = DOT /\ st.si # di) -> Shorten(lfn, di, Lossy(next))
         [] wc \notin {0, SPACE} /\ (wc = DOT => st.si = di) /\ full ->
              IF st.ni = W THEN Lossy(st)
              ELSE IF st.si > di THEN over
              ELSE Shorten(lfn, di, [over EXCEPT !.si = di + 1, !.i = BODY, !.ni = W])
         [] OTHER -> put(OemUpper(wc))

LeadingSpaces(lfn) == (CHOOSE k \in 1..Len(lfn) : /\ lfn[k] # SPACE
                                                  /\ \A j \in 1..(k - 1) : lfn[j] = SPACE) - 1
LastDot(lfn) == LET dots == {k \in DOMAIN lfn : lfn[k] = DOT}
                IN IF dots = {} THEN 0 ELSE CHOOSE k \in dots : \A j \in dots : j <= k

NtFlags(st) ==
    LET mixed == \E f \in {"body", "ext"} : st.caps[f] = {"upper", "lower"}
    IN IF mixed THEN {"NS_LFN"}
       ELSE IF "NS_LFN" \in st.cf THEN {}
       ELSE {f \in {"NS_EXT"} : "lower" \in st.caps["ext"]}
            \cup {f \in {"NS_BODY"} : "lower" \in st.caps["body"]}

ShortForm(lfn, lead) ==
    Shorten(lfn, LastDot(lfn), [si |-> lead + 1, i |-> 0, ni |-> BODY, fn |-> Blank,
                                caps |-> [f \in {"body", "ext"} |-> {}],
                                cf |-> IF lead > 0 \/ lfn[lead + 1] = DOT
                                       THEN {"NS_LOSS", "NS_LFN"} ELSE {}])
DotName(lfn) == [dot |-> TRUE, lfn |-> lfn, cf |-> {},
                 fn |-> [k \in 1..W |-> IF k <= Len(lfn) THEN DOT ELSE SPACE]]
NamePair(lfn, st) == [dot |-> FALSE, lfn |-> lfn, cf |-> st.cf \cup NtFlags(st),
                      fn |-> [st.fn EXCEPT ![1] = IF @ = DDEM THEN RDDEM ELSE @]]

(* The position behind the segment and its separators, and whether the     *)
(* path ends there.                                                        *)
PathBehind_One(s, seg) ==
    [res |-> "FR_OK", next |-> seg.p, last |-> seg.wc < SPACE \/ IsTerminator(At(s, seg.p))]
PathBehind(s, seg) ==
    LET behind(q) == [res |-> "FR_OK", next |-> q, last |-> IsTerminator(At(s, q))]
    IN IF seg.wc < SPACE THEN [res |-> "FR_OK", next |-> seg.p, last |-> TRUE]
       ELSE behind(PastSeparators(s, seg.p))

create_name(s, p) ==
    LET named(lfn) == NamePair(lfn, ShortForm(lfn, LeadingSpaces(lfn)))
        segment(seg, lfn) ==
            IF seg.res # "FR_OK" THEN Invalid
            ELSE IF FF_FS_RPATH # 0 /\ seg.lfn \in {<<DOT>>, <<DOT, DOT>>}
                 THEN PathBehind(s, seg) @@ DotName(seg.lfn)
            ELSE IF lfn = <<>> THEN Invalid
            ELSE PathBehind(s, seg) @@ named(lfn)
        collected(seg) == segment(seg, Snipped(seg.lfn))
    IN collected(Collect(s, p, <<>>))

(* get_fileinfo: the long name in the API's encoding; a broken surrogate   *)
(* pair or a full buffer leaves none.                                      *)
Shown(lfn, szb) ==
    LET unit(st, k) ==
            IF ~st.ok THEN st
            ELSE IF st.hs = 0 /\ IsSurrogate(lfn[k]) THEN [st EXCEPT !.hs = lfn[k]]
            ELSE LET u == put_utf(FF_LFN_UNICODE, [hi |-> st.hs, lo |-> lfn[k]],
                                  szb - Len(st.out))
                 IN [ok |-> u # <<>>, hs |-> 0, out |-> st.out \o u]
        end == FoldLeft(unit, [ok |-> TRUE, hs |-> 0, out |-> <<>>], [k \in 1..Len(lfn) |-> k])
    IN IF end.ok /\ end.hs = 0 THEN end.out ELSE <<>>

(* The short name in the API's encoding.  A first byte of a double-byte    *)
(* character takes the byte behind it, unless it ends its field.           *)
AltName(fn, szb) ==
    LET b(k) == IF fn[k] = RDDEM THEN DDEM ELSE fn[k]
        pair(k) == /\ FF_LFN_UNICODE >= 1 /\ Lead(b(k)) /\ k \notin {BODY, W}
                   /\ Trail(fn[k + 1])
        char(st, k) ==
            IF st.skip \/ fn[k] = SPACE \/ ~st.ok THEN [st EXCEPT !.skip = FALSE]
            ELSE LET dot == IF k = BODY + 1 /\ Len(st.out) < szb THEN <<DOT>> ELSE <<>>
                     wc == Uni(IF pair(k) THEN b(k) * 256 + fn[k + 1] ELSE b(k))
                     u == IF FF_LFN_UNICODE = 0 THEN <<b(k)>>
                          ELSE put_utf(FF_LFN_UNICODE, Unit(wc), szb - Len(st.out \o dot))
                 IN [ok |-> u # <<>> /\ (FF_LFN_UNICODE = 0 \/ wc # 0),
                     out |-> st.out \o dot \o u, skip |-> pair(k)]
        end == FoldLeft(char, [ok |-> TRUE, out |-> <<>>, skip |-> FALSE], [k \in 1..W |-> k])
    IN IF end.ok THEN end.out ELSE <<>>

(* Without a long name the short one is shown, in the cases of the flags.  *)
Cased(alt, nt) ==
    LET dot == LET at == {k \in DOMAIN alt : alt[k] = DOT}
               IN IF at = {} THEN Len(alt) + 1 ELSE CHOOSE k \in at : \A j \in at : k <= j
    IN [k \in DOMAIN alt |->
          IF IsUpper(alt[k]) /\ (IF k < dot THEN "NS_BODY" ELSE "NS_EXT") \in nt
          THEN alt[k] + 32 ELSE alt[k]]

(* lfn: the long name found with the entry, <<>> if none.                  *)
get_fileinfo(fn, nt, lfn, szb, szs) ==
    LET long == Shown(lfn, szb)
        alt == AltName(fn, szs)
    IN [fname |-> IF long # <<>> THEN long ELSE IF alt = <<>> THEN <<63>> ELSE Cased(alt, nt),
        altname |-> IF long = <<>> /\ nt = {} THEN <<>> ELSE alt]

-----------------------------------------------------------------------------
(* gen_numname: the name with ~ and hexadecimal digits at the end of its   *)
(* body.  From the sixth attempt on the number is a hash of the long name. *)

RECURSIVE Shifted_in(_, _, _)
Shifted_in(sreg, lfn, k) ==         \* the bits of each character, the least first
    CASE lfn = <<>> -> sreg
      [] lfn # <<>> /\ k = 16 -> Shifted_in(sreg, Tail(lfn), 0)
      [] OTHER -> LET s == sreg * 2 + ((Head(lfn) \div 2 ^ k) % 2)
                  IN IF s >= 65536 THEN Shifted_in(s ^^ 69665, lfn, k + 1)
                     ELSE Shifted_in(s, lfn, k + 1)
Hash(lfn, seq) == Shifted_in(seq, lfn, 0)

HexDigit(d) == IF d > 9 THEN d + 55 ELSE d + 48

RECURSIVE Digits(_, _)
Digits(seq, room) ==
    (IF seq < 16 \/ room = 1 THEN <<>> ELSE Digits(seq \div 16, room - 1))
    \o <<HexDigit(seq % 16)>>

(* Where the suffix goes: behind the body, or as far back as it needs, but *)
(* not between the bytes of a double-byte character.                       *)
RECURSIVE Append_at(_, _, _)
Append_at(src, j, i) ==
    IF j >= i \/ src[j + 1] = SPACE THEN j
    ELSE IF ~Lead(src[j + 1]) THEN Append_at(src, j + 1, i)
    ELSE IF j = i - 1 THEN j ELSE Append_at(src, j + 2, i)

gen_numname(src, lfn, seq) ==
    LET suffix == <<126>> \o Digits(IF seq > 5 THEN Hash(lfn, seq) ELSE seq, BODY - 1)
        j == Append_at(src, 0, BODY - Len(suffix))
    IN [k \in 1..W |-> IF k <= j \/ k > BODY THEN src[k]
                       ELSE IF k - j <= Len(suffix) THEN suffix[k - j] ELSE SPACE]

(* The checksum that ties long name entries to their short name.           *)
sum_sfn(fn) ==
    LET add(sum, c) == (sum \div 2 + (sum % 2) * 128 + c) % 256
    IN FoldLeft(add, 0, fn)

-----------------------------------------------------------------------------
(* Long name entries: [ord, last, chars, clust].  The name buffer holds    *)
(* FF_MAX_LFN + 1 units; what is behind the terminator is left over from   *)
(* earlier names.                                                          *)

FILLER == 65535
Offset(ord) == (ord - 1) * LFN_CHARS

put_lfn(lfn, ord) ==
    LET i == Offset(ord)
        chars == [s \in 1..LFN_CHARS |->
                    IF i + s <= Len(lfn) THEN lfn[i + s]
                    ELSE IF i + s = Len(lfn) + 1 THEN 0 ELSE FILLER]
    IN [ord |-> ord, chars |-> chars, clust |-> 0, last |-> i + LFN_CHARS >= Len(lfn)]

LfnEntries(lfn) == (Len(lfn) + LFN_CHARS - 1) \div LFN_CHARS

(* How many characters of an entry are name, and whether the rest is the   *)
(* terminator and fillers.                                                 *)
Named(dir) == LET end(c) == c = 0
              IN IF SelectInSeq(dir.chars, end) = 0 THEN LFN_CHARS
                 ELSE SelectInSeq(dir.chars, end) - 1
Padded(dir) == \A s \in (Named(dir) + 2)..LFN_CHARS : dir.chars[s] = FILLER

pick_lfn(buf, dir) ==
    LET i == Offset(dir.ord)
        stored == IF Named(dir) < LFN_CHARS THEN Named(dir) + 1 ELSE LFN_CHARS
        closes == dir.last /\ Named(dir) = LFN_CHARS
    IN IF \/ dir.clust # 0 \/ ~Padded(dir)
          \/ i + stored > FF_MAX_LFN + 1
          \/ closes /\ i + LFN_CHARS >= FF_MAX_LFN + 1
       THEN [ok |-> FALSE, buf |-> buf]
       ELSE [ok |-> TRUE,
             buf |-> [k \in DOMAIN buf |->
                        IF k - i \in 1..stored THEN dir.chars[k - i]
                        ELSE IF closes /\ k = i + LFN_CHARS + 1 THEN 0 ELSE buf[k]]]

cmp_lfn_AnyEnd(buf, dir) ==
    LET i == Offset(dir.ord)
        compared == IF Named(dir) < LFN_CHARS THEN Named(dir) + 1 ELSE LFN_CHARS
    IN /\ dir.clust = 0 /\ Padded(dir)
       /\ \A s \in 1..compared :
             /\ i + s <= FF_MAX_LFN + 1
             /\ f_wtoupper(dir.chars[s]) = f_wtoupper(buf[i + s])
cmp_lfn(buf, dir) ==
    LET i == Offset(dir.ord)
        compared == IF Named(dir) < LFN_CHARS THEN Named(dir) + 1 ELSE LFN_CHARS
    IN /\ dir.clust = 0
       /\ \A s \in 1..compared :
             /\ i + s <= FF_MAX_LFN + 1
             /\ f_wtoupper(dir.chars[s]) = f_wtoupper(buf[i + s])
       /\ Padded(dir)
       /\ ~(dir.last /\ Named(dir) = LFN_CHARS /\ buf[i + LFN_CHARS + 1] # 0)

-----------------------------------------------------------------------------
(* Wildcards.  enc = 0 reads bytes of the code page, others Unicode.       *)

QUESTION == 63
STAR == 42
FIND_RECURS == 4

get_achar(s, p) ==
    LET upper(u) == [c |-> IF u.c = BadChar THEN 0 ELSE IF u.c.hi = 0 THEN f_wtoupper(u.c.lo)
                           ELSE Joined(u.c),
                     next |-> u.next]
        b == ToUpper(ExCvt, At(s, p))
    IN IF FF_LFN_UNICODE >= 1 THEN upper(tchar2uni(FF_LFN_UNICODE, s, p))
       ELSE IF Lead(b)
            THEN IF Trail(At(s, p + 1)) THEN [c |-> b * 256 + At(s, p + 1), next |-> p + 2]
                                        ELSE [c |-> 0, next |-> p + 1]
            ELSE [c |-> b, next |-> p + 1]

IsWild(c) == c \in {QUESTION, STAR}

(* The end of the run of wildcards at p.                                   *)
PastWild(s, p) == CHOOSE q \in p..(Len(s) + 1) :
                     /\ ~IsWild(At(s, q)) /\ \A k \in p..(q - 1) : IsWild(At(s, k))

RECURSIVE Skipped_Past(_, _, _)
Skipped_Past(s, p, n) ==
    LET beyond(a) == IF a.c = 0 THEN [ok |-> TRUE, p |-> p] ELSE Skipped_Past(s, a.next, n - 1)
    IN IF n = 0 THEN [ok |-> TRUE, p |-> p] ELSE beyond(get_achar(s, p))
RECURSIVE Skipped(_, _, _)
Skipped(s, p, n) ==
    LET beyond(a) == IF a.c = 0 THEN [ok |-> FALSE, p |-> p] ELSE Skipped(s, a.next, n - 1)
    IN IF n = 0 THEN [ok |-> TRUE, p |-> p] ELSE beyond(get_achar(s, p))

RECURSIVE pattern_match(_, _, _, _, _, _, _), Branch(_, _, _, _, _), Retry(_, _, _, _, _, _)

(* One attempt from positions pp and np: it matches, or says whether the   *)
(* name went on where it failed; no wildcard terms are left: "no".         *)
Branch(pat, nam, pp, np, recur) ==
    IF IsWild(At(pat, pp))
    THEN LET q == PastWild(pat, pp)
             any == {k \in pp..(q - 1) : At(pat, k) = QUESTION}
         IN IF recur = 0 THEN "no"
            ELSE IF pattern_match(pat, nam, q, np, Cardinality(any),
                                  any # pp..(q - 1), recur - 1) THEN "yes"
            ELSE IF At(nam, np) = 0 THEN "ended" ELSE "failed"
    ELSE LET compared(a, b) ==
                IF a.c # b.c THEN IF b.c = 0 THEN "ended" ELSE "failed"
                ELSE IF a.c = 0 THEN "yes" ELSE Branch(pat, nam, a.next, b.next, recur)
         IN compared(get_achar(pat, pp), get_achar(nam, np))

Retry(pat, nam, pp, np, star, recur) ==
    LET tried(r) == IF r \in {"yes", "no"} THEN r = "yes"
                    ELSE /\ star /\ r # "ended"
                         /\ Retry(pat, nam, pp, get_achar(nam, np).next, star, recur)
    IN tried(Branch(pat, nam, pp, np, recur))

(* The rest of the pattern at pp, behind n question marks and, if star, an *)
(* asterisk, against the rest of the name at np.                           *)
pattern_match(pat, nam, pp, np, n, star, recur) ==
    \E pre \in {Skipped(nam, np, n)} :
       /\ pre.ok
       /\ \/ At(pat, pp) = 0 /\ star
          \/ Retry(pat, nam, pp, pre.p, star, recur)

-----------------------------------------------------------------------------
(* get_ldnumber: the volume and the path behind its prefix, -1 for none.   *)

FF_VOLUMES == Len(VolumeStr)
Fold(c) == IF IsLower(c) THEN c - 32 ELSE c

(* The string of volume i stands at p, and q is the position behind it.    *)
Spelt(s, p, i) == \A k \in 1..Len(VolumeStr[i]) : Fold(At(s, p + k - 1)) = Fold(VolumeStr[i][k])

get_ldnumber(s, usesLfn, CurrVol) ==
    LET stops(c) == c < (IF usesLfn THEN SPACE ELSE SPACE + 1)
        colon == CHOOSE q \in 1..(Len(s) + 1) :
                     /\ stops(At(s, q)) \/ At(s, q) = 58
                     /\ \A k \in 1..(q - 1) : ~stops(At(s, k)) /\ At(s, k) # 58
        named == {i \in 1..FF_VOLUMES : Spelt(s, 1, i) /\ colon = Len(VolumeStr[i]) + 1}
        slash == CHOOSE q \in 1..(Len(s) + 1) :
                     /\ At(s, q + 1) # 47 /\ \A k \in 2..q : At(s, k) = 47
        unix == {i \in 1..FF_VOLUMES :
                    LET q == slash + 1 + Len(VolumeStr[i])
                    IN Spelt(s, slash + 1, i) /\ (At(s, q) = 47 \/ stops(At(s, q)))}
        least(S) == CHOOSE i \in S : \A j \in S : i <= j
        numeric == colon = 2 /\ At(s, 1) \in 48..57
    IN IF At(s, colon) = 58
       THEN IF numeric
            THEN IF At(s, 1) - 48 < FF_VOLUMES THEN [vol |-> At(s, 1) - 48, p |-> colon + 1]
                                               ELSE [vol |-> -1, p |-> 1]
            ELSE IF FF_STR_VOLUME_ID # 1 \/ named = {} THEN [vol |-> -1, p |-> 1]
                 ELSE [vol |-> least(named) - 1, p |-> colon + 1]
       ELSE IF FF_STR_VOLUME_ID = 2 /\ At(s, 1) = 47
            THEN IF unix = {} THEN [vol |-> -1, p |-> 1]
                 ELSE [vol |-> least(unix) - 1, p |-> slash + 1 + Len(VolumeStr[least(unix)])]
       ELSE [vol |-> IF FF_FS_RPATH # 0 THEN CurrVol ELSE 0, p |-> 1]

-----------------------------------------------------------------------------
(* Volume labels: what f_setlabel stores for a string, and what f_getlabel *)
(* returns for it.  vn: bytes of the entry on FAT, UTF-16 units on exFAT.  *)

LABEL == 11                     \* bytes, or units, in a label
NotInLabel == {43, 46, 44, 59, 61, 91, 93}
NotInExLabel == {47, 42, 58, 60, 62, 124, 92, 34, 63, 127, 0}

(* strchr takes a char: of a wider code it compares the low byte.          *)
BadIn(chars, wc) == wc % 256 \in chars

RECURSIVE LabelEx(_, _, _)
LabelEx(s, p, vn) ==
    LET with(u) ==
            IF \/ u.c = BadChar \/ (u.c.hi # 0 /\ Len(vn) >= LABEL - 1)
               \/ BadIn(NotInExLabel, u.c.lo) \/ Len(WithPair(vn, u.c)) >= LABEL
            THEN Invalid
            ELSE LabelEx(s, u.next, Append(WithPair(vn, u.c), u.c.lo))
    IN IF At(s, p) < SPACE THEN [res |-> "FR_OK", vn |-> vn]
       ELSE with(tchar2uni(FF_LFN_UNICODE, s, p))

(* The next character of a FAT label, in the code page and in upper case.  *)
LabelChar(s, p) ==
    LET upper(u) == [wc |-> IF u.c.hi # 0 THEN 0 ELSE Oem(f_wtoupper(u.c.lo)), next |-> u.next]
    IN upper(tchar2uni(FF_LFN_UNICODE, s, p))
LabelChar_sfn(s, p) ==
    LET b == At(s, p)
        d == At(s, p + 1)
    IN IF Lead(b) THEN IF Trail(d) THEN [wc |-> b * 256 + d, next |-> p + 2]
                                   ELSE [wc |-> 0, next |-> p + 1]
       ELSE [wc |-> ToUpper(ExCvt, b), next |-> p + 1]

RECURSIVE LabelFat(_, _, _, _)
LabelFat(lfn, s, p, vn) ==
    LET bytes(wc) == IF wc >= 256 THEN <<wc \div 256, wc % 256>> ELSE <<wc>>
        with(u) ==
            IF \/ u.wc = 0 \/ BadIn(NotInLabel \cup NotInExLabel, u.wc)
               \/ Len(vn \o bytes(u.wc)) > LABEL
            THEN Invalid
            ELSE LabelFat(lfn, s, u.next, vn \o bytes(u.wc))
    IN IF At(s, p) < SPACE
       THEN IF At(vn, 1) = DDEM THEN Invalid ELSE [res |-> "FR_OK", vn |-> vn]
       ELSE with(IF lfn THEN LabelChar(s, p) ELSE LabelChar_sfn(s, p))

f_setlabel(exfat, lfn, s) ==
    IF exfat THEN LabelEx(s, 1, <<>>) ELSE LabelFat(lfn, s, 1, <<>>)

Trimmed_Not(s) == s
RECURSIVE Trimmed(_)
Trimmed(s) == IF s # <<>> /\ s[Len(s)] = SPACE THEN Trimmed(SubSeq(s, 1, Len(s) - 1)) ELSE s

(* The entry of a FAT label is filled with blanks; 0 marks a character the *)
(* page does not have.                                                     *)
RECURSIVE LabelText(_, _)
LabelText(entry, k) ==
    LET pair == Lead(entry[k]) /\ k < LABEL
        wc == Uni(IF pair THEN entry[k] * 256 + entry[k + 1] ELSE entry[k])
        rest == LabelText(entry, IF pair THEN k + 2 ELSE k + 1)
    IN IF k > LABEL THEN <<>>
       ELSE IF wc = 0 THEN <<0>>
       ELSE put_utf(FF_LFN_UNICODE, Unit(wc), 4) \o rest

f_getlabel(exfat, lfn, vn) ==
    LET entry == [k \in 1..LABEL |-> IF k <= Len(vn) THEN vn[k] ELSE SPACE]
        text == IF lfn /\ FF_LFN_UNICODE >= 1 THEN LabelText(entry, 1) ELSE entry
    IN IF exfat THEN Shown(vn, 99) ELSE IF 0 \in Range(text) THEN <<>> ELSE Trimmed(text)
=============================================================================
