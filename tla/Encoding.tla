-------------------------------- MODULE Encoding --------------------------------
(***************************************************************************)
(* Characters as the API sees them (FF_LFN_UNICODE: 0 the OEM code page,   *)
(* 1 UTF-16, 2 UTF-8, 3 UTF-32) and as the driver keeps them (UTF-16), and *)
(* the little-endian words of the on-disk structures.                      *)
(*                                                                         *)
(* A string is a sequence of units; one more unit, 0, ends it in memory.   *)
(* A character of the driver is a DWORD, kept here as its two halves:      *)
(* [hi |-> 0, lo |-> unit], or a surrogate pair.  0xFFFFFFFF is BadChar.   *)
(***************************************************************************)
EXTENDS Integers, Sequences, SequencesExt

CONSTANTS Uni(_), Oem(_),      \* ff_oem2uni and ff_uni2oem, zero for no character
          Lead(_), Trail(_)    \* dbc_1st and dbc_2nd of the code page

BadChar == [hi |-> 65535, lo |-> 65535]
Unit(u) == [hi |-> 0, lo |-> u]

Byte(c) == c % 256
At(s, p) == IF p <= Len(s) THEN s[p] ELSE 0

IsSurrogate(c) == c \in 55296..57343
IsSurrogateH(c) == c \in 55296..56319
IsSurrogateL(c) == c \in 56320..57343

(* A code point above the BMP as a pair of surrogates.                     *)
Paired(uc) == IF uc < 65536 THEN Unit(uc)
              ELSE [hi |-> 55296 + (uc - 65536) \div 1024, lo |-> 56320 + (uc % 1024)]

-----------------------------------------------------------------------------
(* tchar2uni: the character at p and the position behind it.               *)

(* UTF-8: the lead byte tells the payload bits and the number of trailing  *)
(* bytes; a byte of the sequence that is no trailing byte is an error.     *)
Payload(b) == CASE b \in 192..223 -> b % 32 [] b \in 224..239 -> b % 16 [] OTHER -> b % 8
Trailing(b) == CASE b \in 192..223 -> 1 [] b \in 224..239 -> 2 [] b \in 240..247 -> 3
                 [] OTHER -> -1
Utf8Value(s, p, nf) ==
    LET more(v, k) == v * 64 + (s[p + k] % 64)
    IN FoldLeft(more, Payload(s[p]), [k \in 1..nf |-> k])
FromUtf8(s, p) ==
    LET nf == Trailing(s[p])
        char(uc) == IF uc < 128 \/ IsSurrogate(uc) \/ uc >= 1114112
                    THEN [c |-> BadChar, next |-> p]
                    ELSE [c |-> Paired(uc), next |-> p + 1 + nf]
    IN IF At(s, p) < 128 THEN [c |-> Unit(At(s, p)), next |-> p + 1]
       ELSE IF nf = -1 \/ \E k \in 1..nf : At(s, p + k) \notin 128..191
            THEN [c |-> BadChar, next |-> p]
            ELSE char(Utf8Value(s, p, nf))

FromUtf16(s, p) ==
    LET u == At(s, p)
        l == At(s, p + 1)
    IN IF ~IsSurrogate(u) THEN [c |-> Unit(u), next |-> p + 1]
       ELSE IF IsSurrogateH(u) /\ IsSurrogateL(l)
            THEN [c |-> [hi |-> u, lo |-> l], next |-> p + 2]
            ELSE [c |-> BadChar, next |-> p]

FromUtf32(s, p) ==
    LET u == At(s, p)
    IN IF u >= 1114112 \/ IsSurrogate(u) THEN [c |-> BadChar, next |-> p]
       ELSE [c |-> Paired(u), next |-> p + 1]

FromOem(s, p) ==
    LET b == At(s, p)
        dbc == b # 0 /\ Lead(b)
        wc == IF dbc THEN b * 256 + At(s, p + 1) ELSE b
    IN IF \/ dbc /\ ~Trail(At(s, p + 1))
          \/ wc # 0 /\ Uni(wc) = 0
       THEN [c |-> BadChar, next |-> p]
       ELSE [c |-> Unit(IF wc = 0 THEN 0 ELSE Uni(wc)),
             next |-> IF dbc THEN p + 2 ELSE p + 1]

tchar2uni(enc, s, p) ==
    CASE enc = 0 -> FromOem(s, p) [] enc = 1 -> FromUtf16(s, p)
      [] enc = 2 -> FromUtf8(s, p) [] enc = 3 -> FromUtf32(s, p)

-----------------------------------------------------------------------------
(* put_utf: the units of a character, none if it is not one or if they are *)
(* more than szb.                                                          *)

WellPaired(c) == IsSurrogateH(c.hi) /\ IsSurrogateL(c.lo)
Joined(c) == (c.hi - 55296) * 1024 + (c.lo - 56320) + 65536

ToUtf8(c) ==
    LET uc == c.lo
        tail(v) == 128 + (v % 64)
    IN IF c.hi # 0
       THEN IF ~WellPaired(c) THEN <<>>
            ELSE LET v == Joined(c)
                 IN <<240 + v \div 262144, tail(v \div 4096), tail(v \div 64), tail(v)>>
       ELSE IF uc < 128 THEN <<uc>>
       ELSE IF uc < 2048 THEN <<192 + uc \div 64, tail(uc)>>
       ELSE IF IsSurrogate(uc) THEN <<>>
       ELSE <<224 + uc \div 4096, tail(uc \div 64), tail(uc)>>

ToUtf16(c) ==
    IF c.hi = 0 THEN IF IsSurrogate(c.lo) THEN <<>> ELSE <<c.lo>>
    ELSE IF WellPaired(c) THEN <<c.hi, c.lo>> ELSE <<>>

ToUtf32(c) ==
    IF c.hi = 0 THEN <<c.lo>> ELSE IF WellPaired(c) THEN <<Joined(c)>> ELSE <<>>

ToOem(c) ==
    LET wc == IF c.hi # 0 THEN 0 ELSE Oem(c.lo)
    IN IF wc >= 256 THEN <<wc \div 256, wc % 256>> ELSE IF wc = 0 THEN <<>> ELSE <<wc>>

put_utf(enc, c, szb) ==
    LET units == CASE enc = 0 -> ToOem(c) [] enc = 1 -> ToUtf16(c)
                   [] enc = 2 -> ToUtf8(c) [] enc = 3 -> ToUtf32(c)
    IN IF Len(units) > szb THEN <<>> ELSE units

-----------------------------------------------------------------------------
(* Words of n bytes at position p (0 is the first byte) of a structure.    *)

Power256(k) == CASE k = 0 -> 1 [] k = 1 -> 256 [] k = 2 -> 65536 [] k = 3 -> 16777216

st_bytes(bytes, p, n, val) ==
    [i \in DOMAIN bytes |->
        IF i - 1 \in p..(p + n - 1) THEN Byte(val \div Power256(i - 1 - p)) ELSE bytes[i]]

ld_bytes(bytes, p, n) ==
    LET more(rv, k) == rv * 256 + bytes[p + k]
    IN FoldLeft(more, 0, [k \in 1..n |-> n + 1 - k])

(* The start cluster of an entry of a FAT32 directory is stored in halves; *)
(* on FAT12/16 the upper half is neither stored nor loaded.                *)
st_clust(fat32, dir, lo, hi, cl) ==
    LET low == st_bytes(dir, lo, 2, cl % 65536)
    IN IF fat32 THEN st_bytes(low, hi, 2, cl \div 65536) ELSE low
ld_clust(fat32, dir, lo, hi) ==
    ld_bytes(dir, lo, 2) + (IF fat32 THEN ld_bytes(dir, hi, 2) * 65536 ELSE 0)
=============================================================================
