-------------------------------- MODULE StringIO --------------------------------
(***************************************************************************)
(* The string functions (FF_USE_STRFUNC): f_putc, f_puts and f_printf      *)
(* write through a small buffer that recodes characters (putc_bfd,         *)
(* putc_flush), f_gets reads a line back.                                  *)
(*                                                                         *)
(* A call of f_puts or f_printf is a run of putc_bfd on the characters it  *)
(* produces and one putc_flush; what the characters of f_printf are is     *)
(* Formatted, below.  A write moves fewer bytes than asked when the volume *)
(* is full or the disk fails.                                              *)
(***************************************************************************)
EXTENDS Encoding, FiniteSets, TLC

CONSTANTS
    CONFS,              \* the builds looked at: records of the options below
    SZ_PUTC_BUF,        \* size of the buffer of putc_bfd
    SZ_NUM_BUF,         \* digits f_printf makes of a number at most
    WORD_BITS,          \* width of int and DWORD
    TEXT,               \* TEXT[api]: what a caller puts, as sequences of units
    LENGTHS,            \* sizes of the buffers passed to f_gets
    MaxPut              \* bound: elements of TEXT put by one call

VARIABLES
    conf,               \* [api, strf, crlf]: options the driver is built with
    file,               \* the bytes behind the file pointer of the caller
    pb,                 \* the putbuff: idx, nchr, buf, hs, bs, ct
    result,             \* what the call returned; Open before
    put,                \* history: the elements of TEXT put so far
    pos,                \* the file pointer of the reader
    got                 \* history: the calls of f_gets, [len, line]

vars == <<conf, file, pb, result, put, pos, got>>

FF_LFN_UNICODE == conf.api  \* encoding of the API: 0 OEM, 1 UTF-16, 2 UTF-8, 3 UTF-32
FF_STRF_ENCODE == conf.strf \* of the file: 0 OEM, 1 UTF-16LE, 2 UTF-16BE, 3 UTF-8
FF_USE_STRFUNC == conf.crlf \* 2: LF is CR LF in the file

SPACE == 32
CR == 13
LF == 10

-----------------------------------------------------------------------------
(* The bytes of a character in the file, <<>> for none.                    *)

Word(u) == IF FF_STRF_ENCODE = 1 THEN <<u % 256, u \div 256>> ELSE <<u \div 256, u % 256>>

FileBytes(c) ==
    CASE FF_LFN_UNICODE = 0 -> <<c.lo>>
      [] FF_LFN_UNICODE # 0 /\ FF_STRF_ENCODE \in {1, 2} ->
            (IF c.hi # 0 THEN Word(c.hi) ELSE <<>>) \o Word(c.lo)
      [] FF_LFN_UNICODE # 0 /\ FF_STRF_ENCODE = 3 -> ToUtf8(c)
      [] FF_LFN_UNICODE # 0 /\ FF_STRF_ENCODE = 0 -> ToOem(c)

UnitSize == IF FF_LFN_UNICODE # 0 /\ FF_STRF_ENCODE \in {1, 2} THEN 2 ELSE 1

(* One unit of the API in: the character it completes, if it does, and the *)
(* decoder state after it.                                                 *)
None == [hi |-> -1, lo |-> -1]
Failed == -1
Open == -2

UnitUtf16(b, c) ==
    IF IsSurrogateH(c) THEN [c |-> None, b |-> [b EXCEPT !.hs = c]]
    ELSE [c |-> IF IsSurrogateL(c) THEN IF b.hs # 0 THEN [hi |-> b.hs, lo |-> c] ELSE None
                ELSE Unit(c),
          b |-> [b EXCEPT !.hs = 0]]

(* How many bytes follow a first byte.  The test of the last line is of    *)
(* the code: of the first bytes of 4-byte sequences it lets the even pass. *)
Follow(c) == CASE c \in 192..223 -> 1
               [] c \in 224..239 -> 2
               [] c \in 240..255 /\ c % 2 = 0 -> 3
               [] OTHER -> 0

UnitUtf8(b, c) ==
    IF b.ct > 0 /\ c \in 128..191
    THEN LET bs == Append(b.bs, c)
             char(u) == IF b.ct > 1 \/ u = BadChar THEN None ELSE u
         IN [c |-> char(FromUtf8(bs, 1).c), b |-> [b EXCEPT !.bs = bs, !.ct = @ - 1]]
    ELSE [c |-> IF c < 128 THEN Unit(c) ELSE None,
          b |-> [b EXCEPT !.bs = <<c>>, !.ct = Follow(c)]]

UnitUtf32(b, c) ==
    [c |-> IF IsSurrogate(c) \/ c >= 1114112 THEN None ELSE Paired(c), b |-> b]

Decode(b, c) == CASE FF_LFN_UNICODE = 0 -> [c |-> Unit(c), b |-> b]
                  [] FF_LFN_UNICODE = 1 -> UnitUtf16(b, c)
                  [] FF_LFN_UNICODE = 2 -> UnitUtf8(b, c)
                  [] FF_LFN_UNICODE = 3 -> UnitUtf32(b, c)

-----------------------------------------------------------------------------
(* putc_init.                                                              *)
Fresh == [idx |-> 0, nchr |-> 0, buf |-> <<>>, hs |-> 0, bs |-> <<>>, ct |-> 0]

(* putc_bfd for one unit, without the CR before a LF.  written: how many   *)
(* bytes f_write would write if it were called.                            *)
Stored_ErrorForgotten(st, c, written) ==
    LET stored(b, bytes, buf) ==
            LET full == Len(buf) >= SZ_PUTC_BUF - 4
                n == IF written < Len(buf) THEN written ELSE Len(buf)
            IN IF bytes = <<>> THEN [st EXCEPT !.pb = b]
               ELSE [file |-> IF full THEN st.file \o SubSeq(buf, 1, n) ELSE st.file,
                     pb |-> [b EXCEPT !.nchr = @ + Len(bytes) \div UnitSize,
                                      !.buf = IF full THEN <<>> ELSE buf,
                                      !.idx = IF ~full THEN Len(buf)
                                              ELSE 0]]
        with(b, bytes) == stored(b, bytes, b.buf \o bytes)
        decoded(d) == with(d.b, IF d.c = None THEN <<>> ELSE FileBytes(d.c))
    IN IF st.pb.idx < 0 THEN st ELSE decoded(Decode(st.pb, c))
Stored(st, c, written) ==
    LET stored(b, bytes, buf) ==
            LET full == Len(buf) >= SZ_PUTC_BUF - 4
                n == IF written < Len(buf) THEN written ELSE Len(buf)
            IN IF bytes = <<>> THEN [st EXCEPT !.pb = b]
               ELSE [file |-> IF full THEN st.file \o SubSeq(buf, 1, n) ELSE st.file,
                     pb |-> [b EXCEPT !.nchr = @ + Len(bytes) \div UnitSize,
                                      !.buf = IF full THEN <<>> ELSE buf,
                                      !.idx = IF ~full THEN Len(buf)
                                              ELSE IF n = Len(buf) THEN 0 ELSE -1]]
        with(b, bytes) == stored(b, bytes, b.buf \o bytes)
        decoded(d) == with(d.b, IF d.c = None THEN <<>> ELSE FileBytes(d.c))
    IN IF st.pb.idx < 0 THEN st ELSE decoded(Decode(st.pb, c))

(* A run of putc_bfd on some units; w: what f_write writes at most.        *)
putc_bfd(st, c, w) ==
    Stored(IF FF_USE_STRFUNC = 2 /\ c = LF THEN Stored(st, CR, w) ELSE st, c, w)

-----------------------------------------------------------------------------
(* f_gets: read characters until a LF, the end of the file or a full       *)
(* buffer; what cannot be decoded is skipped.                              *)

Rest(p) == SubSeq(file, p, Len(file))
Take(p, n) == SubSeq(file, p, IF p + n - 1 <= Len(file) THEN p + n - 1 ELSE Len(file))

(* The next character: [c, p], c = None for one to skip, eof if there is   *)
(* none.                                                                   *)
ReadOem(p) ==
    LET s == Take(p, 2)
    IN IF s = <<>> THEN [eof |-> TRUE, c |-> None, p |-> p]
       ELSE IF ~Lead(s[1])
            THEN [eof |-> FALSE, p |-> p + 1,
                  c |-> IF Uni(s[1]) = 0 THEN None ELSE Unit(Uni(s[1]))]
       ELSE IF Len(s) < 2 \/ ~Trail(s[2]) \/ Uni(s[1] * 256 + s[2]) = 0
            THEN [eof |-> FALSE, c |-> None, p |-> p + Len(s)]
            ELSE [eof |-> FALSE, c |-> Unit(Uni(s[1] * 256 + s[2])), p |-> p + 2]

ReadUtf16(p) ==
    LET word(s) == IF FF_STRF_ENCODE = 1 THEN s[1] + 256 * s[2] ELSE s[1] * 256 + s[2]
        a == Take(p, 2)
        b == Take(p + 2, 2)
    IN IF Len(a) < 2 THEN [eof |-> TRUE, c |-> None, p |-> p + Len(a)]
       ELSE IF ~IsSurrogateH(word(a))
            THEN [eof |-> FALSE, p |-> p + 2,
                  c |-> IF IsSurrogateL(word(a)) THEN None ELSE Unit(word(a))]
       ELSE IF Len(b) < 2 THEN [eof |-> TRUE, c |-> None, p |-> p + 2 + Len(b)]
            ELSE [eof |-> FALSE, p |-> p + 4,
                  c |-> IF IsSurrogateL(word(b)) THEN [hi |-> word(a), lo |-> word(b)]
                        ELSE None]

ReadUtf8(p) ==
    LET s == Take(p, 1)
        ct == Trailing(s[1])
        t == Take(p, 1 + ct)
    IN IF s = <<>> THEN [eof |-> TRUE, c |-> None, p |-> p]
       ELSE IF s[1] < 128 THEN [eof |-> FALSE, c |-> Unit(s[1]), p |-> p + 1]
       ELSE IF ct = -1 THEN [eof |-> FALSE, c |-> None, p |-> p + 1]
       ELSE IF Len(t) < 1 + ct THEN [eof |-> TRUE, c |-> None, p |-> p + Len(t)]
       ELSE LET char(u) == IF u = BadChar THEN None ELSE u
            IN [eof |-> FALSE, c |-> char(FromUtf8(t, 1).c), p |-> p + 1 + ct]

ReadChar(p) ==
    IF FF_LFN_UNICODE = 0
    THEN IF Take(p, 1) = <<>> THEN [eof |-> TRUE, c |-> None, p |-> p]
         ELSE [eof |-> FALSE, c |-> Unit(file[p]), p |-> p + 1]
    ELSE CASE FF_STRF_ENCODE = 0 -> ReadOem(p)
           [] FF_STRF_ENCODE \in {1, 2} -> ReadUtf16(p)
           [] FF_STRF_ENCODE = 3 -> ReadUtf8(p)

ApiUnits(c) == IF FF_LFN_UNICODE = 0 THEN <<c.lo>> ELSE put_utf(FF_LFN_UNICODE, c, 4)

(* Room for the longest character and the terminator.                      *)
Room(len) ==
    CASE FF_LFN_UNICODE = 0 -> len - 1
      [] FF_LFN_UNICODE = 1 -> len - IF FF_STRF_ENCODE = 0 THEN 1 ELSE 2
      [] FF_LFN_UNICODE = 2 -> len - IF FF_STRF_ENCODE = 0 THEN 3 ELSE 4
      [] FF_LFN_UNICODE = 3 -> len - 1

RECURSIVE GetLine(_, _, _)
GetLine(room, line, p) ==
    LET more(r, longer) == IF r.c = Unit(LF) THEN [line |-> longer, p |-> r.p]
                           ELSE GetLine(room, longer, r.p)
        got_char(r) ==
            IF r.eof THEN [line |-> line, p |-> r.p]
            ELSE IF r.c = None \/ (FF_USE_STRFUNC = 2 /\ r.c = Unit(CR))
                 THEN GetLine(room, line, r.p)
            ELSE more(r, line \o ApiUnits(r.c))
    IN IF Len(line) >= room THEN [line |-> line, p |-> p] ELSE got_char(ReadChar(p))

-----------------------------------------------------------------------------
(* f_printf: what it puts for a format and its arguments.  A directive is  *)
(* % [0 or -] [width or *] [. precision or *] [l] type.                    *)

PERCENT == 37
ZERO == 48
IsDigit(c) == c \in 48..57

(* The number at p of the format, or the next argument for a *.            *)
RECURSIVE Number(_, _, _)
Number(fmt, p, v) == IF IsDigit(At(fmt, p)) THEN Number(fmt, p + 1, v * 10 + At(fmt, p) - ZERO)
                     ELSE [v |-> v, p |-> p]
Field(fmt, p, args) ==
    IF At(fmt, p) = 42 THEN [v |-> args[1], p |-> p + 1, args |-> Tail(args)]
    ELSE Number(fmt, p, 0) @@ [args |-> args]

(* The width is unsigned: a negative argument is a huge one.               *)
Directive(fmt, p, args) ==
    LET flag == IF At(fmt, p) \in {ZERO, 45} THEN At(fmt, p) ELSE SPACE
        long(prec) == IF At(fmt, prec.p) = 108 THEN prec.p + 1 ELSE prec.p
        parts(w, prec, q) ==
            [left |-> flag = 45, pad |-> IF flag = ZERO THEN ZERO ELSE SPACE, w |-> w.v % 2 ^ WORD_BITS,
             prec |-> prec.v, type |-> At(fmt, q), p |-> q + 1, args |-> prec.args]
        precise(w, prec) == parts(w, prec, long(prec))
        wide(w) == precise(w, IF At(fmt, w.p) = 46 THEN Field(fmt, w.p + 1, w.args)
                              ELSE [w EXCEPT !.v = -1])
    IN wide(Field(fmt, IF flag = SPACE THEN p ELSE p + 1, args))

Repeated(c, n) == [k \in 1..n |-> c]
Aligned(d, text) ==
    (IF d.left THEN <<>> ELSE Repeated(d.pad, d.w - Len(text))) \o text
    \o (IF d.left THEN Repeated(SPACE, d.w - Len(text)) ELSE <<>>)

(* A string is cut to the precision.                                       *)
PutString(d, text) ==
    Aligned(d, IF d.prec >= 0 /\ d.prec < Len(text) THEN SubSeq(text, 1, d.prec) ELSE text)

Radix(type) == CASE type = 98 -> 2 [] type = 111 -> 8 [] type \in {100, 117} -> 10
                 [] type \in {120, 88} -> 16 [] OTHER -> 0

(* The digits of v, at most SZ_NUM_BUF of them.                            *)
RECURSIVE Numeral(_, _, _, _)
Numeral(v, r, lower, n) ==
    LET d == v % r
        char == d + (IF d > 9 THEN IF lower THEN 39 ELSE 7 ELSE 0) + ZERO
    IN (IF v \div r = 0 \/ n + 1 >= SZ_NUM_BUF THEN <<>>
        ELSE Numeral(v \div r, r, lower, n + 1)) \o <<char>>

(* An argument is taken as an unsigned word; d looks at its highest bit.   *)
PutNumber(d, arg) ==
    LET word == arg % 2 ^ WORD_BITS
        minus == d.type = 100 /\ word >= 2 ^ (WORD_BITS - 1)
        v == IF minus THEN 2 ^ WORD_BITS - word ELSE word
        text == (IF minus THEN <<45>> ELSE <<>>) \o Numeral(v, Radix(d.type), d.type = 120, 0)
    IN Aligned(d, text)

RECURSIVE Printed(_, _, _)
Printed(fmt, p, args) ==
    LET c == At(fmt, p)
        put_arg(d) == IF d.type = 99 THEN <<d.args[1]>>
                      ELSE IF d.type = 115 THEN PutString(d, d.args[1])
                      ELSE PutNumber(d, d.args[1])
        directive(d) ==
            IF d.type = 0 THEN <<>>
            ELSE IF d.type \in {99, 115} \/ Radix(d.type) # 0
                 THEN put_arg(d) \o Printed(fmt, d.p, Tail(d.args))
            ELSE <<d.type>> \o Printed(fmt, d.p, d.args)
    IN IF c = 0 THEN <<>>
       ELSE IF c # PERCENT THEN <<c>> \o Printed(fmt, p + 1, args)
       ELSE directive(Directive(fmt, p + 1, args))

f_printf(fmt, args) == Printed(fmt, 1, args)

-----------------------------------------------------------------------------
(* The driver.                                                             *)

Init ==
    /\ conf \in CONFS
    /\ file = <<>> /\ pb = Fresh /\ result = Open
    /\ put = <<>> /\ pos = 1 /\ got = <<>>

(* f_puts and f_printf produce the next units, w the bytes the disk takes. *)
Put(units, w) ==
    /\ result = Open /\ Len(put) < MaxPut
    /\ LET each(st, c) == putc_bfd(st, c, w)
           st == FoldLeft(each, [file |-> file, pb |-> pb], units)
       IN file' = st.file /\ pb' = st.pb
    /\ put' = Append(put, units)
    /\ UNCHANGED <<conf, result, pos, got>>

(* putc_flush with a write that moves w bytes, or fails.                   *)
Flush(w, fails) ==
    LET n == IF fails \/ pb.idx < 0 THEN 0 ELSE IF w < Len(pb.buf) THEN w ELSE Len(pb.buf)
    IN /\ result = Open
       /\ file' = file \o SubSeq(pb.buf, 1, n)
       /\ result' = IF pb.idx >= 0 /\ ~fails /\ n = pb.idx THEN pb.nchr ELSE Failed
       /\ pb' = Fresh
       /\ UNCHANGED <<conf, put, pos, got>>

AtEnd == got # <<>> /\ got[Len(got)].line = <<>>

f_gets(len) ==
    LET r == GetLine(Room(len), <<>>, pos)
    IN /\ result # Open /\ ~AtEnd
       /\ pos' = r.p
       /\ got' = Append(got, [len |-> len, line |-> r.line])
       /\ UNCHANGED <<conf, file, pb, result, put>>

Writes == {0, 2, SZ_PUTC_BUF}

Next ==
    \/ \E units \in TEXT[conf.api], w \in Writes : Put(units, w)
    \/ \E w \in Writes, fails \in BOOLEAN : Flush(w, fails)
    \/ \E len \in LENGTHS : f_gets(len)

Spec == Init /\ [][Next]_vars

-----------------------------------------------------------------------------
(* What the string functions promise.                                      *)

(* The characters of a string of the API; none if it is malformed.         *)
RECURSIVE Characters(_, _)
Characters(s, p) ==
    LET u == tchar2uni(FF_LFN_UNICODE, s, p)
    IN IF p > Len(s) THEN <<>>
       ELSE IF FF_LFN_UNICODE = 0 THEN <<Unit(s[p])>> \o Characters(s, p + 1)
       ELSE IF u.c = BadChar THEN <<BadChar>> ELSE <<u.c>> \o Characters(s, u.next)

Said == Characters(FlattenSeq(put), 1)
WellFormed == BadChar \notin Range(Said)

(* Characters the UTF-8 reader of putc_bfd does not know: planes 4 to 7    *)
(* and 12 to 15.                                                           *)
Unknown(c) == FF_LFN_UNICODE = 2 /\ c.hi # 0 /\ Joined(c) \div 262144 \in {1, 3}
Known(c) == ~Unknown(c) /\ FileBytes(c) # <<>>

Recoded(c) ==
    (IF FF_USE_STRFUNC = 2 /\ c = Unit(LF) THEN FileBytes(Unit(CR)) ELSE <<>>) \o FileBytes(c)
Expected == FlattenSeq([k \in DOMAIN Said |-> IF Unknown(Said[k]) THEN <<>> ELSE Recoded(Said[k])])

(* A call that does not report an error has written every character that   *)
(* has a form in the file, in order, LF as CR LF, and returns the number   *)
(* of units written; a call that does has written a beginning of it.       *)
OutputComplete ==
    WellFormed =>
        /\ IsPrefix(file, Expected)
        /\ result >= 0 => file = Expected /\ result = Len(Expected) \div UnitSize

Lines == FlattenSeq([k \in DOMAIN got |-> got[k].line])

(* f_gets, called until it returns nothing, returns the text that was put, *)
(* without the CRs of line ends; every line it returns fits the buffer     *)
(* with its terminator and ends at its only LF.                            *)
LinesComeBack ==
    /\ \A k \in DOMAIN got :
          /\ Len(got[k].line) + 1 <= got[k].len
          /\ \A i \in 1..(Len(got[k].line) - 1) : got[k].line[i] # LF
    /\ AtEnd /\ WellFormed /\ result >= 0 =>
          LET back(c) == Known(c) /\ ~(FF_USE_STRFUNC = 2 /\ c = Unit(CR))
          IN Lines = FlattenSeq([k \in DOMAIN Said |->
                                    IF back(Said[k]) THEN ApiUnits(Said[k]) ELSE <<>>])

(* The text that was put is in the file, or the caller knows it is not, and*)
(* it comes back line by line.                                             *)
TextComesBack == OutputComplete /\ LinesComeBack
=============================================================================
