------------------------------- MODULE CodePages -------------------------------
(***************************************************************************)
(* The code conversion tables of ffunicode.cpp and ff_types.hpp and the    *)
(* functions that look characters up in them (FF_USE_LFN, or a code page   *)
(* with extended characters).                                              *)
(*                                                                         *)
(* A table of a single-byte page is what the look-up can tell of it: which *)
(* bytes repeat a character or stand for none.  The up-case tables are     *)
(* kept as the characters they change.                                     *)
(***************************************************************************)
EXTENDS OemTables

Extended == 128..255                          \* the OEM bytes a table is about

-----------------------------------------------------------------------------
(* Single-byte pages.  "holes": bytes without a character (0x0000).        *)
(* "repeats": <<later, earlier>>, bytes that stand for the same character. *)

Sbcs(holes, repeats) == [holes |-> holes, repeats |-> repeats]

uc437 == Sbcs({}, {})
uc720 == Sbcs({128, 129, 132, 134, 141, 142, 143, 144}, {})
uc737 == Sbcs({}, {})
uc771 == Sbcs({}, {<<212,190>>})
uc775 == Sbcs({}, {})
uc850 == Sbcs({}, {})
uc852 == Sbcs({}, {})
uc855 == Sbcs({}, {})
uc857 == Sbcs({213, 231, 242}, {})
uc860 == Sbcs({}, {<<212,190>>})
uc861 == Sbcs({}, {<<145,134>>})
uc862 == Sbcs({}, {})
uc863 == Sbcs({}, {<<175,165>>, <<249,239>>})
uc864 == Sbcs({155, 156, 159, 166, 255}, {})
uc865 == Sbcs({}, {<<144,143>>, <<212,190>>})
uc866 == Sbcs({}, {})
uc869 == Sbcs({}, {<<129,128>>, <<130,128>>, <<131,128>>, <<132,128>>, <<133,128>>,
    <<135,128>>, <<136,128>>, <<147,128>>, <<148,128>>})

(* The character of a byte: one of its own, that of the byte it repeats,   *)
(* or none.  A character is named by the first byte that stands for it.    *)
CharOf(t, oem) ==
    IF oem \in t.holes THEN 0
    ELSE IF \E r \in t.repeats : r[1] = oem
         THEN (CHOOSE r \in t.repeats : r[1] = oem)[2] ELSE oem

(* The first byte that stands for the character; c = 0x80 becomes          *)
(* 0x100 & 0xFF when there is none.                                        *)
CodeOf(t, uni) ==
    LET is(c) == CharOf(t, 128 + c) = uni
        c == SelectInSeq([i \in 1..128 |-> i - 1], is)
    IN ((IF c = 0 THEN 128 ELSE c - 1) + 128) % 256

-----------------------------------------------------------------------------
(* Double-byte pages: the tables of OemTables.                             *)

Probes_Few == 14
Probes == 16

(* The look-up halves the range li..hi, which starts as the whole table,   *)
(* and gives up after 16 probes.  The pair closing the table is never      *)
(* probed.  It returns where the pair is, or 0 for nowhere.                *)
Found(t, key) ==
    LET probe(st, k) ==
            LET i == st.li + (st.hi - st.li) \div 2
                first == t[i + 1][1]
            IN IF st.at # 0 THEN st
               ELSE IF key = first THEN [st EXCEPT !.at = i + 1]
               ELSE IF key > first THEN [st EXCEPT !.li = i] ELSE [st EXCEPT !.hi = i]
    IN FoldLeft(probe, [li |-> 0, hi |-> Len(t) - 1, at |-> 0], [k \in 1..Probes |-> k]).at

Second(t, key) == LET at == Found(t, key) IN IF at = 0 THEN 0 ELSE t[at][2]

-----------------------------------------------------------------------------
(* The SBCS up-case tables.  "pairs": <<byte, up-cased>>; "runs":          *)
(* <<first, last, step, shift>>.  A byte of neither stays as it is.        *)

UpCase(pairs, runs) ==
    [c \in Extended |->
        IF \E p \in pairs : p[1] = c THEN (CHOOSE p \in pairs : p[1] = c)[2]
        ELSE IF \E r \in runs : c \in r[1]..r[2] /\ (c - r[1]) % r[3] = 0
             THEN c + (CHOOSE r \in runs : c \in r[1]..r[2])[4]
             ELSE c]

Ct437 == UpCase({<<129,154>>, <<130,69>>, <<131,65>>, <<132,142>>, <<133,65>>, <<134,143>>,
    <<135,128>>, <<136,69>>, <<137,69>>, <<138,69>>, <<139,73>>, <<140,73>>, <<141,73>>,
    <<145,146>>, <<147,79>>, <<148,153>>, <<149,79>>, <<150,85>>, <<151,85>>, <<152,89>>,
    <<160,65>>, <<161,73>>, <<162,79>>, <<163,85>>, <<164,165>>}, {})
Ct720 == UpCase({}, {})
Ct737 == UpCase({<<145,146>>, <<224,151>>, <<232,245>>, <<233,240>>}, {<<152,169,1,-24>>,
    <<171,175,1,-25>>, <<225,227,1,9>>, <<229,231,1,8>>})
Ct771 == UpCase({<<221,220>>, <<223,222>>}, {<<160,175,1,-32>>, <<224,239,1,-80>>,
    <<241,253,2,-1>>})
Ct775 == UpCase({<<129,154>>, <<130,145>>, <<131,160>>, <<132,142>>, <<133,149>>,
    <<134,143>>, <<135,128>>, <<136,173>>, <<137,237>>, <<139,138>>, <<140,161>>,
    <<145,146>>, <<147,226>>, <<148,153>>, <<152,151>>, <<155,157>>, <<162,224>>,
    <<164,163>>, <<212,189>>, <<213,190>>, <<214,198>>, <<215,199>>, <<216,165>>,
    <<228,229>>, <<231,227>>, <<233,232>>, <<235,234>>, <<236,238>>}, {<<208,211,1,-27>>})
Ct850 == UpCase({<<128,67>>, <<129,85>>, <<130,69>>, <<131,65>>, <<132,65>>, <<133,65>>,
    <<134,65>>, <<135,67>>, <<136,69>>, <<137,69>>, <<138,69>>, <<139,73>>, <<140,73>>,
    <<141,73>>, <<142,65>>, <<143,65>>, <<144,69>>, <<145,146>>, <<147,79>>, <<148,79>>,
    <<149,79>>, <<150,85>>, <<151,85>>, <<152,89>>, <<153,79>>, <<154,85>>, <<155,79>>,
    <<157,79>>, <<160,65>>, <<161,73>>, <<162,79>>, <<163,85>>, <<164,165>>, <<181,65>>,
    <<182,65>>, <<183,65>>, <<198,65>>, <<199,65>>, <<208,209>>, <<210,69>>, <<211,69>>,
    <<212,69>>, <<213,73>>, <<214,73>>, <<215,73>>, <<216,73>>, <<222,73>>, <<224,79>>,
    <<226,79>>, <<227,79>>, <<228,79>>, <<229,79>>, <<231,232>>, <<233,85>>, <<234,85>>,
    <<235,85>>, <<236,89>>, <<237,89>>}, {})
Ct852 == UpCase({<<129,154>>, <<130,144>>, <<131,182>>, <<132,142>>, <<133,222>>,
    <<134,143>>, <<135,128>>, <<136,157>>, <<137,211>>, <<139,138>>, <<140,215>>,
    <<146,145>>, <<147,226>>, <<148,153>>, <<150,149>>, <<152,151>>, <<156,155>>,
    <<159,172>>, <<160,181>>, <<161,214>>, <<162,224>>, <<163,233>>, <<171,141>>,
    <<173,184>>, <<190,189>>, <<199,198>>, <<208,209>>, <<212,210>>, <<216,183>>,
    <<228,227>>, <<229,213>>, <<231,230>>, <<234,232>>, <<236,237>>, <<238,221>>,
    <<251,235>>, <<253,252>>}, {<<165,169,2,-1>>})
Ct855 == UpCase({<<181,182>>, <<183,184>>, <<189,190>>, <<198,199>>, <<216,221>>,
    <<222,224>>}, {<<128,172,2,1>>, <<208,214,2,1>>, <<225,237,2,1>>, <<241,251,2,1>>})
Ct857 == UpCase({<<129,154>>, <<130,144>>, <<131,182>>, <<132,142>>, <<133,183>>,
    <<134,143>>, <<135,128>>, <<139,216>>, <<140,215>>, <<141,73>>, <<145,146>>,
    <<147,226>>, <<148,153>>, <<149,227>>, <<150,234>>, <<151,235>>, <<155,157>>,
    <<159,158>>, <<160,181>>, <<161,214>>, <<162,224>>, <<163,233>>, <<164,165>>,
    <<167,166>>, <<198,199>>, <<213,73>>, <<228,229>>, <<236,222>>}, {<<136,138,1,74>>})
Ct860 == UpCase({<<129,154>>, <<130,144>>, <<131,143>>, <<132,142>>, <<133,145>>,
    <<135,128>>, <<136,137>>, <<138,146>>, <<141,152>>, <<147,140>>, <<148,153>>,
    <<149,169>>, <<151,157>>, <<160,134>>, <<161,139>>, <<162,159>>, <<163,150>>,
    <<164,165>>}, {})
Ct861 == UpCase({<<129,154>>, <<130,144>>, <<131,65>>, <<132,142>>, <<133,65>>, <<134,143>>,
    <<135,128>>, <<136,69>>, <<137,69>>, <<138,69>>, <<140,139>>, <<145,146>>, <<147,79>>,
    <<148,153>>, <<149,141>>, <<150,85>>, <<152,151>>, <<155,157>>}, {<<160,163,1,4>>})
Ct862 == UpCase({<<160,65>>, <<161,73>>, <<162,79>>, <<163,85>>, <<164,165>>}, {})
Ct863 == UpCase({<<128,67>>, <<129,85>>, <<130,69>>, <<131,65>>, <<132,65>>, <<133,65>>,
    <<135,67>>, <<136,69>>, <<137,69>>, <<138,69>>, <<139,73>>, <<140,73>>, <<142,65>>,
    <<144,69>>, <<145,69>>, <<146,69>>, <<147,79>>, <<148,69>>, <<149,73>>, <<150,85>>,
    <<151,85>>, <<153,79>>, <<154,85>>, <<157,85>>, <<158,85>>, <<162,79>>, <<163,85>>,
    <<168,73>>}, {})
Ct864 == UpCase({<<129,154>>, <<130,69>>, <<131,65>>, <<132,142>>, <<133,65>>, <<134,143>>,
    <<135,128>>, <<136,69>>, <<137,69>>, <<138,69>>, <<139,73>>, <<140,73>>, <<141,73>>,
    <<145,146>>, <<147,79>>, <<148,153>>, <<149,79>>, <<150,85>>, <<151,85>>, <<152,89>>,
    <<160,65>>, <<161,73>>, <<162,79>>, <<163,85>>, <<164,165>>}, {})
Ct865 == UpCase({<<129,154>>, <<130,144>>, <<131,65>>, <<132,142>>, <<133,65>>, <<134,143>>,
    <<135,128>>, <<136,69>>, <<137,69>>, <<138,69>>, <<139,73>>, <<140,73>>, <<141,73>>,
    <<145,146>>, <<147,79>>, <<148,153>>, <<149,79>>, <<150,85>>, <<151,85>>, <<152,89>>,
    <<160,65>>, <<161,73>>, <<162,79>>, <<163,85>>, <<164,165>>}, {})
Ct866 == UpCase({}, {<<160,175,1,-32>>, <<224,239,1,-80>>, <<241,247,2,-1>>})
Ct869 == UpCase({<<155,134>>, <<157,141>>, <<161,144>>, <<162,146>>, <<163,149>>,
    <<221,167>>, <<222,168>>, <<224,169>>, <<225,170>>, <<226,172>>, <<227,173>>,
    <<232,189>>, <<233,190>>, <<234,198>>, <<235,199>>, <<236,207>>, <<237,207>>,
    <<238,208>>, <<246,212>>, <<250,213>>, <<251,150>>, <<252,149>>, <<253,152>>},
    {<<158,160,1,-15>>, <<214,216,1,-50>>, <<228,231,1,-47>>, <<242,244,1,-33>>})

IsLower(c) == c \in 97..122
IsUpper(c) == c \in 65..90

(* An OEM byte to upper case: ASCII letters by rule, the rest by ExCvt.    *)
ToUpper(ExCvt, c) ==
    IF c \in Extended THEN ExCvt[c] ELSE IF IsLower(c) THEN c - 32 ELSE c

-----------------------------------------------------------------------------
(* The ranges of first and second bytes of double-byte characters.         *)

DbcTbl(cp) ==
    CASE cp = 932 -> <<129..159, 224..252, 64..126, 128..252, {}>>
      [] cp = 936 -> <<129..254, {}, 64..126, 128..254, {}>>
      [] cp = 949 -> <<129..254, {}, 65..90, 97..122, 129..254>>
      [] cp = 950 -> <<129..254, {}, 64..126, 161..254, {}>>
      [] OTHER -> <<{}, {}, {}, {}, {}>>

dbc_1st(cp, c) == c \in DbcTbl(cp)[1] \cup DbcTbl(cp)[2]
dbc_2nd(cp, c) == c \in DbcTbl(cp)[3] \cup DbcTbl(cp)[4] \cup DbcTbl(cp)[5]

-----------------------------------------------------------------------------
(* f_wtoupper: blocks <<base, size, command, table>> in ascending order.   *)

cvt1 == <<<<97,26,3,<<>>>>, <<224,23,3,<<>>>>, <<248,7,3,<<>>>>, <<255,1,0,<<376>>>>, <<256,
  48,1,<<>>>>, <<306,6,1,<<>>>>, <<313,16,1,<<>>>>, <<330,46,1,<<>>>>, <<377,6,1,<<>>>>,
  <<384,77,0,<<579,385,386,386,388,388,390,391,391,393,394,395,395,397,398,399,400,401,401,
  403,404,502,406,407,408,408,573,411,412,413,544,415,416,416,418,418,420,420,422,423,423,425,
  426,427,428,428,430,431,431,433,434,435,435,437,437,439,440,440,442,443,444,444,446,503,448,
  449,450,451,452,453,452,455,456,455,458,459,458>>>>, <<461,16,1,<<>>>>, <<477,1,0,
  <<398>>>>, <<478,18,1,<<>>>>, <<499,3,0,<<497,500,500>>>>, <<504,40,1,<<>>>>, <<546,18,1,
  <<>>>>, <<570,9,0,<<11365,571,571,573,11366,575,576,577,577>>>>, <<582,10,1,<<>>>>, <<595,
  64,0,<<385,390,597,393,394,600,399,602,400,604,605,606,607,403,609,610,404,612,613,614,615,
  407,406,618,11362,620,621,622,412,624,625,413,627,628,415,630,631,632,633,634,635,636,11364,
  638,639,422,641,642,425,644,645,646,647,430,580,433,434,581,653,654,655,656,657,439>>>>,
  <<891,3,0,<<1021,1022,1023>>>>, <<940,4,0,<<902,904,905,906>>>>, <<945,17,3,<<>>>>, <<962,2,
  0,<<931,931>>>>, <<964,8,3,<<>>>>, <<972,3,0,<<908,910,911>>>>, <<984,24,1,<<>>>>, <<1010,
  10,0,<<1017,1011,1012,1013,1014,1015,1015,1017,1018,1018>>>>, <<1072,32,3,<<>>>>, <<1104,16,
  7,<<>>>>, <<1120,34,1,<<>>>>, <<1162,54,1,<<>>>>, <<1217,14,1,<<>>>>, <<1231,1,0,
  <<1216>>>>, <<1232,68,1,<<>>>>, <<1377,38,4,<<>>>>>>
cvt2 == <<<<7549,1,0,<<11363>>>>, <<7680,150,1,<<>>>>, <<7840,90,1,<<>>>>, <<7936,8,6,<<>>>>,
  <<7952,6,6,<<>>>>, <<7968,8,6,<<>>>>, <<7984,8,6,<<>>>>, <<8000,6,6,<<>>>>, <<8017,7,0,
  <<8025,8018,8027,8020,8029,8022,8031>>>>, <<8032,8,6,<<>>>>, <<8048,14,0,<<8122,8123,8136,
  8137,8138,8139,8154,8155,8184,8185,8170,8171,8186,8187>>>>, <<8064,8,6,<<>>>>, <<8080,8,6,
  <<>>>>, <<8096,8,6,<<>>>>, <<8112,4,0,<<8120,8121,8114,8124>>>>, <<8140,1,0,<<8131>>>>,
  <<8144,2,6,<<>>>>, <<8160,2,6,<<>>>>, <<8165,1,0,<<8172>>>>, <<8179,1,0,<<8188>>>>, <<8526,
  1,0,<<8498>>>>, <<8560,16,2,<<>>>>, <<8580,1,0,<<8579>>>>, <<9424,26,5,<<>>>>, <<11312,47,4,
  <<>>>>, <<11360,2,1,<<>>>>, <<11367,6,1,<<>>>>, <<11381,2,1,<<>>>>, <<11392,100,1,<<>>>>,
  <<11520,38,8,<<>>>>, <<65345,26,3,<<>>>>>>

Converted(block, uc) ==
    CASE block[3] = 0 -> block[4][uc - block[1] + 1]
      [] block[3] = 1 -> uc - ((uc - block[1]) % 2)
      [] block[3] = 2 -> uc - 16
      [] block[3] = 3 -> uc - 32
      [] block[3] = 4 -> uc - 48
      [] block[3] = 5 -> uc - 26
      [] block[3] = 6 -> uc + 8
      [] block[3] = 7 -> uc - 80
      [] block[3] = 8 -> uc - 7264

(* The blocks are tried in order until one lies above the character.       *)
Upper(p, uc) ==
    LET not_above(block) == uc < block[1] + block[2]
        convert(k) == IF k = 0 THEN uc ELSE IF uc < p[k][1] THEN uc ELSE Converted(p[k], uc)
    IN convert(SelectInSeq(p, not_above))
f_wtoupper(uc) ==
    IF uc >= 65536 THEN uc ELSE Upper(IF uc < 4096 THEN cvt1 ELSE cvt2, uc)

-----------------------------------------------------------------------------
(* The up-case table that f_mkfs writes on an exFAT volume: the upper case *)
(* of each character in turn, but runs of at least 128 characters that are *)
(* their own upper case as 0xFFFF and their number.                        *)

Changed == {c \in 0..65535 : f_wtoupper(c) # c}
RunFrom(si, changed) ==
    LET beyond == {c \in changed \cup {65536} : c > si}
    IN (CHOOSE c \in beyond : \A d \in beyond : c <= d) - si
RunPiece(si, changed) ==
    LET j == RunFrom(si, changed)
    IN IF si \in changed THEN <<f_wtoupper(si)>>
       ELSE IF j >= 128 THEN <<65535, j>> ELSE [k \in 1..j |-> si + k - 1]
RECURSIVE RunsOf(_, _, _)         \* of the characters from .. to
RunsOf(from, to, changed) ==
    LET middle == (from + to) \div 2
    IN IF from < to THEN RunsOf(from, middle, changed) \o RunsOf(middle + 1, to, changed)
       ELSE IF from = 0 \/ from \in changed \/ from - 1 \in changed THEN RunPiece(from, changed)
       ELSE <<>>
UpcaseTable == RunsOf(0, 65535, Changed)

-----------------------------------------------------------------------------
(* f_setcp with FF_CODE_PAGE 0.                                            *)

SbcsPages == {437, 720, 737, 771, 775, 850, 852, 855, 857, 860, 861, 862, 863,
              864, 865, 866, 869}
DbcsPages == {932, 936, 949, 950}

(* The list of pages ends with 0, which the search finds like a page: the  *)
(* call succeeds and leaves neither table.                                 *)
f_setcp(cp) ==
    IF cp \notin SbcsPages \cup DbcsPages \cup {0} THEN "FR_INVALID_PARAMETER"
    ELSE IF cp \in DbcsPages THEN "DbcTbl" ELSE IF cp = 0 THEN "none" ELSE "ExCvt"

SbcsTable(cp) ==
    CASE cp = 437 -> uc437 [] cp = 720 -> uc720 [] cp = 737 -> uc737 [] cp = 771 -> uc771
      [] cp = 775 -> uc775 [] cp = 850 -> uc850 [] cp = 852 -> uc852 [] cp = 855 -> uc855
      [] cp = 857 -> uc857 [] cp = 860 -> uc860 [] cp = 861 -> uc861 [] cp = 862 -> uc862
      [] cp = 863 -> uc863 [] cp = 864 -> uc864 [] cp = 865 -> uc865 [] cp = 866 -> uc866
      [] cp = 869 -> uc869

uni2oem(cp) == CASE cp = 932 -> uni2oem932 [] cp = 936 -> uni2oem936
                 [] cp = 949 -> uni2oem949 [] cp = 950 -> uni2oem950
oem2uni(cp) == CASE cp = 932 -> oem2uni932 [] cp = 936 -> oem2uni936
                 [] cp = 949 -> oem2uni949 [] cp = 950 -> oem2uni950

(* The conversions, with the tables of the page cp; 0 is an error.  Fixed  *)
(* to a page, the driver does the same for that page and none other.       *)
f_uni2oem(uni, cp) ==
    CASE uni < 128 -> uni
      [] uni >= 65536 -> 0
      [] cp \in SbcsPages -> CodeOf(SbcsTable(cp), uni)
      [] cp \in DbcsPages -> Second(uni2oem(cp), uni)
      [] OTHER -> 0
f_oem2uni(oem, cp) ==
    CASE oem < 128 -> oem
      [] cp \in SbcsPages -> IF oem < 256 THEN CharOf(SbcsTable(cp), oem) ELSE 0
      [] cp \in DbcsPages -> Second(oem2uni(cp), oem)
      [] OTHER -> 0
=============================================================================
