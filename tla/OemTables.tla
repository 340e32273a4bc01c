------------------------------- MODULE OemTables -------------------------------
(***************************************************************************)
(* The conversion tables of the double-byte code pages, uni2oem* and       *)
(* oem2uni* of ffunicode.cpp: pairs of a character and what it becomes, in *)
(* ascending order of the first, closed by the pair 0, 0.                  *)
(*                                                                         *)
(* A table is the sequence of its blocks, the runs of one script or of one *)
(* level of the national standard.  A block says how many pairs it has and *)
(* spells out those at its ends, those that lead to an end of a block of   *)
(* the opposite table, and those whose first character repeats.  The other *)
(* pairs are only known to stand between these in ascending order: each    *)
(* has a first character of its own, as close to that of the pair spelled  *)
(* out before it as the order allows, so that a search for a pair spelled  *)
(* out takes the turns it takes in the code.                               *)
(***************************************************************************)
EXTENDS Integers, Sequences, SequencesExt

(* n pairs; spelled: <<offset in the block, first, second>>, ascending.    *)
Stretch(n, spelled) == [n |-> n, spelled |-> spelled]

Unspelled == 65536          \* what a pair that is not spelled out becomes

PairsOf(block) ==
    LET before(i, s) == s[1] < i
        pair(i, s) == IF s[1] = i - 1 THEN <<s[2], s[3]>> ELSE <<s[2] + (i - 1 - s[1]), Unspelled>>
    IN [i \in 1..block.n |->
           pair(i, block.spelled[SelectLastInSeq(block.spelled, LAMBDA s : before(i, s))])]

Dbcs(blocks) ==
    LET behind(table, block) == table \o PairsOf(block)
    IN Append(FoldLeft(behind, <<>>, blocks), <<0, 0>>)

-----------------------------------------------------------------------------

uni2oem932_Letters == Stretch(122, <<<<0, \H00A7, \H8198>>, <<121, \H0451, \H8476>>>>)
uni2oem932_Symbols == Stretch(152, <<
    <<0, \H2010, \H815D>>, <<28, \H2170, \HFA40>>, <<79, \H22BF, \H8799>>,
    <<151, \H266F, \H81F2>>>>)
uni2oem932_Cjk == Stretch(236, <<<<0, \H3000, \H8140>>, <<235, \H33CD, \H8783>>>>)
uni2oem932_Ideographs == Stretch(6682, <<
    <<0, \H4E00, \H88EA>>, <<68, \H4E9C, \H889F>>, <<1559, \H5F0C, \H989F>>,
    <<3244, \H7199, \HEAA4>>, <<4506, \H8155, \H9872>>, <<6629, \H9ED1, \HFC4B>>,
    <<6681, \H9FA0, \HEA9E>>>>)
uni2oem932_Compatibility == Stretch(197, <<
    <<0, \HF929, \HFAE0>>, <<128, \HFF61, \H00A1>>, <<190, \HFF9F, \H00DF>>,
    <<196, \HFFE5, \H818F>>>>)
uni2oem932 == Dbcs(<<uni2oem932_Letters, uni2oem932_Symbols, uni2oem932_Cjk,
    uni2oem932_Ideographs, uni2oem932_Compatibility>>)

oem2uni932_HalfWidth == Stretch(63, <<<<0, \H00A1, \HFF61>>, <<62, \H00DF, \HFF9F>>>>)
oem2uni932_Symbols == Stretch(598, <<
    <<0, \H8140, \H3000>>, <<29, \H815D, \H2010>>, <<78, \H818F, \HFFE5>>,
    <<87, \H8198, \H00A7>>, <<140, \H81F2, \H266F>>, <<465, \H8476, \H0451>>,
    <<581, \H8783, \H33CD>>, <<597, \H8799, \H22BF>>>>)
oem2uni932_Level1 == Stretch(2965, <<
    <<0, \H889F, \H4E9C>>, <<75, \H88EA, \H4E00>>, <<2964, \H9872, \H8155>>>>)
oem2uni932_Level2 == Stretch(3390, <<
    <<0, \H989F, \H5F0C>>, <<3383, \HEA9E, \H9FA0>>, <<3389, \HEAA4, \H7199>>>>)
oem2uni932_Ibm == Stretch(373, <<
    <<0, \HFA40, \H2170>>, <<144, \HFAE0, \HF929>>, <<372, \HFC4B, \H9ED1>>>>)
oem2uni932 == Dbcs(<<oem2uni932_HalfWidth, oem2uni932_Symbols,
    oem2uni932_Level1, oem2uni932_Level2, oem2uni932_Ibm>>)

uni2oem936_Letters == Stretch(157, <<<<0, \H00A4, \HA1E8>>, <<156, \H0451, \HA7D7>>>>)
uni2oem936_Symbols == Stretch(290, <<
    <<0, \H2010, \HA95C>>, <<16, \H20AC, \H0080>>, <<215, \H254B, \HA9EF>>,
    <<289, \H2642, \HA1E1>>>>)
uni2oem936_Cjk == Stretch(270, <<<<0, \H3000, \HA1A1>>, <<269, \H33D5, \HA954>>>>)
uni2oem936_Ideographs == Stretch(20902, <<
    <<0, \H4E00, \HD2BB>>, <<2, \H4E02, \H8140>>, <<4263, \H5EA7, \HD7F9>>,
    <<9435, \H72DB, \HA0FE>>, <<9436, \H72DC, \HAA40>>, <<10308, \H7644, \HAFA0>>,
    <<10309, \H7645, \HB040>>, <<15928, \H8C38, \HD840>>, <<20195, \H9CE3, \HF840>>,
    <<20804, \H9F44, \HF7FE>>, <<20901, \H9FA5, \HFD9B>>>>)
uni2oem936_Compatibility == Stretch(173, <<
    <<0, \HF92C, \HFD9C>>, <<20, \HFA29, \HFE4F>>, <<172, \HFFE5, \HA3A4>>>>)
uni2oem936 == Dbcs(<<uni2oem936_Letters, uni2oem936_Symbols, uni2oem936_Cjk,
    uni2oem936_Ideographs, uni2oem936_Compatibility>>)

oem2uni936_Single == Stretch(1, <<<<0, \H0080, \H20AC>>>>)
oem2uni936_Gbk3 == Stretch(6080, <<<<0, \H8140, \H4E02>>, <<6079, \HA0FE, \H72DB>>>>)
oem2uni936_Symbols == Stretch(868, <<
    <<0, \HA1A1, \H3000>>, <<64, \HA1E1, \H2642>>, <<71, \HA1E8, \H00A4>>,
    <<179, \HA3A4, \HFFE5>>, <<545, \HA7D7, \H0451>>, <<744, \HA954, \H33D5>>,
    <<750, \HA95C, \H2010>>, <<867, \HA9EF, \H254B>>>>)
oem2uni936_Gbk4 == Stretch(576, <<<<0, \HAA40, \H72DC>>, <<575, \HAFA0, \H7644>>>>)
oem2uni936_Level1 == Stretch(7595, <<
    <<0, \HB040, \H7645>>, <<6582, \HD2BB, \H4E00>>, <<7594, \HD7F9, \H5EA7>>>>)
oem2uni936_Level2 == Stretch(6080, <<<<0, \HD840, \H8C38>>, <<6079, \HF7FE, \H9F44>>>>)
oem2uni936_Gbk4More == Stretch(592, <<
    <<0, \HF840, \H9CE3>>, <<570, \HFD9B, \H9FA5>>, <<571, \HFD9C, \HF92C>>,
    <<591, \HFE4F, \HFA29>>>>)
oem2uni936 == Dbcs(<<oem2uni936_Single, oem2uni936_Gbk3, oem2uni936_Symbols,
    oem2uni936_Gbk4, oem2uni936_Level1, oem2uni936_Level2,
    oem2uni936_Gbk4More>>)

uni2oem949_Letters == Stretch(171, <<<<0, \H00A1, \HA2AE>>, <<170, \H0451, \HACD7>>>>)
uni2oem949_Symbols == Stretch(299, <<<<0, \H2015, \HA1AA>>, <<298, \H266D, \HA2DA>>>>)
uni2oem949_Cjk == Stretch(418, <<<<0, \H3000, \HA1A1>>, <<417, \H33DD, \HA7E9>>>>)
uni2oem949_Ideographs == Stretch(4620, <<
    <<0, \H4E00, \HECE9>>, <<104, \H4F3D, \HCAA1>>, <<3734, \H8A70, \HFDFE>>,
    <<4619, \H9F9C, \HCFCF>>>>)
uni2oem949_Hangul == Stretch(11172, <<
    <<0, \HAC00, \HB0A1>>, <<2, \HAC02, \H8141>>, <<7332, \HC8A4, \HA0FE>>,
    <<7333, \HC8A5, \HA141>>, <<8857, \HCE99, \HAFA0>>, <<8858, \HCE9A, \HB041>>,
    <<11165, \HD79D, \HC8FE>>, <<11171, \HD7A3, \HC652>>>>)
uni2oem949_Compatibility == Stretch(368, <<<<0, \HF900, \HCBD0>>, <<367, \HFFE6, \HA3DC>>>>)
uni2oem949 == Dbcs(<<uni2oem949_Letters, uni2oem949_Symbols, uni2oem949_Cjk,
    uni2oem949_Ideographs, uni2oem949_Hangul, uni2oem949_Compatibility>>)

oem2uni949_Uhc == Stretch(5696, <<<<0, \H8141, \HAC02>>, <<5695, \HA0FE, \HC8A4>>>>)
oem2uni949_Symbols == Stretch(2248, <<
    <<0, \HA141, \HC8A5>>, <<84, \HA1A1, \H3000>>, <<93, \HA1AA, \H2015>>,
    <<275, \HA2AE, \H00A1>>, <<319, \HA2DA, \H266D>>, <<476, \HA3DC, \HFFE6>>,
    <<1149, \HA7E9, \H33DD>>, <<1969, \HACD7, \H0451>>, <<2247, \HAFA0, \HCE99>>>>)
oem2uni949_Hangul == Stretch(4216, <<
    <<0, \HB041, \HCE9A>>, <<84, \HB0A1, \HAC00>>, <<3933, \HC652, \HD7A3>>,
    <<4215, \HC8FE, \HD79D>>>>)
oem2uni949_Hanja == Stretch(4888, <<
    <<0, \HCAA1, \H4F3D>>, <<141, \HCBD0, \HF900>>, <<516, \HCFCF, \H9F9C>>,
    <<3268, \HECE9, \H4E00>>, <<4887, \HFDFE, \H8A70>>>>)
oem2uni949 == Dbcs(<<oem2uni949_Uhc, oem2uni949_Symbols, oem2uni949_Hangul,
    oem2uni949_Hanja>>)

uni2oem950_Letters == Stretch(61, <<<<0, \H00A7, \HA1B1>>, <<60, \H03C9, \HA373>>>>)
uni2oem950_Symbols == Stretch(149, <<
    <<0, \H2013, \HA156>>, <<12, \H20AC, \HA3E1>>, <<67, \H2550, \HA2A4>>,
    <<68, \H2550, \HF9F9>>, <<82, \H255E, \HA2A5>>, <<83, \H255E, \HF9E9>>,
    <<86, \H2561, \HA2A7>>, <<87, \H2561, \HF9EB>>, <<96, \H256A, \HA2A6>>,
    <<97, \H256A, \HF9EA>>, <<100, \H256D, \HA27E>>, <<101, \H256D, \HF9FA>>,
    <<102, \H256E, \HA2A1>>, <<103, \H256E, \HF9FB>>, <<104, \H256F, \HA2A3>>,
    <<105, \H256F, \HF9FD>>, <<106, \H2570, \HA2A2>>, <<107, \H2570, \HF9FC>>,
    <<127, \H2593, \HF9FE>>, <<148, \H2642, \HA1F1>>>>)
uni2oem950_Cjk == Stretch(77, <<<<0, \H3000, \HA140>>, <<76, \H33D5, \HA24F>>>>)
uni2oem950_Ideographs == Stretch(13070, <<
    <<0, \H4E00, \HA440>>, <<33, \H4E42, \HC940>>, <<793, \H5341, \HA2CC>>,
    <<794, \H5341, \HA451>>, <<797, \H5345, \HA2CE>>, <<798, \H5345, \HA4CA>>,
    <<6986, \H7881, \HF9D6>>, <<7617, \H7C72, \HC67E>>, <<13065, \H9F98, \HF9D5>>,
    <<13069, \H9FA4, \HF9A1>>>>)
uni2oem950_Compatibility == Stretch(146, <<<<0, \HFA0C, \HC94A>>, <<145, \HFFE5, \HA244>>>>)
uni2oem950 == Dbcs(<<uni2oem950_Letters, uni2oem950_Symbols, uni2oem950_Cjk,
    uni2oem950_Ideographs, uni2oem950_Compatibility>>)

oem2uni950_Symbols == Stretch(409, <<
    <<0, \HA140, \H3000>>, <<22, \HA156, \H2013>>, <<79, \HA1B1, \H00A7>>,
    <<143, \HA1F1, \H2642>>, <<161, \HA244, \HFFE5>>, <<172, \HA24F, \H33D5>>,
    <<219, \HA27E, \H256D>>, <<220, \HA2A1, \H256E>>, <<221, \HA2A2, \H2570>>,
    <<222, \HA2A3, \H256F>>, <<223, \HA2A4, \H2550>>, <<224, \HA2A5, \H255E>>,
    <<225, \HA2A6, \H256A>>, <<226, \HA2A7, \H2561>>, <<263, \HA2CC, \H5341>>,
    <<265, \HA2CE, \H5345>>, <<365, \HA373, \H03C9>>, <<408, \HA3E1, \H20AC>>>>)
oem2uni950_Level1 == Stretch(5401, <<
    <<0, \HA440, \H4E00>>, <<17, \HA451, \H5341>>, <<104, \HA4CA, \H5345>>,
    <<5400, \HC67E, \H7C72>>>>)
oem2uni950_Level2 == Stretch(7652, <<
    <<0, \HC940, \H4E42>>, <<10, \HC94A, \HFA0C>>, <<7599, \HF9A1, \H9FA4>>,
    <<7651, \HF9D5, \H9F98>>>>)
oem2uni950_Eten == Stretch(41, <<
    <<0, \HF9D6, \H7881>>, <<19, \HF9E9, \H255E>>, <<20, \HF9EA, \H256A>>,
    <<21, \HF9EB, \H2561>>, <<35, \HF9F9, \H2550>>, <<36, \HF9FA, \H256D>>,
    <<37, \HF9FB, \H256E>>, <<38, \HF9FC, \H2570>>, <<39, \HF9FD, \H256F>>,
    <<40, \HF9FE, \H2593>>>>)
oem2uni950 == Dbcs(<<oem2uni950_Symbols, oem2uni950_Level1, oem2uni950_Level2,
    oem2uni950_Eten>>)
================================================================================
