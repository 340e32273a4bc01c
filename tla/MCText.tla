--------------------------------- MODULE MCText ---------------------------------
(***************************************************************************)
(* Questions for the functions that keep no state: strings over a few      *)
(* characters of every kind, whole code pages, and the drives of MCFormat. *)
(***************************************************************************)
EXTENDS Text, MCFormat

Strings(A, n) == UNION {[1..k -> A] : k \in 1..n}

MCMap == [p \in {437, 932} |->
    IF p = 437 THEN {<<130,233>>, <<144,201>>, <<164,241>>, <<165,209>>, <<229,963>>}
    ELSE {<<177,65393>>, <<33440,12354>>, <<38236,34920>>, <<33409,65345>>, <<33376,65313>>,
          <<58688,34113>>}]

(* The string functions: a double-byte page.                               *)
MCUni(c) == IF c < 128 THEN c
            ELSE IF \E m \in MCMap[932] : m[1] = c
                 THEN (CHOOSE m \in MCMap[932] : m[1] = c)[2] ELSE 0
MCOem(c) == IF c < 128 THEN c
            ELSE IF \E m \in MCMap[932] : m[2] = c
                 THEN (CHOOSE m \in MCMap[932] : m[2] = c)[1] ELSE 0
MCLead(c) == dbc_1st(932, c)
MCTrail(c) == dbc_2nd(932, c)
MCConfs == [api : 0..3, strf : 0..3, crlf : 1..2]
MCText1 == [a \in 0..3 |->
    CASE a = 0 -> {<<65>>, <<10>>, <<130, 160>>}
      [] a = 1 -> {<<65>>, <<10>>, <<13>>, <<12354>>, <<55357, 56832>>, <<55357>>}
      [] a = 2 -> {<<65>>, <<10>>, <<227, 129, 130>>, <<240, 159, 152, 128>>,
                   <<241, 128, 128, 128>>, <<194, 181>>, <<227, 129>>}
      [] a = 3 -> {<<65>>, <<10>>, <<12354>>, <<128512>>, <<55357>>}]

(* Names.                                                                  *)
MCVolumes == <<<<83, 68>>, <<83, 68, 50>>>>
Rests == {<<>>, <<47>>, <<47, 65>>}
Volumes == {[id |-> 0, page |-> 437, api |-> 0, prefix |-> <<48 + v, 58>>, vol |-> v, rest |-> r] :
               v \in 0..1, r \in Rests \cup {<<65>>}}
           \cup {[id |-> 1, page |-> 437, api |-> 0, prefix |-> MCVolumes[v + 1] \o <<58>>, vol |-> v,
                  rest |-> r] : v \in 0..1, r \in Rests \cup {<<65>>}}
           \cup {[id |-> 1, page |-> 437, api |-> 0, prefix |-> <<115, 100, 50, 58>>, vol |-> 1,
                  rest |-> r] : r \in Rests}
           \cup {[id |-> 2, page |-> 437, api |-> 0, prefix |-> <<47>> \o MCVolumes[v + 1], vol |-> v,
                  rest |-> r] : v \in 0..1, r \in Rests}
           \cup {[id |-> i, page |-> 437, api |-> 0, prefix |-> <<>>, vol |-> 0, rest |-> r] :
                  i \in 0..1, r \in Rests \cup {<<83, 68>>}}
           \cup {[id |-> 1, page |-> 437, api |-> 0, prefix |-> <<>>, vol |-> -1, rest |-> r] :
                  r \in {<<50, 58>>, <<83, 58>>, <<83, 68, 51, 58>>}}
Builds(apis, pages, strings) == [api : apis, page : pages, s : strings, id : {0}]
Relative(strings) == [api : {0}, page : {437}, s : strings, id : {0}, rpath : {1}]
SfnPaths == Builds({0}, {437}, Strings({65, 97, 46, 47, 32, 229, 43}, 5))
            \cup Builds({0}, {932}, Strings({65, 46, 92, 130, 160, 229}, 5))
            \cup Relative(Strings({65, 46, 47}, 6))
            \cup Builds({0}, SbcsPages, {<<c>> : c \in 128..255} \cup {<<c, 46, c>> : c \in 128..255})
LfnPaths == Builds({0}, {437}, Strings({65, 97, 46, 47, 32, 130, 43}, 4))
            \cup Builds({0}, {437}, Strings({97, 46, 47, 32}, 5))
            \cup Builds({0}, {932}, Strings({97, 46, 92, 130, 160, 129}, 4))
            \cup Builds({1}, {437}, Strings({65, 97, 46, 32, 233, 960}, 4))
            \cup Builds({2}, {932}, Strings({65, 47, 227, 129, 130}, 5))
            \cup Builds({3}, {932}, Strings({65, 47, 128512, 34113}, 4))
            \cup Relative(Strings({65, 46, 47, 32}, 5))
Numbered == Builds({0}, {932}, {<<32>> \o s : s \in Strings({65, 130, 160}, 4)})
            \cup Builds({1}, {932}, {<<32>> \o s : s \in Strings({65, 46, 34113, 12354}, 4)})
LongNames == Strings({65, 97}, FF_MAX_LFN)
EntryPairs == [lfn : LongNames, other : LongNames, stale : {0, 65}]
              \cup [lfn : Strings({233, 201, 66}, 3), other : Strings({233, 201, 66}, 3), stale : {66}]
Globs == [page : {437}, api : {0}, pat : Strings({65, 98, 63, 42}, 4), nam : Strings({97, 98}, 4)]
         \cup [page : {437}, api : {1}, pat : {<<42,65,42,65,42,65,42,65,42,65>>, <<63,42,65,63>>},
               nam : Strings({97}, 6)]
(* Labels of every length around the limit.                                *)
Filled(c) == {<<>>} \cup {[i \in 1..n |-> 65] : n \in {9, 10}} \cup {<<c>>}
LabelsOf(A, exfats, lfns, page, api) ==
    UNION {[exfat : exfats, lfn : lfns, page : {page}, api : {api},
            s : {f \o t : t \in Strings(A, 2)}] : f \in Filled(CHOOSE c \in A : TRUE)}
Labels == LabelsOf({97, 130, 32, 43, 63}, {FALSE}, BOOLEAN, 437, 0)
          \cup LabelsOf({97, 233, 32, 59}, {FALSE}, {TRUE}, 437, 1)
          \cup LabelsOf({97, 34920, 12354, 34113, 32, 128512}, BOOLEAN, {TRUE}, 932, 3)
          \cup LabelsOf({97, 55357, 56832, 65313, 12288}, BOOLEAN, {TRUE}, 932, 1)
          \cup {[exfat |-> FALSE, lfn |-> l, page |-> 932, api |-> 0, s |-> f \o t] :
                 l \in BOOLEAN, f \in {<<>>, [i \in 1..8 |-> 66]},
                 t \in {<<130, 160>>, <<149, 92>>, <<229, 64>>, <<130>>, <<130, 160, 97>>,
                       <<97, 130, 160>>, <<130, 129, 32>>}}
CodePoints == {0, 1, 127, 128, 255, 2047, 2048, 4095, 55295, 57344, 65535, 65536, 131072,
               262143, 262144, 1048575, 1048576, 1114111}
MCQuestions == [k \in {"sfn", "lfn", "numbered", "entries", "match", "char", "sbcs", "dbcs",
                       "upper", "print", "volume", "cluster", "label", "format", "upcase"} |->
    CASE k = "sfn" -> SfnPaths
      [] k = "lfn" -> LfnPaths
      [] k = "numbered" -> Numbered
      [] k = "entries" -> EntryPairs
      [] k = "match" -> Globs
      [] k = "char" -> [page : {932}, api : 1..3, uc : CodePoints \ {0}]
      [] k = "sbcs" -> [page : SbcsPages]
      [] k = "dbcs" -> [page : DbcsPages, from : {256 * i : i \in 0..85}]
      [] k = "volume" -> Volumes
      [] k \in {"format", "upcase"} -> FormatQuestions[k]
      [] k = "cluster" -> [fat32 : {TRUE}, cl : {0, 2, 65535, 65536, 268435446}]
                          \cup [fat32 : {FALSE}, cl : {0, 2, 65535}]
      [] k = "label" -> Labels
      [] k = "upper" -> [from : {256 * i : i \in 0..255}]
      [] k = "print" -> [left : BOOLEAN, zero : BOOLEAN, w : {0, 2, 11}, long : BOOLEAN,
                         type : {98, 111, 100, 117, 120, 88}, arg : -128..127]]
=============================================================================
