------------------------------- MODULE MCLongNames -------------------------------
(* Four characters in a piece, six in a name, short names of 3 + 1.        *)
EXTENDS LongNames

MCId(c) == IF c \in 1..127 THEN c ELSE 0
MCNo(c) == FALSE
MCVolumes == <<<<48>>>>
MCPage == [c \in Extended |-> c]
(* AB, Ab, abcd, abcdef, A~1; abcd fills its piece.                        *)
MCNames == {<<65, 66>>, <<65, 98>>, <<97, 98, 99, 100>>,
            <<97, 98, 99, 100, 101, 102>>, <<65, 126, 49>>}
=============================================================================
