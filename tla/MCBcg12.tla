------------------------------ MODULE MCBcg12 ------------------------------
(* Instance of Bcg12 in the subgroup of order 11 of Z_23*. *)
EXTENDS Bcg12

MCSets == {<<>>, <<1, 0, 1>>, <<2, 1, 0>>}
MCRank(s, i, v) == (v * (s + 1) + 2 * i) % 3

\* Item 0 meets every rejection first: 0, then 22 of order two; 1 and 2 are hit at
\* once or after a point that is no square.
MCDigest(item, r) ==
    LET code == item[2] + (IF item[1] = 2 THEN 3 * item[3] ELSE 0)
    IN <<<<0, 22, 4>>, <<3, 3, 3>>, <<7, 6, 8>>, <<12, 12, 12>>, <<13, 13, 13>>, <<2, 2, 2>>>>[code + 1][r + 1]
MCRetries == 0 .. 2
MCExpDraws == {0, 2, 11}
MCFixedExps == <<3, 4>>
=============================================================================
