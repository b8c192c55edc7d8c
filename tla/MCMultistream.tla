--------------------------- MODULE MCMultistream ----------------------------
(* Multistream for TLC: three fingerprints of one and two units. *)
EXTENDS Multistream

MCFp   == {1, 2, 3}
MCSize == [c \in MCFp |-> IF c = 1 THEN 1 ELSE 2]

\* Unique chunks only, a pair, pairs in different orders, four segments.
MCRaw == {<<1, 2>>, <<2, 2, 3>>, <<1, 2, 1, 2>>, <<2, 3, 3, 2>>, <<3, 1, 2, 2, 3, 1>>}

MCTargets ==
    UNION {[1..n -> MCFp] : n \in 1..4}
      \cup {<<1, 2, 1, 3, 2, 3>>, <<1, 2, 2, 3, 1, 1>>, <<2, 3, 1, 2, 3, 2>>}

MCRetries == {<<2>>, <<3, 1>>}
MCRadii   == {0, 2, 3, 4, 6, 7}

\* - p log2 p in thousandths, for p = n / s and s up to 8.
MCPlog ==
    LET row == <<<<0>>,
                 <<500, 0>>,
                 <<528, 390, 0>>,
                 <<500, 500, 311, 0>>,
                 <<464, 529, 442, 258, 0>>,
                 <<431, 528, 500, 390, 219, 0>>,
                 <<401, 516, 524, 461, 347, 191, 0>>,
                 <<375, 500, 531, 500, 424, 311, 169, 0>>>>
    IN  [x \in {y \in (1..8) \X (1..8) : y[1] <= y[2]} |-> row[x[2]][x[1]]]

\* Nothing, one wrong entry, a wrong entry for every chunk.
MCLeft == {<<>>, [c \in {2} |-> 3], [c \in MCFp |-> (c % 3) + 1]}
=============================================================================
