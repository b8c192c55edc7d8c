--------------------------- MODULE MCSingleStream ---------------------------
(* SingleStream for TLC: four fingerprints; 3 is the C string of 2, which     *)
(* holds a zero byte.  1 and 4 stand for themselves only.                     *)
EXTENDS SingleStream, TLC

MCFp     == 1..4
First3   == 1..3
Cut      == [x \in MCFp |-> IF x = 2 THEN 3 ELSE x]
\* All files of up to two lines without 4 and those of three that start with 1 or
\* 2, snapshots of two files, snapshots with 4, and longer files in which chunks
\* differ in frequency and neighbours in their counts.
MCSnapshots ==
    {<<f>> : f \in UNION {[1..n -> First3] : n \in 0..2} \cup {g \in [1..3 -> First3] : g[1] # 3}}
      \cup {<< <<1, 2>>, <<2, 1, 3>> >>, << <<3>>, <<1, 2>> >>}
      \cup {<< <<4, 1>> >>, << <<2, 4, 1, 4>> >>, << <<4>>, <<1, 4, 2>> >>}
      \cup {<< <<1, 2, 3, 2, 3, 2>> >>, << <<1, 3, 1, 3, 2, 3>> >>,
            << <<1, 1, 3, 1, 3>>, <<2, 3>> >>}

\* - p log2 p in thousandths, for the rows that occur.
MCPlog   ==
    (<<1, 1>> :> 0 @@ <<1, 2>> :> 500 @@ <<2, 2>> :> 0 @@ <<1, 3>> :> 528
      @@ <<2, 3>> :> 390 @@ <<3, 3>> :> 0 @@ <<1, 4>> :> 500 @@ <<2, 4>> :> 500
      @@ <<3, 4>> :> 311 @@ <<4, 4>> :> 0)
\* No inference-db, or one in which an earlier run has inferred 1.
MCLeft   == {{}, {1}}
Both     == {TRUE, FALSE}
=============================================================================
