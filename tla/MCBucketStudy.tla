--------------------------- MODULE MCBucketStudy ----------------------------
(* BucketStudy for TLC: two chunks of one block, one of two, each with its
   encryption. *)
EXTENDS BucketStudy

MCPlain == {"p", "q", "r"}
MCFp    == MCPlain \cup {"P", "Q", "R"}
MCEnc   == [x \in MCPlain |-> CASE x = "p" -> "P" [] x = "q" -> "Q" [] x = "r" -> "R"]
MCSize  == [x \in MCFp |-> IF x \in {"r", "R"} THEN 3 ELSE 2]
MCTypes == {"txt", "vmdk"}

File(t, cs) == [type |-> t, chunks |-> cs]

Whole == UNION {[1..n -> MCPlain] : n \in 1..2} \cup {<<"p", "q", "p">>, <<"q", "r", "p">>}

\* One file, or two of different or equal types that may share chunks.
MCTrace ==
    {<<File("txt", cs)>> : cs \in Whole}
      \cup {<<File("txt", <<"p">>), File("vmdk", <<"p", "q">>)>>,
            <<File("vmdk", <<"r">>), File("txt", <<"r", "q">>), File("txt", <<>>)>>}

MCTraces == MCTrace \X MCTrace
=============================================================================
