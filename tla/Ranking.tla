------------------------------ MODULE Ranking ------------------------------
(***************************************************************************)
(* The most frequent entries of a table, as the bounded heaps of the tools  *)
(* return them.  A table maps a fingerprint to a count; 0 is "no entry".    *)
(* Entries of equal count may come in any order and, at the end of the      *)
(* list, any of them may be the one that is left out.                       *)
(***************************************************************************)
EXTENDS Naturals, Sequences, FiniteSets, Functions

Present(tbl) == {x \in DOMAIN tbl : tbl[x] > 0}

Least(m, n)  == IF m < n THEN m ELSE n

\* H holds k of the fingerprints S, none of them less frequent than one of S
\* that was left out.
IsTop(H, S, tbl, k) ==
    /\ H \subseteq S
    /\ Cardinality(H) = Least(k, Cardinality(S))
    /\ \A h \in H, x \in S \ H : tbl[x] <= tbl[h]

\* The k most frequent entries as a list, most frequent first.
Ranked(tbl, k) ==
    LET S == Present(tbl)
        m == Least(k, Cardinality(S))
    IN  {s \in [1..m -> S] :
            /\ IsInjective(s)
            /\ \A i, j \in 1..m : i < j => tbl[s[i]] >= tbl[s[j]]
            /\ IsTop(Range(s), S, tbl, k)}
=============================================================================
