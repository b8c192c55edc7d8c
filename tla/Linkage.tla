------------------------------ MODULE Linkage -------------------------------
(***************************************************************************)
(* What agglomerative clustering with complete linkage promises, without    *)
(* the arrays that make it fast: start with one cluster per point and,      *)
(* while there are two, merge two clusters whose distance, that of their    *)
(* farthest points, is least.                                               *)
(***************************************************************************)
EXTENDS Integers, Sequences

VARIABLES
    metric,     \* distances between the points
    clusters,   \* a partition of the points
    merges      \* the distances of the merges so far, oldest first

vars == <<metric, clusters, merges>>

\* The distance of A and B is v.
LinkedAt(A, B, v) ==
    /\ \E x \in A, y \in B : metric[x][y] = v
    /\ \A x \in A, y \in B : metric[x][y] <= v

\* No two clusters are closer than v.
NoneCloser(v) ==
    \A A, B \in clusters : A # B => \E x \in A, y \in B : v <= metric[x][y]

Single(S) == \A A, B \in S : A = B

Start == clusters = {{x} : x \in DOMAIN metric} /\ merges = <<>>

\* New points, once the old ones are in one cluster.
Load ==
    /\ Single(clusters)
    /\ clusters' = {{x} : x \in DOMAIN metric'} /\ merges' = <<>>

Merge(A, B) ==
    /\ A # B
    /\ \E x \in A, y \in B :
          /\ LinkedAt(A, B, metric[x][y])
          /\ NoneCloser(metric[x][y])
          /\ merges' = Append(merges, metric[x][y])
    /\ clusters' = (clusters \ {A, B}) \cup {A \cup B}
    /\ UNCHANGED metric

Next == Load \/ \E A, B \in clusters : Merge(A, B)

Spec == Start /\ [][Next]_vars
=============================================================================
