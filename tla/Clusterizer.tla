---------------------------- MODULE Clusterizer -----------------------------
(***************************************************************************)
(* The hierarchical clusterizer of alglib (dataanalysis.cpp) as cslice.cc   *)
(* uses it: clusterizersetdistances, clusterizerrunahc and                  *)
(* clusterizerseparatedbydist with clusterizergetkclusters.                 *)
(*                                                                         *)
(* Points and rows are numbered from 0, merges from 1 (mergeidx + 1).       *)
(* Distances are natural numbers; csizes is kept as the set of points of a  *)
(* cluster, of which the code only stores the size.  ahcalgo is 0, complete *)
(* linkage, the value that clusterizercreate sets and cslice keeps.         *)
(***************************************************************************)
EXTENDS Integers, Sequences, FiniteSets

CONSTANT Radii  \* values of r

ASSUME RadiusAssumption == Radii \subseteq Nat

VARIABLES
    dist,       \* the distances of the points, as they were set
    d,          \* s->d, overwritten by the merges
    members,    \* csizes: row -> points of its cluster
    cidx,       \* row -> cluster number, -1 when the row is empty
    nnidx,      \* row -> row of its nearest neighbour
    z,          \* rep->z
    mergedist,  \* rep->mergedist
    span,       \* cinfo: cluster -> first and last position
    k,          \* number of clusters asked for
    present,    \* presentclusters
    tmpidx,     \* position -> cluster
    cz, out,    \* the results of getkclusters; out is its parameter cidx
    r, step

ahc     == <<dist, d, members, cidx, nnidx, z, mergedist>>
cut     == <<k, present, tmpidx, cz, out, r>>
ahcVars == <<ahc, span, cut, step>>

npoints == Cardinality(DOMAIN dist)
Rows    == 0..npoints - 1
Active  == {i \in Rows : cidx[i] >= 0}

\* The first index of S with the least value of f, -1 when S is empty.
FirstLeast(S, f) ==
    IF S = {} THEN -1
    ELSE CHOOSE x \in S : \A y \in S : f[x] < f[y] \/ (f[x] = f[y] /\ x <= y)

\* setdistances with isupper: the upper triangle, mirrored, and a zero diagonal.
SetDistances(m) ==
    [i \in DOMAIN m |-> [j \in DOMAIN m |->
        IF i < j THEN m[i][j] ELSE IF j < i THEN m[j][i] ELSE 0]]

AhcInit ==
    /\ dist = <<>> /\ d = <<>> /\ members = <<>> /\ cidx = <<>> /\ nnidx = <<>>
    /\ z = <<>> /\ mergedist = <<>> /\ span = <<>>
    /\ k = 0 /\ present = {} /\ tmpidx = <<>> /\ cz = <<>> /\ out = <<>> /\ r = 0
    /\ step = "idle"

\* The start of clusterizerrunahc on the matrix m.
RunAHC(m) ==
    /\ step = "idle"
    /\ dist' = SetDistances(m) /\ d' = dist'
    /\ members' = [i \in DOMAIN m |-> {i}]
    /\ cidx' = [i \in DOMAIN m |-> i]
    /\ nnidx' = [i \in DOMAIN m |-> FirstLeast(DOMAIN m \ {i}, dist'[i])]
    /\ step' = IF Cardinality(DOMAIN m) = 1 THEN "report" ELSE "merge"
    /\ UNCHANGED <<z, mergedist, span, cut>>

\* The program ends.
Forget ==
    /\ dist' = <<>> /\ d' = <<>> /\ members' = <<>> /\ cidx' = <<>> /\ nnidx' = <<>>
    /\ z' = <<>> /\ mergedist' = <<>> /\ span' = <<>>
    /\ k' = 0 /\ present' = {} /\ tmpidx' = <<>> /\ cz' = <<>> /\ out' = <<>> /\ r' = 0
    /\ step' = "idle"

-----------------------------------------------------------------------------
(* clusterizerrunahcinternal *)

\* Mutant of Closest: the first row in use is merged with its neighbour.
ClosestFirst == CHOOSE i \in Active : \A j \in Active : i <= j

\* The first row whose nearest neighbour is nearest of all.
Closest == FirstLeast(Active, [i \in Active |-> d[i][nnidx[i]]])

Linked(i, c0, c1) == IF d[i][c0] >= d[i][c1] THEN d[i][c0] ELSE d[i][c1]

MergeRows(c0, c1) ==
    [i \in Rows |->
        IF i = c0 THEN [j \in Rows |-> IF j \notin {c0, c1} THEN Linked(j, c0, c1) ELSE d[i][j]]
        ELSE IF i = c1 THEN d[i]
        ELSE [d[i] EXCEPT ![c0] = Linked(i, c0, c1)]]

\* Mutant: neighbours of a merged row are never searched again, as if every
\* linkage were single linkage.
NearestReused(i, c0, c1, dm) ==
    IF i \notin Active \ {c1} THEN nnidx[i]
    ELSE IF i = c0 THEN FirstLeast(Active \ {c1, i}, dm[i])
    ELSE IF nnidx[i] \in {c0, c1} THEN c0
    ELSE nnidx[i]

\* A row whose nearest neighbour took part in the merge is searched again.
Nearest(i, c0, c1, dm) ==
    IF i \notin Active \ {c1} THEN nnidx[i]
    ELSE IF i = c0 THEN FirstLeast(Active \ {c1, i}, dm[i])
    ELSE IF nnidx[i] \in {c0, c1}
         THEN FirstLeast(Active \ {c1, i}, dm[i])
    ELSE nnidx[i]

\* One merge: the cluster with the lower number keeps its row.
Merge ==
    /\ step = "merge"
    /\ \E i \in {Closest} :
       LET j  == nnidx[i]
           c0 == IF cidx[i] > cidx[j] THEN j ELSE i
           c1 == IF cidx[i] > cidx[j] THEN i ELSE j
       IN  /\ z' = Append(z, <<cidx[c0], cidx[c1]>>)
           /\ mergedist' = Append(mergedist, d[i][j])
           /\ d' = MergeRows(c0, c1)
           /\ cidx' = [cidx EXCEPT ![c0] = npoints + Len(z), ![c1] = -1]
           /\ members' = [members EXCEPT ![c0] = members[c0] \cup members[c1], ![c1] = {}]
           /\ nnidx' = [x \in Rows |-> Nearest(x, c0, c1, d')]
    /\ step' = IF Len(z') = npoints - 1 THEN "layout" ELSE "merge"
    /\ UNCHANGED <<dist, span, cut>>

Clusters == 0..2 * npoints - 2

\* CInfo[.,0], the sizes of the clusters, merges replayed first to last.
Size ==
    LET s[c \in Clusters] ==
            IF c < npoints THEN 1 ELSE s[z[c - npoints + 1][1]] + s[z[c - npoints + 1][2]]
    IN  s

\* The merge that consumed cluster c.
MergeOf(c) == CHOOSE m \in DOMAIN z : c \in {z[m][1], z[m][2]}

\* CInfo[.,1..2], the positions of the clusters, last merge to first: the
\* first half at the left end of the whole, the second at the right end.
Spans ==
    LET s[c \in Clusters] ==
            IF c = 2 * npoints - 2 THEN <<0, npoints - 1>>
            ELSE LET whole == s[npoints + MergeOf(c) - 1]
                 IN  IF z[MergeOf(c)][1] = c
                       THEN <<whole[1], whole[1] + Size[c] - 1>>
                       ELSE <<whole[2] - (Size[c] - 1), whole[2]>>
    IN  s

\* Rep.P and Rep.PM are read off the spans.
Layout ==
    /\ step = "layout"
    /\ span' = Spans
    /\ step' = "report"
    /\ UNCHANGED <<ahc, cut>>

P(i)     == span[i][1]
PM(m, h) == span[z[m][h]][1]..span[z[m][h]][2]

-----------------------------------------------------------------------------
(* clusterizerseparatedbydist and clusterizergetkclusters *)

\* The loop of separatedbydist goes on after n clusters.
Splits(n, radius) == n < npoints /\ mergedist[npoints - n] >= radius

\* The number of clusters, and the dendrogram's root as the only cluster.
SeparatedByDist(radius) ==
    /\ step = "report"
    /\ r' = radius
    /\ k' = CHOOSE n \in 1..npoints :
                ~Splits(n, radius) /\ \A l \in 1..n - 1 : Splits(l, radius)
    /\ present' = {2 * npoints - 2}
    /\ tmpidx' = [i \in Rows |-> 2 * npoints - 2]
    /\ step' = "split"
    /\ UNCHANGED <<ahc, span, cz, out>>

\* Replay of one merge, from the last one down.
Split ==
    /\ step = "split" /\ Cardinality(present) < k
    /\ \E m \in {npoints - Cardinality(present)} :
       /\ present' = (present \ {npoints + m - 1}) \cup {z[m][1], z[m][2]}
       /\ tmpidx' = [i \in Rows |-> IF i \in PM(m, 2) THEN z[m][2]
                                    ELSE IF i \in PM(m, 1) THEN z[m][1]
                                    ELSE tmpidx[i]]
    /\ UNCHANGED <<ahc, span, k, cz, out, r, step>>

\* Mutant of GetK: the points are read by number, not by position.
GetKUnmapped ==
    /\ step = "split" /\ Cardinality(present) = k
    /\ cz' = [c \in present |-> Cardinality({e \in present : e < c})]
    /\ out' = [i \in Rows |-> cz'[tmpidx[i]]]
    /\ step' = "done"
    /\ UNCHANGED <<ahc, span, k, present, tmpidx, r>>

\* The clusters present are numbered in increasing order; a point is found at
\* the position that Rep.P gives it.  cz is kept as its inverse.
GetK ==
    /\ step = "split" /\ Cardinality(present) = k
    /\ cz' = [c \in present |-> Cardinality({e \in present : e < c})]
    /\ out' = [i \in Rows |-> cz'[tmpidx[IF npoints = 1 THEN i ELSE P(i)]]]
    /\ step' = "done"
    /\ UNCHANGED <<ahc, span, k, present, tmpidx, r>>

AhcNext == Merge \/ Layout \/ Split \/ GetK \/ \E radius \in Radii : SeparatedByDist(radius)

-----------------------------------------------------------------------------
(* Properties *)

\* The arrays, and the numbers of clusters, rows and positions in them.
AhcTypeOK ==
    /\ d \in [Rows -> [Rows -> Nat]]
    /\ members \in [Rows -> SUBSET Rows]
    /\ cidx \in [Rows -> -1..2 * npoints - 2]
    /\ nnidx \in [Rows -> -1..npoints - 1]
    /\ z \in Seq((0..2 * npoints - 3) \X (0..2 * npoints - 3))
    /\ Len(mergedist) = Len(z)

\* The cached neighbours are exact: of the rows still in use, none is nearer
\* than the one nnidx names, although a merge searches only the rows whose
\* neighbour took part in it.  Only the last cluster has none.
NearestKept ==
    \A i \in Active :
        IF Active = {i} THEN npoints = 1 \/ nnidx[i] = -1
        ELSE /\ nnidx[i] \in Active \ {i}
             /\ \A j \in Active \ {i} : d[i][nnidx[i]] <= d[i][j]

\* The clusterizer computes what agglomerative clustering is defined to be:
\* each of its steps merges two clusters whose linkage distance, taken from
\* the distances of the points, is least.
Tree == INSTANCE Linkage WITH
    metric <- dist,
    clusters <- {members[i] : i \in Active},
    merges <- mergedist

IsAgglomerative == Tree!Spec

\* The points of a cluster number, from the merges alone.
PointsOf ==
    LET s[c \in Clusters] ==
            IF c < npoints THEN {c} ELSE s[z[c - npoints + 1][1]] \cup s[z[c - npoints + 1][2]]
    IN  s

Class(n) == {i \in Rows : out[i] = n}

\* Every class returned is the cluster of the tree that cz names, found through
\* the positions of its points; there are k of them, two classes are r or more
\* apart, and two points of a class are closer than r.
ClassesAreClusters ==
    step = "done" =>
        /\ {out[i] : i \in Rows} = 0..k - 1
        /\ \A c \in present : Class(cz[c]) = PointsOf[c]
        /\ \A a, b \in 0..k - 1 : a # b => \E x \in Class(a), y \in Class(b) : dist[x][y] >= r
        /\ \A x, y \in Rows : out[x] = out[y] /\ x # y => dist[x][y] < r
=============================================================================
