------------------------- MODULE Clusterizer_proofs -------------------------
(***************************************************************************)
(* Proofs about the clusterizer, for any number of points, distances and    *)
(* radii: the rows that are merged, the tree of the merges and the classes  *)
(* that are cut out of it.                                                  *)
(***************************************************************************)
EXTENDS Clusterizer, DataLemmas

-----------------------------------------------------------------------------
(* The rows *)

\* FirstLeast finds a least value.
LEMMA FirstLeastIs ==
    ASSUME NEW S, S \subseteq Nat, S # {}, NEW f, \A x \in S : f[x] \in Nat
    PROVE  FirstLeast(S, f) \in S /\ \A y \in S : f[FirstLeast(S, f)] <= f[y]
<1>1. \E x \in S : \A y \in S : f[x] < f[y] \/ (f[x] = f[y] /\ x <= y)
  BY FirstOfLeast
<1>2. /\ FirstLeast(S, f) \in S
      /\ \A y \in S : \/ f[FirstLeast(S, f)] < f[y]
                      \/ f[FirstLeast(S, f)] = f[y] /\ FirstLeast(S, f) <= y
  BY <1>1 DEF FirstLeast
<1>3. f[FirstLeast(S, f)] \in Nat
  BY <1>2
<1>4. ASSUME NEW y \in S PROVE f[FirstLeast(S, f)] <= f[y]
  <2>1. f[y] \in Nat
    OBVIOUS
  <2>2. f[FirstLeast(S, f)] < f[y] \/ f[FirstLeast(S, f)] = f[y]
    BY <1>2
  <2>3. QED BY <2>1, <2>2, <1>3
<1>5. QED BY <1>2, <1>4

\* The farthest points of A and B are v apart.
LinkedBy(A, B, v) ==
    /\ \E x \in A, y \in B : dist[x][y] = v
    /\ \A x \in A, y \in B : dist[x][y] <= v

\* The distances that were set.
DistInv ==
    /\ npoints \in Nat /\ DOMAIN dist = Rows
    /\ dist \in [Rows -> [Rows -> Nat]]
    /\ \A x, y \in Rows : dist[x][y] = dist[y][x]

\* The rows in use are disjoint clusters, numbered apart, and the matrix holds
\* their linkage distances.
RowInv ==
    /\ AhcTypeOK /\ mergedist \in Seq(Nat)
    /\ Cardinality(Active) = npoints - Len(z)
    /\ \A i \in Active : members[i] # {} /\ cidx[i] < npoints + Len(z)
    /\ \A i, j \in Active : i # j =>
          /\ cidx[i] # cidx[j] /\ members[i] \cap members[j] = {}
          /\ d[i][j] = d[j][i] /\ LinkedBy(members[i], members[j], d[i][j])

\* What each step of clusterizerrunahc relies on.
StepInv ==
    /\ step \in {"idle", "merge", "layout", "report", "split", "done", "test"}
    /\ step = "idle" => npoints = 0 /\ z = <<>> /\ mergedist = <<>>
    /\ step = "merge" => Len(z) < npoints - 1
    /\ step \notin {"idle", "merge"} => Len(z) = npoints - 1

\* The inductive invariant of the clusterizer.
AhcInv == DistInv /\ RowInv /\ NearestKept /\ StepInv

\* Nothing that the invariant is about changes, but for the step.
LEMMA AhcFrame ==
    ASSUME AhcInv, UNCHANGED ahc, StepInv'
    PROVE  AhcInv'
<1>1. dist' = dist /\ d' = d /\ members' = members /\ cidx' = cidx /\ nnidx' = nnidx
      /\ z' = z /\ mergedist' = mergedist
  BY DEF ahc
<1>2. npoints' = npoints /\ Rows' = Rows /\ Active' = Active
  BY <1>1 DEF npoints, Rows, Active
<1>3. DistInv'
  BY <1>1, <1>2 DEF AhcInv, DistInv
<1>4. AhcTypeOK'
  BY <1>1, <1>2 DEF AhcInv, RowInv, AhcTypeOK
<1>5. RowInv'
  BY <1>1, <1>2, <1>4 DEF AhcInv, RowInv, LinkedBy
<1>6. NearestKept'
  BY <1>1, <1>2 DEF AhcInv, NearestKept
<1>7. QED BY <1>3, <1>5, <1>6 DEF AhcInv

\* The rows are cleared, as at the start.
LEMMA AhcEmpty ==
    ASSUME dist = <<>>, d = <<>>, members = <<>>, cidx = <<>>, nnidx = <<>>,
           z = <<>>, mergedist = <<>>, step = "idle"
    PROVE  AhcInv /\ {members[i] : i \in Active} = {}
<1>1. npoints = 0 /\ Rows = {} /\ Active = {}
  <2>1. DOMAIN dist = {}
    OBVIOUS
  <2>2. npoints = 0
    BY <2>1, FS_EmptySet DEF npoints
  <2>3. QED BY <2>2 DEF Rows, Active
<1>2. DistInv
  BY <1>1 DEF DistInv
<1>3. AhcTypeOK
  BY <1>1 DEF AhcTypeOK
<1>4. RowInv
  BY <1>1, <1>3, FS_EmptySet DEF RowInv
<1>5. NearestKept /\ StepInv
  BY <1>1 DEF NearestKept, StepInv
<1>6. QED BY <1>1, <1>2, <1>4, <1>5 DEF AhcInv

\* Facts about the matrix that the steps need.
LEMMA RowFacts ==
    ASSUME AhcInv
    PROVE  /\ npoints \in Nat /\ Rows \subseteq Nat /\ Active \subseteq Rows
           /\ \A i, j \in Rows : d[i][j] \in Nat
           /\ IsFiniteSet(Rows) /\ IsFiniteSet(Active)
           /\ z \in Seq((0..2 * npoints - 3) \X (0..2 * npoints - 3)) /\ Len(z) \in Nat
<1>1. npoints \in Nat
  BY DEF AhcInv, DistInv
<1>2. Rows \subseteq Nat /\ Active \subseteq Rows
  BY <1>1 DEF Rows, Active
<1>3. IsFiniteSet(Rows)
  <2>1. 0 \in Int /\ npoints - 1 \in Int
    BY <1>1
  <2>2. QED BY <2>1, FS_Interval DEF Rows
<1>4. IsFiniteSet(Active)
  BY <1>2, <1>3, FS_Subset
<1>5. QED BY <1>1, <1>2, <1>3, <1>4 DEF AhcInv, RowInv, AhcTypeOK

\* Two rows in use, no two of which are nearer to each other, are merged.
LEMMA MergeStep ==
    ASSUME AhcInv, Merge
    PROVE  \E c0, c1 \in Active :
              /\ c0 # c1
              /\ \A i, j \in Active : i # j => d[c0][c1] <= d[i][j]
              /\ z' = Append(z, <<cidx[c0], cidx[c1]>>)
              /\ mergedist' = Append(mergedist, d[c0][c1])
              /\ d' = MergeRows(c0, c1)
              /\ cidx' = [cidx EXCEPT ![c0] = npoints + Len(z), ![c1] = -1]
              /\ members' = [members EXCEPT ![c0] = members[c0] \cup members[c1], ![c1] = {}]
              /\ nnidx' = [x \in Rows |-> Nearest(x, c0, c1, d')]
<1>0. /\ npoints \in Nat /\ Rows \subseteq Nat /\ Active \subseteq Rows /\ Len(z) \in Nat
      /\ \A i, j \in Rows : d[i][j] \in Nat
  BY RowFacts
<1>1. Len(z) < npoints - 1 /\ Cardinality(Active) = npoints - Len(z)
  BY DEF Merge, AhcInv, StepInv, RowInv
<1>2. ASSUME NEW i \in Active
      PROVE  nnidx[i] \in Active \ {i} /\ \A j \in Active \ {i} : d[i][nnidx[i]] <= d[i][j]
  <2>1. Active # {i}
    <3>1. Cardinality(Active) # 1
      BY <1>1, <1>0
    <3>2. QED BY <3>1, FS_Singleton
  <2>2. QED BY <2>1 DEF AhcInv, NearestKept
<1> DEFINE g == [i \in Active |-> d[i][nnidx[i]]]
<1>3. \A i \in Active : g[i] = d[i][nnidx[i]] /\ g[i] \in Nat
  BY <1>2, <1>0
<1>4. Active \subseteq Nat /\ Active # {}
  <2>1. Cardinality(Active) # 0
    BY <1>1, <1>0
  <2>2. Active # {}
    BY <2>1, FS_EmptySet
  <2>3. QED BY <2>2, <1>0
<1>5. Closest = FirstLeast(Active, g)
  BY DEF Closest
<1>6. Closest \in Active /\ \A y \in Active : g[Closest] <= g[y]
  <2> HIDE DEF g
  <2>1. QED BY <1>3, <1>4, <1>5, FirstLeastIs
<1> DEFINE i == Closest
           j == nnidx[i]
<1>7. i \in Active /\ j \in Active /\ i # j /\ d[i][j] = d[j][i] /\ d[i][j] \in Nat
  BY <1>6, <1>2, <1>0 DEF AhcInv, RowInv
<1>8. ASSUME NEW x \in Active, NEW y \in Active, x # y PROVE d[i][j] <= d[x][y]
  <2>1. d[i][j] <= d[x][nnidx[x]]
    BY <1>6, <1>3
  <2>2. d[x][nnidx[x]] <= d[x][y] /\ nnidx[x] \in Active
    BY <1>2, <1>8
  <2>3. d[i][j] \in Nat /\ d[x][nnidx[x]] \in Nat /\ d[x][y] \in Nat
    BY <1>7, <1>0, <2>2
  <2>4. QED BY <2>1, <2>2, <2>3
<1> DEFINE c0 == IF cidx[i] > cidx[j] THEN j ELSE i
           c1 == IF cidx[i] > cidx[j] THEN i ELSE j
<1>9. /\ z' = Append(z, <<cidx[c0], cidx[c1]>>)
      /\ mergedist' = Append(mergedist, d[i][j])
      /\ d' = MergeRows(c0, c1)
      /\ cidx' = [cidx EXCEPT ![c0] = npoints + Len(z), ![c1] = -1]
      /\ members' = [members EXCEPT ![c0] = members[c0] \cup members[c1], ![c1] = {}]
      /\ nnidx' = [x \in Rows |-> Nearest(x, c0, c1, d')]
  BY DEF Merge
<1>10. c0 \in Active /\ c1 \in Active /\ c0 # c1 /\ d[c0][c1] = d[i][j]
  BY <1>7
<1> HIDE DEF i, j, c0, c1
<1>11. \A x, y \in Active : x # y => d[c0][c1] <= d[x][y]
  BY <1>8, <1>10
<1>12. QED BY <1>9, <1>10, <1>11

\* The row of the merged cluster holds the larger of two distances, the rest
\* of the matrix is kept.
LEMMA MergeRowsCells ==
    ASSUME AhcInv, NEW c0 \in Active, NEW c1 \in Active, c0 # c1
    PROVE  /\ MergeRows(c0, c1) \in [Rows -> [Rows -> Nat]]
           /\ \A i \in Rows \ {c0, c1} :
                 /\ MergeRows(c0, c1)[i][c0] = Linked(i, c0, c1)
                 /\ MergeRows(c0, c1)[c0][i] = Linked(i, c0, c1)
                 /\ \A j \in Rows \ {c0, c1} : MergeRows(c0, c1)[i][j] = d[i][j]
           /\ \A i \in Rows :
                 /\ Linked(i, c0, c1) \in {d[i][c0], d[i][c1]}
                 /\ d[i][c0] <= Linked(i, c0, c1) /\ d[i][c1] <= Linked(i, c0, c1)
<1>0. /\ c0 \in Rows /\ c1 \in Rows /\ d \in [Rows -> [Rows -> Nat]]
  BY RowFacts DEF AhcInv, RowInv, AhcTypeOK
<1>1. ASSUME NEW i \in Rows
      PROVE  /\ Linked(i, c0, c1) \in {d[i][c0], d[i][c1]} /\ Linked(i, c0, c1) \in Nat
             /\ d[i][c0] <= Linked(i, c0, c1) /\ d[i][c1] <= Linked(i, c0, c1)
  <2>1. d[i][c0] \in Nat /\ d[i][c1] \in Nat
    BY <1>0
  <2>2. QED BY <2>1 DEF Linked
<1>2. ASSUME NEW i \in Rows
      PROVE  MergeRows(c0, c1)[i] = IF i = c0 THEN [j \in Rows |-> IF j \notin {c0, c1} THEN Linked(j, c0, c1) ELSE d[i][j]]
                                    ELSE IF i = c1 THEN d[i]
                                    ELSE [d[i] EXCEPT ![c0] = Linked(i, c0, c1)]
  BY DEF MergeRows
<1>3. ASSUME NEW i \in Rows
      PROVE  MergeRows(c0, c1)[i] \in [Rows -> Nat]
  <2>1. CASE i = c0
    <3>1. \A j \in Rows : Linked(j, c0, c1) \in Nat /\ d[i][j] \in Nat
      BY <1>1, <1>0
    <3>2. MergeRows(c0, c1)[i] = [j \in Rows |-> IF j \notin {c0, c1} THEN Linked(j, c0, c1) ELSE d[i][j]]
      BY <2>1, <1>2
    <3>3. QED BY <3>1, <3>2
  <2>2. CASE i = c1
    BY <2>2, <1>2, <1>0
  <2>3. CASE i \notin {c0, c1}
    <3>1. Linked(i, c0, c1) \in Nat /\ d[i] \in [Rows -> Nat]
      BY <1>1, <1>0
    <3>2. MergeRows(c0, c1)[i] = [d[i] EXCEPT ![c0] = Linked(i, c0, c1)]
      BY <2>3, <1>2
    <3>3. QED BY <3>1, <3>2
  <2>4. QED BY <2>1, <2>2, <2>3
<1>4. MergeRows(c0, c1) \in [Rows -> [Rows -> Nat]]
  <2>1. MergeRows(c0, c1) = [i \in Rows |-> MergeRows(c0, c1)[i]]
    BY DEF MergeRows
  <2>2. QED BY <2>1, <1>3
<1>5. ASSUME NEW i \in Rows \ {c0, c1}
      PROVE  /\ MergeRows(c0, c1)[i][c0] = Linked(i, c0, c1)
             /\ MergeRows(c0, c1)[c0][i] = Linked(i, c0, c1)
             /\ \A j \in Rows \ {c0, c1} : MergeRows(c0, c1)[i][j] = d[i][j]
  <2>1. MergeRows(c0, c1)[i] = [d[i] EXCEPT ![c0] = Linked(i, c0, c1)]
    BY <1>2
  <2>2. MergeRows(c0, c1)[c0] = [j \in Rows |-> IF j \notin {c0, c1} THEN Linked(j, c0, c1) ELSE d[c0][j]]
    BY <1>2, <1>0
  <2>3. MergeRows(c0, c1)[c0][i] = Linked(i, c0, c1)
    BY <2>2
  <2>4. d[i] \in [Rows -> Nat]
    BY <1>0
  <2>5. QED BY <2>1, <2>3, <2>4, <1>0
<1>6. QED BY <1>1, <1>4, <1>5

\* The linkage distance to a union is the larger of the two.
LEMMA LinkUnion ==
    ASSUME NEW A, NEW B, NEW C, NEW v \in Nat, NEW w \in Nat, NEW u \in Nat, u \in {v, w}, v <= u, w <= u,
           \A x \in A \cup B \cup C, y \in A \cup B \cup C : dist[x][y] \in Nat /\ dist[x][y] = dist[y][x],
           LinkedBy(C, A, v), LinkedBy(C, B, w)
    PROVE  LinkedBy(C, A \cup B, u) /\ LinkedBy(A \cup B, C, u)
<1>1. \A x \in C, y \in A : dist[x][y] <= u
  BY DEF LinkedBy
<1>2. \A x \in C, y \in B : dist[x][y] <= u
  BY DEF LinkedBy
<1>3. \E x \in C, y \in A \cup B : dist[x][y] = u
  BY DEF LinkedBy
<1>4. LinkedBy(C, A \cup B, u)
  BY <1>1, <1>2, <1>3 DEF LinkedBy
<1>5. LinkedBy(A \cup B, C, u)
  <2>1. \E x \in A \cup B, y \in C : dist[x][y] = u
    BY <1>3
  <2>2. \A x \in A \cup B, y \in C : dist[x][y] <= u
    BY <1>1, <1>2
  <2>3. QED BY <2>1, <2>2 DEF LinkedBy
<1>6. QED BY <1>4, <1>5

\* A merge keeps the invariant.
LEMMA MergeInv ==
    ASSUME AhcInv, Merge
    PROVE  AhcInv' /\ Tree!Next
<1>0. /\ npoints \in Nat /\ Rows \subseteq Nat /\ Active \subseteq Rows /\ Len(z) \in Nat
      /\ \A i, j \in Rows : d[i][j] \in Nat
      /\ IsFiniteSet(Rows) /\ IsFiniteSet(Active)
      /\ z \in Seq((0..2 * npoints - 3) \X (0..2 * npoints - 3))
  BY RowFacts
<1>1. PICK c0 \in Active, c1 \in Active :
              /\ c0 # c1
              /\ \A i, j \in Active : i # j => d[c0][c1] <= d[i][j]
              /\ z' = Append(z, <<cidx[c0], cidx[c1]>>)
              /\ mergedist' = Append(mergedist, d[c0][c1])
              /\ d' = MergeRows(c0, c1)
              /\ cidx' = [cidx EXCEPT ![c0] = npoints + Len(z), ![c1] = -1]
              /\ members' = [members EXCEPT ![c0] = members[c0] \cup members[c1], ![c1] = {}]
              /\ nnidx' = [x \in Rows |-> Nearest(x, c0, c1, d')]
  BY MergeStep
<1>2. /\ dist' = dist /\ npoints' = npoints /\ Rows' = Rows
      /\ step' = IF Len(z') = npoints - 1 THEN "layout" ELSE "merge"
      /\ Len(z) < npoints - 1
  BY DEF Merge, npoints, Rows, AhcInv, StepInv
<1>3. /\ AhcTypeOK /\ mergedist \in Seq(Nat) /\ Cardinality(Active) = npoints - Len(z)
      /\ \A i \in Active : members[i] # {} /\ cidx[i] < npoints + Len(z)
      /\ \A i, j \in Active : i # j =>
            /\ cidx[i] # cidx[j] /\ members[i] \cap members[j] = {}
            /\ d[i][j] = d[j][i] /\ LinkedBy(members[i], members[j], d[i][j])
  BY DEF AhcInv, RowInv
<1>4. /\ members \in [Rows -> SUBSET Rows] /\ cidx \in [Rows -> -1..2 * npoints - 2]
      /\ nnidx \in [Rows -> -1..npoints - 1] /\ Len(mergedist) = Len(z)
  BY <1>3 DEF AhcTypeOK
<1>5. /\ c0 \in Rows /\ c1 \in Rows
      /\ cidx'[c0] = npoints + Len(z) /\ cidx'[c1] = -1
      /\ members'[c0] = members[c0] \cup members[c1] /\ members'[c1] = {}
      /\ \A i \in Rows \ {c0, c1} : cidx'[i] = cidx[i] /\ members'[i] = members[i]
  BY <1>0, <1>1, <1>4
<1>6. Active' = Active \ {c1} /\ c0 \in Active'
  <2>1. \A i \in Rows : cidx'[i] >= 0 <=> i # c1 /\ cidx[i] >= 0
    <3> TAKE i \in Rows
    <3>1. CASE i = c0
      BY <3>1, <1>5, <1>0, <1>1 DEF Active
    <3>2. CASE i = c1
      BY <3>2, <1>5
    <3>3. CASE i \notin {c0, c1}
      BY <3>3, <1>5
    <3>4. QED BY <3>1, <3>2, <3>3
  <2>2. Active' = {i \in Rows : cidx'[i] >= 0}
    BY <1>2 DEF Active
  <2>3. QED BY <2>1, <2>2, <1>1 DEF Active
<1>7. /\ d' \in [Rows -> [Rows -> Nat]]
      /\ \A i \in Rows \ {c0, c1} :
            /\ d'[i][c0] = Linked(i, c0, c1) /\ d'[c0][i] = Linked(i, c0, c1)
            /\ \A j \in Rows \ {c0, c1} : d'[i][j] = d[i][j]
      /\ \A i \in Rows :
            /\ Linked(i, c0, c1) \in {d[i][c0], d[i][c1]}
            /\ d[i][c0] <= Linked(i, c0, c1) /\ d[i][c1] <= Linked(i, c0, c1)
  BY <1>1, MergeRowsCells
<1>8. DistInv'
  BY <1>2 DEF AhcInv, DistInv
<1> DEFINE Others(x) == Active \ {c1, x}
           Found(x)  == FirstLeast(Others(x), d'[x])
<1>91. ASSUME NEW x \in Rows
       PROVE  /\ Others(x) = {} => Found(x) = -1
              /\ Others(x) # {} => Found(x) \in Others(x) /\ \A y \in Others(x) : d'[x][Found(x)] <= d'[x][y]
  <2>1. Others(x) \subseteq Rows /\ \A y \in Rows : d'[x][y] \in Nat
    BY <1>0, <1>7
  <2>2. CASE Others(x) = {}
    BY <2>2 DEF FirstLeast
  <2>3. CASE Others(x) # {}
    <3> HIDE DEF Others
    <3>1. Others(x) \subseteq Nat /\ \A y \in Others(x) : d'[x][y] \in Nat
      BY <2>1, <1>0
    <3>2. QED BY <3>1, <2>3, FirstLeastIs
  <2>4. QED BY <2>2, <2>3
<1>92. ASSUME NEW x \in Rows
       PROVE  nnidx'[x] = IF x \notin Active \ {c1} THEN nnidx[x]
                          ELSE IF x = c0 \/ nnidx[x] \in {c0, c1} THEN Found(x)
                          ELSE nnidx[x]
  BY <1>1 DEF Nearest
<1> HIDE DEF Found
<1>9. AhcTypeOK' /\ mergedist' \in Seq(Nat) /\ Len(z') = Len(z) + 1
  <2>1. members' \in [Rows -> SUBSET Rows]
    BY <1>1, <1>4, <1>5
  <2>2. cidx' \in [Rows -> -1..2 * npoints - 2]
    <3>1. npoints + Len(z) \in -1..2 * npoints - 2 /\ -1 \in -1..2 * npoints - 2
      BY <1>0, <1>2
    <3>2. QED BY <3>1, <1>1, <1>4
  <2>3. nnidx' \in [Rows -> -1..npoints - 1]
    <3>1. ASSUME NEW x \in Rows PROVE nnidx'[x] \in -1..npoints - 1
      <4>1. Found(x) \in -1..npoints - 1
        <5>1. Found(x) \in Rows \cup {-1}
          BY <1>91, <1>0
        <5>2. QED BY <5>1, <1>0 DEF Rows
      <4>2. nnidx[x] \in -1..npoints - 1
        BY <1>4
      <4>3. QED BY <4>1, <4>2, <1>92
    <3>2. nnidx' = [x \in Rows |-> nnidx'[x]]
      BY <1>1
    <3>3. QED BY <3>1, <3>2
  <2>4. cidx[c0] \in 0..2 * npoints - 3 /\ cidx[c1] \in 0..2 * npoints - 3
    <3>1. cidx[c0] \in Int /\ cidx[c1] \in Int /\ cidx[c0] >= 0 /\ cidx[c1] >= 0
      BY <1>4, <1>5, <1>1 DEF Active
    <3>2. QED BY <3>1, <1>3, <1>1, <1>0, <1>2
  <2>5. z' \in Seq((0..2 * npoints - 3) \X (0..2 * npoints - 3)) /\ Len(z') = Len(z) + 1
    BY <2>4, <1>1, <1>0
  <2>6. mergedist' \in Seq(Nat) /\ Len(mergedist') = Len(mergedist) + 1
    <3>1. d[c0][c1] \in Nat
      BY <1>0, <1>5
    <3>2. QED BY <3>1, <1>1, <1>3
  <2>7. QED BY <2>1, <2>2, <2>3, <2>5, <2>6, <1>2, <1>4, <1>7 DEF AhcTypeOK
<1>10. RowInv'
  <2>1. Cardinality(Active') = npoints' - Len(z')
    <3>1. Cardinality(Active \ {c1}) = Cardinality(Active) - 1
      BY <1>0, <1>1, FS_RemoveElement
    <3>2. QED BY <3>1, <1>6, <1>3, <1>9, <1>2, <1>0
  <2>2. ASSUME NEW i \in Active' PROVE members'[i] # {} /\ cidx'[i] < npoints' + Len(z')
    <3>0. i \in Active /\ i # c1 /\ i \in Rows
      BY <1>6, <1>0
    <3>1. CASE i = c0
      BY <3>1, <1>5, <1>3, <1>9, <1>2, <1>0, <1>1
    <3>2. CASE i # c0
      <4>1. cidx'[i] = cidx[i] /\ members'[i] = members[i] /\ cidx[i] \in Int /\ cidx[i] < npoints + Len(z) /\ members[i] # {}
        BY <3>2, <3>0, <1>5, <1>3, <1>4
      <4>2. QED BY <4>1, <1>9, <1>2, <1>0
    <3>3. QED BY <3>1, <3>2
  <2>3. ASSUME NEW i \in Active' \ {c0}
        PROVE  /\ cidx'[i] # cidx'[c0]
               /\ members'[i] \cap members'[c0] = {}
               /\ d'[i][c0] = d'[c0][i]
               /\ LinkedBy(members'[i], members'[c0], d'[i][c0]) /\ LinkedBy(members'[c0], members'[i], d'[c0][i])
    <3>0. i \in Active /\ i # c1 /\ i \in Rows /\ i # c0
      BY <1>6, <1>0
    <3>1. cidx'[i] # cidx'[c0]
      <4>1. cidx[i] < npoints + Len(z) /\ cidx[i] \in Int
        BY <3>0, <1>3, <1>4
      <4>2. QED BY <4>1, <1>5, <3>0, <1>0
    <3>2. /\ members'[i] = members[i] /\ members'[c0] = members[c0] \cup members[c1]
          /\ d'[i][c0] = Linked(i, c0, c1) /\ d'[c0][i] = Linked(i, c0, c1)
      BY <1>5, <1>7, <3>0
    <3>3. members[i] \cap members[c0] = {} /\ members[i] \cap members[c1] = {}
      BY <1>3, <3>0, <1>1
    <3>4. LinkedBy(members[i], members[c0], d[i][c0]) /\ LinkedBy(members[i], members[c1], d[i][c1])
      BY <1>3, <3>0, <1>1
    <3>5. /\ members[i] \subseteq Rows /\ members[c0] \subseteq Rows /\ members[c1] \subseteq Rows
      BY <1>4, <3>0, <1>5
    <3>6. \A x, y \in Rows : dist[x][y] \in Nat /\ dist[x][y] = dist[y][x]
      BY DEF AhcInv, DistInv
    <3> DEFINE A == members[c0]
               B == members[c1]
               C == members[i]
               u == Linked(i, c0, c1)
               v == d[i][c0]
               w == d[i][c1]
    <3>7. u \in Nat /\ v \in Nat /\ w \in Nat /\ u \in {v, w} /\ v <= u /\ w <= u
      BY <1>7, <1>0, <3>0, <1>5
    <3>8. \A x \in A \cup B \cup C, y \in A \cup B \cup C : dist[x][y] \in Nat /\ dist[x][y] = dist[y][x]
      BY <3>5, <3>6
    <3>9. LinkedBy(C, A \cup B, u) /\ LinkedBy(A \cup B, C, u)
      <4>1. LinkedBy(C, A, v) /\ LinkedBy(C, B, w)
        BY <3>4
      <4> HIDE DEF A, B, C, u, v, w
      <4>2. QED BY <4>1, <3>7, <3>8, LinkUnion
    <3>10. QED BY <3>1, <3>2, <3>3, <3>9
  <2>4. ASSUME NEW i \in Active' \ {c0}, NEW j \in Active' \ {c0}, i # j
        PROVE  /\ cidx'[i] # cidx'[j]
               /\ members'[i] \cap members'[j] = {}
               /\ d'[i][j] = d'[j][i]
               /\ LinkedBy(members'[i], members'[j], d'[i][j])
    <3>0. i \in Active \ {c0, c1} /\ j \in Active \ {c0, c1} /\ i \in Rows /\ j \in Rows
      BY <1>6, <1>0
    <3>1. /\ members'[i] = members[i] /\ members'[j] = members[j]
          /\ cidx'[i] = cidx[i] /\ cidx'[j] = cidx[j]
          /\ d'[i][j] = d[i][j] /\ d'[j][i] = d[j][i]
      BY <3>0, <1>5, <1>7
    <3>2. QED BY <3>0, <3>1, <1>3, <2>4
  <2>5. ASSUME NEW i \in Active', NEW j \in Active', i # j
        PROVE  /\ cidx'[i] # cidx'[j]
               /\ members'[i] \cap members'[j] = {}
               /\ d'[i][j] = d'[j][i]
               /\ LinkedBy(members'[i], members'[j], d'[i][j])
    <3>1. CASE i = c0
      BY <3>1, <2>3, <2>5
    <3>2. CASE j = c0
      BY <3>2, <2>3, <2>5
    <3>3. CASE i # c0 /\ j # c0
      BY <3>3, <2>4, <2>5
    <3>4. QED BY <3>1, <3>2, <3>3
  <2>6. \A i, j \in Active' : i # j =>
            /\ cidx'[i] # cidx'[j] /\ members'[i] \cap members'[j] = {}
            /\ d'[i][j] = d'[j][i] /\ LinkedBy(members[i], members[j], d[i][j])'
    BY <2>5, <1>2 DEF LinkedBy
  <2>7. QED BY <2>1, <2>2, <2>6, <1>9 DEF RowInv
<1>11. NearestKept'
  <2>1. ASSUME NEW i \in Active', Active' = {i} PROVE nnidx'[i] = -1
    <3>1. i = c0 /\ i \in Rows /\ Others(i) = {}
      BY <2>1, <1>6, <1>0
    <3>2. QED BY <3>1, <1>91, <1>92, <1>6
  <2>2. ASSUME NEW i \in Active', Active' # {i}
        PROVE  /\ nnidx'[i] \in Active' \ {i}
               /\ \A j \in Active' \ {i} : d'[i][nnidx'[i]] <= d'[i][j]
    <3>0. i \in Active /\ i # c1 /\ i \in Rows /\ Others(i) = Active' \ {i}
      BY <1>6, <1>0
    <3>1. CASE i = c0 \/ nnidx[i] \in {c0, c1}
      <4>1. nnidx'[i] = Found(i) /\ Others(i) # {}
        BY <3>0, <3>1, <1>92, <2>2
      <4>2. Found(i) \in Others(i) /\ \A y \in Others(i) : d'[i][Found(i)] <= d'[i][y]
        BY <4>1, <1>91, <3>0
      <4>3. QED BY <4>1, <4>2, <3>0
    <3>2. CASE ~(i = c0 \/ nnidx[i] \in {c0, c1})
      <4>1. Active # {i}
        BY <3>2, <1>1
      <4>2. nnidx[i] \in Active \ {i} /\ \A j \in Active \ {i} : d[i][nnidx[i]] <= d[i][j]
        BY <4>1, <3>0 DEF AhcInv, NearestKept
      <4>3. nnidx'[i] = nnidx[i] /\ nnidx[i] \in Active' \ {i} /\ nnidx[i] \in Rows \ {c0, c1}
        BY <3>0, <3>2, <1>92, <4>2, <1>6, <1>0
      <4>4. d'[i][nnidx[i]] = d[i][nnidx[i]]
        BY <4>3, <1>7, <3>0, <3>2
      <4>5. ASSUME NEW j \in Active' \ {i} PROVE d[i][nnidx[i]] <= d'[i][j]
        <5>0. j \in Active \ {i} /\ j # c1 /\ j \in Rows
          BY <1>6, <1>0
        <5>1. d[i][nnidx[i]] <= d[i][j] /\ d[i][nnidx[i]] \in Nat /\ d[i][j] \in Nat
          BY <4>2, <4>3, <5>0, <1>0, <3>0
        <5>2. CASE j # c0
          <6>1. d'[i][j] = d[i][j]
            BY <5>2, <5>0, <1>7, <3>0, <3>2
          <6>2. QED BY <6>1, <5>1
        <5>3. CASE j = c0
          <6>1. d'[i][j] = Linked(i, c0, c1) /\ d[i][j] <= Linked(i, c0, c1) /\ d'[i][j] \in Nat
            BY <5>3, <5>0, <1>7, <3>0, <3>2
          <6>2. QED BY <6>1, <5>1
        <5>4. QED BY <5>2, <5>3
      <4>6. QED BY <4>3, <4>4, <4>5
    <3>3. QED BY <3>1, <3>2
  <2>3. QED BY <2>1, <2>2 DEF NearestKept
<1>12. StepInv'
  BY <1>2, <1>9, <1>0 DEF StepInv
<1>13. Tree!Next
  <2> DEFINE Now == {members[i] : i \in Active}
             v == d[c0][c1]
  <2>0. PICK A, B : A = members[c0] /\ B = members[c1]
    OBVIOUS
  <2>1. A \in Now /\ B \in Now /\ A # B /\ LinkedBy(A, B, v)
    BY <1>1, <1>3, <2>0
  <2>2. PICK x \in A, y \in B : dist[x][y] = v
    BY <2>1 DEF LinkedBy
  <2>3. Tree!LinkedAt(A, B, dist[x][y])
    BY <2>1, <2>2 DEF Tree!LinkedAt, LinkedBy
  <2>4. Tree!NoneCloser(dist[x][y])
    <3>1. ASSUME NEW C \in Now, NEW D \in Now, C # D
          PROVE  \E s \in C, t \in D : v <= dist[s][t]
      <4>1. PICK i \in Active, j \in Active : C = members[i] /\ D = members[j]
        OBVIOUS
      <4>2. i # j /\ LinkedBy(C, D, d[i][j]) /\ v <= d[i][j]
        BY <4>1, <3>1, <1>1, <1>3
      <4>3. QED BY <4>2 DEF LinkedBy
    <3>2. QED BY <3>1, <2>2 DEF Tree!NoneCloser
  <2>5. mergedist' = Append(mergedist, dist[x][y])
    BY <2>2, <1>1
  <2>6. {members'[i] : i \in Active'} = (Now \ {A, B}) \cup {A \cup B}
    <3>1. ASSUME NEW i \in Active \ {c0, c1} PROVE members'[i] = members[i] /\ members[i] \notin {A, B}
      <4>1. members[i] \cap A = {} /\ members[i] \cap B = {} /\ members[i] # {}
        BY <1>1, <1>3, <2>0
      <4>2. QED BY <4>1, <1>5, <1>0
    <3>2. {members'[i] : i \in Active'} = {members'[i] : i \in Active \ {c0, c1}} \cup {members'[c0]}
      BY <1>6
    <3>3. {members'[i] : i \in Active \ {c0, c1}} = Now \ {A, B}
      BY <3>1, <2>0
    <3>4. QED BY <3>2, <3>3, <1>5, <2>0
  <2>7. Tree!Merge(A, B)
    BY <2>1, <2>2, <2>3, <2>4, <2>5, <2>6, <1>2 DEF Tree!Merge
  <2>8. QED BY <2>1, <2>7 DEF Tree!Next
<1>14. QED BY <1>8, <1>10, <1>11, <1>12, <1>13 DEF AhcInv

\* The start: one cluster per point.
LEMMA RunInv ==
    ASSUME AhcInv, NEW m, NEW n \in Nat \ {0}, DOMAIN m = 0..n - 1,
           \A i, j \in DOMAIN m : m[i][j] \in Nat, RunAHC(m)
    PROVE  AhcInv' /\ Tree!Next
<1> DEFINE R == 0..n - 1
<1>1. /\ step = "idle" /\ dist' = SetDistances(m) /\ d' = dist'
      /\ members' = [i \in R |-> {i}] /\ cidx' = [i \in R |-> i]
      /\ nnidx' = [i \in R |-> FirstLeast(R \ {i}, dist'[i])]
      /\ step' = IF Cardinality(R) = 1 THEN "report" ELSE "merge"
      /\ z' = z /\ mergedist' = mergedist
  BY DEF RunAHC
<1>2. z = <<>> /\ mergedist = <<>> /\ npoints = 0
  BY <1>1 DEF AhcInv, StepInv
<1>3. IsFiniteSet(R) /\ Cardinality(R) = n
  <2>1. \A b \in Int : IsFiniteSet(0..b)
    BY FS_Interval
  <2>2. \A b \in Int : 0 <= b => Cardinality(0..b) = b + 1
    BY FS_Interval
  <2>3. n - 1 \in Int /\ 0 <= n - 1
    OBVIOUS
  <2>4. IsFiniteSet(0..n - 1)
    BY <2>1, <2>3
  <2>5. Cardinality(0..n - 1) = n - 1 + 1
    BY <2>2, <2>3
  <2>6. QED BY <2>4, <2>5
<1>4. DOMAIN dist' = R /\ \A i \in R : \A j \in R :
          dist'[i][j] = IF i < j THEN m[i][j] ELSE IF j < i THEN m[j][i] ELSE 0
  BY <1>1 DEF SetDistances
<1>5. dist' \in [R -> [R -> Nat]] /\ \A i, j \in R : dist'[i][j] = dist'[j][i] /\ dist'[i][j] \in Nat
  <2>1. \A i, j \in R : m[i][j] \in Nat
    OBVIOUS
  <2>2. ASSUME NEW i \in R, NEW j \in R PROVE dist'[i][j] \in Nat /\ dist'[i][j] = dist'[j][i]
    <3>1. m[i][j] \in Nat /\ m[j][i] \in Nat
      BY <2>1
    <3>2. dist'[i][j] = IF i < j THEN m[i][j] ELSE IF j < i THEN m[j][i] ELSE 0
      BY <1>4
    <3>3. dist'[j][i] = IF j < i THEN m[j][i] ELSE IF i < j THEN m[i][j] ELSE 0
      BY <1>4
    <3>4. QED BY <3>1, <3>2, <3>3
  <2>3. dist' = [i \in R |-> [j \in R |-> dist'[i][j]]]
    BY <1>1 DEF SetDistances
  <2>4. QED BY <2>2, <2>3
<1>6. npoints' = n /\ Rows' = R
  BY <1>3, <1>4 DEF npoints, Rows
<1>7. Active' = R
  <2>1. \A i \in R : cidx'[i] >= 0
    BY <1>1
  <2>2. QED BY <2>1, <1>6 DEF Active
<1>8. DistInv'
  BY <1>4, <1>5, <1>6 DEF DistInv
<1>9. ASSUME NEW i \in R
      PROVE  /\ R = {i} => nnidx'[i] = -1
             /\ R # {i} => nnidx'[i] \in R \ {i} /\ \A j \in R \ {i} : d'[i][nnidx'[i]] <= d'[i][j]
  <2> DEFINE S == R \ {i}
             f == dist'[i]
  <2>1. nnidx'[i] = FirstLeast(S, f) /\ d'[i] = f
    BY <1>1
  <2>2. CASE R = {i}
    BY <2>1, <2>2 DEF FirstLeast
  <2>3. CASE R # {i}
    <3>0. S \subseteq R /\ R \subseteq Nat /\ \A x \in R : f[x] \in Nat
      BY <1>5
    <3>1. S # {} /\ S \subseteq Nat /\ \A x \in S : f[x] \in Nat
      BY <2>3, <3>0
    <3> HIDE DEF S, f
    <3>2. FirstLeast(S, f) \in S /\ \A y \in S : f[FirstLeast(S, f)] <= f[y]
      BY <3>1, FirstLeastIs
    <3>3. QED BY <3>2, <2>1, <2>3 DEF S
  <2>4. QED BY <2>2, <2>3
<1>10. AhcTypeOK'
  <2>1. members' \in [R -> SUBSET R] /\ cidx' \in [R -> -1..2 * n - 2]
    BY <1>1
  <2>2. nnidx' \in [R -> -1..n - 1]
    <3>1. \A i \in R : nnidx'[i] \in -1..n - 1
      BY <1>9
    <3>2. nnidx' = [i \in R |-> nnidx'[i]]
      BY <1>1
    <3>3. QED BY <3>1, <3>2
  <2>3. z' = <<>> /\ mergedist' = <<>>
    BY <1>1, <1>2
  <2>4. QED BY <2>1, <2>2, <2>3, <1>1, <1>5, <1>6 DEF AhcTypeOK
<1>11. RowInv'
  <2>1. z' = <<>> /\ mergedist' = <<>> /\ Len(z') = 0
    BY <1>1, <1>2
  <2>2. Cardinality(Active') = npoints' - Len(z')
    BY <2>1, <1>3, <1>6, <1>7
  <2>3. \A i \in R : members'[i] = {i} /\ cidx'[i] = i
    BY <1>1
  <2>4. ASSUME NEW i \in R, NEW j \in R, i # j
        PROVE  /\ LinkedBy(members[i], members[j], d[i][j])'
               /\ cidx'[i] # cidx'[j] /\ members'[i] \cap members'[j] = {} /\ d'[i][j] = d'[j][i]
    <3>1. members'[i] = {i} /\ members'[j] = {j} /\ cidx'[i] = i /\ cidx'[j] = j
      BY <2>3
    <3>2. d'[i][j] = dist'[i][j] /\ d'[j][i] = dist'[j][i] /\ dist'[i][j] = dist'[j][i] /\ dist'[i][j] \in Nat
      BY <1>1, <1>5
    <3>3. LinkedBy(members[i], members[j], d[i][j])'
      BY <3>1, <3>2 DEF LinkedBy
    <3>4. QED BY <3>1, <3>2, <3>3, <2>4
  <2>5. ASSUME NEW i \in R PROVE members'[i] # {} /\ cidx'[i] < npoints' + Len(z')
    <3>1. members'[i] = {i} /\ cidx'[i] = i /\ i \in Nat /\ i < n
      BY <2>3
    <3>2. QED BY <3>1, <2>1, <1>6
  <2> HIDE DEF R
  <2>6. QED BY <1>7, <1>10, <2>1, <2>2, <2>4, <2>5 DEF RowInv
<1>12. NearestKept'
  <2> HIDE DEF R
  <2>1. QED BY <1>7, <1>9 DEF NearestKept
<1>13. StepInv'
  BY <1>1, <1>2, <1>3, <1>6 DEF StepInv
<1>14. Tree!Next
  <2>1. Rows = {} /\ Active = {}
    BY <1>2 DEF Rows, Active
  <2>2. {members[i] : i \in Active} = {}
    BY <2>1
  <2>3. Tree!Single({members[i] : i \in Active})
    BY <2>2 DEF Tree!Single
  <2>4. {members'[i] : i \in Active'} = {{x} : x \in DOMAIN dist'}
    BY <1>7, <1>4, <1>1
  <2>5. Tree!Load
    BY <2>3, <2>4, <1>1, <1>2 DEF Tree!Load
  <2>6. QED BY <2>5 DEF Tree!Next
<1>15. QED BY <1>8, <1>11, <1>12, <1>13, <1>14 DEF AhcInv

\* The end of the program: all points are in one cluster.
LEMMA ForgetInv ==
    ASSUME AhcInv, step = "test", Forget
    PROVE  AhcInv' /\ Tree!Next
<1>1. /\ dist' = <<>> /\ d' = <<>> /\ members' = <<>> /\ cidx' = <<>> /\ nnidx' = <<>>
      /\ z' = <<>> /\ mergedist' = <<>> /\ step' = "idle"
  BY DEF Forget
<1>2. npoints' = 0 /\ Rows' = {} /\ Active' = {}
  <2>1. DOMAIN dist' = {}
    BY <1>1
  <2>2. npoints' = 0
    BY <2>1, FS_EmptySet DEF npoints
  <2>3. QED BY <2>2 DEF Rows, Active
<1>3. DistInv'
  BY <1>1, <1>2 DEF DistInv
<1>4. AhcTypeOK'
  BY <1>1, <1>2 DEF AhcTypeOK
<1>5. RowInv'
  BY <1>1, <1>2, <1>4, FS_EmptySet DEF RowInv
<1>6. NearestKept' /\ StepInv'
  BY <1>1, <1>2 DEF NearestKept, StepInv
<1>7. Tree!Next
  <2>1. Cardinality(Active) = 1 /\ IsFiniteSet(Active)
    <3>1. Len(z) = npoints - 1 /\ Cardinality(Active) = npoints - Len(z) /\ npoints \in Nat /\ Len(z) \in Nat
      BY RowFacts DEF AhcInv, StepInv, RowInv
    <3>2. QED BY <3>1, RowFacts
  <2>2. PICK i : Active = {i}
    BY <2>1, FS_Singleton
  <2>3. Tree!Single({members[x] : x \in Active})
    BY <2>2 DEF Tree!Single
  <2>4. {members'[x] : x \in Active'} = {{x} : x \in DOMAIN dist'}
    BY <1>1, <1>2
  <2>5. Tree!Load
    BY <2>3, <2>4, <1>1 DEF Tree!Load
  <2>6. QED BY <2>5 DEF Tree!Next
<1>8. QED BY <1>3, <1>5, <1>6, <1>7 DEF AhcInv

\* The other steps of the clusterizer leave the rows as they are.
LEMMA AhcNextInv ==
    ASSUME AhcInv, AhcNext
    PROVE  AhcInv' /\ (Tree!Next \/ UNCHANGED <<dist, {members[i] : i \in Active}, mergedist>>)
<1>1. CASE Merge
  BY <1>1, MergeInv
<1>2. ASSUME UNCHANGED ahc, StepInv'
      PROVE  AhcInv' /\ UNCHANGED <<dist, {members[i] : i \in Active}, mergedist>>
  <2>1. AhcInv'
    BY <1>2, AhcFrame
  <2>2. QED BY <2>1, <1>2 DEF ahc, Active, Rows, npoints
<1>3. Len(z) \in Nat /\ npoints \in Nat
  BY RowFacts
<1>4. ASSUME UNCHANGED ahc, step \in {"layout", "report", "split"}, step' \in {"report", "split", "done"}
      PROVE  StepInv'
  <2>1. z' = z /\ npoints' = npoints
    BY <1>4 DEF ahc, npoints
  <2>2. QED BY <2>1, <1>4 DEF StepInv, AhcInv
<1>5. CASE Layout
  BY <1>5, <1>2, <1>4 DEF Layout
<1>6. CASE Split
  <2>1. UNCHANGED ahc /\ step = "split" /\ step' = "split"
    BY <1>6 DEF Split
  <2>2. QED BY <2>1, <1>2, <1>4
<1>7. CASE GetK
  <2>1. UNCHANGED ahc /\ step = "split" /\ step' = "done"
    BY <1>7 DEF GetK
  <2>2. QED BY <2>1, <1>2, <1>4
<1>8. CASE \E radius \in Radii : SeparatedByDist(radius)
  <2>1. UNCHANGED ahc /\ step = "report" /\ step' = "split"
    BY <1>8 DEF SeparatedByDist
  <2>2. QED BY <2>1, <1>2, <1>4
<1>9. QED BY <1>1, <1>5, <1>6, <1>7, <1>8 DEF AhcNext

-----------------------------------------------------------------------------
(* The tree of the merges *)

\* The clusters that exist after l of the merges zz of N points.
Alive(zz, N, l) == {c \in 0..N + l - 1 : \A m \in 1..l : c # zz[m][1] /\ c # zz[m][2]}

\* Merge m of zz joins two clusters that exist, and cluster N + m - 1 has the
\* points of both.
Joins(G, zz, N, m) ==
    /\ zz[m][1] \in Alive(zz, N, m - 1) /\ zz[m][2] \in Alive(zz, N, m - 1)
    /\ zz[m][1] # zz[m][2]
    /\ G[N + m - 1] = G[zz[m][1]] \cup G[zz[m][2]]

\* f is a function.
IsMap(f) == f = [c \in DOMAIN f |-> f[c]]

\* G gives the points of the clusters that the merges zz of N points make.
IsTree(G, zz, N) ==
    /\ N \in Nat /\ Len(zz) \in Nat
    /\ DOMAIN G = 0..N + Len(zz) - 1 /\ IsMap(G)
    /\ \A c \in 0..N - 1 : G[c] = {c}
    /\ \A m \in 1..Len(zz) : Joins(G, zz, N, m)

\* A merge takes two clusters away and adds one that is new.
LEMMA AliveStep ==
    ASSUME NEW G, NEW zz, NEW N, IsTree(G, zz, N), NEW m \in 1..Len(zz)
    PROVE  /\ Alive(zz, N, m) = (Alive(zz, N, m - 1) \ {zz[m][1], zz[m][2]}) \cup {N + m - 1}
           /\ N + m - 1 \notin Alive(zz, N, m - 1)
           /\ zz[m][1] \in 0..N + m - 2 /\ zz[m][2] \in 0..N + m - 2
<1>1. N \in Nat /\ Len(zz) \in Nat /\ m \in Nat /\ m >= 1
  BY DEF IsTree
<1>2. ASSUME NEW i \in 1..m
      PROVE  zz[i][1] \in 0..N + i - 2 /\ zz[i][2] \in 0..N + i - 2
  <2>1. i \in 1..Len(zz)
    BY <1>1
  <2>2. zz[i][1] \in Alive(zz, N, i - 1) /\ zz[i][2] \in Alive(zz, N, i - 1)
    BY <2>1 DEF IsTree, Joins
  <2>3. N + (i - 1) - 1 = N + i - 2
    BY <1>1
  <2>4. QED BY <2>2, <2>3 DEF Alive
<1>3. ASSUME NEW i \in 1..m PROVE N + m - 1 # zz[i][1] /\ N + m - 1 # zz[i][2]
  BY <1>1, <1>2
<1>4. N + m - 1 \in Alive(zz, N, m)
  BY <1>1, <1>3 DEF Alive
<1>5. ASSUME NEW c, c # N + m - 1
      PROVE  c \in Alive(zz, N, m) <=> c \in Alive(zz, N, m - 1) /\ c # zz[m][1] /\ c # zz[m][2]
  <2>1. c \in 0..N + m - 1 <=> c \in 0..N + (m - 1) - 1
    BY <1>1, <1>5
  <2>2. (\A i \in 1..m : c # zz[i][1] /\ c # zz[i][2])
         <=> (\A i \in 1..m - 1 : c # zz[i][1] /\ c # zz[i][2]) /\ c # zz[m][1] /\ c # zz[m][2]
    <3>1. 1..m = (1..m - 1) \cup {m}
      BY <1>1
    <3>2. QED BY <3>1
  <2>3. QED BY <2>1, <2>2 DEF Alive
<1>6. N + m - 1 \notin Alive(zz, N, m - 1)
  BY <1>1 DEF Alive
<1>7. m \in 1..m
  BY <1>1
<1>8. QED BY <1>2, <1>3, <1>4, <1>5, <1>6, <1>7

\* The clusters that exist after l merges are a partition of the points.
Parted(G, zz, N, l) ==
    /\ \A c \in Alive(zz, N, l) : G[c] # {} /\ G[c] \subseteq 0..N - 1
    /\ \A b, c \in Alive(zz, N, l) : b # c => G[b] \cap G[c] = {}
    /\ \A x \in 0..N - 1 : \E c \in Alive(zz, N, l) : x \in G[c]
    /\ IsFiniteSet(Alive(zz, N, l)) /\ Cardinality(Alive(zz, N, l)) = N - l

\* Before the first merge every point is a cluster.
LEMMA PartedFirst ==
    ASSUME NEW G, NEW zz, NEW N, IsTree(G, zz, N)
    PROVE  Parted(G, zz, N, 0)
<1>1. N \in Nat /\ \A c \in 0..N - 1 : G[c] = {c}
  BY DEF IsTree
<1>2. Alive(zz, N, 0) = 0..N - 1
  BY <1>1 DEF Alive
<1>3. IsFiniteSet(0..N - 1) /\ Cardinality(0..N - 1) = N - 0
  <2>1. N - 1 \in Int
    BY <1>1
  <2>2. \A b \in Int : IsFiniteSet(0..b)
    BY FS_Interval
  <2>3. \A b \in Int : 0 <= b => Cardinality(0..b) = b + 1
    BY FS_Interval
  <2>4. CASE N = 0
    <3>1. 0..N - 1 = {}
      BY <2>4
    <3>2. QED BY <3>1, <2>4, FS_EmptySet
  <2>5. CASE N # 0
    <3>1. 0 <= N - 1
      BY <1>1, <2>5
    <3>2. Cardinality(0..N - 1) = N - 1 + 1
      BY <2>1, <2>3, <3>1
    <3>3. QED BY <3>2, <2>1, <2>2, <1>1
  <2>6. QED BY <2>4, <2>5
<1>4. PICK S : S = 0..N - 1
  OBVIOUS
<1>5. /\ \A c \in S : G[c] # {} /\ G[c] \subseteq S
      /\ \A b, c \in S : b # c => G[b] \cap G[c] = {}
      /\ \A x \in S : \E c \in S : x \in G[c]
  BY <1>1, <1>4
<1>6. QED BY <1>2, <1>3, <1>4, <1>5 DEF Parted

\* A merge keeps the partition.
LEMMA PartedStep ==
    ASSUME NEW G, NEW zz, NEW N, IsTree(G, zz, N), NEW m \in 1..Len(zz), Parted(G, zz, N, m - 1)
    PROVE  Parted(G, zz, N, m)
<1> DEFINE a == zz[m][1]
           b == zz[m][2]
           c == N + m - 1
           A == Alive(zz, N, m - 1)
           B == Alive(zz, N, m)
<1>1. a \in A /\ b \in A /\ a # b /\ G[c] = G[a] \cup G[b] /\ N \in Nat /\ m \in Nat /\ m >= 1
  BY DEF IsTree, Joins
<1>2. B = (A \ {a, b}) \cup {c} /\ c \notin A
  BY AliveStep
<1>3. /\ \A e \in A : G[e] # {} /\ G[e] \subseteq 0..N - 1
      /\ \A e, f \in A : e # f => G[e] \cap G[f] = {}
      /\ \A x \in 0..N - 1 : \E e \in A : x \in G[e]
      /\ IsFiniteSet(A) /\ Cardinality(A) = N - (m - 1)
  BY DEF Parted
<1> HIDE DEF a, b, c, A, B
<1>4. \A e \in B : G[e] # {} /\ G[e] \subseteq 0..N - 1
  BY <1>1, <1>2, <1>3
<1>5. \A e, f \in B : e # f => G[e] \cap G[f] = {}
  BY <1>1, <1>2, <1>3
<1>6. \A x \in 0..N - 1 : \E e \in B : x \in G[e]
  <2> TAKE x \in 0..N - 1
  <2>1. PICK e \in A : x \in G[e]
    BY <1>3
  <2>2. CASE e \in {a, b}
    BY <2>1, <2>2, <1>1, <1>2
  <2>3. CASE e \notin {a, b}
    BY <2>1, <2>3, <1>2
  <2>4. QED BY <2>2, <2>3
<1>7. IsFiniteSet(B) /\ Cardinality(B) = N - m
  <2>1. IsFiniteSet(A \ {a}) /\ Cardinality(A \ {a}) = N - (m - 1) - 1
    BY <1>1, <1>3, FS_RemoveElement
  <2>2. b \in A \ {a} /\ A \ {a, b} = (A \ {a}) \ {b}
    BY <1>1
  <2>3. IsFiniteSet(A \ {a, b}) /\ Cardinality(A \ {a, b}) = N - (m - 1) - 1 - 1
    BY <2>1, <2>2, FS_RemoveElement
  <2>4. c \notin A \ {a, b}
    BY <1>2
  <2>5. IsFiniteSet(B) /\ Cardinality(B) = N - (m - 1) - 1 - 1 + 1
    BY <2>3, <2>4, <1>2, FS_AddElement
  <2>6. QED BY <2>5, <1>1
<1>8. QED BY <1>4, <1>5, <1>6, <1>7 DEF Parted, B

\* They are a partition after any number of merges.
LEMMA TreeParted ==
    ASSUME NEW G, NEW zz, NEW N, IsTree(G, zz, N)
    PROVE  \A l \in 0..Len(zz) : Parted(G, zz, N, l)
<1> DEFINE Q == {l \in Nat : l <= Len(zz) => Parted(G, zz, N, l)}
<1>0. Len(zz) \in Nat
  BY DEF IsTree
<1>1. 0 \in Q
  BY PartedFirst
<1>2. ASSUME NEW l \in Nat, l \in Q PROVE l + 1 \in Q
  <2> SUFFICES ASSUME l + 1 <= Len(zz) PROVE Parted(G, zz, N, l + 1)
    OBVIOUS
  <2>1. Parted(G, zz, N, l)
    BY <1>2, <1>0
  <2>2. PICK m : m = l + 1
    OBVIOUS
  <2>3. m \in 1..Len(zz) /\ m - 1 = l
    BY <2>2, <1>0
  <2>4. Parted(G, zz, N, m)
    BY <2>1, <2>3, PartedStep
  <2>5. QED BY <2>4, <2>2
<1> HIDE DEF Q
<1>3. Nat \subseteq Q
  BY <1>1, <1>2, InductionNat
<1>4. QED BY <1>3, <1>0 DEF Q

\* Merge m of zz joins clusters whose points are at most md[m] apart, and no
\* two clusters are closer.
Links(G, zz, N, D, md, m) ==
    /\ md[m] \in Nat
    /\ \A x \in G[zz[m][1]], y \in G[zz[m][2]] : D[x][y] <= md[m]
    /\ \A a, b \in Alive(zz, N, m - 1) : a # b => \E x \in G[a], y \in G[b] : md[m] <= D[x][y]

\* The merges zz are those of complete linkage on the distances D.
IsLinkage(G, zz, N, D, md) ==
    /\ IsTree(G, zz, N)
    /\ \A x, y \in 0..N - 1 : D[x][y] \in Nat /\ D[x][y] = D[y][x]
    /\ \A m \in 1..Len(zz) : Links(G, zz, N, D, md, m)

\* The points of the clusters that exist.
LEMMA PointsAre ==
    ASSUME NEW G, NEW zz, NEW N, IsTree(G, zz, N), NEW l \in 0..Len(zz), NEW c \in Alive(zz, N, l)
    PROVE  G[c] \subseteq 0..N - 1 /\ G[c] # {}
BY TreeParted DEF Parted

\* The distances of the merges never fall from one merge to the next.
LEMMA MergeNext ==
    ASSUME NEW G, NEW zz, NEW N, NEW D, NEW md, IsLinkage(G, zz, N, D, md),
           NEW m \in 1..Len(zz) - 1
    PROVE  md[m] <= md[m + 1]
<1>0. IsTree(G, zz, N) /\ Len(zz) \in Nat
  BY DEF IsLinkage, IsTree
<1>1. PICK q : q = m + 1
  OBVIOUS
<1>2. q \in 1..Len(zz) /\ q - 1 = m /\ m \in 1..Len(zz) /\ m \in 0..Len(zz) /\ m - 1 \in 0..Len(zz)
  BY <1>0, <1>1
<1> DEFINE a == zz[m][1]
           b == zz[m][2]
           A == Alive(zz, N, m - 1)
           s == zz[q][1]
           t == zz[q][2]
<1>3. /\ a \in A /\ b \in A /\ a # b /\ G[N + m - 1] = G[a] \cup G[b]
      /\ s \in Alive(zz, N, m) /\ t \in Alive(zz, N, m) /\ s # t
  BY <1>0, <1>2 DEF IsTree, Joins
<1>4. Alive(zz, N, m) = (A \ {a, b}) \cup {N + m - 1}
  BY <1>0, <1>2, AliveStep
<1>5. md[m] \in Nat /\ md[q] \in Nat
  BY <1>2 DEF IsLinkage, Links
<1>6. /\ \A e, f \in A : e # f => \E x \in G[e], y \in G[f] : md[m] <= D[x][y]
      /\ \A x \in G[s], y \in G[t] : D[x][y] <= md[q]
  BY <1>2 DEF IsLinkage, Links
<1>7. G[s] \subseteq 0..N - 1 /\ G[t] \subseteq 0..N - 1
  BY <1>0, <1>2, <1>3, PointsAre
<1>8. \E x \in G[s], y \in G[t] : md[m] <= D[x][y]
  <2> HIDE DEF a, b, A, s, t
  <2> DEFINE c == N + m - 1
  <2>1. s \in (A \ {a, b}) \cup {c} /\ t \in (A \ {a, b}) \cup {c} /\ s # t /\ G[c] = G[a] \cup G[b]
    BY <1>3, <1>4
  <2> HIDE DEF c
  <2>2. CASE s = c
    <3>1. t \in A /\ t # a
      BY <2>1, <2>2
    <3>2. \E x \in G[a], y \in G[t] : md[m] <= D[x][y]
      BY <3>1, <1>3, <1>6
    <3>3. QED BY <3>2, <2>1, <2>2
  <2>3. CASE t = c
    <3>1. s \in A /\ s # a
      BY <2>1, <2>3
    <3>2. \E x \in G[s], y \in G[a] : md[m] <= D[x][y]
      BY <3>1, <1>3, <1>6
    <3>3. QED BY <3>2, <2>1, <2>3
  <2>4. CASE s # c /\ t # c
    BY <2>1, <2>4, <1>6
  <2>5. QED BY <2>2, <2>3, <2>4
<1>9. PICK x \in G[s], y \in G[t] : md[m] <= D[x][y]
  BY <1>8
<1>10. D[x][y] \in Nat /\ D[x][y] <= md[q]
  BY <1>6, <1>7, <1>9 DEF IsLinkage
<1>11. QED BY <1>5, <1>9, <1>10, <1>1

\* Nor from one merge to any later one.
LEMMA MergesRise ==
    ASSUME NEW G, NEW zz, NEW N, NEW D, NEW md, IsLinkage(G, zz, N, D, md)
    PROVE  \A m \in 1..Len(zz) : \A q \in m..Len(zz) : md[m] <= md[q] /\ md[m] \in Nat
<1> SUFFICES ASSUME NEW m \in 1..Len(zz) PROVE \A q \in m..Len(zz) : md[m] <= md[q] /\ md[m] \in Nat
  OBVIOUS
<1> DEFINE Q == {l \in Nat : m + l <= Len(zz) => md[m] <= md[m + l]}
<1>0. Len(zz) \in Nat /\ m \in Nat /\ \A q \in 1..Len(zz) : md[q] \in Nat
  BY DEF IsLinkage, IsTree, Links
<1>1. 0 \in Q
  BY <1>0
<1>2. ASSUME NEW l \in Nat, l \in Q PROVE l + 1 \in Q
  <2> SUFFICES ASSUME m + (l + 1) <= Len(zz) PROVE md[m] <= md[m + (l + 1)]
    OBVIOUS
  <2>1. PICK q : q = m + l
    OBVIOUS
  <2>2. q \in 1..Len(zz) - 1 /\ q \in 1..Len(zz) /\ q + 1 \in 1..Len(zz) /\ m + (l + 1) = q + 1
    BY <2>1, <1>0
  <2>3. md[m] <= md[q]
    BY <1>2, <2>1, <2>2, <1>0
  <2>4. md[q] <= md[q + 1]
    BY <2>2, MergeNext
  <2>5. md[m] \in Nat /\ md[q] \in Nat /\ md[q + 1] \in Nat
    BY <1>0, <2>2
  <2>6. QED BY <2>2, <2>3, <2>4, <2>5
<1>3. \A l \in Nat : m + l <= Len(zz) => md[m] <= md[m + l]
  <2> HIDE DEF Q
  <2>1. Nat \subseteq Q
    BY <1>1, <1>2, InductionNat
  <2>2. QED BY <2>1 DEF Q
<1>4. ASSUME NEW q \in m..Len(zz) PROVE md[m] <= md[q]
  <2>1. q - m \in Nat /\ m + (q - m) = q /\ q <= Len(zz)
    BY <1>0
  <2>2. QED BY <2>1, <1>3
<1>5. QED BY <1>4, <1>0

\* Two points of cluster N + m - 1 are at most md[m] apart.
Within(G, N, D, md, m) ==
    \A x, y \in G[N + m - 1] : x # y => D[x][y] <= md[m]

\* The points of a merged cluster, when those of the clusters before are close.
LEMMA WithinStep ==
    ASSUME NEW G, NEW zz, NEW N, NEW D, NEW md, IsLinkage(G, zz, N, D, md),
           NEW m \in 1..Len(zz), \A q \in 1..m - 1 : Within(G, N, D, md, q)
    PROVE  Within(G, N, D, md, m)
<1>0. IsTree(G, zz, N) /\ Len(zz) \in Nat /\ N \in Nat /\ m \in Nat /\ m >= 1 /\ m - 1 \in 0..Len(zz)
  BY DEF IsLinkage, IsTree
<1> DEFINE a == zz[m][1]
           b == zz[m][2]
<1>1. G[N + m - 1] = G[a] \cup G[b] /\ a \in Alive(zz, N, m - 1) /\ b \in Alive(zz, N, m - 1)
  BY <1>0 DEF IsTree, Joins
<1>2. a \in 0..N + m - 2 /\ b \in 0..N + m - 2
  BY <1>0, AliveStep
<1>3. G[a] \subseteq 0..N - 1 /\ G[b] \subseteq 0..N - 1
  BY <1>0, <1>1, PointsAre
<1>4. md[m] \in Nat /\ \A x \in G[a], y \in G[b] : D[x][y] <= md[m]
  BY DEF IsLinkage, Links
<1>5. \A x, y \in 0..N - 1 : D[x][y] \in Nat /\ D[x][y] = D[y][x]
  BY DEF IsLinkage
<1>6. ASSUME NEW c \in 0..N + m - 2, G[c] \subseteq 0..N - 1, NEW x \in G[c], NEW y \in G[c], x # y
      PROVE  D[x][y] <= md[m]
  <2>1. c \notin 0..N - 1
    BY <1>0, <1>6 DEF IsTree
  <2>2. PICK q : q = c - N + 1
    OBVIOUS
  <2>3. q \in 1..m - 1 /\ N + q - 1 = c /\ q \in 1..Len(zz) /\ m \in q..Len(zz)
    BY <1>0, <2>1, <2>2
  <2>4. D[x][y] <= md[q]
    BY <2>3, <1>6 DEF Within
  <2>5. md[q] <= md[m] /\ md[q] \in Nat
    BY <2>3, MergesRise
  <2>6. D[x][y] \in Nat
    BY <1>5, <1>6
  <2>7. QED BY <2>4, <2>5, <2>6, <1>4
<1>7. ASSUME NEW x \in G[N + m - 1], NEW y \in G[N + m - 1], x # y
      PROVE  D[x][y] <= md[m]
  <2>1. CASE x \in G[a] /\ y \in G[a]
    BY <2>1, <1>2, <1>3, <1>6, <1>7
  <2>2. CASE x \in G[b] /\ y \in G[b]
    BY <2>2, <1>2, <1>3, <1>6, <1>7
  <2>3. CASE x \in G[a] /\ y \in G[b]
    BY <2>3, <1>4
  <2>4. CASE x \in G[b] /\ y \in G[a]
    BY <2>4, <1>3, <1>4, <1>5
  <2>5. QED BY <2>1, <2>2, <2>3, <2>4, <1>1, <1>7
<1>8. QED BY <1>7 DEF Within

\* They are close in every cluster.
LEMMA TreeWithin ==
    ASSUME NEW G, NEW zz, NEW N, NEW D, NEW md, IsLinkage(G, zz, N, D, md)
    PROVE  \A m \in 1..Len(zz) : Within(G, N, D, md, m)
<1> DEFINE Q == {l \in Nat : \A q \in 1..l : q <= Len(zz) => Within(G, N, D, md, q)}
<1>0. Len(zz) \in Nat
  BY DEF IsLinkage, IsTree
<1>1. 0 \in Q
  OBVIOUS
<1>2. ASSUME NEW l \in Nat, l \in Q PROVE l + 1 \in Q
  <2> SUFFICES ASSUME NEW q \in 1..l + 1, q <= Len(zz) PROVE Within(G, N, D, md, q)
    OBVIOUS
  <2>1. q \in 1..Len(zz) /\ \A i \in 1..q - 1 : i \in 1..l /\ i <= Len(zz)
    BY <1>0
  <2>2. \A i \in 1..q - 1 : Within(G, N, D, md, i)
    BY <2>1, <1>2
  <2>3. QED BY <2>1, <2>2, WithinStep
<1> HIDE DEF Q
<1>3. Nat \subseteq Q
  BY <1>1, <1>2, InductionNat
<1>4. Len(zz) \in Q /\ \A m \in 1..Len(zz) : m <= Len(zz)
  BY <1>3, <1>0
<1>5. QED BY <1>4 DEF Q

\* Two points of a cluster that exists after l merges are at most md[l] apart.
LEMMA AliveWithin ==
    ASSUME NEW G, NEW zz, NEW N, NEW D, NEW md, IsLinkage(G, zz, N, D, md),
           NEW l \in 0..Len(zz), NEW c \in Alive(zz, N, l),
           NEW x \in G[c], NEW y \in G[c], x # y
    PROVE  l \in 1..Len(zz) /\ D[x][y] <= md[l]
<1>0. IsTree(G, zz, N) /\ Len(zz) \in Nat /\ N \in Nat /\ l \in Nat
  BY DEF IsLinkage, IsTree
<1>1. c \in 0..N + l - 1
  BY DEF Alive
<1>2. c \notin 0..N - 1
  BY <1>0 DEF IsTree
<1>3. PICK q : q = c - N + 1
  OBVIOUS
<1>4. q \in 1..Len(zz) /\ N + q - 1 = c /\ l \in q..Len(zz) /\ l \in 1..Len(zz)
  BY <1>0, <1>1, <1>2, <1>3
<1>5. D[x][y] <= md[q]
  BY <1>4, TreeWithin DEF Within
<1>6. md[q] <= md[l] /\ md[q] \in Nat /\ md[l] \in Nat
  <2>1. l \in l..Len(zz)
    BY <1>0
  <2>2. QED BY <1>4, <2>1, MergesRise
<1>7. D[x][y] \in Nat
  <2>1. G[c] \subseteq 0..N - 1
    BY <1>0, PointsAre
  <2>2. QED BY <2>1 DEF IsLinkage
<1>8. QED BY <1>4, <1>5, <1>6, <1>7

\* After l merges, either the points of every cluster are at distance zero or no
\* points of different clusters are.
ZeroCut(G, zz, N, D, l) ==
    \/ \A c \in Alive(zz, N, l) : \A x, y \in G[c] : x # y => D[x][y] = 0
    \/ \A b, c \in Alive(zz, N, l) : \A x \in G[b], y \in G[c] : b # c => D[x][y] # 0

\* Points at distance zero are joined before any others, where distance zero is
\* an equivalence.
LEMMA ZeroApart ==
    ASSUME NEW G, NEW zz, NEW N, NEW D, NEW md, IsLinkage(G, zz, N, D, md),
           \A x, y, w \in 0..N - 1 : D[x][y] = 0 /\ D[y][w] = 0 => D[x][w] = 0,
           NEW m \in 1..Len(zz), md[m] # 0, ZeroCut(G, zz, N, D, m - 1)
    PROVE  \A b, c \in Alive(zz, N, m - 1) : \A x \in G[b], y \in G[c] : b # c => D[x][y] # 0
<1>0. IsTree(G, zz, N) /\ m - 1 \in 0..Len(zz) /\ md[m] \in Nat
  BY DEF IsLinkage, IsTree, Links
<1> DEFINE A == Alive(zz, N, m - 1)
<1>1. SUFFICES ASSUME \A c \in A : \A x, y \in G[c] : x # y => D[x][y] = 0,
                      NEW b \in A, NEW c \in A, NEW x \in G[b], NEW y \in G[c], b # c, D[x][y] = 0
               PROVE  FALSE
  BY DEF ZeroCut
<1>2. PICK u \in G[b], v \in G[c] : md[m] <= D[u][v]
  BY <1>1 DEF IsLinkage, Links
<1>3. G[b] \subseteq 0..N - 1 /\ G[c] \subseteq 0..N - 1
  BY <1>0, <1>1, PointsAre
<1>4. u \in 0..N - 1 /\ v \in 0..N - 1 /\ x \in 0..N - 1 /\ y \in 0..N - 1
  BY <1>1, <1>2, <1>3
<1>5. D[u][y] = 0
  <2>1. CASE u = x
    BY <2>1, <1>1
  <2>2. CASE u # x
    <3>1. D[u][x] = 0
      BY <2>2, <1>1, <1>2
    <3>2. QED BY <3>1, <1>1, <1>4
  <2>3. QED BY <2>1, <2>2
<1>6. D[u][v] = 0
  <2>1. CASE y = v
    BY <2>1, <1>5
  <2>2. CASE y # v
    <3>1. D[y][v] = 0
      BY <2>2, <1>1, <1>2
    <3>2. QED BY <3>1, <1>5, <1>4
  <2>3. QED BY <2>1, <2>2
<1>7. QED BY <1>0, <1>2, <1>6

\* A merge keeps the cut at distance zero.
LEMMA ZeroStep ==
    ASSUME NEW G, NEW zz, NEW N, NEW D, NEW md, IsLinkage(G, zz, N, D, md),
           \A x, y, w \in 0..N - 1 : D[x][y] = 0 /\ D[y][w] = 0 => D[x][w] = 0,
           NEW m \in 1..Len(zz), ZeroCut(G, zz, N, D, m - 1)
    PROVE  ZeroCut(G, zz, N, D, m)
<1>0. IsTree(G, zz, N) /\ md[m] \in Nat /\ m - 1 \in 0..Len(zz)
  BY DEF IsLinkage, Links, IsTree
<1> DEFINE a == zz[m][1]
           b == zz[m][2]
           c == N + m - 1
           A == Alive(zz, N, m - 1)
           B == Alive(zz, N, m)
<1>1. a \in A /\ b \in A /\ a # b /\ G[c] = G[a] \cup G[b]
  BY <1>0 DEF IsTree, Joins
<1>2. B = (A \ {a, b}) \cup {c} /\ c \notin A
  BY <1>0, AliveStep
<1>3. CASE \A e, f \in A : \A x \in G[e], y \in G[f] : e # f => D[x][y] # 0
  <2>1. ASSUME NEW e \in B, NEW f \in B, NEW x \in G[e], NEW y \in G[f], e # f PROVE D[x][y] # 0
    <3> HIDE DEF a, b, c, A, B
    <3>1. PICK s \in A : x \in G[s] /\ s \in {e, a, b} /\ (s = e \/ e = c)
      BY <1>1, <1>2, <2>1
    <3>2. PICK t \in A : y \in G[t] /\ t \in {f, a, b} /\ (t = f \/ f = c)
      BY <1>1, <1>2, <2>1
    <3>3. s # t
      BY <1>1, <1>2, <2>1, <3>1, <3>2
    <3>4. QED BY <3>1, <3>2, <3>3, <1>3
  <2>2. QED BY <2>1 DEF ZeroCut
<1>4. CASE md[m] # 0
  BY <1>3, <1>4, ZeroApart
<1>5. CASE md[m] = 0 /\ \A e \in A : \A x, y \in G[e] : x # y => D[x][y] = 0
  <2>1. \A x \in G[a], y \in G[b] : D[x][y] = 0 /\ D[y][x] = 0
    <3> TAKE x \in G[a], y \in G[b]
    <3>1. D[x][y] <= 0
      BY <1>5 DEF IsLinkage, Links
    <3>2. G[a] \subseteq 0..N - 1 /\ G[b] \subseteq 0..N - 1
      BY <1>0, <1>1, PointsAre
    <3>3. D[x][y] \in Nat /\ D[x][y] = D[y][x]
      BY <3>2 DEF IsLinkage
    <3>4. QED BY <3>1, <3>3
  <2>2. ASSUME NEW e \in B, NEW x \in G[e], NEW y \in G[e], x # y PROVE D[x][y] = 0
    <3> HIDE DEF a, b, c, A, B
    <3>1. CASE e # c
      BY <3>1, <1>2, <1>5, <2>2
    <3>2. CASE e = c
      BY <3>2, <1>1, <1>5, <2>1, <2>2
    <3>3. QED BY <3>1, <3>2
  <2>3. QED BY <2>2 DEF ZeroCut
<1>6. QED BY <1>3, <1>4, <1>5 DEF ZeroCut

\* Points at distance zero are never in different clusters once a merge has
\* joined points at a distance.
LEMMA ZeroTogether ==
    ASSUME NEW G, NEW zz, NEW N, NEW D, NEW md, IsLinkage(G, zz, N, D, md),
           \A x, y, w \in 0..N - 1 : D[x][y] = 0 /\ D[y][w] = 0 => D[x][w] = 0,
           NEW m \in 1..Len(zz), md[m] # 0
    PROVE  \A b, c \in Alive(zz, N, m - 1) : \A x \in G[b], y \in G[c] : b # c => D[x][y] # 0
<1> DEFINE Q == {l \in Nat : l <= Len(zz) => ZeroCut(G, zz, N, D, l)}
<1>0. Len(zz) \in Nat /\ IsTree(G, zz, N)
  BY DEF IsLinkage, IsTree
<1>1. 0 \in Q
  <2>1. \A c \in Alive(zz, N, 0) : G[c] = {c}
    BY <1>0 DEF IsTree, Alive
  <2>2. QED BY <2>1 DEF ZeroCut
<1>2. ASSUME NEW l \in Nat, l \in Q PROVE l + 1 \in Q
  <2> SUFFICES ASSUME l + 1 <= Len(zz) PROVE ZeroCut(G, zz, N, D, l + 1)
    OBVIOUS
  <2>1. PICK q : q = l + 1
    OBVIOUS
  <2>2. q \in 1..Len(zz) /\ q - 1 = l /\ l <= Len(zz)
    BY <2>1, <1>0
  <2>3. ZeroCut(G, zz, N, D, q)
    BY <2>2, <1>2, ZeroStep
  <2>4. QED BY <2>1, <2>3
<1> HIDE DEF Q
<1>3. Nat \subseteq Q
  BY <1>1, <1>2, InductionNat
<1>4. m - 1 \in Nat /\ m - 1 <= Len(zz)
  BY <1>0
<1>5. ZeroCut(G, zz, N, D, m - 1)
  BY <1>3, <1>4 DEF Q
<1>6. QED BY <1>5, ZeroApart

-----------------------------------------------------------------------------
(* The last merge has been made *)

\* The last merge has been made.
Whole(G) ==
    /\ IsTree(G, z, npoints) /\ npoints \in Nat \ {0}
    /\ Len(z) = npoints - 1 /\ DOMAIN z = 1..npoints - 1

\* Every cluster is a point or made by a merge.
LEMMA ClusterIs ==
    ASSUME NEW G, Whole(G), NEW c \in Clusters
    PROVE  /\ c < npoints => c \in 0..npoints - 1 /\ G[c] = {c}
           /\ ~(c < npoints) =>
                 /\ c - npoints + 1 \in 1..Len(z) /\ npoints + (c - npoints + 1) - 1 = c
                 /\ G[c] = G[z[c - npoints + 1][1]] \cup G[z[c - npoints + 1][2]]
                 /\ z[c - npoints + 1][1] \in 0..c - 1 /\ z[c - npoints + 1][2] \in 0..c - 1
           /\ c \in Nat
<1>0. IsTree(G, z, npoints) /\ npoints \in Nat /\ Len(z) = npoints - 1 /\ c \in 0..2 * npoints - 2
  BY DEF Whole, Clusters
<1>1. CASE c < npoints
  <2>1. c \in 0..npoints - 1
    BY <1>0, <1>1
  <2>2. QED BY <2>1, <1>0, <1>1 DEF IsTree
<1>2. CASE ~(c < npoints)
  <2>1. PICK m : m = c - npoints + 1
    OBVIOUS
  <2>2. m \in 1..Len(z) /\ npoints + m - 1 = c /\ npoints + m - 2 = c - 1
    BY <1>0, <1>2, <2>1
  <2>3. Joins(G, z, npoints, m)
    BY <2>2, <1>0 DEF IsTree
  <2>4. z[m][1] \in 0..npoints + m - 2 /\ z[m][2] \in 0..npoints + m - 2
    BY <2>2, <1>0, AliveStep
  <2>5. G[c] = G[z[m][1]] \cup G[z[m][2]]
    BY <2>2, <2>3 DEF Joins
  <2>6. QED BY <1>0, <1>2, <2>1, <2>2, <2>4, <2>5
<1>3. QED BY <1>1, <1>2

\* PointsOf, replayed from the merges, is the tree.
LEMMA PointsOfIs ==
    ASSUME NEW G, Whole(G)
    PROVE  PointsOf = G
<1> DEFINE f == CHOOSE f : f = [c \in Clusters |->
                    IF c < npoints THEN {c} ELSE f[z[c - npoints + 1][1]] \cup f[z[c - npoints + 1][2]]]
<1>1. PointsOf = f
  BY DEF PointsOf
<1>2. DOMAIN G = Clusters /\ G = [c \in Clusters |-> G[c]]
  <2>1. npoints + Len(z) - 1 = 2 * npoints - 2
    BY DEF Whole
  <2>2. QED BY <2>1 DEF Whole, IsTree, IsMap, Clusters
<1>3. \A c \in Clusters : G[c] = IF c < npoints THEN {c} ELSE G[z[c - npoints + 1][1]] \cup G[z[c - npoints + 1][2]]
  BY ClusterIs
<1>4. G = [c \in Clusters |-> IF c < npoints THEN {c} ELSE G[z[c - npoints + 1][1]] \cup G[z[c - npoints + 1][2]]]
  BY <1>2, <1>3
<1>5. f = [c \in Clusters |-> IF c < npoints THEN {c} ELSE f[z[c - npoints + 1][1]] \cup f[z[c - npoints + 1][2]]]
  BY <1>4
<1> HIDE DEF f
<1> DEFINE Q == {l \in Nat : \A c \in Clusters : c < l => f[c] = G[c]}
<1>6. 0 \in Q
  BY ClusterIs
<1>7. ASSUME NEW l \in Nat, l \in Q PROVE l + 1 \in Q
  <2> SUFFICES ASSUME NEW c \in Clusters, c < l + 1 PROVE f[c] = G[c]
    OBVIOUS
  <2>1. f[c] = IF c < npoints THEN {c} ELSE f[z[c - npoints + 1][1]] \cup f[z[c - npoints + 1][2]]
    BY <1>5
  <2>2. CASE c < npoints
    BY <2>1, <2>2, ClusterIs
  <2>3. CASE ~(c < npoints)
    <3>1. PICK a, b : a = z[c - npoints + 1][1] /\ b = z[c - npoints + 1][2]
      OBVIOUS
    <3>2. a \in 0..c - 1 /\ b \in 0..c - 1 /\ G[c] = G[a] \cup G[b] /\ c \in Nat
      BY <3>1, <2>3, ClusterIs
    <3>3. f[c] = f[a] \cup f[b]
      BY <3>1, <2>1, <2>3
    <3>4. a \in Clusters /\ b \in Clusters /\ a < l /\ b < l
      BY <3>2 DEF Whole, Clusters
    <3>5. QED BY <3>2, <3>3, <3>4, <1>7
  <2>4. QED BY <2>2, <2>3
<1>8. Nat \subseteq Q
  <2> HIDE DEF Q
  <2>1. QED BY <1>6, <1>7, InductionNat
<1>9. \A c \in Clusters : f[c] = G[c]
  <2> TAKE c \in Clusters
  <2>1. c \in Nat
    BY ClusterIs
  <2>2. c + 1 \in Q /\ c < c + 1
    <3> HIDE DEF Q
    <3>1. c + 1 \in Nat /\ c < c + 1
      BY <2>1
    <3>2. QED BY <3>1, <1>8
  <2>3. QED BY <2>2
<1>10. f = [c \in Clusters |-> f[c]]
  BY <1>5
<1>11. QED BY <1>1, <1>2, <1>9, <1>10

\* The two halves of a cluster have its points, each of them once.
LEMMA HalvesCount ==
    ASSUME NEW G, Whole(G), NEW c \in Clusters
    PROVE  /\ Cardinality(G[c]) \in Nat \ {0}
           /\ c < npoints => Cardinality(G[c]) = 1
           /\ ~(c < npoints) => Cardinality(G[c]) = Cardinality(G[z[c - npoints + 1][1]])
                                                     + Cardinality(G[z[c - npoints + 1][2]])
<1>0. IsTree(G, z, npoints) /\ npoints \in Nat /\ Len(z) \in Nat
  BY DEF Whole, IsTree
<1>1. IsFiniteSet(0..npoints - 1)
  <2>1. npoints - 1 \in Int
    BY <1>0
  <2>2. QED BY <2>1, FS_Interval
<1>2. CASE c < npoints
  <2>1. G[c] = {c}
    BY <1>2, ClusterIs
  <2>2. Cardinality({c}) = 1
    BY FS_Singleton
  <2>3. QED BY <2>1, <2>2, <1>2
<1>3. CASE ~(c < npoints)
  <2>1. PICK m : m = c - npoints + 1
    OBVIOUS
  <2>2. PICK a, b : a = z[m][1] /\ b = z[m][2]
    OBVIOUS
  <2>3. m \in 1..Len(z) /\ m - 1 \in 0..Len(z) /\ G[c] = G[a] \cup G[b]
    <3>1. m \in 1..Len(z) /\ G[c] = G[a] \cup G[b]
      BY <2>1, <2>2, <1>3, ClusterIs
    <3>2. QED BY <3>1, <1>0
  <2>4. a \in Alive(z, npoints, m - 1) /\ b \in Alive(z, npoints, m - 1) /\ a # b
    BY <2>2, <2>3, <1>0 DEF IsTree, Joins
  <2>5. Parted(G, z, npoints, m - 1)
    BY <2>3, <1>0, TreeParted
  <2>6. /\ G[a] \subseteq 0..npoints - 1 /\ G[b] \subseteq 0..npoints - 1 /\ G[a] \cap G[b] = {}
        /\ G[a] # {} /\ G[b] # {}
    BY <2>4, <2>5 DEF Parted
  <2>7. IsFiniteSet(G[a]) /\ IsFiniteSet(G[b])
    BY <2>6, <1>1, FS_Subset
  <2>8. Cardinality(G[a]) \in Nat /\ Cardinality(G[b]) \in Nat /\ Cardinality(G[a]) # 0
    BY <2>6, <2>7, FS_CardinalityType, FS_EmptySet
  <2>9. Cardinality(G[a] \cup G[b]) = Cardinality(G[a]) + Cardinality(G[b]) - Cardinality(G[a] \cap G[b])
    BY <2>7, FS_Union
  <2>10. Cardinality(G[a] \cap G[b]) = 0
    BY <2>6, FS_EmptySet
  <2>11. Cardinality(G[c]) = Cardinality(G[a]) + Cardinality(G[b])
    BY <2>3, <2>8, <2>9, <2>10
  <2>12. QED BY <1>3, <2>1, <2>2, <2>8, <2>11
<1>4. QED BY <1>2, <1>3

\* Size, replayed from the merges, counts the points.
LEMMA SizeIs ==
    ASSUME NEW G, Whole(G)
    PROVE  \A c \in Clusters : Size[c] = Cardinality(G[c])
<1> DEFINE f == CHOOSE f : f = [c \in Clusters |->
                    IF c < npoints THEN 1 ELSE f[z[c - npoints + 1][1]] + f[z[c - npoints + 1][2]]]
           h == [c \in Clusters |-> Cardinality(G[c])]
<1>1. Size = f
  BY DEF Size
<1>2. ASSUME NEW c \in Clusters, ~(c < npoints)
      PROVE  z[c - npoints + 1][1] \in Clusters /\ z[c - npoints + 1][2] \in Clusters
  <2>1. PICK a, b : a = z[c - npoints + 1][1] /\ b = z[c - npoints + 1][2]
    OBVIOUS
  <2>2. a \in 0..c - 1 /\ b \in 0..c - 1 /\ c \in Nat
    BY <2>1, <1>2, ClusterIs
  <2>3. a \in Clusters /\ b \in Clusters
    BY <2>2 DEF Whole, Clusters
  <2>4. QED BY <2>1, <2>3
<1>3. ASSUME NEW c \in Clusters
      PROVE  h[c] = IF c < npoints THEN 1 ELSE h[z[c - npoints + 1][1]] + h[z[c - npoints + 1][2]]
  <2>1. h[c] = Cardinality(G[c])
    OBVIOUS
  <2>2. CASE c < npoints
    BY <2>1, <2>2, HalvesCount
  <2>3. CASE ~(c < npoints)
    <3>1. PICK a, b : a = z[c - npoints + 1][1] /\ b = z[c - npoints + 1][2]
      OBVIOUS
    <3>2. h[a] = Cardinality(G[a]) /\ h[b] = Cardinality(G[b])
      BY <3>1, <1>2, <2>3
    <3>3. Cardinality(G[c]) = Cardinality(G[a]) + Cardinality(G[b])
      BY <3>1, <2>3, HalvesCount
    <3>4. QED BY <3>1, <3>2, <3>3, <2>1, <2>3
  <2>4. QED BY <2>2, <2>3
<1>4. h = [c \in Clusters |-> h[c]]
  OBVIOUS
<1> HIDE DEF h
<1>5. h = [c \in Clusters |-> IF c < npoints THEN 1 ELSE h[z[c - npoints + 1][1]] + h[z[c - npoints + 1][2]]]
  BY <1>3, <1>4
<1>6. f = [c \in Clusters |-> IF c < npoints THEN 1 ELSE f[z[c - npoints + 1][1]] + f[z[c - npoints + 1][2]]]
  BY <1>5
<1> HIDE DEF f
<1> DEFINE Q == {l \in Nat : \A c \in Clusters : c < l => f[c] = h[c]}
<1>7. 0 \in Q
  BY ClusterIs
<1>8. ASSUME NEW l \in Nat, l \in Q PROVE l + 1 \in Q
  <2> SUFFICES ASSUME NEW c \in Clusters, c < l + 1 PROVE f[c] = h[c]
    OBVIOUS
  <2>1. f[c] = IF c < npoints THEN 1 ELSE f[z[c - npoints + 1][1]] + f[z[c - npoints + 1][2]]
    BY <1>6
  <2>2. CASE c < npoints
    BY <2>1, <2>2, <1>3
  <2>3. CASE ~(c < npoints)
    <3>1. PICK a, b : a = z[c - npoints + 1][1] /\ b = z[c - npoints + 1][2]
      OBVIOUS
    <3>2. a \in 0..c - 1 /\ b \in 0..c - 1 /\ c \in Nat /\ a \in Clusters /\ b \in Clusters
      BY <3>1, <2>3, ClusterIs, <1>2
    <3>3. f[c] = f[a] + f[b] /\ h[c] = h[a] + h[b]
      BY <3>1, <2>1, <2>3, <1>3
    <3>4. a < l /\ b < l
      BY <3>2
    <3>5. QED BY <3>2, <3>3, <3>4, <1>8
  <2>4. QED BY <2>2, <2>3
<1>9. Nat \subseteq Q
  <2> HIDE DEF Q
  <2>1. QED BY <1>7, <1>8, InductionNat
<1>10. \A c \in Clusters : f[c] = h[c]
  <2> TAKE c \in Clusters
  <2>1. c \in Nat
    BY ClusterIs
  <2>2. c + 1 \in Q /\ c < c + 1
    <3> HIDE DEF Q
    <3>1. c + 1 \in Nat /\ c < c + 1
      BY <2>1
    <3>2. QED BY <3>1, <1>9
  <2>3. QED BY <2>2
<1>11. QED BY <1>1, <1>10 DEF h

\* The cluster of the last merge is the only one left, and has all points.
LEMMA RootIs ==
    ASSUME NEW G, Whole(G)
    PROVE  /\ Alive(z, npoints, npoints - 1) = {2 * npoints - 2}
           /\ G[2 * npoints - 2] = 0..npoints - 1 /\ Cardinality(G[2 * npoints - 2]) = npoints
<1>0. IsTree(G, z, npoints) /\ npoints \in Nat \ {0} /\ Len(z) = npoints - 1
  BY DEF Whole
<1>1. PICK l : l = npoints - 1
  OBVIOUS
<1>2. l \in 0..Len(z) /\ npoints - l = 1
  BY <1>0, <1>1
<1>3. Parted(G, z, npoints, l)
  BY <1>0, <1>2, TreeParted
<1> DEFINE A == Alive(z, npoints, l)
           c == 2 * npoints - 2
<1>4. IsFiniteSet(A) /\ Cardinality(A) = 1
  BY <1>2, <1>3 DEF Parted
<1>5. c \in A
  <2>1. CASE npoints = 1
    <3>1. A = 0..0
      BY <2>1, <1>1 DEF Alive
    <3>2. QED BY <3>1, <2>1
  <2>2. CASE npoints # 1
    <3>1. l \in 1..Len(z) /\ npoints + l - 1 = c
      BY <2>2, <1>0, <1>1
    <3>2. Alive(z, npoints, l) = (Alive(z, npoints, l - 1) \ {z[l][1], z[l][2]}) \cup {npoints + l - 1}
      BY <3>1, <1>0, AliveStep
    <3>3. QED BY <3>1, <3>2
  <2>3. QED BY <2>1, <2>2
<1>6. A = {c}
  <2>1. PICK e : A = {e}
    BY <1>4, FS_Singleton
  <2>2. QED BY <2>1, <1>5
<1>7. G[c] = 0..npoints - 1
  <2>1. G[c] \subseteq 0..npoints - 1
    BY <1>3, <1>5 DEF Parted
  <2>2. \A x \in 0..npoints - 1 : \E e \in A : x \in G[e]
    BY <1>3 DEF Parted
  <2> HIDE DEF c, A
  <2>3. QED BY <2>1, <2>2, <1>6
<1>8. Cardinality(0..npoints - 1) = npoints
  <2>1. npoints - 1 \in Int /\ 0 <= npoints - 1
    BY <1>0
  <2>2. \A b \in Int : 0 <= b => Cardinality(0..b) = b + 1
    BY FS_Interval
  <2>3. Cardinality(0..npoints - 1) = npoints - 1 + 1
    BY <2>1, <2>2
  <2>4. QED BY <2>3, <1>0
<1>9. QED BY <1>1, <1>6, <1>7, <1>8

\* Every other cluster is half of exactly one.
LEMMA MergeOfIs ==
    ASSUME NEW G, Whole(G), NEW c \in Clusters, c # 2 * npoints - 2
    PROVE  /\ MergeOf(c) \in 1..npoints - 1 /\ c \in {z[MergeOf(c)][1], z[MergeOf(c)][2]}
           /\ npoints + MergeOf(c) - 1 \in Clusters /\ c < npoints + MergeOf(c) - 1
<1>0. IsTree(G, z, npoints) /\ npoints \in Nat \ {0} /\ Len(z) = npoints - 1 /\ DOMAIN z = 1..npoints - 1
  BY DEF Whole
<1>1. c \in 0..npoints + (npoints - 1) - 1
  BY <1>0 DEF Clusters
<1>2. c \notin Alive(z, npoints, npoints - 1)
  BY RootIs
<1>3. \E m \in 1..npoints - 1 : c \in {z[m][1], z[m][2]}
  BY <1>1, <1>2 DEF Alive
<1>4. MergeOf(c) \in 1..npoints - 1 /\ c \in {z[MergeOf(c)][1], z[MergeOf(c)][2]}
  BY <1>0, <1>3 DEF MergeOf
<1>5. PICK m : m = MergeOf(c)
  OBVIOUS
<1>6. z[m][1] \in 0..npoints + m - 2 /\ z[m][2] \in 0..npoints + m - 2
  BY <1>0, <1>4, <1>5, AliveStep
<1>7. m \in 1..npoints - 1 /\ c \in 0..npoints + m - 2
  BY <1>4, <1>5, <1>6
<1>8. npoints + m - 1 \in Clusters /\ c < npoints + m - 1
  BY <1>0, <1>7 DEF Clusters
<1>9. QED BY <1>4, <1>5, <1>8

\* The merge of a half is the one it was taken from.
LEMMA HalfOf ==
    ASSUME NEW G, Whole(G), NEW m \in 1..npoints - 1
    PROVE  /\ z[m][1] \in Clusters /\ z[m][1] # 2 * npoints - 2 /\ MergeOf(z[m][1]) = m
           /\ z[m][2] \in Clusters /\ z[m][2] # 2 * npoints - 2 /\ MergeOf(z[m][2]) = m
           /\ z[m][1] # z[m][2] /\ npoints + m - 1 \in Clusters
           /\ G[npoints + m - 1] = G[z[m][1]] \cup G[z[m][2]]
           /\ Cardinality(G[npoints + m - 1]) = Cardinality(G[z[m][1]]) + Cardinality(G[z[m][2]])
<1>0. IsTree(G, z, npoints) /\ npoints \in Nat \ {0} /\ Len(z) = npoints - 1
  BY DEF Whole
<1>1. ASSUME NEW c \in {z[m][1], z[m][2]}
      PROVE  c \in Clusters /\ c # 2 * npoints - 2 /\ MergeOf(c) = m
  <2>1. c \in 0..npoints + m - 2 /\ c \in Alive(z, npoints, m - 1)
    <3>1. z[m][1] \in 0..npoints + m - 2 /\ z[m][2] \in 0..npoints + m - 2
      BY <1>0, AliveStep
    <3>2. Joins(G, z, npoints, m)
      BY <1>0 DEF IsTree
    <3>3. z[m][1] \in Alive(z, npoints, m - 1) /\ z[m][2] \in Alive(z, npoints, m - 1)
      BY <3>2 DEF Joins
    <3>4. QED BY <3>1, <3>3
  <2>2. c \in Clusters /\ c # 2 * npoints - 2
    BY <2>1, <1>0 DEF Clusters
  <2>3. PICK q : q = MergeOf(c)
    OBVIOUS
  <2>4. q \in 1..npoints - 1 /\ c \in {z[q][1], z[q][2]}
    BY <2>2, <2>3, MergeOfIs
  <2>5. c \in Alive(z, npoints, q - 1)
    BY <2>4, <1>0 DEF IsTree, Joins
  <2>6. ~(q < m)
    <3>1. q < m => q \in 1..m - 1
      BY <2>4
    <3>2. QED BY <3>1, <2>1, <2>4 DEF Alive
  <2>7. ~(m < q)
    <3>1. m < q => m \in 1..q - 1
      BY <2>4
    <3>2. QED BY <3>1, <2>5 DEF Alive
  <2>8. QED BY <2>2, <2>3, <2>4, <2>6, <2>7
<1>2. z[m][1] # z[m][2] /\ G[npoints + m - 1] = G[z[m][1]] \cup G[z[m][2]]
  BY <1>0 DEF IsTree, Joins
<1>3. PICK c : c = npoints + m - 1
  OBVIOUS
<1>4. c \in Clusters /\ ~(c < npoints) /\ c - npoints + 1 = m
  BY <1>0, <1>3 DEF Clusters
<1>5. Cardinality(G[c]) = Cardinality(G[z[c - npoints + 1][1]]) + Cardinality(G[z[c - npoints + 1][2]])
  BY <1>4, HalvesCount
<1>6. Cardinality(G[c]) = Cardinality(G[z[m][1]]) + Cardinality(G[z[m][2]])
  BY <1>4, <1>5
<1>7. QED BY <1>1, <1>2, <1>3, <1>4, <1>6

-----------------------------------------------------------------------------
(* The positions of the clusters *)

\* The span of c, given that of the cluster it is half of.
SpanAt(w, c) ==
    IF c = 2 * npoints - 2 THEN <<0, npoints - 1>>
    ELSE IF z[MergeOf(c)][1] = c THEN <<w[1], w[1] + Size[c] - 1>>
    ELSE <<w[2] - (Size[c] - 1), w[2]>>

\* f gives their spans to the last l + 1 clusters.
SpansFrom(f, l) ==
    /\ f = [c \in Clusters |-> f[c]]
    /\ \A c \in Clusters : 2 * npoints - 2 - l <= c => f[c] = SpanAt(f[npoints + MergeOf(c) - 1], c)

\* Last merge to first, every cluster gets a span.
LEMMA SpansExist ==
    ASSUME NEW G, Whole(G)
    PROVE  \A l \in Nat : \E f : SpansFrom(f, l)
<1> DEFINE Q == {l \in Nat : \E f : SpansFrom(f, l)}
<1>0. npoints \in Nat \ {0}
  BY DEF Whole
<1>1. 0 \in Q
  <2>1. PICK f : f = [c \in Clusters |-> <<0, npoints - 1>>]
    OBVIOUS
  <2>2. ASSUME NEW c \in Clusters, 2 * npoints - 2 - 0 <= c
        PROVE  f[c] = SpanAt(f[npoints + MergeOf(c) - 1], c)
    <3>1. c = 2 * npoints - 2
      BY <1>0, <2>2 DEF Clusters
    <3>2. SpanAt(f[npoints + MergeOf(c) - 1], c) = <<0, npoints - 1>>
      BY <3>1 DEF SpanAt
    <3>3. QED BY <3>2, <2>1
  <2>3. SpansFrom(f, 0)
    BY <2>1, <2>2 DEF SpansFrom
  <2>4. QED BY <2>3
<1>2. ASSUME NEW l \in Nat, l \in Q PROVE l + 1 \in Q
  <2>1. PICK f : SpansFrom(f, l)
    BY <1>2
  <2>2. PICK e : e = 2 * npoints - 2 - (l + 1)
    OBVIOUS
  <2>3. PICK v : v = SpanAt(f[npoints + MergeOf(e) - 1], e)
    OBVIOUS
  <2>4. PICK h : h = [c \in Clusters |-> IF c = e THEN v ELSE f[c]]
    OBVIOUS
  <2>5. ASSUME NEW c \in Clusters, 2 * npoints - 2 - (l + 1) <= c
        PROVE  h[c] = SpanAt(h[npoints + MergeOf(c) - 1], c)
    <3>1. CASE c = 2 * npoints - 2
      <4>1. c # e /\ 2 * npoints - 2 - l <= c
        BY <3>1, <2>2, <1>0
      <4>2. h[c] = SpanAt(f[npoints + MergeOf(c) - 1], c)
        BY <4>1, <2>1, <2>4 DEF SpansFrom
      <4>3. QED BY <4>2, <3>1 DEF SpanAt
    <3>2. CASE c # 2 * npoints - 2
      <4>1. PICK p : p = npoints + MergeOf(c) - 1
        OBVIOUS
      <4>2. p \in Clusters /\ c < p
        BY <4>1, <3>2, MergeOfIs
      <4>3. p # e /\ c \in Int
        BY <4>2, <2>2, <2>5, <1>0 DEF Clusters
      <4>4. h[p] = f[p]
        BY <4>2, <4>3, <2>4
      <4>5. CASE c = e
        BY <4>1, <4>4, <4>5, <2>3, <2>4
      <4>6. CASE c # e
        <5>1. 2 * npoints - 2 - l <= c
          BY <4>6, <4>3, <2>2, <2>5, <1>0
        <5>2. h[c] = f[c] /\ f[c] = SpanAt(f[p], c)
          BY <5>1, <4>1, <4>6, <2>1, <2>4 DEF SpansFrom
        <5>3. QED BY <5>2, <4>1, <4>4
      <4>7. QED BY <4>5, <4>6
    <3>3. QED BY <3>1, <3>2
  <2>6. h = [c \in Clusters |-> h[c]]
    BY <2>4
  <2>7. SpansFrom(h, l + 1)
    BY <2>5, <2>6 DEF SpansFrom
  <2>8. QED BY <2>7
<1>3. Nat \subseteq Q
  <2> HIDE DEF Q
  <2>1. QED BY <1>1, <1>2, InductionNat
<1>4. QED BY <1>3

\* Spans gives each cluster the left or the right end of the one it is half of.
LEMMA SpansIs ==
    ASSUME NEW G, Whole(G)
    PROVE  \A c \in Clusters : Spans[c] = SpanAt(Spans[npoints + MergeOf(c) - 1], c)
<1> DEFINE f == CHOOSE f : f = [c \in Clusters |->
                    IF c = 2 * npoints - 2 THEN <<0, npoints - 1>>
                    ELSE LET whole == f[npoints + MergeOf(c) - 1]
                         IN  IF z[MergeOf(c)][1] = c
                               THEN <<whole[1], whole[1] + Size[c] - 1>>
                               ELSE <<whole[2] - (Size[c] - 1), whole[2]>>]
<1>1. Spans = f
  BY DEF Spans
<1>2. 2 * npoints - 2 \in Nat /\ \A c \in Clusters : 2 * npoints - 2 - (2 * npoints - 2) <= c
  BY DEF Whole, Clusters
<1>3. PICK h : SpansFrom(h, 2 * npoints - 2)
  BY <1>2, SpansExist
<1>4. \A c \in Clusters : h[c] = SpanAt(h[npoints + MergeOf(c) - 1], c)
  BY <1>2, <1>3 DEF SpansFrom
<1>5. h = [c \in Clusters |-> SpanAt(h[npoints + MergeOf(c) - 1], c)]
  BY <1>3, <1>4 DEF SpansFrom
<1>6. h = [c \in Clusters |->
              IF c = 2 * npoints - 2 THEN <<0, npoints - 1>>
              ELSE LET whole == h[npoints + MergeOf(c) - 1]
                   IN  IF z[MergeOf(c)][1] = c
                         THEN <<whole[1], whole[1] + Size[c] - 1>>
                         ELSE <<whole[2] - (Size[c] - 1), whole[2]>>]
  BY <1>5, Zenon DEF SpanAt
<1>7. f = [c \in Clusters |->
              IF c = 2 * npoints - 2 THEN <<0, npoints - 1>>
              ELSE LET whole == f[npoints + MergeOf(c) - 1]
                   IN  IF z[MergeOf(c)][1] = c
                         THEN <<whole[1], whole[1] + Size[c] - 1>>
                         ELSE <<whole[2] - (Size[c] - 1), whole[2]>>]
  BY <1>6
<1> HIDE DEF f
<1>8. f = [c \in Clusters |-> SpanAt(f[npoints + MergeOf(c) - 1], c)]
  BY <1>7, Zenon DEF SpanAt
<1>9. QED BY <1>1, <1>8

\* The positions from sp[c][1] to sp[c][2] are as many as the points of c.
Fits(G, sp, c) ==
    /\ sp[c][1] \in Int /\ sp[c][2] \in Int
    /\ sp[c][2] = sp[c][1] + Cardinality(G[c]) - 1
    /\ 0 <= sp[c][1] /\ sp[c][2] <= npoints - 1

\* A half fits when the whole does.
LEMMA FitsStep ==
    ASSUME NEW G, Whole(G), NEW c \in Clusters,
           c = 2 * npoints - 2 \/ Fits(G, Spans, npoints + MergeOf(c) - 1)
    PROVE  Fits(G, Spans, c)
<1>0. npoints \in Nat \ {0}
  BY DEF Whole
<1>1. CASE c = 2 * npoints - 2
  <2>1. Spans[c] = <<0, npoints - 1>>
    BY <1>1, SpansIs DEF SpanAt
  <2>2. Cardinality(G[c]) = npoints
    BY <1>1, RootIs
  <2>3. Spans[c][1] = 0 /\ Spans[c][2] = npoints - 1
    BY <2>1
  <2>4. QED BY <2>2, <2>3, <1>0 DEF Fits
<1>2. CASE c # 2 * npoints - 2
  <2>1. PICK m : m = MergeOf(c)
    OBVIOUS
  <2>2. PICK w : w = Spans[npoints + m - 1]
    OBVIOUS
  <2>3. m \in 1..npoints - 1 /\ c \in {z[m][1], z[m][2]}
    BY <1>2, <2>1, MergeOfIs
  <2>4. PICK A, B : A = Cardinality(G[z[m][1]]) /\ B = Cardinality(G[z[m][2]])
    OBVIOUS
  <2>5. z[m][1] \in Clusters /\ z[m][2] \in Clusters /\ Cardinality(G[npoints + m - 1]) = A + B
    BY <2>3, <2>4, HalfOf
  <2>6. A \in Nat \ {0} /\ B \in Nat \ {0}
    BY <2>4, <2>5, HalvesCount
  <2>7. /\ w[1] \in Int /\ w[2] \in Int /\ w[2] = w[1] + (A + B) - 1
        /\ 0 <= w[1] /\ w[2] <= npoints - 1
    BY <1>2, <2>1, <2>2, <2>5 DEF Fits
  <2>8. Size[c] = Cardinality(G[c]) /\ Spans[c] = SpanAt(w, c)
    BY <2>1, <2>2, SizeIs, SpansIs
  <2>9. CASE z[m][1] = c
    <3>1. Spans[c] = <<w[1], w[1] + A - 1>> /\ Cardinality(G[c]) = A
      BY <2>9, <2>8, <2>1, <2>4, <1>2 DEF SpanAt
    <3>2. Spans[c][1] = w[1] /\ Spans[c][2] = w[1] + A - 1
      BY <3>1
    <3>3. w[1] + A - 1 \in Int /\ w[1] + A - 1 <= npoints - 1
      BY <2>6, <2>7, <1>0
    <3>4. QED BY <3>1, <3>2, <3>3, <2>7 DEF Fits
  <2>10. CASE z[m][1] # c
    <3>1. Spans[c] = <<w[2] - (B - 1), w[2]>> /\ Cardinality(G[c]) = B
      BY <2>10, <2>8, <2>3, <2>1, <2>4, <1>2 DEF SpanAt
    <3>2. Spans[c][1] = w[2] - (B - 1) /\ Spans[c][2] = w[2]
      BY <3>1
    <3>3. w[2] - (B - 1) \in Int /\ 0 <= w[2] - (B - 1) /\ w[2] = w[2] - (B - 1) + B - 1
      BY <2>6, <2>7, <1>0
    <3>4. QED BY <3>1, <3>2, <3>3, <2>7 DEF Fits
  <2>11. QED BY <2>9, <2>10
<1>3. QED BY <1>1, <1>2

\* Every cluster fits.
LEMMA SpansFit ==
    ASSUME NEW G, Whole(G)
    PROVE  \A c \in Clusters : Fits(G, Spans, c)
<1> DEFINE Q == {l \in Nat : \A c \in Clusters : 2 * npoints - 2 - l <= c => Fits(G, Spans, c)}
<1>0. npoints \in Nat \ {0}
  BY DEF Whole
<1>1. 0 \in Q
  <2>1. ASSUME NEW c \in Clusters, 2 * npoints - 2 - 0 <= c PROVE Fits(G, Spans, c)
    <3>1. c = 2 * npoints - 2
      BY <1>0, <2>1 DEF Clusters
    <3>2. QED BY <3>1, FitsStep
  <2>2. QED BY <2>1
<1>2. ASSUME NEW l \in Nat, l \in Q PROVE l + 1 \in Q
  <2> SUFFICES ASSUME NEW c \in Clusters, 2 * npoints - 2 - (l + 1) <= c PROVE Fits(G, Spans, c)
    OBVIOUS
  <2>1. CASE c = 2 * npoints - 2
    BY <2>1, FitsStep
  <2>2. CASE c # 2 * npoints - 2
    <3>1. PICK p : p = npoints + MergeOf(c) - 1
      OBVIOUS
    <3>2. p \in Clusters /\ c < p
      BY <3>1, <2>2, MergeOfIs
    <3>3. 2 * npoints - 2 - l <= p
      BY <3>2, <1>0 DEF Clusters
    <3>4. Fits(G, Spans, p)
      BY <3>2, <3>3, <1>2
    <3>5. QED BY <3>1, <3>4, FitsStep
  <2>3. QED BY <2>1, <2>2
<1>3. Nat \subseteq Q
  <2> HIDE DEF Q
  <2>1. QED BY <1>1, <1>2, InductionNat
<1>4. 2 * npoints - 2 \in Nat /\ \A c \in Clusters : 2 * npoints - 2 - (2 * npoints - 2) <= c
  BY <1>0 DEF Clusters
<1>5. 2 * npoints - 2 \in Q
  <2> HIDE DEF Q
  <2>1. QED BY <1>3, <1>4
<1>6. QED BY <1>4, <1>5

\* The positions of cluster c.
Pos(sp, c) == sp[c][1]..sp[c][2]

\* sp lays the tree out: a cluster has positions, and its halves divide them.
LaidOut(sp) ==
    /\ \A c \in Clusters : Pos(sp, c) \subseteq Rows
    /\ \A i \in Rows : sp[i][1] \in Pos(sp, i)
    /\ \A m \in 1..npoints - 1 :
          /\ Pos(sp, z[m][1]) \subseteq Pos(sp, npoints + m - 1)
          /\ Pos(sp, z[m][2]) \subseteq Pos(sp, npoints + m - 1)
          /\ Pos(sp, z[m][1]) \cap Pos(sp, z[m][2]) = {}

\* The layout of clusterizerrunahc divides the positions along the tree.
LEMMA SpansLayOut ==
    ASSUME NEW G, Whole(G)
    PROVE  LaidOut(Spans)
<1>0. npoints \in Nat \ {0}
  BY DEF Whole
<1>1. ASSUME NEW c \in Clusters PROVE Pos(Spans, c) \subseteq Rows
  <2>1. /\ Spans[c][1] \in Int /\ Spans[c][2] \in Int
        /\ 0 <= Spans[c][1] /\ Spans[c][2] <= npoints - 1
    BY SpansFit DEF Fits
  <2>2. QED BY <2>1, <1>0 DEF Pos, Rows
<1>2. ASSUME NEW i \in Rows PROVE Spans[i][1] \in Pos(Spans, i)
  <2>1. i \in Clusters /\ i < npoints
    BY <1>0 DEF Rows, Clusters
  <2>2. Cardinality(G[i]) = 1
    BY <2>1, HalvesCount
  <2>3. /\ Spans[i][1] \in Int /\ Spans[i][2] \in Int /\ Spans[i][2] = Spans[i][1] + Cardinality(G[i]) - 1
    BY <2>1, SpansFit DEF Fits
  <2>4. Spans[i][2] = Spans[i][1] + 1 - 1
    BY <2>2, <2>3
  <2>5. QED BY <2>3, <2>4 DEF Pos
<1>3. ASSUME NEW m \in 1..npoints - 1
      PROVE  /\ Pos(Spans, z[m][1]) \subseteq Pos(Spans, npoints + m - 1)
             /\ Pos(Spans, z[m][2]) \subseteq Pos(Spans, npoints + m - 1)
             /\ Pos(Spans, z[m][1]) \cap Pos(Spans, z[m][2]) = {}
  <2>1. PICK a, b, c, w : a = z[m][1] /\ b = z[m][2] /\ c = npoints + m - 1 /\ w = Spans[c]
    OBVIOUS
  <2>2. PICK A, B : A = Cardinality(G[a]) /\ B = Cardinality(G[b])
    OBVIOUS
  <2>3. /\ a \in Clusters /\ a # 2 * npoints - 2 /\ MergeOf(a) = m
        /\ b \in Clusters /\ b # 2 * npoints - 2 /\ MergeOf(b) = m
        /\ a # b /\ c \in Clusters
    BY <2>1, HalfOf
  <2>4. Cardinality(G[c]) = A + B
    BY <2>1, <2>2, HalfOf
  <2>5. A \in Nat \ {0} /\ B \in Nat \ {0} /\ Size[a] = A /\ Size[b] = B
    BY <2>2, <2>3, HalvesCount, SizeIs
  <2>6. w[1] \in Int /\ w[2] \in Int /\ w[2] = w[1] + (A + B) - 1
    BY <2>1, <2>3, <2>4, SpansFit DEF Fits
  <2>7. Spans[a] = SpanAt(w, a) /\ Spans[b] = SpanAt(w, b)
    BY <2>1, <2>3, SpansIs
  <2>8. Spans[a] = <<w[1], w[1] + A - 1>> /\ Spans[b] = <<w[2] - (B - 1), w[2]>>
    BY <2>1, <2>3, <2>5, <2>7 DEF SpanAt
  <2>9. Pos(Spans, a) = w[1]..w[1] + A - 1 /\ Pos(Spans, b) = w[2] - (B - 1)..w[2] /\ Pos(Spans, c) = w[1]..w[2]
    BY <2>1, <2>8 DEF Pos
  <2>10. /\ Pos(Spans, a) \subseteq Pos(Spans, c) /\ Pos(Spans, b) \subseteq Pos(Spans, c)
         /\ Pos(Spans, a) \cap Pos(Spans, b) = {}
    BY <2>9, <2>5, <2>6
  <2>11. QED BY <2>1, <2>10
<1>4. QED BY <1>1, <1>2, <1>3 DEF LaidOut

\* Clusters that exist together have no position in common.
Spread(sp, l) ==
    \A b, c \in Alive(z, npoints, l) : b # c => Pos(sp, b) \cap Pos(sp, c) = {}

\* Undoing a merge keeps the positions apart.
LEMMA SpreadBack ==
    ASSUME NEW G, Whole(G), NEW sp, LaidOut(sp), NEW m \in 1..npoints - 1, Spread(sp, m)
    PROVE  Spread(sp, m - 1)
<1>0. IsTree(G, z, npoints) /\ Len(z) = npoints - 1
  BY DEF Whole
<1>1. PICK a, b, c, A, B : /\ a = z[m][1] /\ b = z[m][2] /\ c = npoints + m - 1
                           /\ A = Alive(z, npoints, m - 1) /\ B = Alive(z, npoints, m)
  OBVIOUS
<1>2. B = (A \ {a, b}) \cup {c} /\ c \notin A
  BY <1>0, <1>1, AliveStep
<1>3. /\ Pos(sp, a) \subseteq Pos(sp, c) /\ Pos(sp, b) \subseteq Pos(sp, c)
      /\ Pos(sp, a) \cap Pos(sp, b) = {}
  BY <1>1 DEF LaidOut
<1>4. \A e, f \in B : e # f => Pos(sp, e) \cap Pos(sp, f) = {}
  BY <1>1 DEF Spread
<1>5. ASSUME NEW e \in A, NEW f \in A, e # f PROVE Pos(sp, e) \cap Pos(sp, f) = {}
  <2>1. CASE e \in {a, b} /\ f \in {a, b}
    BY <2>1, <1>3, <1>5
  <2>2. CASE e \in {a, b} /\ f \notin {a, b}
    <3>1. f \in B /\ c \in B /\ f # c
      BY <2>2, <1>2, <1>5
    <3>2. Pos(sp, c) \cap Pos(sp, f) = {}
      BY <3>1, <1>4
    <3>3. QED BY <3>2, <2>2, <1>3
  <2>3. CASE e \notin {a, b} /\ f \in {a, b}
    <3>1. e \in B /\ c \in B /\ e # c
      BY <2>3, <1>2, <1>5
    <3>2. Pos(sp, c) \cap Pos(sp, e) = {}
      BY <3>1, <1>4
    <3>3. QED BY <3>2, <2>3, <1>3
  <2>4. CASE e \notin {a, b} /\ f \notin {a, b}
    BY <2>4, <1>2, <1>4, <1>5
  <2>5. QED BY <2>1, <2>2, <2>3, <2>4
<1>6. QED BY <1>1, <1>5 DEF Spread

\* They are apart after any number of merges.
LEMMA SpreadAll ==
    ASSUME NEW G, Whole(G), NEW sp, LaidOut(sp)
    PROVE  \A l \in 0..npoints - 1 : Spread(sp, l)
<1> DEFINE Q == {i \in Nat : i <= npoints - 1 => Spread(sp, npoints - 1 - i)}
<1>0. npoints \in Nat \ {0}
  BY DEF Whole
<1>1. 0 \in Q
  <2>1. Spread(sp, npoints - 1)
    BY RootIs DEF Spread
  <2>2. npoints - 1 - 0 = npoints - 1
    BY <1>0
  <2>3. QED BY <2>1, <2>2
<1>2. ASSUME NEW i \in Nat, i \in Q PROVE i + 1 \in Q
  <2> SUFFICES ASSUME i + 1 <= npoints - 1 PROVE Spread(sp, npoints - 1 - (i + 1))
    OBVIOUS
  <2>1. PICK m : m = npoints - 1 - i
    OBVIOUS
  <2>2. m \in 1..npoints - 1 /\ npoints - 1 - (i + 1) = m - 1 /\ i <= npoints - 1
    BY <2>1, <1>0
  <2>3. Spread(sp, m)
    BY <1>2, <2>1, <2>2
  <2>4. QED BY <2>2, <2>3, SpreadBack
<1>3. Nat \subseteq Q
  <2> HIDE DEF Q
  <2>1. QED BY <1>1, <1>2, InductionNat
<1>4. ASSUME NEW l \in 0..npoints - 1 PROVE Spread(sp, l)
  <2>1. PICK i : i = npoints - 1 - l
    OBVIOUS
  <2>2. i \in Nat /\ i <= npoints - 1 /\ npoints - 1 - i = l
    BY <2>1, <1>0
  <2>3. i \in Q
    <3> HIDE DEF Q
    <3>1. QED BY <1>3, <2>2
  <2>4. QED BY <2>2, <2>3
<1>5. QED BY <1>4

\* The position of a point is one of those of every cluster that it is in.
LEMMA PointWithin ==
    ASSUME NEW G, Whole(G), NEW sp, LaidOut(sp)
    PROVE  \A c \in Clusters : \A i \in G[c] : sp[i][1] \in Pos(sp, c)
<1> DEFINE Q == {l \in Nat : \A c \in Clusters : c < l => \A i \in G[c] : sp[i][1] \in Pos(sp, c)}
<1>0. npoints \in Nat \ {0} /\ Len(z) = npoints - 1
  BY DEF Whole
<1>1. 0 \in Q
  BY ClusterIs
<1>2. ASSUME NEW l \in Nat, l \in Q PROVE l + 1 \in Q
  <2> SUFFICES ASSUME NEW c \in Clusters, c < l + 1, NEW i \in G[c] PROVE sp[i][1] \in Pos(sp, c)
    OBVIOUS
  <2>1. CASE c < npoints
    <3>1. i = c /\ i \in Rows
      BY <2>1, ClusterIs DEF Rows
    <3>2. QED BY <3>1 DEF LaidOut
  <2>2. CASE ~(c < npoints)
    <3>1. PICK m : m = c - npoints + 1
      OBVIOUS
    <3>2. PICK a, b : a = z[m][1] /\ b = z[m][2]
      OBVIOUS
    <3>3. /\ m \in 1..npoints - 1 /\ npoints + m - 1 = c
          /\ G[c] = G[a] \cup G[b] /\ a \in 0..c - 1 /\ b \in 0..c - 1 /\ c \in Nat
      BY <3>1, <3>2, <2>2, <1>0, ClusterIs
    <3>4. Pos(sp, a) \subseteq Pos(sp, c) /\ Pos(sp, b) \subseteq Pos(sp, c)
      BY <3>2, <3>3 DEF LaidOut
    <3>5. a \in Clusters /\ b \in Clusters /\ a < l /\ b < l
      BY <3>3, <1>0 DEF Clusters
    <3>6. CASE i \in G[a]
      BY <3>4, <3>5, <3>6, <1>2
    <3>7. CASE i \in G[b]
      BY <3>4, <3>5, <3>7, <1>2
    <3>8. QED BY <3>3, <3>6, <3>7
  <2>3. QED BY <2>1, <2>2
<1>3. Nat \subseteq Q
  <2> HIDE DEF Q
  <2>1. QED BY <1>1, <1>2, InductionNat
<1>4. ASSUME NEW c \in Clusters, NEW i \in G[c] PROVE sp[i][1] \in Pos(sp, c)
  <2>1. c \in Nat
    BY ClusterIs
  <2>2. c + 1 \in Q /\ c < c + 1
    <3> HIDE DEF Q
    <3>1. c + 1 \in Nat /\ c < c + 1
      BY <2>1
    <3>2. QED BY <3>1, <1>3
  <2>3. QED BY <2>2
<1>5. QED BY <1>4

-----------------------------------------------------------------------------
(* A merge adds to the tree *)

\* After the merges zz, the clusters a and b are v apart and none are closer.
Nearby(G, zz, N, D, a, b, v) ==
    /\ a \in Alive(zz, N, Len(zz)) /\ b \in Alive(zz, N, Len(zz)) /\ a # b /\ v \in Nat
    /\ \A x \in G[a], y \in G[b] : D[x][y] <= v
    /\ \A e, f \in Alive(zz, N, Len(zz)) : e # f => \E x \in G[e], y \in G[f] : v <= D[x][y]

\* yy and ld have one element more than the n of zz and md.
Longer(zz, yy, md, ld, n, a, b, v) ==
    /\ n = Len(zz) /\ Len(yy) = n + 1 /\ yy[n + 1] = <<a, b>> /\ \A m \in 1..n : yy[m] = zz[m]
    /\ ld[n + 1] = v /\ \A m \in 1..n : ld[m] = md[m]

\* H has one cluster more than G.
Larger(G, H, N, n, a, b) ==
    /\ DOMAIN H = 0..N + n /\ IsMap(H)
    /\ \A c \in 0..N + n - 1 : H[c] = G[c]
    /\ H[N + n] = G[a] \cup G[b]

\* One more merge, of the two clusters that are closest, makes a larger tree.
LEMMA TreeGrow ==
    ASSUME NEW G, NEW zz, NEW N, NEW D, NEW md, IsLinkage(G, zz, N, D, md),
           NEW a, NEW b, NEW v, Nearby(G, zz, N, D, a, b, v),
           NEW n, NEW yy, NEW ld, Longer(zz, yy, md, ld, n, a, b, v),
           NEW H, Larger(G, H, N, n, a, b)
    PROVE  IsLinkage(H, yy, N, D, ld)
<1>2. /\ a \in Alive(zz, N, n) /\ b \in Alive(zz, N, n) /\ a # b /\ v \in Nat /\ n = Len(zz)
      /\ \A x \in G[a], y \in G[b] : D[x][y] <= v
      /\ \A e, f \in Alive(zz, N, n) : e # f => \E x \in G[e], y \in G[f] : v <= D[x][y]
  BY DEF Nearby, Longer
<1>3. Len(yy) = n + 1 /\ yy[n + 1] = <<a, b>> /\ ld[n + 1] = v
  BY DEF Longer
<1>4. /\ DOMAIN H = 0..N + n /\ IsMap(H)
      /\ \A c \in 0..N + n - 1 : H[c] = G[c]
      /\ H[N + n] = G[a] \cup G[b]
  BY DEF Larger
<1>0. IsTree(G, zz, N) /\ N \in Nat /\ n \in Nat
  BY <1>2 DEF IsLinkage, IsTree
<1>1. \A m \in 1..n : yy[m] = zz[m] /\ ld[m] = md[m]
  BY DEF Longer
<1>6. ASSUME NEW l \in 0..n PROVE Alive(yy, N, l) = Alive(zz, N, l)
  <2>1. \A m \in 1..l : yy[m] = zz[m]
    BY <1>0, <1>1
  <2>2. QED BY <2>1 DEF Alive
<1>7. ASSUME NEW l \in 0..n, NEW c \in Alive(zz, N, l) PROVE H[c] = G[c]
  <2>1. c \in 0..N + n - 1
    BY <1>0 DEF Alive
  <2>2. QED BY <2>1, <1>4
<1>8. yy[n + 1][1] = a /\ yy[n + 1][2] = b
  BY <1>3
<1>9. ASSUME NEW m \in 1..n PROVE Joins(H, yy, N, m) /\ Links(H, yy, N, D, ld, m)
  <2>1. Joins(G, zz, N, m) /\ Links(G, zz, N, D, md, m)
    BY <1>2 DEF IsLinkage, IsTree
  <2>2. m - 1 \in 0..n /\ N + m - 1 \in 0..N + n - 1
    BY <1>0
  <2>3. PICK A, s, t, c : A = Alive(zz, N, m - 1) /\ s = zz[m][1] /\ t = zz[m][2] /\ c = N + m - 1
    OBVIOUS
  <2>4. Alive(yy, N, m - 1) = A /\ \A e \in A : H[e] = G[e]
    BY <1>6, <1>7, <2>2, <2>3
  <2>5. s \in A /\ t \in A /\ s # t /\ G[c] = G[s] \cup G[t]
    BY <2>1, <2>3 DEF Joins
  <2>6. H[c] = G[c] /\ H[s] = G[s] /\ H[t] = G[t]
    BY <2>2, <2>3, <2>4, <2>5, <1>4
  <2>7. yy[m][1] = s /\ yy[m][2] = t /\ ld[m] = md[m]
    BY <2>3, <1>1
  <2>8. H[c] = H[s] \cup H[t]
    BY <2>5, <2>6
  <2>9. Joins(H, yy, N, m)
    BY <2>3, <2>4, <2>5, <2>7, <2>8 DEF Joins
  <2>10. /\ md[m] \in Nat
         /\ \A x \in G[s], y \in G[t] : D[x][y] <= md[m]
         /\ \A e, f \in A : e # f => \E x \in G[e], y \in G[f] : md[m] <= D[x][y]
    BY <2>1, <2>3 DEF Links
  <2>11. ASSUME NEW e \in A, NEW f \in A, e # f PROVE \E x \in H[e], y \in H[f] : ld[m] <= D[x][y]
    <3>1. PICK x \in G[e], y \in G[f] : md[m] <= D[x][y]
      BY <2>10, <2>11
    <3>2. x \in H[e] /\ y \in H[f] /\ ld[m] <= D[x][y]
      BY <3>1, <2>4, <2>7
    <3>3. QED BY <3>2
  <2>12. \A x \in H[s], y \in H[t] : D[x][y] <= ld[m]
    BY <2>6, <2>7, <2>10
  <2>13. Links(H, yy, N, D, ld, m)
    <3>1. ld[m] \in Nat
      BY <2>7, <2>10
    <3>2. \A x \in H[yy[m][1]], y \in H[yy[m][2]] : D[x][y] <= ld[m]
      BY <2>7, <2>12
    <3>3. \A e, f \in Alive(yy, N, m - 1) : e # f => \E x \in H[e], y \in H[f] : ld[m] <= D[x][y]
      BY <2>4, <2>11
    <3>4. QED BY <3>1, <3>2, <3>3 DEF Links
  <2>14. QED BY <2>9, <2>13
<1>10. PICK q : q = n + 1
  OBVIOUS
<1>11. Joins(H, yy, N, q) /\ Links(H, yy, N, D, ld, q)
  <2>1. q - 1 = n /\ N + q - 1 = N + n /\ n \in 0..n
    BY <1>0, <1>10
  <2>2. PICK A : A = Alive(zz, N, n)
    OBVIOUS
  <2>3. Alive(yy, N, q - 1) = A /\ \A c \in A : H[c] = G[c]
    BY <1>6, <1>7, <2>1, <2>2
  <2>4. a \in A /\ b \in A /\ yy[q][1] = a /\ yy[q][2] = b /\ ld[q] = v
    BY <1>2, <1>3, <1>8, <1>10, <2>2
  <2>5. Joins(H, yy, N, q)
    BY <2>1, <2>3, <2>4, <1>2, <1>4 DEF Joins
  <2>6. \A x \in H[a], y \in H[b] : D[x][y] <= v
    BY <2>3, <2>4, <1>2
  <2>7. ASSUME NEW e \in A, NEW f \in A, e # f PROVE \E x \in H[e], y \in H[f] : v <= D[x][y]
    <3>1. PICK x \in G[e], y \in G[f] : v <= D[x][y]
      BY <2>2, <2>7, <1>2
    <3>2. x \in H[e] /\ y \in H[f]
      BY <3>1, <2>3
    <3>3. QED BY <3>1, <3>2
  <2>8. Links(H, yy, N, D, ld, q)
    <3>1. ld[q] \in Nat
      BY <2>4, <1>2
    <3>2. \A x \in H[yy[q][1]], y \in H[yy[q][2]] : D[x][y] <= ld[q]
      BY <2>4, <2>6
    <3>3. \A e, f \in Alive(yy, N, q - 1) : e # f => \E x \in H[e], y \in H[f] : ld[q] <= D[x][y]
      BY <2>3, <2>4, <2>7
    <3>4. QED BY <3>1, <3>2, <3>3 DEF Links
  <2>9. QED BY <2>5, <2>8
<1>12. \A m \in 1..Len(yy) : m \in 1..n \/ m = q
  BY <1>0, <1>3, <1>10
<1>13. \A c \in 0..N - 1 : H[c] = {c}
  <2>1. \A c \in 0..N - 1 : c \in 0..N + n - 1 /\ G[c] = {c}
    BY <1>0 DEF IsTree
  <2>2. QED BY <2>1, <1>4
<1>14. DOMAIN H = 0..N + Len(yy) - 1
  <2>1. N + Len(yy) - 1 = N + n
    BY <1>0, <1>3
  <2>2. QED BY <2>1, <1>4
<1>15. \A m \in 1..Len(yy) : Joins(H, yy, N, m) /\ Links(H, yy, N, D, ld, m)
  BY <1>9, <1>11, <1>12
<1>16. Len(yy) \in Nat
  BY <1>0, <1>3
<1>17. IsTree(H, yy, N)
  BY <1>0, <1>4, <1>13, <1>14, <1>15, <1>16 DEF IsTree
<1>18. QED BY <1>15, <1>17 DEF IsLinkage

-----------------------------------------------------------------------------
(* The invariant of the tree and of the cut *)

\* G gives the points of the clusters so far, those of the rows in use among
\* them.
HistInv(G) ==
    /\ IsLinkage(G, z, npoints, dist, mergedist)
    /\ {cidx[i] : i \in Active} = Alive(z, npoints, Len(z))
    /\ \A i \in Active : members[i] = G[cidx[i]]

\* Once the tree is reported, its clusters have positions.
SpanInv == step \notin {"idle", "merge", "layout"} /\ npoints # 1 => LaidOut(span)

\* k is the number of clusters that the radius leaves.
RadiusInv ==
    step \in {"split", "done", "test"} =>
        /\ k \in 1..npoints /\ r \in Nat
        /\ k # npoints => mergedist[npoints - k] < r
        /\ k # 1 => r <= mergedist[npoints - k + 1]

\* The clusters present are those after some of the merges, and a position
\* belongs to the one that it is in.
SplitInv ==
    step = "split" =>
        /\ \E l \in 0..npoints - 1 : present = Alive(z, npoints, l) /\ npoints - l <= k
        /\ npoints = 1 => tmpidx[0] = 0
        /\ npoints # 1 => \A c \in present : \A p \in Pos(span, c) : tmpidx[p] = c

\* The classes are the clusters present, numbered from 0.
DoneInv(G) ==
    step \in {"done", "test"} =>
        /\ present = Alive(z, npoints, npoints - k)
        /\ \A c \in present : \A i \in G[c] : out[i] = cz[c]
        /\ {cz[c] : c \in present} = 0..k - 1
        /\ \A b, c \in present : b # c => cz[b] # cz[c]

\* The inductive invariant of the tree, beside AhcInv.
TreeInv == SpanInv /\ RadiusInv /\ SplitInv /\ \E G : HistInv(G) /\ DoneInv(G)

\* The tree depends on the merges, the rows in use and the distances.
LEMMA HistFrame ==
    ASSUME NEW G, HistInv(G), UNCHANGED ahc
    PROVE  HistInv(G)'
<1>1. dist' = dist /\ members' = members /\ cidx' = cidx /\ z' = z /\ mergedist' = mergedist
  BY DEF ahc
<1>2. npoints' = npoints /\ Rows' = Rows /\ Active' = Active
  BY <1>1 DEF npoints, Rows, Active
<1>3. QED BY <1>1, <1>2 DEF HistInv

\* Nothing changes but the step, from done to test at most.
LEMMA TreeFrame ==
    ASSUME TreeInv, UNCHANGED <<ahc, span, cut>>, step' = step \/ (step = "done" /\ step' = "test")
    PROVE  TreeInv'
<1>1. /\ dist' = dist /\ members' = members /\ cidx' = cidx /\ z' = z /\ mergedist' = mergedist
      /\ span' = span /\ k' = k /\ r' = r /\ present' = present /\ tmpidx' = tmpidx
      /\ cz' = cz /\ out' = out
  BY DEF ahc, cut
<1>2. npoints' = npoints /\ Rows' = Rows /\ Active' = Active
  BY <1>1 DEF npoints, Rows, Active
<1>3. Clusters' = Clusters
  BY <1>2 DEF Clusters
<1>4. LaidOut(span)' = LaidOut(span)
  BY <1>1, <1>2, <1>3 DEF LaidOut
<1>5. SpanInv'
  BY <1>2, <1>4 DEF TreeInv, SpanInv
<1>6. RadiusInv'
  BY <1>1, <1>2 DEF TreeInv, RadiusInv
<1>7. SplitInv'
  BY <1>1, <1>2 DEF TreeInv, SplitInv
<1>8. PICK G : HistInv(G) /\ DoneInv(G)
  BY DEF TreeInv
<1>9. HistInv(G)'
  BY <1>8, HistFrame DEF ahc
<1>10. DoneInv(G)'
  BY <1>1, <1>2, <1>8 DEF DoneInv
<1>11. QED BY <1>5, <1>6, <1>7, <1>9, <1>10 DEF TreeInv

\* A merge adds a cluster to the tree.
LEMMA MergeTree ==
    ASSUME AhcInv, NEW G, HistInv(G), Merge
    PROVE  \E H : HistInv(H)'
<1>0. /\ npoints \in Nat /\ Rows \subseteq Nat /\ Active \subseteq Rows /\ Len(z) \in Nat
      /\ \A i, j \in Rows : d[i][j] \in Nat
  BY RowFacts
<1>1. PICK c0 \in Active, c1 \in Active :
              /\ c0 # c1
              /\ \A i, j \in Active : i # j => d[c0][c1] <= d[i][j]
              /\ z' = Append(z, <<cidx[c0], cidx[c1]>>)
              /\ mergedist' = Append(mergedist, d[c0][c1])
              /\ cidx' = [cidx EXCEPT ![c0] = npoints + Len(z), ![c1] = -1]
              /\ members' = [members EXCEPT ![c0] = members[c0] \cup members[c1], ![c1] = {}]
  BY MergeStep
<1>2. dist' = dist /\ npoints' = npoints /\ Rows' = Rows
  BY DEF Merge, npoints, Rows
<1>3. /\ AhcTypeOK /\ mergedist \in Seq(Nat)
      /\ \A i \in Active : cidx[i] < npoints + Len(z)
      /\ \A i, j \in Active : i # j => cidx[i] # cidx[j] /\ LinkedBy(members[i], members[j], d[i][j])
  BY DEF AhcInv, RowInv
<1>4. /\ members \in [Rows -> SUBSET Rows] /\ cidx \in [Rows -> -1..2 * npoints - 2]
      /\ z \in Seq((0..2 * npoints - 3) \X (0..2 * npoints - 3)) /\ Len(mergedist) = Len(z)
  BY <1>3 DEF AhcTypeOK
<1>5. PICK n, a, b, v, zz, md, yy, ld, A :
              /\ n = Len(z) /\ a = cidx[c0] /\ b = cidx[c1] /\ v = d[c0][c1]
              /\ zz = z /\ md = mergedist /\ yy = z' /\ ld = mergedist'
              /\ A = Alive(z, npoints, n)
  OBVIOUS
<1>6. PICK N, D : N = npoints /\ D = dist
  OBVIOUS
<1>7. /\ IsLinkage(G, zz, N, D, md) /\ {cidx[i] : i \in Active} = A
      /\ \A i \in Active : members[i] = G[cidx[i]]
  BY <1>5, <1>6 DEF HistInv
<1>8. a \in A /\ b \in A /\ a # b /\ v \in Nat
  BY <1>0, <1>1, <1>3, <1>5, <1>7
<1>9. \A x \in G[a], y \in G[b] : D[x][y] <= v
  <2>1. LinkedBy(members[c0], members[c1], d[c0][c1]) /\ members[c0] = G[a] /\ members[c1] = G[b]
    BY <1>1, <1>3, <1>5, <1>7
  <2>2. QED BY <2>1, <1>5, <1>6 DEF LinkedBy
<1>10. ASSUME NEW e \in A, NEW f \in A, e # f PROVE \E x \in G[e], y \in G[f] : v <= D[x][y]
  <2>1. PICK i \in Active, j \in Active : e = cidx[i] /\ f = cidx[j]
    BY <1>7
  <2>2. i # j /\ members[i] = G[e] /\ members[j] = G[f] /\ v <= d[i][j]
    BY <2>1, <1>1, <1>5, <1>7, <1>10
  <2>3. LinkedBy(members[i], members[j], d[i][j])
    BY <2>2, <1>3
  <2>4. PICK x \in members[i], y \in members[j] : dist[x][y] = d[i][j]
    BY <2>3 DEF LinkedBy
  <2>5. QED BY <2>2, <2>4, <1>6
<1>11. /\ Len(yy) = n + 1 /\ yy[n + 1] = <<a, b>> /\ \A m \in 1..n : yy[m] = zz[m]
       /\ ld[n + 1] = v /\ \A m \in 1..n : ld[m] = md[m]
  <2>1. n \in Nat /\ Len(zz) = n /\ Len(md) = n /\ md \in Seq(Nat)
    BY <1>0, <1>3, <1>4, <1>5
  <2>2. PICK S : zz \in Seq(S) /\ S = (0..2 * npoints - 3) \X (0..2 * npoints - 3)
    BY <1>4, <1>5
  <2>3. yy = Append(zz, <<a, b>>) /\ ld = Append(md, v)
    BY <1>1, <1>5
  <2>4. Len(yy) = n + 1 /\ yy[n + 1] = <<a, b>> /\ \A m \in 1..n : yy[m] = zz[m]
    BY <2>1, <2>2, <2>3
  <2>5. ld[n + 1] = v /\ \A m \in 1..n : ld[m] = md[m]
    BY <2>1, <2>3
  <2>6. QED BY <2>4, <2>5
<1>12. PICK H : H = [c \in 0..N + n |-> IF c = N + n THEN G[a] \cup G[b] ELSE G[c]]
  OBVIOUS
<1>13. /\ DOMAIN H = 0..N + n /\ IsMap(H)
       /\ \A c \in 0..N + n - 1 : H[c] = G[c]
       /\ H[N + n] = G[a] \cup G[b]
  <2>1. N \in Nat /\ n \in Nat
    BY <1>0, <1>5, <1>6
  <2>2. QED BY <2>1, <1>12 DEF IsMap
<1>14. A = Alive(zz, N, n) /\ n = Len(zz)
  BY <1>5, <1>6
<1>15. IsLinkage(H, yy, N, D, ld)
  <2>1. IsLinkage(G, zz, N, D, md) /\ n = Len(zz) /\ v \in Nat
    BY <1>7, <1>8, <1>14
  <2>2. a \in Alive(zz, N, n) /\ b \in Alive(zz, N, n) /\ a # b
    BY <1>8, <1>14
  <2>3. \A e, f \in Alive(zz, N, n) : e # f => \E x \in G[e], y \in G[f] : v <= D[x][y]
    BY <1>10, <1>14
  <2>4. Nearby(G, zz, N, D, a, b, v)
    BY <2>1, <2>2, <2>3, <1>9 DEF Nearby
  <2>5. Longer(zz, yy, md, ld, n, a, b, v)
    BY <2>1, <1>11 DEF Longer
  <2>6. Larger(G, H, N, n, a, b)
    BY <1>13 DEF Larger
  <2>7. QED BY <2>1, <2>4, <2>5, <2>6, TreeGrow
<1>16. /\ c0 \in Rows /\ c1 \in Rows
       /\ cidx'[c0] = N + n /\ cidx'[c1] = -1
       /\ members'[c0] = members[c0] \cup members[c1]
       /\ \A i \in Rows \ {c0, c1} : cidx'[i] = cidx[i] /\ members'[i] = members[i]
  BY <1>0, <1>1, <1>4, <1>5, <1>6
<1>17. Active' = Active \ {c1}
  <2>1. \A i \in Rows : cidx'[i] >= 0 <=> i # c1 /\ cidx[i] >= 0
    <3> TAKE i \in Rows
    <3>1. CASE i = c0
      BY <3>1, <1>16, <1>0, <1>1, <1>5, <1>6 DEF Active
    <3>2. CASE i = c1
      BY <3>2, <1>16
    <3>3. CASE i \notin {c0, c1}
      BY <3>3, <1>16
    <3>4. QED BY <3>1, <3>2, <3>3
  <2>2. Active' = {i \in Rows : cidx'[i] >= 0}
    BY <1>2 DEF Active
  <2>3. QED BY <2>1, <2>2 DEF Active
<1>18. Alive(yy, N, Len(yy)) = (A \ {a, b}) \cup {N + n}
  <2>1. PICK m : m = n + 1
    OBVIOUS
  <2>2. m \in 1..Len(yy) /\ m = Len(yy) /\ m - 1 = n /\ N + m - 1 = N + n /\ yy[m][1] = a /\ yy[m][2] = b
    BY <2>1, <1>0, <1>5, <1>6, <1>11
  <2>3. Alive(yy, N, m) = (Alive(yy, N, m - 1) \ {yy[m][1], yy[m][2]}) \cup {N + m - 1}
    BY <2>2, <1>15, AliveStep DEF IsLinkage
  <2>4. Alive(yy, N, n) = A
    BY <1>11, <1>14 DEF Alive
  <2>5. QED BY <2>2, <2>3, <2>4
<1>19. {cidx'[i] : i \in Active'} = (A \ {a, b}) \cup {N + n}
  <2>1. {cidx'[i] : i \in Active'} = {cidx'[i] : i \in Active \ {c0, c1}} \cup {cidx'[c0]}
    BY <1>1, <1>17
  <2>2. \A i \in Active \ {c0, c1} : cidx'[i] = cidx[i]
    BY <1>0, <1>16
  <2>3. {cidx'[i] : i \in Active \ {c0, c1}} = {cidx[i] : i \in Active \ {c0, c1}}
    BY <2>2
  <2>4. {cidx[i] : i \in Active \ {c0, c1}} = A \ {a, b}
    <3>1. ASSUME NEW e \in A \ {a, b} PROVE \E i \in Active \ {c0, c1} : e = cidx[i]
      <4>1. PICK i \in Active : e = cidx[i]
        BY <1>7
      <4>2. i \notin {c0, c1}
        BY <4>1, <1>5
      <4>3. QED BY <4>1, <4>2
    <3>2. ASSUME NEW i \in Active \ {c0, c1} PROVE cidx[i] \in A \ {a, b}
      BY <1>1, <1>3, <1>5, <1>7
    <3>3. QED BY <3>1, <3>2
  <2>5. QED BY <2>1, <2>3, <2>4, <1>16
<1>20. ASSUME NEW i \in Active' PROVE members'[i] = H[cidx'[i]]
  <2>1. CASE i = c0
    BY <2>1, <1>16, <1>13, <1>7, <1>5
  <2>2. CASE i # c0
    <3>1. i \in Active /\ i \in Rows \ {c0, c1}
      BY <2>2, <1>17, <1>0
    <3>2. cidx[i] \in 0..N + n - 1
      <4>1. cidx[i] \in A
        BY <3>1, <1>7
      <4>2. QED BY <4>1, <1>14 DEF Alive
    <3>3. QED BY <3>1, <3>2, <1>16, <1>13, <1>7
  <2>3. QED BY <2>1, <2>2
<1>21. HistInv(H)'
  <2>1. IsLinkage(H, z', npoints', dist', mergedist')
    BY <1>2, <1>5, <1>6, <1>15
  <2>2. {cidx'[i] : i \in Active'} = Alive(z', npoints', Len(z'))
    BY <1>2, <1>5, <1>6, <1>18, <1>19
  <2>3. QED BY <2>1, <2>2, <1>20 DEF HistInv
<1>22. QED BY <1>21

\* The number of members of S below c.
Rank(S, c) == Cardinality({e \in S : e < c})

\* The members of a finite set have different ranks, from 0 on.
LEMMA RanksDiffer ==
    ASSUME NEW S, S \subseteq Nat, IsFiniteSet(S)
    PROVE  /\ \A c \in S : Rank(S, c) \in 0..Cardinality(S) - 1
           /\ \A b, c \in S : b # c => Rank(S, b) # Rank(S, c)
<1> DEFINE B(c) == {e \in S : e < c}
<1>1. Cardinality(S) \in Nat
  BY FS_CardinalityType
<1>2. \A T \in SUBSET S : IsFiniteSet(T) /\ Cardinality(T) \in Nat
  BY FS_Subset, FS_CardinalityType
<1>3. ASSUME NEW T \in SUBSET S, NEW c \in S \ T PROVE Cardinality(T) < Cardinality(S)
  <2>1. IsFiniteSet(T) /\ Cardinality(T) <= Cardinality(S) /\ (Cardinality(S) = Cardinality(T) => S = T)
    BY FS_Subset
  <2>2. Cardinality(S) # Cardinality(T)
    BY <2>1
  <2>3. QED BY <2>1, <2>2, <1>1, <1>2
<1>4. ASSUME NEW c \in S PROVE Rank(S, c) \in 0..Cardinality(S) - 1
  <2>1. B(c) \in SUBSET S /\ c \notin B(c)
    OBVIOUS
  <2>2. Cardinality(B(c)) < Cardinality(S) /\ Cardinality(B(c)) \in Nat
    BY <2>1, <1>2, <1>3
  <2>3. QED BY <2>2, <1>1 DEF Rank
<1>5. ASSUME NEW b \in S, NEW c \in S, b < c PROVE Rank(S, b) < Rank(S, c)
  <2>1. B(b) \subseteq B(c) /\ b \in B(c) /\ b \notin B(b) /\ B(c) \in SUBSET S
    <3>1. b \in Nat /\ c \in Nat
      OBVIOUS
    <3>2. ASSUME NEW e \in S, e < b PROVE e < c
      <4>1. e \in Nat
        OBVIOUS
      <4>2. QED BY <3>1, <3>2, <4>1, <1>5
    <3>3. ~(b < b)
      BY <3>1
    <3>4. QED BY <3>2, <3>3, <1>5
  <2>2. IsFiniteSet(B(c)) /\ IsFiniteSet(B(b)) /\ Cardinality(B(c)) \in Nat /\ Cardinality(B(b)) \in Nat
    BY <2>1, <1>2
  <2> HIDE DEF B
  <2>3. Cardinality(B(b)) <= Cardinality(B(c)) /\ (Cardinality(B(c)) = Cardinality(B(b)) => B(c) = B(b))
    BY <2>1, <2>2, FS_Subset
  <2>4. Cardinality(B(b)) < Cardinality(B(c))
    BY <2>1, <2>2, <2>3
  <2>5. QED BY <2>4 DEF Rank, B
<1>6. ASSUME NEW b \in S, NEW c \in S, b # c PROVE Rank(S, b) # Rank(S, c)
  <2>1. b < c \/ c < b
    BY <1>6
  <2>2. Rank(S, b) \in Int /\ Rank(S, c) \in Int
    BY <1>4
  <2>3. CASE b < c
    BY <2>2, <2>3, <1>5
  <2>4. CASE c < b
    BY <2>2, <2>4, <1>5
  <2>5. QED BY <2>1, <2>3, <2>4
<1>7. QED BY <1>4, <1>6

\* Every rank is taken.
LEMMA RanksOnto ==
    ASSUME NEW S, S \subseteq Nat, IsFiniteSet(S)
    PROVE  {Rank(S, c) : c \in S} = 0..Cardinality(S) - 1
<1>1. PICK n : n = Cardinality(S)
  OBVIOUS
<1>2. n \in Nat
  BY <1>1, FS_CardinalityType
<1>3. PICK U : U = 0..n - 1
  OBVIOUS
<1>4. IsFiniteSet(U) /\ Cardinality(U) = n
  <2>1. CASE n = 0
    <3>1. U = {}
      BY <2>1, <1>3
    <3>2. QED BY <3>1, <2>1, FS_EmptySet
  <2>2. CASE n # 0
    <3>1. n - 1 \in Int /\ 0 <= n - 1
      BY <1>2, <2>2
    <3>2. \A b \in Int : IsFiniteSet(0..b)
      BY FS_Interval
    <3>3. \A b \in Int : 0 <= b => Cardinality(0..b) = b + 1
      BY FS_Interval
    <3>4. Cardinality(0..n - 1) = n - 1 + 1 /\ IsFiniteSet(0..n - 1)
      BY <3>1, <3>2, <3>3
    <3>5. QED BY <3>4, <1>2, <1>3
  <2>3. QED BY <2>1, <2>2
<1>5. PICK f : f = [c \in S |-> Rank(S, c)]
  OBVIOUS
<1>6. \A c \in S : Rank(S, c) \in U
  BY <1>1, <1>3, RanksDiffer
<1>7. \A b, c \in S : Rank(S, b) = Rank(S, c) => b = c
  BY RanksDiffer
<1>8. f \in Injection(S, U)
  <2>1. f \in [S -> U] /\ \A b, c \in S : f[b] = f[c] => b = c
    BY <1>5, <1>6, <1>7
  <2>2. QED BY <2>1 DEF Injection, IsInjective
<1>9. f \in Surjection(S, U)
  BY <1>1, <1>4, <1>8, FS_Injection
<1>10. \A t \in U : \E c \in S : f[c] = t
  BY <1>9 DEF Surjection
<1>11. {Rank(S, c) : c \in S} = U
  BY <1>5, <1>6, <1>10
<1>12. QED BY <1>1, <1>3, <1>11

-----------------------------------------------------------------------------
(* The steps *)

\* The tree of the state is whole once the merges are done.
LEMMA WholeIs ==
    ASSUME AhcInv, NEW G, HistInv(G), step \notin {"idle", "merge"}
    PROVE  Whole(G) /\ IsLinkage(G, z, npoints, dist, mergedist)
           /\ Rows = 0..npoints - 1 /\ \A m \in 1..npoints - 1 : mergedist[m] \in Nat
<1>1. npoints \in Nat /\ Len(z) \in Nat /\ z \in Seq((0..2 * npoints - 3) \X (0..2 * npoints - 3))
  BY RowFacts
<1>2. Len(z) = npoints - 1 /\ Len(mergedist) = Len(z) /\ mergedist \in Seq(Nat)
  BY DEF AhcInv, StepInv, RowInv, AhcTypeOK
<1>3. IsLinkage(G, z, npoints, dist, mergedist)
  BY DEF HistInv
<1>4. npoints # 0
  BY <1>1, <1>2
<1>5. DOMAIN z = 1..npoints - 1
  BY <1>1, <1>2
<1>6. \A m \in 1..npoints - 1 : mergedist[m] \in Nat
  BY <1>2
<1>7. QED BY <1>1, <1>2, <1>3, <1>4, <1>5, <1>6 DEF Whole, IsLinkage, Rows

\* The layout gives every cluster its positions.
LEMMA LayoutTree ==
    ASSUME AhcInv, TreeInv, Layout
    PROVE  TreeInv'
<1>1. /\ step = "layout" /\ span' = Spans /\ step' = "report" /\ UNCHANGED ahc
      /\ z' = z /\ npoints' = npoints /\ Rows' = Rows /\ Clusters' = Clusters
  BY DEF Layout, ahc, npoints, Rows, Clusters
<1>2. PICK G : HistInv(G)
  BY DEF TreeInv
<1>3. LaidOut(Spans)
  BY <1>1, <1>2, WholeIs, SpansLayOut
<1>4. PICK sp : sp = Spans
  OBVIOUS
<1>5. LaidOut(sp)'
  BY <1>1, <1>3, <1>4 DEF LaidOut
<1>6. LaidOut(span)'
  BY <1>1, <1>4, <1>5 DEF LaidOut
<1>7. SpanInv' /\ RadiusInv' /\ SplitInv'
  BY <1>1, <1>6 DEF SpanInv, RadiusInv, SplitInv
<1>8. HistInv(G)' /\ DoneInv(G)'
  BY <1>1, <1>2, HistFrame DEF DoneInv
<1>9. QED BY <1>7, <1>8 DEF TreeInv

\* separatedbydist stops at the number of clusters that the radius leaves.
LEMMA SeparateTree ==
    ASSUME AhcInv, TreeInv, NEW radius \in Radii, SeparatedByDist(radius)
    PROVE  TreeInv'
<1>1. /\ step = "report" /\ step' = "split" /\ UNCHANGED ahc /\ span' = span
      /\ r' = radius /\ present' = {2 * npoints - 2} /\ tmpidx' = [i \in Rows |-> 2 * npoints - 2]
      /\ z' = z /\ mergedist' = mergedist /\ npoints' = npoints /\ Rows' = Rows /\ Clusters' = Clusters
  BY DEF SeparatedByDist, ahc, npoints, Rows, Clusters
<1>2. PICK G : HistInv(G)
  BY DEF TreeInv
<1>3. /\ Whole(G) /\ Rows = 0..npoints - 1 /\ npoints \in Nat \ {0}
      /\ \A m \in 1..npoints - 1 : mergedist[m] \in Nat
  <2>1. Whole(G) /\ Rows = 0..npoints - 1 /\ \A m \in 1..npoints - 1 : mergedist[m] \in Nat
    BY <1>1, <1>2, WholeIs
  <2>2. QED BY <2>1 DEF Whole
<1>4. radius \in Nat
  BY RadiusAssumption
<1>5. PICK S : S = {n \in 1..npoints : ~Splits(n, radius)}
  OBVIOUS
<1>6. S \subseteq Nat /\ S # {}
  <2>1. npoints \in S
    BY <1>3, <1>5 DEF Splits
  <2>2. QED BY <2>1, <1>3, <1>5
<1>7. PICK n \in S : \A l \in S : n <= l
  BY <1>6, LeastNat
<1>8. /\ n \in 1..npoints /\ ~Splits(n, radius)
      /\ \A l \in 1..n - 1 : Splits(l, radius)
  <2>1. n \in 1..npoints /\ ~Splits(n, radius)
    BY <1>5, <1>7
  <2>2. ASSUME NEW l \in 1..n - 1 PROVE Splits(l, radius)
    <3>1. l \in 1..npoints /\ ~(n <= l)
      BY <2>1, <1>3
    <3>2. QED BY <3>1, <1>5, <1>7
  <2>3. QED BY <2>1, <2>2
<1>9. k' \in 1..npoints /\ ~Splits(k', radius) /\ \A l \in 1..k' - 1 : Splits(l, radius)
  <2>1. k' = CHOOSE x \in 1..npoints : ~Splits(x, radius) /\ \A l \in 1..x - 1 : Splits(l, radius)
    BY DEF SeparatedByDist
  <2>2. QED BY <2>1, <1>8
<1>10. PICK q : q = k'
  OBVIOUS
<1>11. q \in 1..npoints /\ ~Splits(q, radius) /\ \A l \in 1..q - 1 : Splits(l, radius)
  BY <1>9, <1>10
<1>12. q # npoints => mergedist[npoints - q] < radius
  <2> SUFFICES ASSUME q # npoints PROVE mergedist[npoints - q] < radius
    OBVIOUS
  <2>1. q < npoints /\ npoints - q \in 1..npoints - 1
    BY <1>3, <1>11
  <2>2. ~(mergedist[npoints - q] >= radius)
    BY <2>1, <1>11 DEF Splits
  <2>3. mergedist[npoints - q] \in Nat
    BY <2>1, <1>3
  <2>4. QED BY <2>2, <2>3, <1>4
<1>13. q # 1 => radius <= mergedist[npoints - q + 1]
  <2> SUFFICES ASSUME q # 1 PROVE radius <= mergedist[npoints - q + 1]
    OBVIOUS
  <2>1. PICK l : l = q - 1
    OBVIOUS
  <2>2. l \in 1..q - 1 /\ npoints - l = npoints - q + 1 /\ npoints - l \in 1..npoints - 1
    BY <2>1, <1>3, <1>11
  <2>3. mergedist[npoints - l] >= radius
    BY <2>2, <1>11 DEF Splits
  <2>4. mergedist[npoints - l] \in Nat
    BY <2>2, <1>3
  <2>5. radius <= mergedist[npoints - l]
    BY <2>3, <2>4, <1>4
  <2>6. QED BY <2>2, <2>5
<1>14. RadiusInv'
  BY <1>1, <1>4, <1>10, <1>11, <1>12, <1>13 DEF RadiusInv
<1>15. SpanInv'
  <2>1. LaidOut(span)' = LaidOut(span)
    BY <1>1 DEF LaidOut
  <2>2. QED BY <1>1, <2>1 DEF TreeInv, SpanInv
<1>16. SplitInv'
  <2>1. present' = Alive(z, npoints, npoints - 1) /\ npoints - 1 \in 0..npoints - 1
    BY <1>1, <1>3, RootIs
  <2>2. npoints - (npoints - 1) <= q
    BY <1>3, <1>11
  <2>3. npoints = 1 => tmpidx'[0] = 0
    BY <1>1, <1>3
  <2>4. ASSUME npoints # 1, NEW c \in present', NEW p \in Pos(span, c) PROVE tmpidx'[p] = c
    <3>1. c = 2 * npoints - 2 /\ c \in Clusters
      BY <1>1, <1>3 DEF Clusters
    <3>2. Pos(span, c) \subseteq Rows
      BY <3>1, <2>4, <1>1 DEF TreeInv, SpanInv, LaidOut
    <3>3. QED BY <3>1, <3>2, <1>1
  <2>5. QED BY <2>1, <2>2, <2>3, <2>4, <1>1, <1>10 DEF SplitInv
<1>17. HistInv(G)' /\ DoneInv(G)'
  BY <1>1, <1>2, HistFrame DEF DoneInv
<1>18. QED BY <1>14, <1>15, <1>16, <1>17 DEF TreeInv

\* Undoing the last merge gives the clusters that existed before it.
LEMMA SplitTree ==
    ASSUME AhcInv, TreeInv, Split
    PROVE  TreeInv'
<1>1. /\ step = "split" /\ step' = "split" /\ UNCHANGED ahc /\ span' = span /\ k' = k /\ r' = r
      /\ z' = z /\ mergedist' = mergedist /\ npoints' = npoints /\ Rows' = Rows /\ Clusters' = Clusters
  BY DEF Split, ahc, npoints, Rows, Clusters
<1>2. PICK G : HistInv(G)
  BY DEF TreeInv
<1>3. Whole(G) /\ Rows = 0..npoints - 1
  BY <1>1, <1>2, WholeIs
<1>4. IsTree(G, z, npoints) /\ npoints \in Nat \ {0} /\ Len(z) = npoints - 1
  BY <1>3 DEF Whole
<1>5. k \in 1..npoints
  BY <1>1 DEF TreeInv, RadiusInv
<1>6. PICK l \in 0..npoints - 1 : present = Alive(z, npoints, l)
  BY <1>1 DEF TreeInv, SplitInv
<1>7. Cardinality(present) = npoints - l
  <2>1. Parted(G, z, npoints, l)
    BY <1>4, <1>6, TreeParted
  <2>2. QED BY <2>1, <1>6 DEF Parted
<1>8. npoints - l < k /\ npoints - Cardinality(present) = l /\ l \in 1..npoints - 1 /\ npoints # 1
  <2>1. Cardinality(present) < k
    BY DEF Split
  <2>2. QED BY <2>1, <1>4, <1>5, <1>6, <1>7
<1>9. PICK a, b, c : a = z[l][1] /\ b = z[l][2] /\ c = npoints + l - 1
  OBVIOUS
<1>10. /\ present' = (present \ {c}) \cup {a, b}
       /\ tmpidx' = [i \in Rows |-> IF i \in Pos(span, b) THEN b
                                    ELSE IF i \in Pos(span, a) THEN a
                                    ELSE tmpidx[i]]
  BY <1>8, <1>9 DEF Split, PM, Pos
<1>11. PICK A : A = Alive(z, npoints, l - 1)
  OBVIOUS
<1>12. present = (A \ {a, b}) \cup {c} /\ c \notin A /\ a \in A /\ b \in A
  <2>1. l \in 1..Len(z)
    BY <1>4, <1>8
  <2>2. present = (A \ {a, b}) \cup {c} /\ c \notin A
    BY <2>1, <1>4, <1>6, <1>9, <1>11, AliveStep
  <2>3. Joins(G, z, npoints, l)
    BY <2>1, <1>4 DEF IsTree
  <2>4. QED BY <2>2, <2>3, <1>9, <1>11 DEF Joins
<1>13. present' = A
  BY <1>10, <1>12
<1>14. LaidOut(span)
  BY <1>1, <1>8 DEF TreeInv, SpanInv
<1>15. Spread(span, l)
  BY <1>3, <1>6, <1>14, SpreadAll
<1>16. /\ Pos(span, a) \subseteq Pos(span, c) /\ Pos(span, b) \subseteq Pos(span, c)
       /\ Pos(span, a) \cap Pos(span, b) = {}
  BY <1>8, <1>9, <1>14 DEF LaidOut
<1>17. \A e \in A : Pos(span, e) \subseteq Rows
  <2>1. A \subseteq Clusters
    BY <1>4, <1>8, <1>11 DEF Alive, Clusters
  <2>2. QED BY <2>1, <1>14 DEF LaidOut
<1>18. ASSUME NEW e \in A, NEW p \in Pos(span, e) PROVE tmpidx'[p] = e
  <2>0. p \in Rows
    BY <1>17, <1>18
  <2>1. CASE e = b
    BY <2>0, <2>1, <1>10, <1>18
  <2>2. CASE e = a
    <3>1. p \in Pos(span, a) /\ p \notin Pos(span, b)
      BY <2>2, <1>16, <1>18
    <3>2. QED BY <3>1, <2>0, <2>2, <1>10
  <2>3. CASE e \notin {a, b}
    <3>1. e \in present /\ c \in present /\ e # c
      BY <2>3, <1>12, <1>18
    <3>2. Pos(span, e) \cap Pos(span, c) = {}
      BY <3>1, <1>6, <1>15 DEF Spread
    <3>3. p \notin Pos(span, a) /\ p \notin Pos(span, b)
      BY <3>2, <1>16, <1>18
    <3>4. tmpidx[p] = e
      BY <3>1, <1>1, <1>8, <1>18 DEF TreeInv, SplitInv
    <3>5. QED BY <3>3, <3>4, <2>0, <1>10
  <2>4. QED BY <2>1, <2>2, <2>3
<1>19. SplitInv'
  <2>1. PICK q : q = l - 1
    OBVIOUS
  <2>2. q \in 0..npoints - 1 /\ npoints - q <= k
    BY <2>1, <1>4, <1>5, <1>8
  <2>3. present' = Alive(z, npoints, q)
    BY <2>1, <1>11, <1>13
  <2>4. QED BY <2>2, <2>3, <1>1, <1>8, <1>13, <1>18 DEF SplitInv
<1>20. RadiusInv'
  BY <1>1 DEF TreeInv, RadiusInv
<1>21. SpanInv'
  <2>1. LaidOut(span)'
    BY <1>1, <1>14 DEF LaidOut
  <2>2. QED BY <2>1 DEF SpanInv
<1>22. HistInv(G)' /\ DoneInv(G)'
  BY <1>1, <1>2, HistFrame DEF DoneInv
<1>23. QED BY <1>19, <1>20, <1>21, <1>22 DEF TreeInv

\* Every point gets the number of the cluster present that it is in.
LEMMA GetKTree ==
    ASSUME AhcInv, TreeInv, GetK
    PROVE  TreeInv'
<1>1. /\ step = "split" /\ step' = "done" /\ UNCHANGED ahc /\ span' = span /\ k' = k /\ r' = r
      /\ z' = z /\ mergedist' = mergedist /\ npoints' = npoints /\ Rows' = Rows /\ Clusters' = Clusters
      /\ present' = present /\ tmpidx' = tmpidx /\ Cardinality(present) = k
  BY DEF GetK, ahc, npoints, Rows, Clusters
<1>2. PICK G : HistInv(G)
  BY DEF TreeInv
<1>3. Whole(G) /\ Rows = 0..npoints - 1
  BY <1>1, <1>2, WholeIs
<1>4. IsTree(G, z, npoints) /\ npoints \in Nat \ {0} /\ Len(z) = npoints - 1
  BY <1>3 DEF Whole
<1>5. k \in 1..npoints
  BY <1>1 DEF TreeInv, RadiusInv
<1>6. PICK l \in 0..npoints - 1 : present = Alive(z, npoints, l)
  BY <1>1 DEF TreeInv, SplitInv
<1>7. Parted(G, z, npoints, l)
  BY <1>4, <1>6, TreeParted
<1>8. Cardinality(present) = npoints - l /\ IsFiniteSet(present)
  BY <1>6, <1>7 DEF Parted
<1>9. npoints - k = l
  BY <1>1, <1>4, <1>5, <1>6, <1>8
<1>10. present \subseteq Clusters /\ present \subseteq Nat
  <2>1. present \subseteq Clusters
    BY <1>4, <1>6 DEF Alive, Clusters
  <2>2. QED BY <2>1, <1>4 DEF Clusters
<1>11. PICK S : S = present
  OBVIOUS
<1>12. \A c \in S : cz'[c] = Rank(S, c)
  BY <1>11 DEF GetK, Rank
<1>13. {cz'[c] : c \in S} = 0..k - 1
  <2>1. {Rank(S, c) : c \in S} = 0..Cardinality(S) - 1
    BY <1>8, <1>10, <1>11, RanksOnto
  <2>2. {cz'[c] : c \in S} = {Rank(S, c) : c \in S}
    BY <1>12
  <2>3. QED BY <2>1, <2>2, <1>1, <1>11
<1>14. \A b, c \in S : b # c => cz'[b] # cz'[c]
  <2>1. \A b, c \in S : b # c => Rank(S, b) # Rank(S, c)
    <3>1. S \subseteq Nat /\ IsFiniteSet(S)
      BY <1>8, <1>10, <1>11
    <3>2. QED BY <3>1, RanksDiffer
  <2>2. QED BY <2>1, <1>12
<1>15. ASSUME NEW c \in S, NEW i \in G[c] PROVE out'[i] = cz'[c]
  <2>1. i \in Rows
    BY <1>3, <1>6, <1>7, <1>11, <1>15 DEF Parted
  <2>2. out'[i] = cz'[tmpidx[IF npoints = 1 THEN i ELSE P(i)]]
    BY <2>1 DEF GetK
  <2>3. CASE npoints = 1
    <3>1. i = 0 /\ c = 0
      BY <2>1, <2>3, <1>3, <1>10, <1>11 DEF Clusters
    <3>2. tmpidx[0] = 0
      BY <2>3, <1>1 DEF TreeInv, SplitInv
    <3>3. QED BY <3>1, <3>2, <2>2, <2>3
  <2>4. CASE npoints # 1
    <3>1. LaidOut(span)
      BY <2>4, <1>1 DEF TreeInv, SpanInv
    <3>2. c \in Clusters
      BY <1>10, <1>11
    <3>3. P(i) \in Pos(span, c)
      BY <3>1, <3>2, <1>3, <1>15, PointWithin DEF P
    <3>4. tmpidx[P(i)] = c
      BY <3>3, <2>4, <1>1, <1>11 DEF TreeInv, SplitInv
    <3>5. QED BY <3>4, <2>2, <2>4
  <2>5. QED BY <2>3, <2>4
<1>16. DoneInv(G)'
  BY <1>1, <1>6, <1>9, <1>11, <1>13, <1>14, <1>15 DEF DoneInv
<1>17. RadiusInv' /\ SplitInv'
  BY <1>1 DEF TreeInv, RadiusInv, SplitInv
<1>18. SpanInv'
  <2>1. LaidOut(span)' = LaidOut(span)
    BY <1>1 DEF LaidOut
  <2>2. QED BY <1>1, <2>1 DEF TreeInv, SpanInv
<1>19. HistInv(G)'
  BY <1>1, <1>2, HistFrame
<1>20. QED BY <1>16, <1>17, <1>18, <1>19 DEF TreeInv

\* No point, no tree.
LEMMA TreeEmpty ==
    ASSUME dist = <<>>, cidx = <<>>, z = <<>>, mergedist = <<>>, step = "idle"
    PROVE  TreeInv
<1>1. npoints = 0 /\ Rows = {} /\ Active = {} /\ Len(z) = 0
  <2>1. DOMAIN dist = {}
    OBVIOUS
  <2>2. npoints = 0
    BY <2>1, FS_EmptySet DEF npoints
  <2>3. QED BY <2>2 DEF Rows, Active
<1>2. PICK G : G = [c \in 0..npoints + Len(z) - 1 |-> {c}]
  OBVIOUS
<1>3. IsTree(G, z, npoints)
  <2>1. DOMAIN G = 0..npoints + Len(z) - 1 /\ IsMap(G)
    BY <1>2 DEF IsMap
  <2>2. QED BY <2>1, <1>1 DEF IsTree
<1>4. IsLinkage(G, z, npoints, dist, mergedist)
  BY <1>1, <1>3 DEF IsLinkage
<1>5. Alive(z, npoints, Len(z)) = {}
  BY <1>1 DEF Alive
<1>6. HistInv(G)
  BY <1>1, <1>4, <1>5 DEF HistInv
<1>7. SpanInv /\ RadiusInv /\ SplitInv /\ DoneInv(G)
  BY DEF SpanInv, RadiusInv, SplitInv, DoneInv
<1>8. QED BY <1>6, <1>7 DEF TreeInv

\* The program ends, and the tree is forgotten.
LEMMA ForgetTree ==
    ASSUME Forget
    PROVE  TreeInv'
<1>1. dist' = <<>> /\ cidx' = <<>> /\ z' = <<>> /\ mergedist' = <<>> /\ step' = "idle"
  BY DEF Forget
<1>2. npoints' = 0 /\ Rows' = {} /\ Active' = {} /\ Len(z') = 0
  <2>1. DOMAIN dist' = {}
    BY <1>1
  <2>2. npoints' = 0
    BY <2>1, FS_EmptySet DEF npoints
  <2>3. QED BY <2>2, <1>1 DEF Rows, Active
<1>3. PICK G : G = [c \in 0..0 + 0 - 1 |-> {c}]
  OBVIOUS
<1>4. IsTree(G, z', 0)
  <2>1. DOMAIN G = 0..0 + 0 - 1 /\ IsMap(G)
    BY <1>3 DEF IsMap
  <2>2. QED BY <2>1, <1>2 DEF IsTree
<1>5. IsLinkage(G, z', 0, dist', mergedist')
  BY <1>2, <1>4 DEF IsLinkage
<1>6. Alive(z', 0, 0) = {}
  BY DEF Alive
<1>7. HistInv(G)'
  BY <1>2, <1>5, <1>6 DEF HistInv
<1>8. SpanInv' /\ RadiusInv' /\ SplitInv' /\ DoneInv(G)'
  BY <1>1 DEF SpanInv, RadiusInv, SplitInv, DoneInv
<1>9. QED BY <1>7, <1>8 DEF TreeInv

\* At the start every point is a cluster of its own.
LEMMA RunTree ==
    ASSUME AhcInv, NEW m, NEW n \in Nat \ {0}, DOMAIN m = 0..n - 1,
           \A i, j \in DOMAIN m : m[i][j] \in Nat, RunAHC(m)
    PROVE  TreeInv'
<1>0. AhcInv'
  BY RunInv
<1> DEFINE R == 0..n - 1
<1>1. /\ step = "idle" /\ dist' = SetDistances(m)
      /\ members' = [i \in R |-> {i}] /\ cidx' = [i \in R |-> i]
      /\ step' \in {"report", "merge"} /\ z' = z /\ mergedist' = mergedist
  BY DEF RunAHC
<1>2. z' = <<>> /\ Len(z') = 0
  BY <1>1 DEF AhcInv, StepInv
<1>3. DOMAIN dist' = R
  BY <1>1 DEF SetDistances
<1>4. npoints' = n /\ Rows' = R
  <2>1. n - 1 \in Int /\ 0 <= n - 1
    OBVIOUS
  <2>2. \A b \in Int : 0 <= b => Cardinality(0..b) = b + 1
    BY FS_Interval
  <2>3. Cardinality(0..n - 1) = n - 1 + 1
    BY <2>1, <2>2
  <2>4. npoints' = n
    BY <2>3, <1>3 DEF npoints
  <2>5. QED BY <2>4 DEF Rows
<1>5. Active' = R
  <2>1. \A i \in R : cidx'[i] >= 0
    BY <1>1
  <2>2. QED BY <2>1, <1>4 DEF Active
<1>6. PICK G : G = [c \in 0..n + 0 - 1 |-> {c}]
  OBVIOUS
<1>7. IsTree(G, z', n)
  <2>1. DOMAIN G = 0..n + 0 - 1 /\ IsMap(G)
    BY <1>6 DEF IsMap
  <2>2. \A c \in 0..n - 1 : G[c] = {c}
    BY <1>6
  <2>3. \A i \in 1..0 : Joins(G, z', n, i)
    OBVIOUS
  <2>4. QED BY <2>1, <2>2, <2>3, <1>2 DEF IsTree
<1>8. \A x, y \in R : dist'[x][y] \in Nat /\ dist'[x][y] = dist'[y][x]
  BY <1>0, <1>4 DEF AhcInv, DistInv
<1>9. IsLinkage(G, z', n, dist', mergedist')
  <2>1. \A i \in 1..0 : Links(G, z', n, dist', mergedist', i)
    OBVIOUS
  <2>2. QED BY <2>1, <1>2, <1>7, <1>8 DEF IsLinkage
<1>10. Alive(z', n, 0) = R
  BY DEF Alive
<1>11. {cidx'[i] : i \in R} = R
  BY <1>1
<1>12. \A i \in R : members'[i] = G[cidx'[i]]
  BY <1>1, <1>6
<1>13. HistInv(G)'
  <2> HIDE DEF R
  <2>1. QED BY <1>2, <1>4, <1>5, <1>9, <1>10, <1>11, <1>12 DEF HistInv
<1>14. SpanInv'
  <2>1. step' = "report" => n = 1
    <3>1. n - 1 \in Int /\ 0 <= n - 1
      OBVIOUS
    <3>2. \A b \in Int : 0 <= b => Cardinality(0..b) = b + 1
      BY FS_Interval
    <3>3. Cardinality(0..n - 1) = n - 1 + 1
      BY <3>1, <3>2
    <3>4. QED BY <3>3 DEF RunAHC
  <2>2. QED BY <2>1, <1>1, <1>4 DEF SpanInv
<1>15. RadiusInv' /\ SplitInv' /\ DoneInv(G)'
  BY <1>1 DEF RadiusInv, SplitInv, DoneInv
<1>16. QED BY <1>13, <1>14, <1>15 DEF TreeInv

\* The steps of the clusterizer.
LEMMA AhcNextTree ==
    ASSUME AhcInv, TreeInv, AhcNext
    PROVE  TreeInv'
<1>1. CASE Merge
  <2>1. step = "merge" /\ step' \in {"layout", "merge"}
    BY <1>1 DEF Merge
  <2>2. PICK H : HistInv(H)'
    BY <1>1, MergeTree DEF TreeInv
  <2>3. SpanInv' /\ RadiusInv' /\ SplitInv' /\ DoneInv(H)'
    BY <2>1 DEF SpanInv, RadiusInv, SplitInv, DoneInv
  <2>4. QED BY <2>2, <2>3 DEF TreeInv
<1>2. QED BY <1>1, LayoutTree, SeparateTree, SplitTree, GetKTree DEF AhcNext

-----------------------------------------------------------------------------
(* The classes *)

\* A point is in one cluster present, and its class is the number of it.
LEMMA ClassOf ==
    ASSUME AhcInv, NEW G, HistInv(G), RadiusInv, DoneInv(G), step \in {"done", "test"}
    PROVE  /\ Whole(G) /\ IsLinkage(G, z, npoints, dist, mergedist) /\ Rows = 0..npoints - 1
           /\ npoints - k \in 0..Len(z) /\ present \subseteq Clusters
           /\ \A x \in Rows : \E c \in present : x \in G[c]
           /\ \A c \in present : G[c] \subseteq Rows /\ G[c] # {}
           /\ \A b, c \in present : b # c => cz[b] # cz[c]
           /\ \A c \in present : \A x \in Rows : out[x] = cz[c] <=> x \in G[c]
<1>1. Whole(G) /\ IsLinkage(G, z, npoints, dist, mergedist) /\ Rows = 0..npoints - 1
  BY WholeIs
<1>2. IsTree(G, z, npoints) /\ npoints \in Nat \ {0} /\ Len(z) = npoints - 1
  BY <1>1 DEF Whole
<1>3. k \in 1..npoints
  BY DEF RadiusInv
<1>4. npoints - k \in 0..Len(z)
  BY <1>2, <1>3
<1>5. /\ present = Alive(z, npoints, npoints - k)
      /\ \A c \in present : \A i \in G[c] : out[i] = cz[c]
      /\ \A b, c \in present : b # c => cz[b] # cz[c]
  BY DEF DoneInv
<1>6. Parted(G, z, npoints, npoints - k)
  BY <1>2, <1>4, TreeParted
<1>7. /\ \A x \in Rows : \E c \in present : x \in G[c]
      /\ \A c \in present : G[c] \subseteq Rows /\ G[c] # {}
  BY <1>1, <1>5, <1>6 DEF Parted
<1>8. ASSUME NEW c \in present, NEW x \in Rows PROVE out[x] = cz[c] <=> x \in G[c]
  <2>1. PICK e \in present : x \in G[e]
    BY <1>7
  <2>2. out[x] = cz[e]
    BY <2>1, <1>5
  <2>3. QED BY <2>1, <2>2, <1>5
<1>9. present \subseteq Clusters
  <2>1. npoints + (npoints - k) - 1 <= 2 * npoints - 2
    BY <1>2, <1>3
  <2>2. QED BY <2>1, <1>2, <1>3, <1>5 DEF Alive, Clusters
<1>10. QED BY <1>1, <1>4, <1>5, <1>7, <1>8, <1>9

\* Two points of a class are closer than r.
LEMMA ClassClose ==
    ASSUME AhcInv, TreeInv, step \in {"done", "test"},
           NEW x \in Rows, NEW y \in Rows, out[x] = out[y], x # y
    PROVE  dist[x][y] < r
<1>1. PICK G : HistInv(G) /\ DoneInv(G)
  BY DEF TreeInv
<1>2. PICK c \in present : x \in G[c]
  BY <1>1, ClassOf DEF TreeInv
<1>3. y \in G[c]
  BY <1>1, <1>2, ClassOf DEF TreeInv
<1>4. PICK l : l = npoints - k
  OBVIOUS
<1>5. l \in 0..Len(z) /\ present = Alive(z, npoints, l) /\ IsLinkage(G, z, npoints, dist, mergedist)
  BY <1>1, <1>4, ClassOf DEF TreeInv, DoneInv
<1>6. l \in 1..Len(z) /\ dist[x][y] <= mergedist[l]
  BY <1>2, <1>3, <1>5, AliveWithin
<1>7. k \in 1..npoints /\ npoints \in Nat /\ r \in Nat
  BY RowFacts DEF TreeInv, RadiusInv
<1>8. mergedist[l] < r
  <2>1. k # npoints
    BY <1>4, <1>6, <1>7
  <2>2. QED BY <2>1, <1>4 DEF TreeInv, RadiusInv
<1>9. dist[x][y] \in Nat /\ mergedist[l] \in Nat
  BY <1>5, <1>6 DEF AhcInv, DistInv, IsLinkage, Links
<1>10. QED BY <1>6, <1>7, <1>8, <1>9

\* Of two classes, some points are r or more apart; and where distance zero is an
\* equivalence and r is not zero, none are at distance zero.
LEMMA ClassApart ==
    ASSUME AhcInv, NEW G, HistInv(G), RadiusInv, DoneInv(G), step \in {"done", "test"},
           NEW b \in present, NEW c \in present, b # c
    PROVE  /\ \E x \in G[b], y \in G[c] : dist[x][y] >= r
           /\ (\A x, y, w \in Rows : dist[x][y] = 0 /\ dist[y][w] = 0 => dist[x][w] = 0) /\ r # 0
                 => \A x \in G[b], y \in G[c] : dist[x][y] # 0
<1>1. /\ Whole(G) /\ IsLinkage(G, z, npoints, dist, mergedist) /\ Rows = 0..npoints - 1
      /\ G[b] \subseteq Rows /\ G[c] \subseteq Rows
  BY ClassOf
<1>2. npoints \in Nat \ {0} /\ Len(z) = npoints - 1 /\ k \in 1..npoints /\ r \in Nat
  BY <1>1 DEF Whole, RadiusInv
<1>3. present = Alive(z, npoints, npoints - k)
  BY DEF DoneInv
<1>4. k # 1
  <2>1. k = 1 => present = {2 * npoints - 2}
    BY <1>1, <1>3, RootIs
  <2>2. QED BY <2>1
<1>5. PICK m : m = npoints - k + 1
  OBVIOUS
<1>6. m \in 1..Len(z) /\ m - 1 = npoints - k
  BY <1>2, <1>4, <1>5
<1>7. r <= mergedist[m] /\ mergedist[m] \in Nat
  <2>1. r <= mergedist[m]
    BY <1>4, <1>5 DEF RadiusInv
  <2>2. QED BY <2>1, <1>1, <1>6 DEF IsLinkage, Links
<1>8. \E x \in G[b], y \in G[c] : dist[x][y] >= r
  <2>1. PICK x \in G[b], y \in G[c] : mergedist[m] <= dist[x][y]
    BY <1>1, <1>3, <1>6 DEF IsLinkage, Links
  <2>2. dist[x][y] \in Nat
    BY <1>1 DEF AhcInv, DistInv
  <2>3. dist[x][y] >= r
    BY <2>1, <2>2, <1>2, <1>7
  <2>4. QED BY <2>3
<1>9. ASSUME \A x, y, w \in Rows : dist[x][y] = 0 /\ dist[y][w] = 0 => dist[x][w] = 0, r # 0
      PROVE  \A x \in G[b], y \in G[c] : dist[x][y] # 0
  <2>1. mergedist[m] # 0
    BY <1>2, <1>7, <1>9
  <2>2. b \in Alive(z, npoints, m - 1) /\ c \in Alive(z, npoints, m - 1)
    BY <1>3, <1>6
  <2>3. \A x, y, w \in 0..npoints - 1 : dist[x][y] = 0 /\ dist[y][w] = 0 => dist[x][w] = 0
    BY <1>1, <1>9
  <2>4. \A e, f \in Alive(z, npoints, m - 1) : \A x \in G[e], y \in G[f] : e # f => dist[x][y] # 0
    BY <2>1, <2>3, <1>1, <1>6, ZeroTogether
  <2>5. QED BY <2>2, <2>4
<1>10. QED BY <1>8, <1>9

\* Points at distance zero are in one class, where that is an equivalence.
LEMMA ClassZero ==
    ASSUME AhcInv, TreeInv, step \in {"done", "test"}, r # 0,
           \A x, y, w \in Rows : dist[x][y] = 0 /\ dist[y][w] = 0 => dist[x][w] = 0,
           NEW x \in Rows, NEW y \in Rows, dist[x][y] = 0
    PROVE  out[x] = out[y]
<1>1. PICK G : HistInv(G) /\ DoneInv(G) /\ RadiusInv
  BY DEF TreeInv
<1>2. PICK b \in present, c \in present : x \in G[b] /\ y \in G[c]
  BY <1>1, ClassOf
<1>3. out[x] = cz[b] /\ out[y] = cz[c]
  BY <1>1, <1>2, ClassOf
<1>4. b = c
  BY <1>1, <1>2, ClassApart
<1>5. QED BY <1>3, <1>4

\* The invariants imply that the classes are the clusters of the cut.
LEMMA ClassesHold ==
    ASSUME AhcInv, TreeInv
    PROVE  ClassesAreClusters
<1> SUFFICES ASSUME step = "done"
             PROVE  /\ {out[i] : i \in Rows} = 0..k - 1
                    /\ \A c \in present : Class(cz[c]) = PointsOf[c]
                    /\ \A a, b \in 0..k - 1 : a # b => \E x \in Class(a), y \in Class(b) : dist[x][y] >= r
                    /\ \A x, y \in Rows : out[x] = out[y] /\ x # y => dist[x][y] < r
  BY DEF ClassesAreClusters
<1>1. PICK G : HistInv(G) /\ DoneInv(G) /\ RadiusInv
  BY DEF TreeInv
<1>2. /\ Whole(G) /\ \A x \in Rows : \E c \in present : x \in G[c]
      /\ \A c \in present : G[c] \subseteq Rows /\ G[c] # {}
      /\ \A c \in present : \A x \in Rows : out[x] = cz[c] <=> x \in G[c]
  BY <1>1, ClassOf
<1>3. {cz[c] : c \in present} = 0..k - 1
  BY <1>1 DEF DoneInv
<1>4. PICK K : K = 0..k - 1
  OBVIOUS
<1>5. {out[i] : i \in Rows} = K
  <2>1. \A i \in Rows : out[i] \in K
    BY <1>2, <1>3, <1>4
  <2>2. ASSUME NEW a \in K PROVE \E i \in Rows : out[i] = a
    <3>1. PICK c \in present : a = cz[c]
      BY <1>3, <1>4
    <3>2. PICK i : i \in G[c] /\ i \in Rows
      BY <1>2
    <3>3. QED BY <3>1, <3>2, <1>2
  <2>3. QED BY <2>1, <2>2
<1>6. \A c \in present : Class(cz[c]) = G[c]
  BY <1>2 DEF Class
<1>7. PointsOf = G
  BY <1>2, PointsOfIs
<1>8. ASSUME NEW a \in K, NEW b \in K, a # b PROVE \E x \in Class(a), y \in Class(b) : dist[x][y] >= r
  <2>1. PICK e \in present, f \in present : a = cz[e] /\ b = cz[f]
    BY <1>3, <1>4
  <2>2. \E x \in G[e], y \in G[f] : dist[x][y] >= r
    BY <2>1, <1>1, <1>8, ClassApart
  <2>3. QED BY <2>1, <2>2, <1>6
<1>9. \A x, y \in Rows : out[x] = out[y] /\ x # y => dist[x][y] < r
  BY ClassClose
<1>10. QED BY <1>4, <1>5, <1>6, <1>7, <1>8, <1>9
=============================================================================
