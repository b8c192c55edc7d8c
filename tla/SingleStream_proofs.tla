------------------------ MODULE SingleStream_proofs ------------------------
(***************************************************************************)
(* Proofs about the single_stream programs, for any fingerprints, any       *)
(* snapshots and any parameters of the two analyses.                        *)
(*                                                                         *)
(* First the counting pass: it holds the tables of the trace.  CountInv is  *)
(* inductive: that the databases are the tables of the lines read needs to  *)
(* know that last and flag describe the open file, and that the entry a     *)
(* scan stops at is the only one that counts.                               *)
(***************************************************************************)
EXTENDS SingleStream, DataLemmas

-----------------------------------------------------------------------------
(* One row *)

\* Where the entries of a fingerprint are, and what CountIn reads.
LEMMA CountInRow ==
    ASSUME NEW row \in Seq(Entry), NEW x \in Fp
    PROVE  /\ CountIn(row, x) \in Nat
           /\ Holds(row, x) \subseteq 1..Len(row)
           /\ Holds(row, x) # {} =>
                /\ Min(Holds(row, x)) \in Holds(row, x)
                /\ CountIn(row, x) = row[Min(Holds(row, x))].n
<1>1. Holds(row, x) \subseteq 1..Len(row) /\ Len(row) \in Nat
  BY DEF Holds
<1>2. Holds(row, x) # {} => Min(Holds(row, x)) \in Holds(row, x)
  BY <1>1, MinIsLeast
<1>3. \A i \in 1..Len(row) : row[i].n \in Nat
  <2>1. \A i \in 1..Len(row) : row[i] \in Entry
    OBVIOUS
  <2>2. QED BY <2>1 DEF Entry
<1>4. QED BY <1>1, <1>2, <1>3 DEF CountIn

\* Bump adds one to the count of x and leaves every other count alone.
LEMMA BumpCounts ==
    ASSUME NEW row \in Seq(Entry), NEW x \in Fp
    PROVE  /\ Bump(row, x) \in Seq(Entry)
           /\ \A y \in Fp : CountIn(Bump(row, x), y)
                              = IF y = x THEN CountIn(row, y) + 1 ELSE CountIn(row, y)
<1>0. Len(row) \in Nat /\ DOMAIN row = 1..Len(row)
  OBVIOUS
<1>1. CASE Holds(row, x) # {}
  <2> DEFINE m == Min(Holds(row, x))  new == [fp |-> x, n |-> row[m].n + 1]
  <2>1. m \in Holds(row, x) /\ m \in 1..Len(row)
    BY <1>1, CountInRow
  <2>2. row[m] \in Entry /\ row[m].fp = x
    BY <2>1 DEF Holds
  <2>3. new \in Entry /\ [row[m] EXCEPT !.n = row[m].n + 1] = new
    BY <2>2 DEF Entry
  <2>4. Bump(row, x) = [row EXCEPT ![m] = new]
    BY <1>1, <2>1, <2>3 DEF Bump
  <2> HIDE DEF m
  <2>5. /\ Bump(row, x) \in Seq(Entry) /\ Len(Bump(row, x)) = Len(row)
        /\ DOMAIN Bump(row, x) = 1..Len(row)
        /\ Bump(row, x)[m] = new
        /\ \A i \in 1..Len(row) : i # m => Bump(row, x)[i] = row[i]
    BY <2>1, <2>3, <2>4
  <2>6. \A y \in Fp : Holds(Bump(row, x), y) = Holds(row, y)
    BY <1>0, <2>2, <2>5 DEF Holds
  <2>7. ASSUME NEW y \in Fp, y # x PROVE CountIn(Bump(row, x), y) = CountIn(row, y)
    <3>1. CASE Holds(row, y) = {}
      BY <3>1, <2>6 DEF CountIn
    <3>2. CASE Holds(row, y) # {}
      <4>1. Min(Holds(row, y)) \in Holds(row, y) /\ Min(Holds(row, y)) \in 1..Len(row)
        BY <3>2, CountInRow
      <4>2. Min(Holds(row, y)) # m
        BY <4>1, <2>2, <2>7 DEF Holds
      <4>3. QED BY <3>2, <4>1, <4>2, <2>5, <2>6 DEF CountIn
    <3>3. QED BY <3>1, <3>2
  <2>8. CountIn(Bump(row, x), x) = CountIn(row, x) + 1
    <3>1. CountIn(row, x) = row[m].n
      BY <1>1 DEF CountIn, m
    <3>2. CountIn(Bump(row, x), x) = Bump(row, x)[m].n
      BY <1>1, <2>6 DEF CountIn, m
    <3>3. QED BY <3>1, <3>2, <2>5
  <2>9. QED BY <2>5, <2>7, <2>8
<1>2. CASE Holds(row, x) = {}
  <2> DEFINE new == [fp |-> x, n |-> 1]  l == Len(row) + 1
  <2>1. new \in Entry
    BY DEF Entry
  <2>2. Bump(row, x) = Append(row, new)
    BY <1>2 DEF Bump
  <2>3. /\ Bump(row, x) \in Seq(Entry)
        /\ DOMAIN Bump(row, x) = 1..l
        /\ Bump(row, x)[l] = new
        /\ \A i \in 1..Len(row) : Bump(row, x)[i] = row[i]
    BY <1>0, <2>1, <2>2
  <2>4. ASSUME NEW y \in Fp, y # x PROVE CountIn(Bump(row, x), y) = CountIn(row, y)
    <3>1. Holds(Bump(row, x), y) = Holds(row, y)
      BY <1>0, <2>3, <2>4 DEF Holds
    <3>2. CASE Holds(row, y) = {}
      BY <3>1, <3>2 DEF CountIn
    <3>3. CASE Holds(row, y) # {}
      <4>1. Min(Holds(row, y)) \in 1..Len(row)
        BY <3>3, CountInRow
      <4>2. QED BY <3>1, <3>3, <4>1, <2>3 DEF CountIn
    <3>4. QED BY <3>2, <3>3
  <2>5. CountIn(Bump(row, x), x) = CountIn(row, x) + 1
    <3>1. Holds(Bump(row, x), x) = {l}
      BY <1>0, <1>2, <2>3 DEF Holds
    <3>2. Min({l}) = l
      BY <1>0, MinIsLeast
    <3>3. QED BY <1>2, <3>1, <3>2, <2>3 DEF CountIn
  <2>6. QED BY <2>3, <2>4, <2>5
<1>3. QED BY <1>1, <1>2

-----------------------------------------------------------------------------
(* The positions of a trace *)

Traces == Seq(Seq(Fp))
Store  == [Fp -> Seq(Entry)]
Table  == [Fp -> [Fp -> Nat]]

\* A trace has finitely many positions; each is a chunk, the ones after the
\* first of their file have a predecessor that is a position too.
LEMMA Positions ==
    ASSUME NEW fs \in Traces
    PROVE  /\ IsFiniteSet(Pos(fs))
           /\ \A p : p \in Pos(fs) <=> \E f \in 1..Len(fs) : \E i \in 1..Len(fs[f]) : p = <<f, i>>
           /\ \A p \in Pos(fs) : /\ At(fs, p) \in Fp
                                 /\ p[2] > 1 => /\ Prev(fs, p) \in Fp
                                                /\ <<p[1], p[2] - 1>> \in Pos(fs)
                                                /\ At(fs, <<p[1], p[2] - 1>>) = Prev(fs, p)
<1>1. /\ DOMAIN fs = 1..Len(fs) /\ Len(fs) \in Nat
      /\ \A f \in DOMAIN fs : fs[f] \in Seq(Fp) /\ DOMAIN fs[f] = 1..Len(fs[f])
                                /\ Len(fs[f]) \in Nat
  BY DEF Traces
<1> DEFINE part == [f \in DOMAIN fs |-> {f} \X DOMAIN fs[f]]
           S    == {{f} \X DOMAIN fs[f] : f \in DOMAIN fs}
<1>2. part \in Surjection(DOMAIN fs, S)
  BY DEF Surjection
<1>0. \A n \in Nat : IsFiniteSet(1..n)
  BY FS_Interval
<1>3. IsFiniteSet(DOMAIN fs)
  BY <1>0, <1>1
<1>4. IsFiniteSet(S)
  BY <1>2, <1>3, FS_Surjection
<1>5. \A f \in DOMAIN fs : IsFiniteSet({f} \X DOMAIN fs[f])
  <2> TAKE f \in DOMAIN fs
  <2>1. IsFiniteSet(DOMAIN fs[f]) /\ IsFiniteSet({f})
    BY <1>0, <1>1, FS_Singleton
  <2>2. QED BY <2>1, FS_Product
<1>6. IsFiniteSet(Pos(fs))
  BY <1>4, <1>5, FS_UNION DEF Pos
<1>7. ASSUME NEW p
      PROVE  p \in Pos(fs) <=> \E f \in 1..Len(fs) : \E i \in 1..Len(fs[f]) : p = <<f, i>>
  BY <1>1 DEF Pos
<1>8. ASSUME NEW p \in Pos(fs)
      PROVE  /\ At(fs, p) \in Fp
             /\ p[2] > 1 => /\ Prev(fs, p) \in Fp
                            /\ <<p[1], p[2] - 1>> \in Pos(fs)
                            /\ At(fs, <<p[1], p[2] - 1>>) = Prev(fs, p)
  <2>0. PICK f \in 1..Len(fs) : \E i \in 1..Len(fs[f]) : p = <<f, i>>
    BY <1>7
  <2>1. PICK i \in 1..Len(fs[f]) : p = <<f, i>>
    BY <2>0
  <2>2. fs[f] \in Seq(Fp) /\ Len(fs[f]) \in Nat /\ p[1] = f /\ p[2] = i
    BY <1>1, <2>1
  <2>3. At(fs, p) = fs[f][i] /\ fs[f][i] \in Fp
    BY <2>2 DEF At
  <2>4. ASSUME i > 1 
        PROVE  /\ fs[f][i - 1] \in Fp /\ Prev(fs, p) = fs[f][i - 1]
               /\ <<f, i - 1>> \in Pos(fs) /\ At(fs, <<f, i - 1>>) = fs[f][i - 1]
    <3>1. i - 1 \in 1..Len(fs[f])
      BY <2>2, <2>4
    <3>2. QED BY <3>1, <1>7, <2>2 DEF Prev, At
  <2>5. QED BY <2>2, <2>3, <2>4
<1>9. QED BY <1>6, <1>7, <1>8

\* The tables of a trace hold natural numbers, and a chunk is only a neighbour
\* under the name of a chunk that occurs.
LEMMA TablesOfTrace ==
    ASSUME NEW fs \in Traces
    PROVE  /\ FreqOf(fs) \in [Fp -> Nat]
           /\ LeftBy(fs) \in Table
           /\ RightBy(fs) \in Table
           /\ \A k, x \in Fp : LeftBy(fs)[k][x] > 0 \/ RightBy(fs)[k][x] > 0
                                => \E c \in Fp : FreqOf(fs)[c] > 0 /\ name[c] = x
<1>1. \A T \in SUBSET Pos(fs) :
          /\ IsFiniteSet(T) /\ Cardinality(T) \in Nat
          /\ Cardinality(T) > 0 <=> T # {}
  <2> TAKE T \in SUBSET Pos(fs)
  <2>1. IsFiniteSet(T) /\ Cardinality(T) \in Nat
    BY Positions, FS_Subset, FS_CardinalityType
  <2>2. QED BY <2>1, FS_EmptySet
<1>2. FreqOf(fs) \in [Fp -> Nat]
  BY <1>1 DEF FreqOf
<1>3. LeftBy(fs) \in Table
  BY <1>1 DEF LeftBy, Table
<1>4. RightBy(fs) \in Table
  BY <1>1 DEF RightBy, Table
<1>5. ASSUME NEW p \in Pos(fs) PROVE FreqOf(fs)[At(fs, p)] > 0
  <2>1. p \in {q \in Pos(fs) : At(fs, q) = At(fs, p)}
    OBVIOUS
  <2>2. At(fs, p) \in Fp
    BY Positions
  <2>3. FreqOf(fs)[At(fs, p)] = Cardinality({q \in Pos(fs) : At(fs, q) = At(fs, p)})
    BY <2>2 DEF FreqOf
  <2>4. QED BY <2>1, <2>3, <1>1
<1>6. ASSUME NEW k \in Fp, NEW x \in Fp, LeftBy(fs)[k][x] > 0
      PROVE  \E c \in Fp : FreqOf(fs)[c] > 0 /\ name[c] = x
  <2>1. LeftBy(fs)[k][x] = Cardinality({p \in Pos(fs) : /\ p[2] > 1 /\ At(fs, p) = k
                                                       /\ name[Prev(fs, p)] = x})
    BY DEF LeftBy
  <2>2. PICK p \in Pos(fs) : p[2] > 1 /\ name[Prev(fs, p)] = x
    BY <2>1, <1>6, <1>1
  <2>3. QED BY <2>2, <1>5, Positions
<1>7. ASSUME NEW k \in Fp, NEW x \in Fp, RightBy(fs)[k][x] > 0
      PROVE  \E c \in Fp : FreqOf(fs)[c] > 0 /\ name[c] = x
  <2>1. RightBy(fs)[k][x] = Cardinality({p \in Pos(fs) : /\ p[2] > 1 /\ Prev(fs, p) = k
                                                        /\ name[At(fs, p)] = x})
    BY DEF RightBy
  <2>2. PICK p \in Pos(fs) : p[2] > 1 /\ name[At(fs, p)] = x
    BY <2>1, <1>7, <1>1
  <2>3. QED BY <2>2, <1>5, Positions
<1>8. QED BY <1>2, <1>3, <1>4, <1>6, <1>7

-----------------------------------------------------------------------------
(* One more line, one more file *)

Longer(fs, c) == [fs EXCEPT ![Len(fs)] = Append(@, c)]

NewPos(fs) == <<Len(fs), Len(fs[Len(fs)]) + 1>>

\* A line adds one position, whose predecessor is the line before, and moves
\* nothing.
LEMMA LongerPos ==
    ASSUME NEW fs \in Traces, fs # <<>>, NEW c \in Fp
    PROVE  /\ Longer(fs, c) \in Traces /\ Longer(fs, c) # <<>>
           /\ Len(Longer(fs, c)) = Len(fs)
           /\ Longer(fs, c)[Len(fs)] = Append(fs[Len(fs)], c)
           /\ Pos(Longer(fs, c)) = Pos(fs) \cup {NewPos(fs)}
           /\ NewPos(fs) \notin Pos(fs)
           /\ \A p \in Pos(fs) : /\ At(Longer(fs, c), p) = At(fs, p)
                                 /\ p[2] > 1 => Prev(Longer(fs, c), p) = Prev(fs, p)
           /\ At(Longer(fs, c), NewPos(fs)) = c
           /\ NewPos(fs)[2] > 1 <=> fs[Len(fs)] # <<>>
           /\ fs[Len(fs)] # <<>> =>
                Prev(Longer(fs, c), NewPos(fs)) = fs[Len(fs)][Len(fs[Len(fs)])]
<1> DEFINE n == Len(fs)  l == Len(fs[n])  gs == Longer(fs, c)
<1>1. /\ n \in Nat \ {0} /\ DOMAIN fs = 1..n /\ n \in 1..n
      /\ \A f \in 1..n : fs[f] \in Seq(Fp) /\ Len(fs[f]) \in Nat
      /\ l \in Nat
  BY DEF Traces
<1>2. Append(fs[n], c) \in Seq(Fp)
  BY <1>1
<1>3. /\ gs \in Traces /\ Len(gs) = n
      /\ gs[n] = Append(fs[n], c)
      /\ \A f \in 1..n : f # n => gs[f] = fs[f]
  <2>1. gs = [fs EXCEPT ![n] = Append(fs[n], c)] /\ fs \in Seq(Seq(Fp)) /\ n = Len(fs)
    BY DEF Longer, Traces
  <2> HIDE DEF gs, n
  <2>2. n \in 1..Len(fs)
    BY <1>1, <2>1
  <2>3. QED BY <1>2, <2>1, <2>2, ExceptSeq DEF Traces
<1>4. /\ Len(gs[n]) = l + 1 /\ gs[n][l + 1] = c
      /\ \A i \in 1..l : gs[n][i] = fs[n][i]
  <2>1. fs[n] \in Seq(Fp)
    BY <1>1
  <2>2. QED BY <1>3, <2>1, AppendProperties
<1>5. NewPos(fs) = <<n, l + 1>>
  BY DEF NewPos
<1> HIDE DEF gs, n, l
<1>6. ASSUME NEW p PROVE p \in Pos(gs) <=> p \in Pos(fs) \cup {<<n, l + 1>>}
  <2>1. p \in Pos(fs) <=> \E f \in 1..n : \E i \in 1..Len(fs[f]) : p = <<f, i>>
    BY Positions DEF n
  <2>2. p \in Pos(gs) <=> \E f \in 1..n : \E i \in 1..Len(gs[f]) : p = <<f, i>>
    BY <1>3, Positions
  <2>3. \A f \in 1..n : \A i \in 1..Len(fs[f]) : i \in 1..Len(gs[f])
    <3>1. ASSUME NEW f \in 1..n, f # n, NEW i \in 1..Len(fs[f]) PROVE i \in 1..Len(gs[f])
      BY <1>3, <3>1
    <3>2. ASSUME NEW i \in 1..l PROVE i \in 1..Len(gs[n])
      BY <1>1, <1>4
    <3>3. QED BY <3>1, <3>2 DEF l
  <2>4. l + 1 \in 1..Len(gs[n])
    BY <1>1, <1>4
  <2>5. \A f \in 1..n : \A i \in 1..Len(gs[f]) :
            i \in 1..Len(fs[f]) \/ <<f, i>> = <<n, l + 1>>
    <3>1. ASSUME NEW f \in 1..n, f # n, NEW i \in 1..Len(gs[f]) PROVE i \in 1..Len(fs[f])
      BY <1>3, <3>1
    <3>2. ASSUME NEW i \in 1..Len(gs[n]) PROVE i \in 1..l \/ i = l + 1
      BY <1>1, <1>4
    <3>3. QED BY <3>1, <3>2 DEF l
  <2>6. QED BY <1>1, <2>1, <2>2, <2>3, <2>4, <2>5
<1>7. <<n, l + 1>> \notin Pos(fs)
  <2>1. SUFFICES ASSUME NEW f \in 1..n, NEW i \in 1..Len(fs[f]), <<n, l + 1>> = <<f, i>>
                 PROVE  FALSE
    BY Positions DEF n
  <2>2. f = n /\ i = l + 1
    BY <2>1
  <2>3. QED BY <2>2, <1>1 DEF l
<1>8. ASSUME NEW p \in Pos(fs)
      PROVE  At(gs, p) = At(fs, p) /\ (p[2] > 1 => Prev(gs, p) = Prev(fs, p))
  <2>0. PICK f \in 1..n : \E i \in 1..Len(fs[f]) : p = <<f, i>>
    BY Positions DEF n
  <2>1. PICK i \in 1..Len(fs[f]) : p = <<f, i>>
    BY <2>0
  <2>2. p[1] = f /\ p[2] = i /\ \A m \in 1..Len(fs[f]) : gs[f][m] = fs[f][m]
    BY <2>1, <1>3, <1>4 DEF l
  <2>3. i > 1 => i - 1 \in 1..Len(fs[f])
    BY <1>1
  <2>4. QED BY <2>2, <2>3 DEF At, Prev
<1>9. At(gs, <<n, l + 1>>) = c /\ Prev(gs, <<n, l + 1>>) = gs[n][l]
  <2> DEFINE p == <<n, l + 1>>
  <2>1. p[1] = n /\ p[2] = l + 1 /\ p[2] - 1 = l
    BY <1>1
  <2> HIDE DEF p
  <2>2. At(gs, p) = c /\ Prev(gs, p) = gs[n][l]
    BY <1>4, <2>1 DEF At, Prev
  <2>3. QED BY <2>2 DEF p
<1>10. fs[n] # <<>> <=> l > 0
  BY <1>1 DEF l
<1>11. l > 0 => gs[n][l] = fs[n][l]
  BY <1>1, <1>4
<1>12. NewPos(fs)[2] > 1 <=> l > 0
  BY <1>1, <1>5
<1>13. gs # <<>>
  <2>1. Len(gs) # 0
    BY <1>1, <1>3
  <2>2. QED BY <2>1
<1>14. QED
  BY <1>3, <1>5, <1>6, <1>7, <1>8, <1>9, <1>10, <1>11, <1>12, <1>13 DEF gs, n, l

\* A count, a count of a table and a row, each increased by one.
Inc(f, c)           == [f EXCEPT ![c] = @ + 1]
Inc2(m, a, b)       == [m EXCEPT ![a][b] = @ + 1]
BumpAt(store, k, x) == [store EXCEPT ![k] = Bump(@, x)]

\* A table in which one count is increased.
LEMMA TableExcept ==
    ASSUME NEW m \in Table, NEW a \in Fp, NEW b \in Fp
    PROVE  /\ Inc2(m, a, b) \in Table
           /\ \A k, x \in Fp : Inc2(m, a, b)[k][x]
                                = IF k = a /\ x = b THEN m[k][x] + 1 ELSE m[k][x]
<1> DEFINE row == [m[a] EXCEPT ![b] = m[a][b] + 1]
<1>1. m[a] \in [Fp -> Nat] /\ m[a][b] + 1 \in Nat
  BY DEF Table
<1>2. row \in [Fp -> Nat] /\ \A x \in Fp : row[x] = IF x = b THEN m[a][x] + 1 ELSE m[a][x]
  BY <1>1
<1>3. Inc2(m, a, b) = [m EXCEPT ![a] = row]
  BY DEF Inc2
<1> HIDE DEF row
<1>4. QED BY <1>2, <1>3 DEF Table

\* What that does to the tables.
LEMMA LongerTables ==
    ASSUME NEW fs \in Traces, fs # <<>>, NEW c \in Fp
    PROVE  LET open == fs[Len(fs)]  prev == open[Len(open)]  gs == Longer(fs, c)
           IN  /\ FreqOf(gs) = Inc(FreqOf(fs), c)
               /\ open = <<>> => LeftBy(gs) = LeftBy(fs) /\ RightBy(gs) = RightBy(fs)
               /\ open # <<>> => /\ prev \in Fp
                                 /\ LeftBy(gs)  = Inc2(LeftBy(fs), c, name[prev])
                                 /\ RightBy(gs) = Inc2(RightBy(fs), prev, name[c])
<1> DEFINE open == fs[Len(fs)]  prev == open[Len(open)]  gs == Longer(fs, c)  new == NewPos(fs)
<1>1. /\ gs \in Traces
      /\ Pos(gs) = Pos(fs) \cup {new} /\ new \notin Pos(fs)
      /\ \A p \in Pos(fs) : /\ At(gs, p) = At(fs, p)
                            /\ p[2] > 1 => Prev(gs, p) = Prev(fs, p)
      /\ At(gs, new) = c
      /\ new[2] > 1 <=> open # <<>>
      /\ open # <<>> => Prev(gs, new) = prev
  BY LongerPos
<1>2. open # <<>> => prev \in Fp
  <2>1. Len(fs) \in 1..Len(fs) /\ open \in Seq(Fp)
    BY DEF Traces
  <2>2. QED BY <2>1
<1> HIDE DEF gs, new, open, prev
<1>3. ASSUME NEW T \in SUBSET Pos(fs)
      PROVE  IsFiniteSet(T) /\ Cardinality(T) \in Nat /\ Cardinality(T \cup {new}) = Cardinality(T) + 1
  <2>1. IsFiniteSet(T)
    BY Positions, FS_Subset
  <2>2. QED BY <2>1, <1>1, FS_AddElement, FS_CardinalityType
<1>4. FreqOf(gs) = Inc(FreqOf(fs), c)
  <2>1. ASSUME NEW x \in Fp PROVE FreqOf(gs)[x] = Inc(FreqOf(fs), c)[x]
    <3> DEFINE T == {p \in Pos(fs) : At(fs, p) = x}
    <3>1. {p \in Pos(gs) : At(gs, p) = x} = IF x = c THEN T \cup {new} ELSE T
      BY <1>1
    <3>2. FreqOf(gs)[x] = IF x = c THEN Cardinality(T) + 1 ELSE Cardinality(T)
      BY <3>1, <1>3 DEF FreqOf
    <3>3. FreqOf(fs)[x] = Cardinality(T)
      BY DEF FreqOf
    <3>4. QED BY <3>2, <3>3, TablesOfTrace DEF Inc
  <2>2. FreqOf(gs) \in [Fp -> Nat] /\ FreqOf(fs) \in [Fp -> Nat] /\ Inc(FreqOf(fs), c) \in [Fp -> Nat]
    BY <1>1, TablesOfTrace DEF Inc
  <2>3. QED BY <2>1, <2>2
<1>5. ASSUME NEW k \in Fp, NEW x \in Fp
      PROVE  LeftBy(gs)[k][x] = IF open # <<>> /\ k = c /\ x = name[prev]
                                  THEN LeftBy(fs)[k][x] + 1 ELSE LeftBy(fs)[k][x]
  <2> DEFINE T == {p \in Pos(fs) : p[2] > 1 /\ At(fs, p) = k /\ name[Prev(fs, p)] = x}
             TT == {p \in Pos(gs) : p[2] > 1 /\ At(gs, p) = k /\ name[Prev(gs, p)] = x}
  <2>1. TT = IF open # <<>> /\ k = c /\ x = name[prev] THEN T \cup {new} ELSE T
    BY <1>1
  <2>2. LeftBy(fs)[k][x] = Cardinality(T) /\ LeftBy(gs)[k][x] = Cardinality(TT)
    BY DEF LeftBy
  <2>3. Cardinality(T \cup {new}) = Cardinality(T) + 1
    BY <1>3
  <2> HIDE DEF T, TT
  <2>4. QED BY <2>1, <2>2, <2>3
<1>6. ASSUME NEW k \in Fp, NEW x \in Fp
      PROVE  RightBy(gs)[k][x] = IF open # <<>> /\ k = prev /\ x = name[c]
                                   THEN RightBy(fs)[k][x] + 1 ELSE RightBy(fs)[k][x]
  <2> DEFINE T == {p \in Pos(fs) : p[2] > 1 /\ Prev(fs, p) = k /\ name[At(fs, p)] = x}
             TT == {p \in Pos(gs) : p[2] > 1 /\ Prev(gs, p) = k /\ name[At(gs, p)] = x}
  <2>1. TT = IF open # <<>> /\ k = prev /\ x = name[c] THEN T \cup {new} ELSE T
    BY <1>1
  <2>2. RightBy(fs)[k][x] = Cardinality(T) /\ RightBy(gs)[k][x] = Cardinality(TT)
    BY DEF RightBy
  <2>3. Cardinality(T \cup {new}) = Cardinality(T) + 1
    BY <1>3
  <2> HIDE DEF T, TT
  <2>4. QED BY <2>1, <2>2, <2>3
<1>7. /\ LeftBy(fs) \in Table /\ RightBy(fs) \in Table
      /\ LeftBy(gs) \in Table /\ RightBy(gs) \in Table
  BY <1>1, TablesOfTrace
<1>8. open = <<>> => LeftBy(gs) = LeftBy(fs) /\ RightBy(gs) = RightBy(fs)
  BY <1>5, <1>6, <1>7 DEF Table
<1>9. ASSUME open # <<>> 
      PROVE  /\ LeftBy(gs)  = Inc2(LeftBy(fs), c, name[prev])
             /\ RightBy(gs) = Inc2(RightBy(fs), prev, name[c])
  <2>1. name[prev] \in Fp /\ name[c] \in Fp /\ prev \in Fp
    BY <1>2, <1>9, NameAssumption
  <2> DEFINE LL == Inc2(LeftBy(fs), c, name[prev])
             RR == Inc2(RightBy(fs), prev, name[c])
  <2>2. /\ LL \in Table
        /\ \A k, x \in Fp : LL[k][x] = IF k = c /\ x = name[prev] THEN LeftBy(fs)[k][x] + 1
                                       ELSE LeftBy(fs)[k][x]
    <3> DEFINE m == LeftBy(fs)  b == name[prev]
    <3>1. m \in Table /\ b \in Fp
      BY <1>7, <2>1
    <3> HIDE DEF m, b
    <3>2. /\ Inc2(m, c, b) \in Table
          /\ \A k, x \in Fp : Inc2(m, c, b)[k][x] = IF k = c /\ x = b THEN m[k][x] + 1 ELSE m[k][x]
      BY <3>1, TableExcept
    <3>3. QED BY <3>2 DEF m, b
  <2>7. /\ RR \in Table
        /\ \A k, x \in Fp : RR[k][x] = IF k = prev /\ x = name[c] THEN RightBy(fs)[k][x] + 1
                                       ELSE RightBy(fs)[k][x]
    <3> DEFINE m == RightBy(fs)  b == name[c]
    <3>1. m \in Table /\ b \in Fp /\ prev \in Fp
      BY <1>7, <2>1
    <3> HIDE DEF m, b
    <3>2. /\ Inc2(m, prev, b) \in Table
          /\ \A k, x \in Fp :
                Inc2(m, prev, b)[k][x] = IF k = prev /\ x = b THEN m[k][x] + 1 ELSE m[k][x]
      BY <3>1, TableExcept
    <3>3. QED BY <3>2 DEF m, b
  <2> HIDE DEF LL, RR
  <2>3. ASSUME NEW k \in Fp, NEW x \in Fp
        PROVE  LeftBy(gs)[k][x] = LL[k][x] /\ RightBy(gs)[k][x] = RR[k][x]
    BY <1>5, <1>6, <1>9, <2>2, <2>7
  <2>4. LeftBy(gs) = LL
    BY <1>7, <2>2, <2>3 DEF Table
  <2>6. RightBy(gs) = RR
    BY <1>7, <2>7, <2>3 DEF Table
  <2>5. QED BY <2>4, <2>6 DEF LL, RR
<1>10. QED BY <1>2, <1>4, <1>8, <1>9 DEF gs, open, prev

\* An empty file changes no table.
LEMMA EmptyFile ==
    ASSUME NEW fs \in Traces
    PROVE  LET gs == Append(fs, <<>>)
           IN  /\ gs \in Traces /\ gs # <<>> /\ gs[Len(gs)] = <<>>
               /\ FreqOf(gs) = FreqOf(fs) /\ LeftBy(gs) = LeftBy(fs) /\ RightBy(gs) = RightBy(fs)
<1> DEFINE gs == Append(fs, <<>>)  n == Len(fs)
<1>1. <<>> \in Seq(Fp)
  OBVIOUS
<1>2. /\ gs \in Traces /\ n \in Nat /\ Len(gs) = n + 1 /\ gs[n + 1] = <<>>
      /\ \A f \in 1..n : gs[f] = fs[f]
  BY <1>1 DEF Traces
<1> HIDE DEF gs, n
<1>3. ASSUME NEW p PROVE p \in Pos(gs) <=> p \in Pos(fs)
  <2>1. p \in Pos(fs) <=> \E f \in 1..n : \E i \in 1..Len(fs[f]) : p = <<f, i>>
    BY Positions DEF n
  <2>2. p \in Pos(gs) <=> \E f \in 1..n + 1 : \E i \in 1..Len(gs[f]) : p = <<f, i>>
    BY <1>2, Positions
  <2>3. \A f \in 1..n + 1 : (f \in 1..n /\ gs[f] = fs[f]) \/ Len(gs[f]) = 0
    BY <1>2
  <2>4. QED BY <1>2, <2>1, <2>2, <2>3
<1>4. ASSUME NEW p \in Pos(fs) PROVE At(gs, p) = At(fs, p) /\ Prev(gs, p) = Prev(fs, p)
  <2>0. PICK f \in 1..n : \E i \in 1..Len(fs[f]) : p = <<f, i>>
    BY Positions DEF n
  <2>1. p[1] = f
    BY <2>0
  <2>2. QED BY <2>1, <1>2 DEF At, Prev
<1>5. Pos(gs) = Pos(fs)
  BY <1>3
<1>6. FreqOf(gs) = FreqOf(fs)
  BY <1>4, <1>5 DEF FreqOf
<1>7. LeftBy(gs) = LeftBy(fs)
  BY <1>4, <1>5 DEF LeftBy
<1>8. RightBy(gs) = RightBy(fs)
  BY <1>4, <1>5 DEF RightBy
<1>9. gs # <<>> /\ gs[Len(gs)] = <<>>
  BY <1>2 DEF Traces
<1>10. QED BY <1>2, <1>6, <1>7, <1>8, <1>9 DEF gs

-----------------------------------------------------------------------------
(* The invariant of the counting pass *)

\* The databases are the tables of the lines read; flag and last describe the
\* file that is open.
CountInv ==
    /\ CountTypeOK
    /\ files # <<>>
    /\ flag <=> files[Len(files)] # <<>>
    /\ flag => last = files[Len(files)][Len(files[Len(files)])]
    /\ db = FreqOf(files)
    /\ Counts(store_left) = LeftBy(files)
    /\ Counts(store_right) = RightBy(files)

\* Counts of rows are tables.
LEMMA CountsType ==
    ASSUME NEW store \in Store
    PROVE  Counts(store) \in Table
  BY CountInRow DEF Counts, Table, Store

\* Bump of one row increases one count.
LEMMA BumpStore ==
    ASSUME NEW store \in Store, NEW k \in Fp, NEW x \in Fp
    PROVE  /\ BumpAt(store, k, x) \in Store
           /\ Counts(BumpAt(store, k, x)) = Inc2(Counts(store), k, x)
<1> DEFINE new == BumpAt(store, k, x)
           up  == Inc2(Counts(store), k, x)
<1>1. store[k] \in Seq(Entry) /\ Bump(store[k], x) \in Seq(Entry)
  BY BumpCounts DEF Store
<1>2. new \in Store
  BY <1>1 DEF BumpAt, Store
<1>3. /\ up \in Table
      /\ \A l, y \in Fp : up[l][y] = IF l = k /\ y = x THEN Counts(store)[l][y] + 1
                                     ELSE Counts(store)[l][y]
  BY CountsType, TableExcept
<1>4. Counts(new) \in Table
  BY <1>2, CountsType
<1> HIDE DEF up
<1>5. ASSUME NEW l \in Fp, NEW y \in Fp PROVE Counts(new)[l][y] = up[l][y]
  <2>1. Counts(new)[l][y] = CountIn(new[l], y) /\ Counts(store)[l][y] = CountIn(store[l], y)
    BY DEF Counts
  <2>2. new[l] = IF l = k THEN Bump(store[k], x) ELSE store[l]
    BY DEF BumpAt, Store
  <2>3. CountIn(Bump(store[k], x), y)
          = IF y = x THEN CountIn(store[k], y) + 1 ELSE CountIn(store[k], y)
    BY <1>1, BumpCounts
  <2> HIDE DEF new
  <2>4. QED BY <1>3, <2>1, <2>2, <2>3
<1> HIDE DEF new
<1>6. Counts(new) = up
  BY <1>3, <1>4, <1>5 DEF Table
<1>7. QED BY <1>2, <1>6 DEF new, up

\* New databases hold the tables of a trace without lines.
LEMMA EmptyTables ==
    LET none == [c \in Fp |-> 0]  store == [c \in Fp |-> <<>>]  fs == << <<>> >>
    IN  /\ none \in [Fp -> Nat] /\ store \in Store
        /\ fs \in Traces /\ Len(fs) = 1 /\ fs # <<>> /\ fs[Len(fs)] = <<>>
        /\ FreqOf(fs) = none
        /\ Counts(store) = LeftBy(fs) /\ Counts(store) = RightBy(fs)
<1> DEFINE none == [c \in Fp |-> 0]  store == [c \in Fp |-> <<>>]  fs == << <<>> >>
<1>1. fs \in Traces /\ Len(fs) = 1 /\ fs[1] = <<>> /\ fs # <<>>
  BY DEF Traces
<1>2. none \in [Fp -> Nat] /\ store \in Store
  BY DEF Store
<1> HIDE DEF fs
<1>3. Pos(fs) = {}
  <2>1. \A p : p \in Pos(fs) <=> \E f \in 1..Len(fs) : \E i \in 1..Len(fs[f]) : p = <<f, i>>
    BY <1>1, Positions
  <2>2. \A f \in 1..Len(fs) : f = 1 /\ Len(fs[f]) = 0
    BY <1>1
  <2>3. QED BY <2>1, <2>2
<1>4. Cardinality({}) = 0
  BY FS_EmptySet
<1>5. FreqOf(fs) = none
  <2>1. \A c \in Fp : {p \in Pos(fs) : At(fs, p) = c} = {}
    BY <1>3
  <2>2. QED BY <1>4, <2>1 DEF FreqOf
<1>6. LeftBy(fs) = [k \in Fp |-> none] /\ RightBy(fs) = [k \in Fp |-> none]
  <2>1. \A k, x \in Fp :
          /\ {p \in Pos(fs) : p[2] > 1 /\ At(fs, p) = k /\ name[Prev(fs, p)] = x} = {}
          /\ {p \in Pos(fs) : p[2] > 1 /\ Prev(fs, p) = k /\ name[At(fs, p)] = x} = {}
    BY <1>3
  <2>2. QED BY <1>4, <2>1 DEF LeftBy, RightBy
<1>7. Counts(store) = [k \in Fp |-> none]
  <2>1. \A k, x \in Fp : Holds(store[k], x) = {}
    BY DEF Holds
  <2>2. QED BY <2>1 DEF Counts, CountIn
<1>8. QED BY <1>1, <1>2, <1>5, <1>6, <1>7 DEF fs

-----------------------------------------------------------------------------
(* The steps of the counting pass.  Each one is a step of the abstract      *)
(* tables as well.                                                          *)

\* The abstract tables are those of ChunkTables; for a whole neighbour the tables
\* by name are the tables of the chunks.
LEMMA TraceTables ==
    ASSUME NEW fs \in Traces
    PROVE  /\ Trace!FreqOf(fs) = FreqOf(fs)
           /\ Trace!Within(Trace!LeftOf(fs)) = [k \in Fp |-> [x \in Whole |-> LeftBy(fs)[k][x]]]
           /\ Trace!Within(Trace!RightOf(fs)) = [k \in Fp |-> [x \in Whole |-> RightBy(fs)[k][x]]]
<1>1. \A S : Trace!Cardinality(S) = Cardinality(S)
  BY DEF Trace!Cardinality, Cardinality, Trace!IsFiniteSet, IsFiniteSet
<1>2. Trace!FreqOf(fs) = FreqOf(fs)
  BY <1>1 DEF Trace!FreqOf, Trace!Pos, Trace!At, FreqOf, Pos, At
<1>3. \A p \in Pos(fs) : At(fs, p) \in Fp /\ (p[2] > 1 => Prev(fs, p) \in Fp)
  BY Positions
<1>4. \A x \in Whole : x \in Fp /\ \A c \in Fp : name[c] = x <=> c = x
  BY DEF Whole
<1>5. ASSUME NEW k \in Fp, NEW x \in Whole
      PROVE  Trace!LeftOf(fs)[k][x] = LeftBy(fs)[k][x]
  <2>1. {p \in Pos(fs) : p[2] > 1 /\ At(fs, p) = k /\ Prev(fs, p) = x}
          = {p \in Pos(fs) : p[2] > 1 /\ At(fs, p) = k /\ name[Prev(fs, p)] = x}
    BY <1>3, <1>4
  <2>2. LeftBy(fs)[k][x]
          = Cardinality({p \in Pos(fs) : p[2] > 1 /\ At(fs, p) = k /\ name[Prev(fs, p)] = x})
    BY <1>4 DEF LeftBy
  <2>3. Trace!LeftOf(fs)[k][x]
          = Cardinality({p \in Pos(fs) : p[2] > 1 /\ At(fs, p) = k /\ Prev(fs, p) = x})
    BY <1>1, <1>4 DEF Trace!LeftOf, Trace!Pos, Trace!At, Trace!Prev, Pos, At, Prev
  <2>4. QED BY <2>1, <2>2, <2>3
<1>6. ASSUME NEW k \in Fp, NEW x \in Whole
      PROVE  Trace!RightOf(fs)[k][x] = RightBy(fs)[k][x]
  <2>1. {p \in Pos(fs) : p[2] > 1 /\ Prev(fs, p) = k /\ At(fs, p) = x}
          = {p \in Pos(fs) : p[2] > 1 /\ Prev(fs, p) = k /\ name[At(fs, p)] = x}
    BY <1>3, <1>4
  <2>2. RightBy(fs)[k][x]
          = Cardinality({p \in Pos(fs) : p[2] > 1 /\ Prev(fs, p) = k /\ name[At(fs, p)] = x})
    BY <1>4 DEF RightBy
  <2>3. Trace!RightOf(fs)[k][x]
          = Cardinality({p \in Pos(fs) : p[2] > 1 /\ Prev(fs, p) = k /\ At(fs, p) = x})
    BY <1>1, <1>4 DEF Trace!RightOf, Trace!Pos, Trace!At, Trace!Prev, Pos, At, Prev
  <2>4. QED BY <2>1, <2>2, <2>3
<1>7. Trace!Within(Trace!LeftOf(fs)) = [k \in Fp |-> [x \in Whole |-> LeftBy(fs)[k][x]]]
  BY <1>5 DEF Trace!Within
<1>8. Trace!Within(Trace!RightOf(fs)) = [k \in Fp |-> [x \in Whole |-> RightBy(fs)[k][x]]]
  BY <1>6 DEF Trace!Within
<1>9. QED BY <1>2, <1>7, <1>8

\* Databases that hold the tables by name hold the abstract tables.
LEMMA WholeTables ==
    ASSUME NEW fs \in Traces, NEW left, NEW right,
           Counts(left) = LeftBy(fs), Counts(right) = RightBy(fs)
    PROVE  /\ WholeCounts(left) = Trace!Within(Trace!LeftOf(fs))
           /\ WholeCounts(right) = Trace!Within(Trace!RightOf(fs))
<1>1. /\ Trace!Within(Trace!LeftOf(fs)) = [k \in Fp |-> [x \in Whole |-> LeftBy(fs)[k][x]]]
      /\ Trace!Within(Trace!RightOf(fs)) = [k \in Fp |-> [x \in Whole |-> RightBy(fs)[k][x]]]
  BY TraceTables
<1>2. QED BY <1>1 DEF WholeCounts

\* What the invariant says of the abstract tables.
LEMMA InvTables ==
    ASSUME CountInv
    PROVE  /\ db = Trace!FreqOf(files)
           /\ WholeCounts(store_left) = Trace!Within(Trace!LeftOf(files))
           /\ WholeCounts(store_right) = Trace!Within(Trace!RightOf(files))
<1>1. files \in Traces
  BY DEF CountInv, CountTypeOK, Traces
<1>2. db = Trace!FreqOf(files)
  BY <1>1, TraceTables DEF CountInv
<1>3. QED BY <1>1, <1>2, WholeTables DEF CountInv

\* The same of the next state.
LEMMA InvTablesNext ==
    ASSUME CountInv'
    PROVE  /\ db' = Trace!FreqOf(files')
           /\ WholeCounts(store_left') = Trace!Within(Trace!LeftOf(files'))
           /\ WholeCounts(store_right') = Trace!Within(Trace!RightOf(files'))
<1>1. files' \in Traces
  BY DEF CountInv, CountTypeOK, Traces
<1>2. db' = Trace!FreqOf(files')
  BY <1>1, TraceTables DEF CountInv
<1>3. Counts(store_left') = LeftBy(files') /\ Counts(store_right') = RightBy(files')
  BY DEF CountInv, Counts
<1>4. QED BY <1>1, <1>2, <1>3, WholeTables

\* The databases are new.
LEMMA CountInitInv ==
    ASSUME CountInit PROVE CountInv /\ Trace!Init
<1>1. CountInv
  BY EmptyTables DEF CountInit, CountInv, CountTypeOK, Traces, Store
<1>2. QED BY <1>1, InvTables DEF CountInit, Trace!Init

\* A line of a file.
LEMMA LineInv ==
    ASSUME CountInv, NEW hash \in Fp, Line(hash)
    PROVE  CountInv' /\ Trace!Line(hash)
<1> DEFINE n == Len(files)  open == files[n]  prev == open[Len(open)]
<1>1. /\ files \in Traces /\ files # <<>> /\ (flag <=> open # <<>>) /\ flag \in BOOLEAN
      /\ (flag => last = prev /\ last \in Fp)
      /\ db = FreqOf(files)
      /\ Counts(store_left) = LeftBy(files) /\ Counts(store_right) = RightBy(files)
      /\ store_left \in Store /\ store_right \in Store
  BY DEF CountInv, CountTypeOK, Traces, Store
<1>2. /\ files' = Longer(files, hash)
      /\ db' = Inc(db, hash)
      /\ flag' = TRUE /\ last' = hash
      /\ store_left' = IF flag THEN BumpAt(store_left, hash, name[last]) ELSE store_left
      /\ store_right' = IF flag THEN BumpAt(store_right, last, name[hash]) ELSE store_right
  BY DEF Line, Longer, CountFreq, CountLeft, CountRight, Inc, BumpAt
<1>3. /\ files' \in Traces /\ files' # <<>> /\ Len(files') = n
      /\ files'[n] = Append(open, hash)
  BY <1>1, <1>2, LongerPos
<1>4. /\ db' = FreqOf(files') /\ db' \in [Fp -> Nat]
  BY <1>1, <1>2, <1>3, LongerTables, TablesOfTrace
<1>5. name[hash] \in Fp /\ (flag => name[last] \in Fp)
  BY <1>1, NameAssumption
<1>6. /\ store_left' \in Store
      /\ Counts(store_left') = LeftBy(files')
  <2>1. CASE flag
    <3>1. LeftBy(files') = Inc2(LeftBy(files), hash, name[prev])
      BY <1>1, <1>2, <2>1, LongerTables
    <3>2. store_left' = BumpAt(store_left, hash, name[last])
      BY <1>2, <2>1
    <3>3. QED BY <1>1, <1>5, <2>1, <3>1, <3>2, BumpStore
  <2>2. CASE ~flag
    <3>1. LeftBy(files') = LeftBy(files)
      BY <1>1, <1>2, <2>2, LongerTables
    <3>2. QED BY <1>1, <1>2, <2>2, <3>1
  <2>3. QED BY <2>1, <2>2
<1>7. /\ store_right' \in Store
      /\ Counts(store_right') = RightBy(files')
  <2>1. CASE flag
    <3>1. RightBy(files') = Inc2(RightBy(files), prev, name[hash])
      BY <1>1, <1>2, <2>1, LongerTables
    <3>2. store_right' = BumpAt(store_right, last, name[hash])
      BY <1>2, <2>1
    <3>3. QED BY <1>1, <1>5, <2>1, <3>1, <3>2, BumpStore
  <2>2. CASE ~flag
    <3>1. RightBy(files') = RightBy(files)
      BY <1>1, <1>2, <2>2, LongerTables
    <3>2. QED BY <1>1, <1>2, <2>2, <3>1
  <2>3. QED BY <2>1, <2>2
<1>8. /\ files'[n] # <<>> /\ files'[n][Len(files'[n])] = hash
  <2>1. open \in Seq(Fp)
    <3>1. n \in 1..n /\ files \in Seq(Seq(Fp))
      BY <1>1 DEF Traces
    <3>2. QED BY <3>1
  <2>2. QED BY <1>3, <2>1, AppendProperties
<1>9. CountInv'
  BY <1>2, <1>3, <1>4, <1>6, <1>7, <1>8 DEF CountInv, CountTypeOK, Traces, Store
<1>10. QED
  BY <1>2, <1>9, InvTablesNext DEF Trace!Line, Trace!Read, Longer, WholeCounts, Counts

\* The next file of the snapshot.
LEMMA NewFileInv ==
    ASSUME CountInv, NewFile
    PROVE  CountInv' /\ Trace!NewFile
<1>1. files \in Traces
  BY DEF CountInv, CountTypeOK, Traces, Store
<1>2. /\ files' \in Traces /\ files' # <<>> /\ files'[Len(files')] = <<>>
      /\ FreqOf(files') = FreqOf(files) /\ LeftBy(files') = LeftBy(files)
      /\ RightBy(files') = RightBy(files)
  BY <1>1, EmptyFile DEF NewFile
<1>3. CountInv'
  BY <1>2 DEF NewFile, CountInv, CountTypeOK, Traces, Store
<1>4. QED BY <1>3, InvTablesNext DEF NewFile, Trace!NewFile, Trace!Read, WholeCounts, Counts

\* A new snapshot is counted into new databases.
LEMMA NewSnapshotInv ==
    ASSUME NewSnapshot PROVE CountInv' /\ Trace!NewSnapshot
<1>1. CountInv'
  BY EmptyTables DEF NewSnapshot, CountInv, CountTypeOK, Traces, Store
<1>2. QED BY <1>1, InvTablesNext DEF NewSnapshot, Trace!NewSnapshot, Trace!Read, WholeCounts, Counts

-----------------------------------------------------------------------------
(* Counting *)

\* A step that leaves the counting pass alone.
LEMMA CountUnchanged ==
    ASSUME UNCHANGED countVars
    PROVE  UNCHANGED Trace!cvars /\ (CountInv => CountInv')
<1>1. /\ db' = db /\ store_left' = store_left /\ store_right' = store_right
      /\ flag' = flag /\ last' = last /\ files' = files
  BY DEF countVars
<1>2. QED
  BY <1>1 DEF Trace!cvars, CountInv, CountTypeOK, WholeCounts, Counts

\* Every step of the programs is a step of the abstract tables, or none.
LEMMA CountStepInv ==
    ASSUME CountInv, [SNext]_svars
    PROVE  CountInv' /\ [Trace!Next]_(Trace!cvars)
<1>1. CASE CountStep
  <2>1. CASE NewFile
    BY <2>1, NewFileInv DEF Trace!Next
  <2>2. CASE \E hash \in Fp : Line(hash)
    BY <2>2, LineInv DEF Trace!Next
  <2>3. QED BY <1>1, <2>1, <2>2 DEF CountStep, CountNext
<1>2. CASE EndSnapshot
  BY <1>2, NewSnapshotInv DEF EndSnapshot, Trace!Next
<1>3. CASE Launch
  BY <1>3, CountUnchanged DEF Launch
<1>4. CASE Analyse
  BY <1>4, CountUnchanged DEF Analyse
<1>5. CASE UNCHANGED svars
  BY <1>5, CountUnchanged DEF svars
<1>6. QED BY <1>1, <1>2, <1>3, <1>4, <1>5 DEF SNext

\* The counting pass of both snapshots implements the tables of the trace:
\* whatever files have been read, in however many runs of the tool, the three
\* databases hold the frequencies of those lines and the counts of the neighbours
\* that no other chunk is mistaken for, in particular of those without a zero byte.
THEOREM CountingRefines == SSpec => CountsTheTrace
<1>1. SInit => CountInv /\ Trace!Init
  BY CountInitInv DEF SInit
<1>2. CountInv /\ [SNext]_svars => CountInv' /\ [Trace!Next]_(Trace!cvars)
  BY CountStepInv
<1>3. QED BY <1>1, <1>2, PTL DEF SSpec, CountsTheTrace, Trace!Spec

-----------------------------------------------------------------------------
(* The bounded heap *)

\* HeapIsTop with what makes it inductive: nodes are drained after the last
\* entry was read, a node is on the heap or on the stack, and no node on the
\* stack is more frequent than one still on the heap.
HeapInv ==
    /\ HeapTypeOK
    /\ todo # {} => stack = <<>>
    /\ IsInjective(stack)
    /\ pq \cap Range(stack) = {}
    /\ \A h \in pq : \A i \in DOMAIN stack : tbl[stack[i]] <= tbl[h]
    /\ \A i, j \in DOMAIN stack : i < j => tbl[stack[i]] <= tbl[stack[j]]
    /\ IsTop(pq \cup Range(stack), Seen, tbl, INIT_U)

\* The entries of a table are finitely many.
LEMMA PresentFinite ==
    ASSUME NEW t \in [Fp -> Nat]
    PROVE  /\ Present(t) \subseteq Fp
           /\ \A S \in SUBSET Present(t) : IsFiniteSet(S) /\ Cardinality(S) \in Nat
  BY FpAssumption, FS_Subset, FS_CardinalityType DEF Present

\* The empty list.
LEMMA EmptyList ==
    /\ \A S : <<>> \in Seq(S)
    /\ IsInjective(<<>>) /\ Range(<<>>) = {} /\ Len(<<>>) = 0 /\ DOMAIN <<>> = {}
  BY DEF IsInjective, Range

\* The iterator is placed before a table.
LEMMA SeekInv ==
    ASSUME NEW t \in [Fp -> Nat], SeekToFirst(t)
    PROVE  HeapInv'
<1>1. tbl' = t /\ todo' = Present(t) /\ pq' = {} /\ stack' = <<>>
  BY DEF SeekToFirst
<1>2. Seen' = {} /\ pq' \cup Range(stack)' = {}
  BY <1>1, EmptyList DEF Seen
<1>3. Cardinality({}) = Least(INIT_U, Cardinality({}))
  BY FS_EmptySet, KAssumption DEF Least
<1>4. IsTop(pq \cup Range(stack), Seen, tbl, INIT_U)'
  BY <1>2, <1>3 DEF IsTop
<1>5. HeapTypeOK'
  BY <1>1, EmptyList DEF HeapTypeOK
<1>6. QED BY <1>1, <1>4, <1>5, EmptyList DEF HeapInv

\* The next entry.  Below the limit the heap holds all that was seen; at the
\* limit a new entry displaces a least one only when it is more frequent.
LEMMA InsertInv ==
    ASSUME HeapInv, NEW x \in Fp, Insert(x)
    PROVE  HeapInv'
<1>1. /\ tbl \in [Fp -> Nat] /\ todo \subseteq Present(tbl) /\ pq \subseteq Present(tbl)
      /\ x \in todo /\ stack = <<>> /\ Range(stack) = {}
      /\ todo' = todo \ {x} /\ tbl' = tbl /\ stack' = <<>>
  BY EmptyList DEF HeapInv, HeapTypeOK, Insert
<1>2. Seen' = Seen \cup {x} /\ x \notin Seen /\ Seen \subseteq Present(tbl)
  BY <1>1 DEF Seen
<1>3. /\ pq \subseteq Seen /\ Cardinality(pq) = Least(INIT_U, Cardinality(Seen))
      /\ \A h \in pq : \A y \in Seen \ pq : tbl[y] <= tbl[h]
  <2>1. IsTop(pq, Seen, tbl, INIT_U)
    <3>1. pq \cup Range(stack) = pq
      BY <1>1
    <3>2. QED BY <3>1 DEF HeapInv
  <2>2. QED BY <2>1 DEF IsTop
<1>4. /\ IsFiniteSet(Seen) /\ IsFiniteSet(pq)
      /\ Cardinality(Seen) \in Nat /\ Cardinality(pq) \in Nat
      /\ Cardinality(Seen \cup {x}) = Cardinality(Seen) + 1
      /\ Cardinality(pq \cup {x}) = Cardinality(pq) + 1
      /\ \A m \in pq : Cardinality((pq \ {m}) \cup {x}) = Cardinality(pq)
  <2>1. /\ IsFiniteSet(Seen) /\ IsFiniteSet(pq)
        /\ Cardinality(Seen) \in Nat /\ Cardinality(pq) \in Nat
    BY <1>1, <1>2, PresentFinite
  <2>2. x \notin pq
    BY <1>2, <1>3
  <2>3. ASSUME NEW m \in pq PROVE Cardinality((pq \ {m}) \cup {x}) = Cardinality(pq)
    <3>1. IsFiniteSet(pq \ {m}) /\ Cardinality(pq \ {m}) = Cardinality(pq) - 1
      BY <2>1, FS_RemoveElement
    <3>2. Cardinality((pq \ {m}) \cup {x}) = Cardinality(pq \ {m}) + 1
      BY <3>1, <2>2, FS_AddElement
    <3>3. QED BY <2>1, <3>1, <3>2
  <2>4. QED BY <1>2, <2>1, <2>2, <2>3, FS_AddElement
<1>5. IsTop(pq', Seen', tbl, INIT_U) /\ pq' \subseteq Present(tbl)
  <2>0. \A y \in Present(tbl) : tbl[y] \in Nat
    BY <1>1, PresentFinite
  <2>1. CASE Cardinality(pq) < INIT_U
    <3>1. Cardinality(pq) = Cardinality(Seen)
      BY <1>3, <1>4, <2>1, KAssumption DEF Least
    <3>2. pq = Seen
      BY <1>3, <1>4, <3>1, FS_Subset
    <3>3. pq' = Seen'
      BY <2>1, <3>2, <1>2 DEF Insert
    <3>4. Cardinality(Seen') = Least(INIT_U, Cardinality(Seen'))
      BY <1>2, <1>4, <2>1, <3>2, KAssumption DEF Least
    <3>5. QED BY <1>1, <1>2, <3>3, <3>4 DEF IsTop
  <2>2. CASE ~(Cardinality(pq) < INIT_U)
    <3>1. Cardinality(pq) = INIT_U /\ Least(INIT_U, Cardinality(Seen) + 1) = INIT_U
      BY <1>3, <1>4, <2>2, KAssumption DEF Least
    <3>2. PICK min \in Top(pq) :
              pq' = IF tbl[x] > tbl[min] THEN (pq \ {min}) \cup {x} ELSE pq
      BY <2>2 DEF Insert
    <3>3. min \in pq /\ \A h \in pq : tbl[min] <= tbl[h]
      BY <3>2 DEF Top
    <3>4. Cardinality(pq') = Least(INIT_U, Cardinality(Seen'))
      BY <1>2, <1>4, <3>1, <3>2, <3>3
    <3>5. ASSUME NEW h \in pq', NEW y \in Seen' \ pq' PROVE tbl[y] <= tbl[h]
      <4>1. tbl[y] \in Nat /\ tbl[h] \in Nat /\ tbl[min] \in Nat /\ tbl[x] \in Nat
        BY <1>1, <1>2, <1>3, <2>0, <3>2, <3>3, <3>5
      <4>2. CASE tbl[x] > tbl[min]
        <5>1. (h \in pq \/ h = x) /\ (y = min \/ y \in Seen \ pq)
          BY <1>2, <3>2, <3>5, <4>2
        <5>2. tbl[y] <= tbl[min]
          BY <5>1, <1>3, <3>3, <4>1
        <5>3. QED BY <5>1, <5>2, <3>3, <4>1, <4>2
      <4>3. CASE ~(tbl[x] > tbl[min])
        <5>1. h \in pq /\ (y = x \/ y \in Seen \ pq)
          BY <1>2, <3>2, <3>5, <4>3
        <5>2. QED BY <5>1, <1>3, <3>3, <4>1, <4>3
      <4>4. QED BY <4>2, <4>3
    <3>6. pq' \subseteq Seen'
      BY <1>2, <1>3, <3>2, <3>3
    <3>7. QED BY <1>1, <1>2, <3>4, <3>5, <3>6 DEF IsTop
  <2>3. QED BY <2>1, <2>2
<1>6. HeapTypeOK'
  BY <1>1, <1>5, EmptyList DEF HeapTypeOK
<1>7. pq' \cup Range(stack)' = pq' /\ pq' \cap Range(stack)' = {}
  BY <1>1, EmptyList
<1>8. QED BY <1>1, <1>5, <1>6, <1>7, EmptyList DEF HeapInv

\* A node is popped.
LEMMA DrainInv ==
    ASSUME HeapInv, NEW x \in Fp, Drain(x)
    PROVE  HeapInv'
<1>1. /\ tbl \in [Fp -> Nat] /\ todo = {} /\ pq \subseteq Present(tbl)
      /\ stack \in Seq(Present(tbl)) /\ IsInjective(stack) /\ pq \cap Range(stack) = {}
      /\ x \in pq /\ \A y \in pq : tbl[x] <= tbl[y]
      /\ tbl' = tbl /\ todo' = {} /\ pq' = pq \ {x} /\ stack' = Append(stack, x)
  BY DEF HeapInv, HeapTypeOK, Drain, Top
<1>2. x \in Present(tbl) /\ x \notin Range(stack)
  BY <1>1
<1>3. Range(stack') = Range(stack) \cup {x} /\ IsInjective(stack') /\ stack' \in Seq(Present(tbl))
  BY <1>1, <1>2, RangeAppend, InjectiveAppend
<1>4. pq' \cup Range(stack') = pq \cup Range(stack) /\ pq' \cap Range(stack') = {} /\ Seen' = Seen
  BY <1>1, <1>3 DEF Seen
<1>5. /\ Len(stack) \in Nat /\ DOMAIN stack = 1..Len(stack) /\ DOMAIN stack' = 1..Len(stack) + 1
      /\ stack'[Len(stack) + 1] = x /\ \A i \in 1..Len(stack) : stack'[i] = stack[i]
  BY <1>1, <1>2
<1>6. /\ \A h \in pq : \A i \in DOMAIN stack : tbl[stack[i]] <= tbl[h]
      /\ \A i, j \in DOMAIN stack : i < j => tbl[stack[i]] <= tbl[stack[j]]
      /\ IsTop(pq \cup Range(stack), Seen, tbl, INIT_U)
  BY DEF HeapInv
<1>7. \A h \in pq' : \A i \in DOMAIN stack' : tbl[stack'[i]] <= tbl[h]
  BY <1>1, <1>5, <1>6
<1>8. \A i, j \in DOMAIN stack' : i < j => tbl[stack'[i]] <= tbl[stack'[j]]
  BY <1>1, <1>5, <1>6
<1>9. HeapTypeOK'
  BY <1>1, <1>3 DEF HeapTypeOK
<1>10. IsTop(pq' \cup Range(stack'), Seen', tbl', INIT_U)
  BY <1>1, <1>4, <1>6
<1>11. QED BY <1>1, <1>3, <1>4, <1>7, <1>8, <1>9, <1>10 DEF HeapInv

\* When the heap is empty the stack, read from its end, is the ranking.
LEMMA ListRanked ==
    ASSUME HeapInv, Drained
    PROVE  List \in Ranked(tbl, INIT_U)
<1> DEFINE S == Present(tbl)  m == Least(INIT_U, Cardinality(S))  n == Len(stack)
<1>1. /\ tbl \in [Fp -> Nat] /\ stack \in Seq(S) /\ IsInjective(stack)
      /\ \A i, j \in DOMAIN stack : i < j => tbl[stack[i]] <= tbl[stack[j]]
      /\ IsTop(Range(stack), S, tbl, INIT_U)
  <2>1. todo = {} /\ pq = {}
    BY DEF Drained
  <2>2. Seen = S /\ pq \cup Range(stack) = Range(stack)
    BY <2>1 DEF Seen
  <2>3. QED BY <2>2 DEF HeapInv, HeapTypeOK
<1>2. n \in Nat /\ DOMAIN stack = 1..n /\ n = m
  BY <1>1, InjectiveLength DEF IsTop
<1>3. /\ DOMAIN List = 1..n
      /\ \A i \in 1..n : n + 1 - i \in 1..n /\ List[i] = stack[n + 1 - i] /\ List[i] \in S
  BY <1>1, <1>2 DEF List
<1>4. List \in [1..m -> S]
  BY <1>2, <1>3 DEF List
<1>5. IsInjective(List)
  BY <1>1, <1>2, <1>3 DEF IsInjective
<1>6. \A i, j \in 1..m : i < j => tbl[List[i]] >= tbl[List[j]]
  <2> SUFFICES ASSUME NEW i \in 1..n, NEW j \in 1..n, i < j
               PROVE  tbl[List[i]] >= tbl[List[j]]
    BY <1>2
  <2>1. n + 1 - j < n + 1 - i
    BY <1>2
  <2>2. tbl[List[i]] \in Nat /\ tbl[List[j]] \in Nat
    BY <1>1, <1>3, PresentFinite
  <2>3. tbl[stack[n + 1 - j]] <= tbl[stack[n + 1 - i]]
    BY <1>1, <1>2, <1>3, <2>1
  <2>4. QED BY <1>3, <2>2, <2>3
<1>7. Range(List) = Range(stack)
  <2>1. \A i \in 1..n : stack[i] = List[n + 1 - i] /\ n + 1 - i \in 1..n
    BY <1>2, <1>3
  <2>2. QED BY <1>2, <1>3, <2>1 DEF Range
<1>8. QED BY <1>1, <1>4, <1>5, <1>6, <1>7 DEF Ranked

\* The heap is left alone.
LEMMA HeapUnchanged ==
    ASSUME HeapInv, UNCHANGED heapVars
    PROVE  HeapInv'
  BY DEF HeapInv, heapVars, HeapTypeOK, Seen

-----------------------------------------------------------------------------
(* Rows and rankings *)

Traced == {TablesOf(fs) : fs \in Traces}

\* The chunks of a trace that can be queued: in a trace without zero bytes only
\* those that occur in it.
Known(t) == IF Clean(t) THEN Present(t.F) ELSE Fp

\* The tables of a trace, and the chunks that a ranking or a row can yield.
LEMMA TracedTables ==
    ASSUME NEW t \in Traced
    PROVE  /\ t.F \in [Fp -> Nat]
           /\ Known(t) \subseteq Fp /\ Present(t.F) \subseteq Known(t)
           /\ \A k \in Fp : /\ t.L[k] \in [Fp -> Nat] /\ Present(t.L[k]) \subseteq Known(t)
                            /\ t.R[k] \in [Fp -> Nat] /\ Present(t.R[k]) \subseteq Known(t)
<1>1. PICK fs \in Traces : t = TablesOf(fs)
  BY DEF Traced
<1>2. t.F = FreqOf(fs) /\ t.L = LeftBy(fs) /\ t.R = RightBy(fs)
  BY <1>1 DEF TablesOf
<1>3. /\ t.F \in [Fp -> Nat] /\ t.L \in Table /\ t.R \in Table
      /\ \A k, x \in Fp : t.L[k][x] > 0 \/ t.R[k][x] > 0
                            => \E c \in Fp : t.F[c] > 0 /\ name[c] = x
  BY <1>2, TablesOfTrace
<1>4. \A k \in Fp : t.L[k] \in [Fp -> Nat] /\ t.R[k] \in [Fp -> Nat]
  BY <1>3 DEF Table
<1>5. Present(t.F) \subseteq Fp /\ \A k \in Fp : Present(t.L[k]) \subseteq Fp /\ Present(t.R[k]) \subseteq Fp
  BY <1>3, <1>4, PresentFinite
<1>6. ASSUME Clean(t), NEW k \in Fp, NEW x \in Present(t.L[k]) \cup Present(t.R[k])
      PROVE  x \in Present(t.F)
  <2>1. x \in Fp /\ (t.L[k][x] > 0 \/ t.R[k][x] > 0)
    BY <1>5, <1>6 DEF Present
  <2>2. PICK c \in Fp : t.F[c] > 0 /\ name[c] = x
    BY <1>3, <2>1
  <2>3. c \in Present(t.F)
    BY <1>3, <2>2 DEF Present
  <2>4. QED BY <2>2, <2>3, <1>6 DEF Clean
<1>7. QED BY <1>3, <1>4, <1>5, <1>6 DEF Known

\* A ranking lists entries of its table, each once.
LEMMA RankedLists ==
    ASSUME NEW t \in [Fp -> Nat], NEW k \in Nat, NEW s \in Ranked(t, k)
    PROVE  /\ s \in Seq(Present(t)) /\ IsInjective(s)
           /\ Len(s) = Least(k, Cardinality(Present(t)))
<1> DEFINE m == Least(k, Cardinality(Present(t)))
<1>1. s \in [1..m -> Present(t)] /\ IsInjective(s)
  BY DEF Ranked
<1>2. m \in Nat
  BY PresentFinite DEF Least
<1> HIDE DEF m
<1>3. s \in Seq(Present(t)) /\ Len(s) = m
  BY <1>1, <1>2
<1>4. QED BY <1>1, <1>3 DEF m

\* The pairs of neighbours are entries of the two rows.
LEMMA NeighbourLists ==
    ASSUME NEW a \in [Fp -> Nat], NEW b \in [Fp -> Nat], NEW ps \in Neighbours(a, b)
    PROVE  ps \in Seq(Present(a) \X Present(b))
<1>1. PICK os \in Ranked(a, TH_K) : \E ts \in Ranked(b, TH_K) : ps = Paired(os, ts)
  BY DEF Neighbours
<1>2. PICK ts \in Ranked(b, TH_K) : ps = Paired(os, ts)
  BY <1>1
<1>3. os \in Seq(Present(a)) /\ ts \in Seq(Present(b))
  BY RankedLists, ParameterAssumption
<1> DEFINE m == Least(Len(os), Len(ts))
<1>4. m \in Nat /\ m <= Len(os) /\ m <= Len(ts) /\ Len(os) \in Nat /\ Len(ts) \in Nat
  BY <1>3 DEF Least
<1>5. ps = [i \in 1..m |-> <<os[Len(os) - m + i], ts[Len(ts) - m + i]>>]
  BY <1>2 DEF Paired
<1> HIDE DEF m
<1>6. \A i \in 1..m : Len(os) - m + i \in 1..Len(os) /\ Len(ts) - m + i \in 1..Len(ts)
  BY <1>4
<1>7. \A i \in 1..m : os[Len(os) - m + i] \in Present(a) /\ ts[Len(ts) - m + i] \in Present(b)
  BY <1>3, <1>6
<1>8. ps \in [1..m -> Present(a) \X Present(b)]
  BY <1>5, <1>7
<1>9. QED BY <1>4, <1>8

\* A list of elements of S is a list of elements of a larger set.
LEMMA SeqWiden ==
    ASSUME NEW S, NEW T, S \subseteq T, NEW s \in Seq(S)
    PROVE  s \in Seq(T)
  OBVIOUS

-----------------------------------------------------------------------------
(* The inferred set *)

Starting == pc \in {"idle", "stat", "rank_o", "rank_t"}
Trying   == pc \in {"left", "right"}

\* The target chunk that is being tried.
InHand == IF Trying THEN {Head(q_t)} ELSE {}

\* InferredOnce with what makes it inductive: every chunk that is queued or was
\* tried has its mark in uniq, before the next pair is looked at.  What has been
\* answered was tried or is in hand, and nothing is answered twice.
QueueInv ==
    /\ q_o \in Seq(Known(origin)) /\ q_t \in Seq(Known(target))
    /\ ansq \in Seq(Known(origin) \cap Known(target))
    /\ uniq \subseteq Fp /\ tried \subseteq Fp /\ pairs \subseteq Fp \X Fp
    /\ IsInjective(q_t)
    /\ Range(q_t) \cap tried = {}
    /\ ~Starting => Range(q_t) \cup tried \subseteq uniq
    /\ IsInjective(ansq)
    /\ Range(ansq) \subseteq tried \cup InHand
    /\ Trying => q_o # <<>> /\ q_t # <<>>
    /\ Starting => q_o = <<>> /\ q_t = <<>> /\ pairs = {}
    /\ Starting \/ pc = "peak" => ansq = <<>> /\ tried = {}

TablesInv == snapshots \in Seq(Traced) /\ origin \in Traced /\ target \in Traced

\* A pair whose target chunk has no mark yet is queued and marked.
LEMMA PairAdded ==
    ASSUME TablesInv, QueueInv, ~Starting,
           NEW o \in Known(origin), NEW t \in Known(target), t \notin uniq,
           q_o' = Append(q_o, o), q_t' = Append(q_t, t), pairs' = pairs \cup {<<o, t>>},
           uniq \cup {t} \subseteq uniq', uniq' \subseteq Fp,
           UNCHANGED <<origin, target, ansq, tried, pc>>
    PROVE  QueueInv' /\ (QueuesPaired => QueuesPaired')
<1>0. /\ origin' = origin /\ target' = target /\ ansq' = ansq /\ tried' = tried /\ pc' = pc
  OBVIOUS
<1>1. /\ q_o \in Seq(Known(origin)) /\ q_t \in Seq(Known(target))
      /\ o \in Fp /\ t \in Fp
      /\ IsInjective(q_t) /\ t \notin Range(q_t) /\ t \notin tried
  BY TracedTables DEF QueueInv, TablesInv
<1>2. /\ Range(q_t') = Range(q_t) \cup {t} /\ IsInjective(q_t')
      /\ q_t' \in Seq(Known(target)) /\ q_o' \in Seq(Known(origin))
  BY <1>1, RangeAppend, InjectiveAppend
<1>3. Trying => Head(q_t') = Head(q_t) /\ q_t' # <<>> /\ q_o' # <<>>
  BY <1>1 DEF QueueInv
<1>4. InHand' = InHand
  BY <1>0, <1>3 DEF InHand, Trying
<1>5. QueueInv'
  BY <1>0, <1>1, <1>2, <1>3, <1>4 DEF QueueInv, Starting, Trying
<1>6. ASSUME QueuesPaired PROVE QueuesPaired'
  <2>1. /\ Len(q_o) \in Nat /\ Len(q_o) = Len(q_t) /\ DOMAIN q_o = 1..Len(q_o)
        /\ DOMAIN q_o' = 1..Len(q_o) + 1 /\ Len(q_o') = Len(q_t')
        /\ \A i \in 1..Len(q_o) : q_o'[i] = q_o[i] /\ q_t'[i] = q_t[i]
        /\ q_o'[Len(q_o) + 1] = o /\ q_t'[Len(q_o) + 1] = t
    BY <1>1, <1>6 DEF QueuesPaired
  <2>2. QED BY <1>6, <2>1 DEF QueuesPaired
<1>7. QED BY <1>5, <1>6

\* The fronts are compared.
LEMMA FrontsCompared ==
    ASSUME TablesInv, QueueInv, pc = "loop", q_o # <<>>, q_t # <<>>, pc' = "left",
           ansq' = IF Head(q_o) = Head(q_t) THEN Append(ansq, Head(q_o)) ELSE ansq,
           UNCHANGED <<origin, target, q_o, q_t, uniq, pairs, tried>>
    PROVE  QueueInv' /\ (QueuesPaired => QueuesPaired')
<1>0. /\ origin' = origin /\ target' = target /\ tried' = tried /\ q_o' = q_o /\ q_t' = q_t
      /\ uniq' = uniq /\ pairs' = pairs
  OBVIOUS
<1>1. /\ q_o \in Seq(Known(origin)) /\ q_t \in Seq(Known(target))
      /\ ansq \in Seq(Known(origin) \cap Known(target)) /\ IsInjective(ansq)
      /\ Range(ansq) \subseteq tried /\ Range(q_t) \cap tried = {}
  BY DEF QueueInv, InHand, Trying
<1>2. Head(q_o) \in Known(origin) /\ Head(q_t) \in Known(target) /\ Head(q_t) \in Range(q_t)
  BY <1>1, RangeTail
<1>3. InHand' = {Head(q_t)}
  BY <1>0 DEF InHand, Trying
<1>4. /\ ansq' \in Seq(Known(origin) \cap Known(target)) /\ IsInjective(ansq')
      /\ Range(ansq') \subseteq tried \cup {Head(q_t)}
  <2>1. CASE Head(q_o) = Head(q_t)
    <3>1. Head(q_o) \in Known(origin) \cap Known(target) /\ Head(q_o) \notin Range(ansq)
      BY <1>1, <1>2, <2>1
    <3>2. QED BY <1>1, <2>1, <3>1, RangeAppend, InjectiveAppend
  <2>2. CASE Head(q_o) # Head(q_t)
    BY <1>1, <2>2
  <2>3. QED BY <2>1, <2>2
<1>5. QueueInv'
  BY <1>0, <1>3, <1>4 DEF QueueInv, Starting, Trying
<1>6. QED BY <1>0, <1>5 DEF QueuesPaired

\* The fronts leave the queues.
LEMMA FrontsPopped ==
    ASSUME TablesInv, QueueInv, Pop
    PROVE  QueueInv' /\ (QueuesPaired => QueuesPaired')
<1>0. /\ pc = "right" /\ pc' = "loop" /\ q_o' = Tail(q_o) /\ q_t' = Tail(q_t)
      /\ tried' = tried \cup {Head(q_t)} /\ origin' = origin /\ target' = target
      /\ uniq' = uniq /\ pairs' = pairs /\ ansq' = ansq
  BY DEF Pop, tables
<1>1. /\ q_o \in Seq(Known(origin)) /\ q_t \in Seq(Known(target)) /\ q_o # <<>> /\ q_t # <<>>
      /\ IsInjective(q_t) /\ Known(target) \subseteq Fp
      /\ Range(ansq) \subseteq tried \cup {Head(q_t)}
  BY <1>0, TracedTables DEF QueueInv, TablesInv, InHand, Trying
<1>2. /\ Tail(q_o) \in Seq(Known(origin)) /\ Tail(q_t) \in Seq(Known(target))
      /\ IsInjective(Tail(q_t)) /\ Range(q_t) = Range(Tail(q_t)) \cup {Head(q_t)}
      /\ Head(q_t) \notin Range(Tail(q_t)) /\ Head(q_t) \in Fp
  BY <1>1, RangeTail, InjectiveTail
<1>3. QueueInv'
  BY <1>0, <1>1, <1>2 DEF QueueInv, Starting, Trying, InHand
<1>4. ASSUME QueuesPaired PROVE QueuesPaired'
  <2>1. /\ Len(q_o) \in Nat \ {0} /\ DOMAIN q_o = 1..Len(q_o) /\ Len(q_o) = Len(q_t)
        /\ DOMAIN Tail(q_o) = 1..Len(q_o) - 1 /\ Len(Tail(q_o)) = Len(Tail(q_t))
        /\ \A i \in 1..Len(q_o) - 1 : /\ Tail(q_o)[i] = q_o[i + 1] /\ Tail(q_t)[i] = q_t[i + 1]
                                      /\ i + 1 \in 1..Len(q_o)
    BY <1>1, <1>4 DEF QueuesPaired
  <2>2. QED BY <1>0, <1>4, <2>1 DEF QueuesPaired
<1>5. QED BY <1>3, <1>4

\* The queues start with two lists of chunks.
LEMMA QueuesStarted ==
    ASSUME TablesInv, QueueInv, Starting, pc' = "loop",
           NEW os \in Seq(Known(origin)), NEW ts \in Seq(Known(target)), IsInjective(ts),
           Start(os, ts), UNCHANGED <<origin, target, ansq, tried>>
    PROVE  QueueInv' /\ (Len(os) = Len(ts) => QueuesPaired')
<1>0. /\ origin' = origin /\ target' = target /\ tried' = {} /\ ansq' = <<>>
      /\ q_o' = os /\ q_t' = ts /\ uniq' = uniq \cup Range(ts)
      /\ pairs' = {<<os[i], ts[i]>> : i \in DOMAIN os \cap DOMAIN ts}
  BY DEF Start, QueueInv
<1>1. Known(origin) \subseteq Fp /\ Known(target) \subseteq Fp /\ uniq \subseteq Fp
  BY TracedTables DEF TablesInv, QueueInv
<1>2. /\ \A i \in DOMAIN os : os[i] \in Fp
      /\ \A i \in DOMAIN ts : ts[i] \in Fp
      /\ Range(ts) \subseteq Fp
  BY <1>1 DEF Range
<1>3. pairs' \subseteq Fp \X Fp
  BY <1>0, <1>2
<1>4. QueueInv'
  BY <1>0, <1>1, <1>2, <1>3, EmptyList DEF QueueInv, Starting, Trying, InHand
<1>5. Len(os) = Len(ts) => QueuesPaired'
  BY <1>0 DEF QueuesPaired
<1>6. QED BY <1>4, <1>5

\* The program moves on without touching the queues.
LEMMA QueuesKept ==
    ASSUME QueueInv, UNCHANGED <<origin, target, q_o, q_t, uniq, pairs, ansq, tried>>,
           \/ pc' = pc
           \/ Starting /\ Starting'
           \/ Starting /\ pc' = "peak"
           \/ pc = "peak" /\ pc' = "loop"
           \/ pc = "left" /\ pc' = "right"
           \/ pc = "loop" /\ pc' = "done"
    PROVE  QueueInv' /\ (QueuesPaired => QueuesPaired')
<1>0. /\ origin' = origin /\ target' = target /\ tried' = tried /\ q_o' = q_o /\ q_t' = q_t
      /\ uniq' = uniq /\ pairs' = pairs /\ ansq' = ansq
  OBVIOUS
<1>1. Range(ansq) \subseteq tried \cup InHand'
  BY <1>0, EmptyList DEF QueueInv, InHand, Trying, Starting
<1>2. ~Starting' => Range(q_t) \cup tried \subseteq uniq
  BY <1>0, EmptyList DEF QueueInv, Starting
<1>3. /\ Trying' => q_o # <<>> /\ q_t # <<>>
      /\ Starting' => q_o = <<>> /\ q_t = <<>> /\ pairs = {}
      /\ Starting' \/ pc' = "peak" => ansq = <<>> /\ tried = {}
  BY <1>0 DEF QueueInv, Trying, Starting
<1>4. QueueInv'
  BY <1>0, <1>1, <1>2, <1>3 DEF QueueInv
<1>5. QED BY <1>0, <1>4 DEF QueuesPaired

-----------------------------------------------------------------------------
(* The inductive invariant of the analyses *)

Looping == pc \in {"peak", "loop", "left", "right", "done"}

\* What stat_db has counted: common and leak belong to one set of leaked chunks.
StatInv ==
    /\ total \in Nat
    /\ pc \in {"idle", "stat"} => common = 0 /\ leak = 0
    /\ pc \notin {"idle", "stat"} => total = Chunks(target)
    /\ \E leaked \in SUBSET Present(target.F) :
          /\ common = Cardinality(leaked)
          /\ leak = Cardinality(leaked \cap Present(origin.F))

Batches(o, t) == [os : Seq(o), ts : Seq(t), i : Nat \ {0}, r : Nat, used : SUBSET Nat]

\* No call of peakToPair.
LEMMA NoBatchFits ==
    /\ \A o, t : NoBatch \in Batches(o, t)
    /\ NoBatch.used \subseteq DOMAIN NoBatch.os
<1>1. /\ NoBatch.os = <<>> /\ NoBatch.ts = <<>> /\ NoBatch.i = 1 /\ NoBatch.r = 0
      /\ NoBatch.used = {}
  BY DEF NoBatch
<1>2. ASSUME NEW o, NEW t PROVE NoBatch \in Batches(o, t)
  BY EmptyList DEF NoBatch, Batches
<1>3. QED BY <1>1, <1>2

\* The neighbours that are still to be paired.
WorkInv ==
    /\ work \in Seq(Known(origin) \X Known(target))
    /\ batch \in Batches(Known(origin), Known(target))
    /\ batch.used \subseteq DOMAIN batch.os
    /\ Starting => work = <<>> /\ batch = NoBatch

\* The heap ranks the table of the trace that main is at, and the auxiliary
\* ranking is kept until the other one is complete.
RankInv ==
    /\ HeapInv /\ seeds \in Seq(Fp) /\ leaking \in BOOLEAN
    /\ Starting \/ Looping
    /\ tool \in {"none", "attack", "entropy_attack"}
    /\ pc \in {"rank_o", "rank_t"} => ~leaking
    /\ pc = "rank_o" => tbl = origin.F
    /\ pc = "rank_t" => tbl = target.F /\ seeds \in Ranked(origin.F, INIT_U)

AttackInv ==
    TablesInv /\ QueueInv /\ PairsStayTogether /\ StatInv /\ WorkInv /\ RankInv

\* What a step of the main loop leaves alone.
LEMMA LoopFrame ==
    ASSUME AttackInv, Looping, Looping',
           UNCHANGED <<tables, stats, ranking, snapshots, tool>>,
           QueuesPaired => QueuesPaired'
    PROVE  TablesInv' /\ PairsStayTogether' /\ StatInv' /\ RankInv'
<1>1. /\ origin' = origin /\ target' = target /\ leaking' = leaking /\ tool' = tool
      /\ total' = total /\ common' = common /\ leak' = leak /\ snapshots' = snapshots
      /\ tbl' = tbl /\ todo' = todo /\ pq' = pq /\ stack' = stack /\ seeds' = seeds
  BY DEF tables, stats, ranking, heapVars
<1>2. TablesInv'
  BY <1>1 DEF AttackInv, TablesInv
<1>3. PairsStayTogether'
  BY <1>1 DEF AttackInv, PairsStayTogether, EqualStart
<1>4. StatInv'
  BY <1>1 DEF AttackInv, StatInv, Looping
<1>5. RankInv'
  BY <1>1, HeapUnchanged DEF AttackInv, RankInv, Looping, heapVars
<1>6. QED BY <1>2, <1>3, <1>4, <1>5

\* The neighbours that are handed over.
LEMMA Handed ==
    ASSUME TablesInv, QueueInv, Looping, q_o # <<>>, q_t # <<>>,
           NEW ps, \/ ps \in Neighbours(origin.L[Head(q_o)], target.L[Head(q_t)])
                   \/ ps \in Neighbours(origin.R[Head(q_o)], target.R[Head(q_t)])
    PROVE  ps \in Seq(Known(origin) \X Known(target))
<1> DEFINE o == Head(q_o)  t == Head(q_t)
<1>1. o \in Fp /\ t \in Fp
  <2>1. /\ q_o \in Seq(Known(origin)) /\ q_t \in Seq(Known(target))
        /\ Known(origin) \subseteq Fp /\ Known(target) \subseteq Fp
    BY TracedTables DEF TablesInv, QueueInv
  <2>2. QED BY <2>1
<1>2. /\ origin.L[o] \in [Fp -> Nat] /\ origin.R[o] \in [Fp -> Nat]
      /\ target.L[t] \in [Fp -> Nat] /\ target.R[t] \in [Fp -> Nat]
      /\ Present(origin.L[o]) \subseteq Known(origin) /\ Present(origin.R[o]) \subseteq Known(origin)
      /\ Present(target.L[t]) \subseteq Known(target) /\ Present(target.R[t]) \subseteq Known(target)
  BY <1>1, TracedTables DEF TablesInv
<1> DEFINE ol == origin.L[o]  tl == target.L[t]  or == origin.R[o]  tr == target.R[t]
<1> HIDE DEF ol, tl, or, tr
<1>3. CASE ps \in Neighbours(ol, tl)
  <2>1. ps \in Seq(Present(ol) \X Present(tl))
    BY <1>2, <1>3, NeighbourLists DEF ol, tl
  <2>2. Present(ol) \X Present(tl) \subseteq Known(origin) \X Known(target)
    BY <1>2 DEF ol, tl
  <2>3. QED BY <2>1, <2>2, SeqWiden
<1>4. CASE ps \in Neighbours(or, tr)
  <2>1. ps \in Seq(Present(or) \X Present(tr))
    BY <1>2, <1>4, NeighbourLists DEF or, tr
  <2>2. Present(or) \X Present(tr) \subseteq Known(origin) \X Known(target)
    BY <1>2 DEF or, tr
  <2>3. QED BY <2>1, <2>2, SeqWiden
<1>5. QED BY <1>3, <1>4 DEF ol, tl, or, tr

-----------------------------------------------------------------------------
(* The steps of locality_attack's loop *)

LeftStep  == Left /\ UNCHANGED <<batch, snapshots, tool>>
SkipStep  == Skip /\ UNCHANGED <<batch, snapshots, tool>>
InferStep == Infer /\ UNCHANGED <<batch, snapshots, tool>>
BreakStep == Break /\ UNCHANGED <<batch, snapshots, tool>>
RightStep == Right /\ UNCHANGED <<batch, snapshots, tool>>

\* The fronts are compared and their left neighbours become the work list.
LEMMA LeftInv ==
    ASSUME AttackInv, LeftStep PROVE AttackInv'
<1>1. /\ pc = "loop" /\ pc' = "left" /\ q_o # <<>> /\ q_t # <<>>
      /\ UNCHANGED <<tables, stats, ranking, snapshots, tool, queues, tried, batch>>
      /\ work' \in Neighbours(origin.L[Head(q_o)], target.L[Head(q_t)])
      /\ ansq' = IF Head(q_o) = Head(q_t) THEN Append(ansq, Head(q_o)) ELSE ansq
      /\ Looping /\ Looping' /\ ~Starting /\ ~Starting'
  BY DEF LeftStep, Left, Looping, Starting
<1>2. /\ UNCHANGED <<origin, target, q_o, q_t, uniq, pairs, tried>>
      /\ TablesInv /\ QueueInv /\ WorkInv
  BY <1>1 DEF tables, queues, AttackInv
<1>3. QueueInv' /\ (QueuesPaired => QueuesPaired')
  BY <1>1, <1>2, FrontsCompared
<1>4. work' \in Seq(Known(origin) \X Known(target))
  BY <1>1, <1>2, Handed
<1>5. WorkInv'
  BY <1>1, <1>2, <1>4 DEF WorkInv
<1>6. QED BY <1>1, <1>3, <1>5, LoopFrame DEF AttackInv

\* A pair of the work list is skipped, or the rest of it is dropped.
LEMMA SkipInv ==
    ASSUME AttackInv, SkipStep \/ BreakStep PROVE AttackInv'
<1>1. /\ pc \in {"left", "right"} /\ pc' = pc /\ work # <<>>
      /\ UNCHANGED <<tables, stats, ranking, snapshots, tool, queues, tried, ansq, batch>>
      /\ work' = Tail(work) \/ work' = <<>>
      /\ Looping /\ Looping' /\ ~Starting /\ ~Starting'
  BY DEF SkipStep, Skip, BreakStep, Break, Looping, Starting
<1>2. /\ UNCHANGED <<origin, target, q_o, q_t, uniq, pairs, ansq, tried>>
      /\ QueueInv /\ WorkInv
  BY <1>1 DEF tables, queues, AttackInv
<1>3. QueueInv' /\ (QueuesPaired => QueuesPaired')
  BY <1>1, <1>2, QueuesKept
<1>4. work' \in Seq(Known(origin) \X Known(target))
  <2> DEFINE K == Known(origin) \X Known(target)
  <2>1. work \in Seq(K)
    BY <1>2 DEF WorkInv
  <2> HIDE DEF K
  <2>2. Tail(work) \in Seq(K) /\ <<>> \in Seq(K)
    BY <1>1, <2>1
  <2>3. QED BY <1>1, <2>2 DEF K
<1>5. WorkInv'
  BY <1>1, <1>2, <1>4 DEF WorkInv
<1>6. QED BY <1>1, <1>3, <1>5, LoopFrame DEF AttackInv

\* The next pair of the work list is inferred.
LEMMA InferInv ==
    ASSUME AttackInv, InferStep PROVE AttackInv'
<1>1. /\ pc \in {"left", "right"} /\ pc' = pc /\ work # <<>>
      /\ UNCHANGED <<tables, stats, ranking, snapshots, tool, tried, ansq, batch>>
      /\ Head(work)[2] \notin uniq
      /\ uniq' = uniq \cup {Head(work)[2]}
      /\ q_o' = Append(q_o, Head(work)[1]) /\ q_t' = Append(q_t, Head(work)[2])
      /\ pairs' = pairs \cup {Head(work)} /\ work' = Tail(work)
      /\ Looping /\ Looping' /\ ~Starting /\ ~Starting'
  BY DEF InferStep, Infer, Looping, Starting
<1>2. /\ UNCHANGED <<origin, target, ansq, tried, pc>> /\ TablesInv /\ QueueInv /\ WorkInv
  BY <1>1 DEF tables, AttackInv
<1>3. /\ Head(work) \in Known(origin) \X Known(target)
      /\ work' \in Seq(Known(origin) \X Known(target))
  BY <1>1, <1>2 DEF WorkInv
<1>4. PICK o \in Known(origin) : \E t \in Known(target) : Head(work) = <<o, t>>
  BY <1>3
<1>5. PICK t \in Known(target) : Head(work) = <<o, t>>
  BY <1>4
<1>6. Head(work)[1] = o /\ Head(work)[2] = t /\ uniq \cup {t} \subseteq Fp
  BY <1>2, <1>5, TracedTables DEF TablesInv, QueueInv
<1>7. /\ q_o' = Append(q_o, o) /\ q_t' = Append(q_t, t) /\ pairs' = pairs \cup {<<o, t>>}
      /\ uniq' = uniq \cup {t} /\ t \notin uniq
  BY <1>1, <1>5, <1>6
<1>8. QueueInv' /\ (QueuesPaired => QueuesPaired')
  BY <1>1, <1>2, <1>6, <1>7, PairAdded
<1>9. WorkInv'
  BY <1>1, <1>2, <1>3 DEF WorkInv
<1>10. QED BY <1>1, <1>8, <1>9, LoopFrame DEF AttackInv

\* The right neighbours become the work list.
LEMMA RightInv ==
    ASSUME AttackInv, RightStep PROVE AttackInv'
<1>1. /\ pc = "left" /\ pc' = "right"
      /\ UNCHANGED <<tables, stats, ranking, snapshots, tool, queues, tried, ansq, batch>>
      /\ work' \in Neighbours(origin.R[Head(q_o)], target.R[Head(q_t)])
      /\ Looping /\ Looping' /\ ~Starting /\ ~Starting'
  BY DEF RightStep, Right, Looping, Starting
<1>2. /\ UNCHANGED <<origin, target, q_o, q_t, uniq, pairs, ansq, tried>>
      /\ TablesInv /\ QueueInv /\ WorkInv /\ q_o # <<>> /\ q_t # <<>>
  BY <1>1 DEF tables, queues, AttackInv, QueueInv, Trying
<1>3. QueueInv' /\ (QueuesPaired => QueuesPaired')
  BY <1>1, <1>2, QueuesKept
<1>4. work' \in Seq(Known(origin) \X Known(target))
  BY <1>1, <1>2, Handed
<1>5. WorkInv'
  BY <1>1, <1>2, <1>4 DEF WorkInv
<1>6. QED BY <1>1, <1>3, <1>5, LoopFrame DEF AttackInv

\* The fronts leave the queues, in either analysis.
LEMMA PopInv ==
    ASSUME AttackInv, Pop, batch' \in {batch, NoBatch}, UNCHANGED <<snapshots, tool>>
    PROVE  AttackInv'
<1>1. /\ UNCHANGED <<tables, stats, ranking, work>>
      /\ Looping /\ Looping' /\ ~Starting /\ ~Starting'
  BY DEF Pop, Looping, Starting
<1>2. QueueInv' /\ (QueuesPaired => QueuesPaired')
  BY FrontsPopped DEF AttackInv
<1>3. batch' \in Batches(Known(origin), Known(target)) /\ batch'.used \subseteq DOMAIN batch'.os
  BY NoBatchFits DEF AttackInv, WorkInv
<1>4. WorkInv'
  BY <1>1, <1>3 DEF AttackInv, WorkInv, tables
<1>5. QED BY <1>1, <1>2, <1>4, LoopFrame DEF AttackInv

\* One of the queues is empty, in either analysis.
LEMMA EndInv ==
    ASSUME AttackInv, End, UNCHANGED <<batch, snapshots, tool>>
    PROVE  AttackInv'
<1>1. /\ UNCHANGED <<tables, stats, ranking, work, queues, ansq, tried>>
      /\ pc = "loop" /\ pc' = "done"
      /\ Looping /\ Looping' /\ ~Starting /\ ~Starting'
  BY DEF End, Looping, Starting
<1>2. QueueInv' /\ (QueuesPaired => QueuesPaired')
  BY <1>1, QueuesKept DEF AttackInv, queues, tables
<1>3. WorkInv'
  BY <1>1 DEF AttackInv, WorkInv, tables
<1>4. QED BY <1>1, <1>2, <1>3, LoopFrame DEF AttackInv

-----------------------------------------------------------------------------
(* The steps of entropy_attack's loop *)

\* Two lists for a new call of peakToPair.
LEMMA CallFits ==
    ASSUME NEW O, NEW T, NEW os \in Seq(O), NEW ts \in Seq(T), NEW r \in Nat,
           NEW b, b = [os |-> os, ts |-> ts, i |-> 1, r |-> r, used |-> {}]
    PROVE  b \in Batches(O, T) /\ b.used \subseteq DOMAIN b.os
  BY DEF Batches

\* What the loop of peakToPair does to its arguments.
LEMMA CallAdvances ==
    ASSUME NEW O, NEW T, NEW b \in Batches(O, T), b.used \subseteq DOMAIN b.os,
           NEW U, U \subseteq DOMAIN b.os,
           NEW c, c = [b EXCEPT !.i = @ + 1, !.used = @ \cup U]
    PROVE  c \in Batches(O, T) /\ c.used \subseteq DOMAIN c.os
<1>1. /\ b.os \in Seq(O) /\ b.ts \in Seq(T) /\ b.i \in Nat \ {0} /\ b.r \in Nat
      /\ b.used \in SUBSET Nat
  BY DEF Batches
<1>2. /\ c.os = b.os /\ c.ts = b.ts /\ c.i = b.i + 1 /\ c.r = b.r /\ c.used = b.used \cup U
      /\ c = [os |-> b.os, ts |-> b.ts, i |-> b.i + 1, r |-> b.r, used |-> b.used \cup U]
  BY DEF Batches
<1>3. U \subseteq Nat
  BY <1>1
<1>4. QED BY <1>1, <1>2, <1>3 DEF Batches

\* Fronts of both queues and a row of each: the call that is prepared.
LEMMA HandFits ==
    ASSUME TablesInv, QueueInv, Looping, q_o # <<>>, q_t # <<>>,
           \/ Hand(origin.L[Head(q_o)], target.L[Head(q_t)])
           \/ Hand(origin.R[Head(q_o)], target.R[Head(q_t)])
    PROVE  batch' \in Batches(Known(origin), Known(target)) /\ batch'.used \subseteq DOMAIN batch'.os
<1>1. PICK ps \in Neighbours(origin.L[Head(q_o)], target.L[Head(q_t)])
                    \cup Neighbours(origin.R[Head(q_o)], target.R[Head(q_t)]) :
          batch' = [NoBatch EXCEPT !.os = [i \in DOMAIN ps |-> ps[i][1]],
                                   !.ts = [i \in DOMAIN ps |-> ps[i][2]]]
  BY DEF Hand
<1>2. ps \in Seq(Known(origin) \X Known(target))
  BY <1>1, Handed
<1> DEFINE n == Len(ps)  os == [i \in 1..n |-> ps[i][1]]  ts == [i \in 1..n |-> ps[i][2]]
<1>3. n \in Nat /\ DOMAIN ps = 1..n /\ \A i \in 1..n : ps[i] \in Known(origin) \X Known(target)
  BY <1>2
<1>4. os \in [1..n -> Known(origin)] /\ ts \in [1..n -> Known(target)]
  BY <1>3
<1>5. os \in Seq(Known(origin)) /\ ts \in Seq(Known(target))
  BY <1>3, <1>4
<1>6. batch' = [os |-> os, ts |-> ts, i |-> 1, r |-> 0, used |-> {}]
  BY <1>1, <1>3 DEF NoBatch
<1> HIDE DEF os, ts
<1>7. QED BY <1>5, <1>6, CallFits

ELeftStep     == ELeft /\ UNCHANGED <<snapshots, tool>>
ERightStep    == ERight /\ UNCHANGED <<snapshots, tool>>
ELoopStep     == ELoop /\ UNCHANGED <<snapshots, tool>>
PeakSkipStep  == PeakSkip /\ UNCHANGED <<snapshots, tool>>
PeakBreakStep == PeakBreak /\ UNCHANGED <<snapshots, tool>>
PeakPairStep  == PeakPair /\ UNCHANGED <<snapshots, tool>>

\* The fronts are compared and their left neighbours handed over.
LEMMA ELeftInv ==
    ASSUME AttackInv, ELeftStep PROVE AttackInv'
<1>1. /\ pc = "loop" /\ pc' = "left" /\ q_o # <<>> /\ q_t # <<>>
      /\ UNCHANGED <<tables, stats, ranking, snapshots, tool, queues, tried, work>>
      /\ Hand(origin.L[Head(q_o)], target.L[Head(q_t)])
      /\ ansq' = IF Head(q_o) = Head(q_t) THEN Append(ansq, Head(q_o)) ELSE ansq
      /\ Looping /\ Looping' /\ ~Starting /\ ~Starting'
  BY DEF ELeftStep, ELeft, Looping, Starting
<1>2. /\ UNCHANGED <<origin, target, q_o, q_t, uniq, pairs, tried>>
      /\ TablesInv /\ QueueInv /\ WorkInv
  BY <1>1 DEF tables, queues, AttackInv
<1>3. QueueInv' /\ (QueuesPaired => QueuesPaired')
  BY <1>1, <1>2, FrontsCompared
<1>4. batch' \in Batches(Known(origin), Known(target)) /\ batch'.used \subseteq DOMAIN batch'.os
  BY <1>1, <1>2, HandFits
<1>5. WorkInv'
  BY <1>1, <1>2, <1>4 DEF WorkInv
<1>6. QED BY <1>1, <1>3, <1>5, LoopFrame DEF AttackInv

\* The right neighbours are handed over.
LEMMA ERightInv ==
    ASSUME AttackInv, ERightStep PROVE AttackInv'
<1>1. /\ pc = "left" /\ pc' = "right"
      /\ UNCHANGED <<tables, stats, ranking, snapshots, tool, queues, tried, ansq, work>>
      /\ Hand(origin.R[Head(q_o)], target.R[Head(q_t)])
      /\ Looping /\ Looping' /\ ~Starting /\ ~Starting'
  BY DEF ERightStep, ERight, Looping, Starting
<1>2. /\ UNCHANGED <<origin, target, q_o, q_t, uniq, pairs, ansq, tried>>
      /\ TablesInv /\ QueueInv /\ WorkInv /\ q_o # <<>> /\ q_t # <<>>
  BY <1>1 DEF tables, queues, AttackInv, QueueInv, Trying
<1>3. QueueInv' /\ (QueuesPaired => QueuesPaired')
  BY <1>1, <1>2, QueuesKept
<1>4. batch' \in Batches(Known(origin), Known(target)) /\ batch'.used \subseteq DOMAIN batch'.os
  BY <1>1, <1>2, HandFits
<1>5. WorkInv'
  BY <1>1, <1>2, <1>4 DEF WorkInv
<1>6. QED BY <1>1, <1>3, <1>5, LoopFrame DEF AttackInv

\* The loop begins, a target chunk is skipped, or the call is left.
LEMMA PeakSkipInv ==
    ASSUME AttackInv, ELoopStep \/ PeakSkipStep \/ PeakBreakStep PROVE AttackInv'
<1>1. /\ UNCHANGED <<tables, stats, ranking, snapshots, tool, queues, tried, ansq, work>>
      /\ (pc' = pc \/ (pc = "peak" /\ pc' = "loop"))
      /\ batch' \in {batch, NoBatch, [batch EXCEPT !.i = @ + 1]}
      /\ Looping /\ Looping' /\ ~Starting /\ ~Starting'
  BY DEF ELoopStep, ELoop, PeakSkipStep, PeakSkip, PeakBreakStep, PeakBreak, Peaking,
         Looping, Starting, vars, rest
<1>2. UNCHANGED <<origin, target, q_o, q_t, uniq, pairs, ansq, tried>> /\ QueueInv /\ WorkInv
  BY <1>1 DEF tables, queues, AttackInv
<1>3. QueueInv' /\ (QueuesPaired => QueuesPaired')
  BY <1>1, <1>2, QueuesKept
<1>4. batch' \in Batches(Known(origin), Known(target)) /\ batch'.used \subseteq DOMAIN batch'.os
  <2>1. batch \in Batches(Known(origin), Known(target)) /\ batch.used \subseteq DOMAIN batch.os
    BY <1>2 DEF WorkInv
  <2>2. [batch EXCEPT !.i = @ + 1] = [batch EXCEPT !.i = @ + 1, !.used = @ \cup {}]
    BY <2>1 DEF Batches
  <2>3. CASE batch' = [batch EXCEPT !.i = @ + 1]
    <3> DEFINE none == {}
    <3>1. none \subseteq DOMAIN batch.os /\ batch' = [batch EXCEPT !.i = @ + 1, !.used = @ \cup none]
      BY <2>2, <2>3
    <3> HIDE DEF none
    <3>2. QED BY <2>1, <3>1, CallAdvances
  <2>4. QED BY <1>1, <2>1, <2>3, NoBatchFits
<1>5. WorkInv'
  BY <1>1, <1>2, <1>4 DEF WorkInv
<1>6. QED BY <1>1, <1>3, <1>5, LoopFrame DEF AttackInv

\* The closest candidate is paired with the target chunk.
LEMMA PeakPairInv ==
    ASSUME AttackInv, PeakPairStep PROVE AttackInv'
<1>1. /\ UNCHANGED <<tables, stats, ranking, snapshots, tool, tried, ansq, work, pc>>
      /\ batch.i <= Len(batch.ts) /\ batch.ts[batch.i] \notin uniq
      /\ Looping /\ Looping' /\ ~Starting /\ ~Starting'
  BY DEF PeakPairStep, PeakPair, Peaking, Looping, Starting
<1>2. UNCHANGED <<origin, target, ansq, tried, pc>> /\ TablesInv /\ QueueInv /\ WorkInv
  BY <1>1 DEF tables, AttackInv
<1>3. PICK j \in DOMAIN batch.os :
          /\ q_o' = Append(q_o, batch.os[j])
          /\ q_t' = Append(q_t, batch.ts[batch.i])
          /\ uniq' = uniq \cup {batch.ts[batch.i], batch.os[j]}
          /\ pairs' = pairs \cup {<<batch.os[j], batch.ts[batch.i]>>}
          /\ batch' = [batch EXCEPT !.i = @ + 1, !.used = @ \cup {j}]
  BY DEF PeakPairStep, PeakPair
<1>4. /\ batch \in Batches(Known(origin), Known(target)) /\ batch.used \subseteq DOMAIN batch.os
      /\ Known(origin) \subseteq Fp /\ Known(target) \subseteq Fp /\ uniq \subseteq Fp
  BY <1>2, TracedTables DEF TablesInv, QueueInv, WorkInv
<1>5. batch.os[j] \in Known(origin) /\ batch.ts[batch.i] \in Known(target)
  <2>1. batch.os \in Seq(Known(origin)) /\ batch.ts \in Seq(Known(target)) /\ batch.i \in Nat \ {0}
    BY <1>4 DEF Batches
  <2>2. batch.i \in DOMAIN batch.ts
    BY <1>1, <2>1
  <2>3. QED BY <1>3, <2>1, <2>2
<1>6. QueueInv' /\ (QueuesPaired => QueuesPaired')
  <2> DEFINE o == batch.os[j]  t == batch.ts[batch.i]
  <2>1. /\ o \in Known(origin) /\ t \in Known(target) /\ t \notin uniq
        /\ q_o' = Append(q_o, o) /\ q_t' = Append(q_t, t) /\ pairs' = pairs \cup {<<o, t>>}
        /\ uniq \cup {t} \subseteq uniq' /\ uniq' \subseteq Fp
    BY <1>1, <1>3, <1>4, <1>5
  <2> HIDE DEF o, t
  <2>2. QED BY <1>1, <1>2, <2>1, PairAdded
<1>7. batch' \in Batches(Known(origin), Known(target)) /\ batch'.used \subseteq DOMAIN batch'.os
  <2>1. {j} \subseteq DOMAIN batch.os
    BY <1>3
  <2>2. QED BY <1>3, <1>4, <2>1, CallAdvances
<1>8. WorkInv'
  BY <1>1, <1>2, <1>7 DEF WorkInv
<1>9. QED BY <1>1, <1>6, <1>8, LoopFrame DEF AttackInv

-----------------------------------------------------------------------------
(* stat_db, the two rankings and the start of the queues *)

\* Without leakage: the target chunks are counted and the iterator is placed
\* before the auxiliary table.
LEMMA RankOriginInv ==
    ASSUME AttackInv, RankOrigin, UNCHANGED <<batch, snapshots, tool>>
    PROVE  AttackInv'
<1>1. /\ pc = "stat" /\ pc' = "rank_o" /\ ~leaking /\ Starting /\ Starting'
      /\ origin' = origin /\ target' = target /\ leaking' = leaking
      /\ UNCHANGED <<q_o, q_t, uniq, pairs, ansq, tried, work, seeds, common, leak>>
      /\ total' = Cardinality(Present(target.F)) /\ SeekToFirst(origin.F)
  BY DEF RankOrigin, Starting, tables, queues
<1>2. /\ TablesInv /\ QueueInv /\ WorkInv /\ StatInv /\ RankInv /\ PairsStayTogether
      /\ origin.F \in [Fp -> Nat] /\ target.F \in [Fp -> Nat]
  BY TracedTables DEF AttackInv, TablesInv
<1>3. TablesInv'
  BY <1>1, <1>2 DEF TablesInv
<1>4. QueueInv' /\ (QueuesPaired => QueuesPaired')
  BY <1>1, <1>2, QueuesKept
<1>5. PairsStayTogether'
  BY <1>1, <1>2, <1>4 DEF PairsStayTogether, EqualStart
<1>6. WorkInv'
  BY <1>1, <1>2 DEF WorkInv
<1>7. StatInv'
  <2>1. total' \in Nat
    BY <1>1, <1>2, PresentFinite
  <2>2. QED BY <1>1, <1>2, <2>1 DEF StatInv, Chunks
<1>8. HeapInv' /\ tbl' = origin.F
  BY <1>1, <1>2, SeekInv DEF SeekToFirst
<1>9. RankInv'
  BY <1>1, <1>2, <1>8 DEF RankInv
<1>10. QED BY <1>3, <1>4, <1>5, <1>6, <1>7, <1>9 DEF AttackInv

\* A step of the heap.
LEMMA RanksInv ==
    ASSUME AttackInv, Ranks, UNCHANGED <<batch, snapshots, tool>>
    PROVE  AttackInv'
<1>1. /\ pc' = pc /\ HeapNext
      /\ origin' = origin /\ target' = target /\ leaking' = leaking
      /\ UNCHANGED <<q_o, q_t, uniq, pairs, ansq, tried, work, seeds, total, common, leak>>
  BY DEF Ranks, rest, tables, queues, stats
<1>2. TablesInv /\ QueueInv /\ WorkInv /\ StatInv /\ RankInv /\ PairsStayTogether
  BY DEF AttackInv
<1>3. TablesInv' /\ WorkInv' /\ StatInv'
  BY <1>1, <1>2 DEF TablesInv, WorkInv, StatInv, Starting
<1>4. QueueInv' /\ (QueuesPaired => QueuesPaired')
  BY <1>1, <1>2, QueuesKept
<1>5. PairsStayTogether'
  BY <1>1, <1>2, <1>4 DEF PairsStayTogether, EqualStart
<1>6. HeapInv' /\ tbl' = tbl
  <2>1. PICK x \in Fp : Insert(x) \/ Drain(x)
    BY <1>1 DEF HeapNext
  <2>2. HeapInv'
    BY <1>2, <2>1, InsertInv, DrainInv DEF RankInv
  <2>3. tbl' = tbl
    BY <2>1 DEF Insert, Drain
  <2>4. QED BY <2>2, <2>3
<1>7. RankInv'
  BY <1>1, <1>2, <1>6 DEF RankInv, Starting, Looping
<1>8. QED BY <1>3, <1>4, <1>5, <1>7 DEF AttackInv

\* The auxiliary ranking is complete, that of the target begins.
LEMMA RankTargetInv ==
    ASSUME AttackInv, RankTarget, UNCHANGED <<batch, snapshots, tool>>
    PROVE  AttackInv'
<1>1. /\ pc = "rank_o" /\ pc' = "rank_t" /\ Starting /\ Starting'
      /\ Drained /\ seeds' = List /\ SeekToFirst(target.F)
      /\ origin' = origin /\ target' = target /\ leaking' = leaking
      /\ UNCHANGED <<q_o, q_t, uniq, pairs, ansq, tried, work, total, common, leak>>
  BY DEF RankTarget, rest, tables, queues, stats, Starting
<1>2. /\ TablesInv /\ QueueInv /\ WorkInv /\ StatInv /\ RankInv /\ PairsStayTogether
      /\ origin.F \in [Fp -> Nat] /\ target.F \in [Fp -> Nat]
  BY TracedTables DEF AttackInv, TablesInv
<1>3. TablesInv' /\ WorkInv' /\ StatInv'
  BY <1>1, <1>2 DEF TablesInv, WorkInv, StatInv
<1>4. QueueInv' /\ (QueuesPaired => QueuesPaired')
  BY <1>1, <1>2, QueuesKept
<1>5. PairsStayTogether'
  BY <1>1, <1>2, <1>4 DEF PairsStayTogether, EqualStart
<1>6. HeapInv' /\ tbl' = target.F
  BY <1>1, <1>2, SeekInv DEF SeekToFirst
<1>7. seeds' \in Ranked(origin.F, INIT_U)
  BY <1>1, <1>2, ListRanked DEF RankInv
<1>8. seeds' \in Seq(Fp)
  <2>1. seeds' \in Seq(Present(origin.F)) /\ Present(origin.F) \subseteq Fp
    BY <1>2, <1>7, RankedLists, PresentFinite, KAssumption
  <2>2. QED BY <2>1, SeqWiden
<1>9. RankInv'
  BY <1>1, <1>2, <1>6, <1>7, <1>8 DEF RankInv
<1>10. QED BY <1>3, <1>4, <1>5, <1>9 DEF AttackInv

\* Both rankings are lists of chunks of their traces.
LEMMA SeedLists ==
    ASSUME TablesInv, RankInv, pc = "rank_t", Drained
    PROVE  /\ seeds \in Seq(Known(origin)) /\ Len(seeds) = Least(INIT_U, Chunks(origin))
           /\ List \in Seq(Known(target)) /\ Len(List) = Least(INIT_U, Chunks(target))
           /\ IsInjective(List)
<1>1. /\ origin.F \in [Fp -> Nat] /\ Present(origin.F) \subseteq Known(origin)
      /\ target.F \in [Fp -> Nat] /\ Present(target.F) \subseteq Known(target)
  BY TracedTables DEF TablesInv
<1>2. seeds \in Ranked(origin.F, INIT_U) /\ List \in Ranked(target.F, INIT_U)
  BY ListRanked DEF RankInv
<1>3. /\ seeds \in Seq(Present(origin.F)) /\ Len(seeds) = Least(INIT_U, Chunks(origin))
      /\ List \in Seq(Present(target.F)) /\ Len(List) = Least(INIT_U, Chunks(target))
      /\ IsInjective(List)
  BY <1>1, <1>2, RankedLists, KAssumption DEF Chunks
<1>4. QED BY <1>1, <1>3, SeqWiden

\* The heap after the start.
LEMMA NoTableInv ==
    ASSUME SeekToFirst(NoTable), seeds' = <<>> \/ seeds' = seeds, RankInv, Looping',
           leaking' = leaking, tool' = tool
    PROVE  RankInv'
<1>1. NoTable \in [Fp -> Nat]
  BY DEF NoTable
<1>2. HeapInv'
  BY <1>1, SeekInv
<1>3. seeds' \in Seq(Fp)
  BY EmptyList DEF RankInv
<1>4. QED BY <1>2, <1>3 DEF RankInv, Looping

\* locality_attack starts from the rankings.
LEMMA StartFromRanksInv ==
    ASSUME AttackInv, StartFromRanks, tool = "attack", UNCHANGED <<batch, snapshots, tool>>
    PROVE  AttackInv'
<1>1. /\ pc = "rank_t" /\ pc' = "loop" /\ Starting /\ ~Starting' /\ Looping' /\ Drained
      /\ Start(seeds, List) /\ seeds' = <<>> /\ SeekToFirst(NoTable)
      /\ origin' = origin /\ target' = target /\ leaking' = leaking
      /\ UNCHANGED <<ansq, tried, work, total, common, leak>>
  BY DEF StartFromRanks, tables, stats, Starting, Looping
<1>2. TablesInv /\ QueueInv /\ WorkInv /\ StatInv /\ RankInv /\ PairsStayTogether
  BY DEF AttackInv
<1>3. /\ seeds \in Seq(Known(origin)) /\ Len(seeds) = Least(INIT_U, Chunks(origin))
      /\ List \in Seq(Known(target)) /\ Len(List) = Least(INIT_U, Chunks(target))
      /\ IsInjective(List)
  BY <1>1, <1>2, SeedLists
<1>4. TablesInv' /\ WorkInv' /\ StatInv'
  BY <1>1, <1>2 DEF TablesInv, WorkInv, StatInv
<1>5. QueueInv' /\ (Len(seeds) = Len(List) => QueuesPaired')
  BY <1>1, <1>2, <1>3, QueuesStarted
<1>6. PairsStayTogether'
  <2>1. EqualStart' <=> Len(seeds) = Len(List)
    BY <1>1, <1>2, <1>3 DEF EqualStart, RankInv
  <2>2. QED BY <1>5, <2>1 DEF PairsStayTogether
<1>7. RankInv'
  BY <1>1, <1>2, NoTableInv
<1>8. QED BY <1>4, <1>5, <1>6, <1>7 DEF AttackInv

\* entropy_attack hands the rankings to peakToPair.
LEMMA EStartInv ==
    ASSUME AttackInv, EStart, UNCHANGED <<snapshots, tool>>
    PROVE  AttackInv'
<1>1. /\ pc = "rank_t" /\ pc' = "peak" /\ Starting /\ ~Starting' /\ Looping' /\ Drained
      /\ seeds' = <<>> /\ SeekToFirst(NoTable)
      /\ batch' = [os |-> seeds, ts |-> List, i |-> 1, r |-> 2, used |-> {}]
      /\ origin' = origin /\ target' = target /\ leaking' = leaking
      /\ UNCHANGED <<q_o, q_t, uniq, pairs, ansq, tried, work, total, common, leak>>
  BY DEF EStart, NoBatch, rest, tables, queues, stats, Starting, Looping
<1>2. TablesInv /\ QueueInv /\ WorkInv /\ StatInv /\ RankInv /\ PairsStayTogether
  BY DEF AttackInv
<1>3. seeds \in Seq(Known(origin)) /\ List \in Seq(Known(target))
  BY <1>1, <1>2, SeedLists
<1>4. batch' \in Batches(Known(origin), Known(target)) /\ batch'.used \subseteq DOMAIN batch'.os
  BY <1>1, <1>3, CallFits
<1>5. TablesInv' /\ WorkInv' /\ StatInv'
  BY <1>1, <1>2, <1>4 DEF TablesInv, WorkInv, StatInv
<1>6. QueueInv' /\ (QueuesPaired => QueuesPaired')
  BY <1>1, <1>2, QueuesKept
<1>7. PairsStayTogether'
  BY <1>1, <1>2, <1>6 DEF PairsStayTogether, EqualStart
<1>8. RankInv'
  BY <1>1, <1>2, NoTableInv
<1>9. QED BY <1>5, <1>6, <1>7, <1>8 DEF AttackInv

\* The queues start with the leaked chunks the auxiliary trace has.
LEMMA StartFromLeakInv ==
    ASSUME AttackInv, StartFromLeak, UNCHANGED <<batch, snapshots, tool>>
    PROVE  AttackInv'
<1>1. /\ pc = "stat" /\ pc' = "loop" /\ Starting /\ ~Starting' /\ Looping' /\ leaking
      /\ total' = Cardinality(Present(target.F))
      /\ origin' = origin /\ target' = target /\ leaking' = leaking
      /\ UNCHANGED <<ansq, tried, work, ranking>>
  BY DEF StartFromLeak, tables, Starting, Looping
<1>2. PICK leaked \in SUBSET Present(target.F) :
          LET known == SetToSeq(leaked \cap Present(origin.F))
          IN  common' = Cardinality(leaked) /\ leak' = Len(known) /\ Start(known, known)
  BY DEF StartFromLeak
<1> DEFINE both == leaked \cap Present(origin.F)  known == SetToSeq(both)
<1>3. common' = Cardinality(leaked) /\ leak' = Len(known) /\ Start(known, known)
  BY <1>2
<1>4. /\ TablesInv /\ QueueInv /\ WorkInv /\ StatInv /\ RankInv
      /\ origin.F \in [Fp -> Nat] /\ target.F \in [Fp -> Nat]
      /\ Present(origin.F) \subseteq Known(origin) /\ Present(target.F) \subseteq Known(target)
  BY TracedTables DEF AttackInv, TablesInv
<1>5. IsFiniteSet(both) /\ both \subseteq Known(origin) /\ both \subseteq Known(target)
  BY <1>4, PresentFinite
<1> HIDE DEF both
<1>6. known \in Seq(both) /\ IsInjective(known) /\ Len(known) = Cardinality(both)
  BY <1>5, SetToSeqLists
<1> HIDE DEF known
<1>7. known \in Seq(Known(origin)) /\ known \in Seq(Known(target))
  BY <1>5, <1>6, SeqWiden
<1>8. QueueInv' /\ QueuesPaired'
  BY <1>1, <1>3, <1>4, <1>6, <1>7, QueuesStarted
<1>9. StatInv'
  <2>1. total' \in Nat
    BY <1>1, <1>4, PresentFinite
  <2>2. QED BY <1>1, <1>3, <1>6, <2>1 DEF StatInv, Chunks, both
<1>10. TablesInv' /\ WorkInv'
  BY <1>1, <1>4 DEF TablesInv, WorkInv
<1>11. RankInv'
  BY <1>1, <1>4, HeapUnchanged DEF RankInv, ranking, heapVars, Looping
<1>12. QED BY <1>8, <1>9, <1>10, <1>11 DEF AttackInv, PairsStayTogether

-----------------------------------------------------------------------------
(* The programs together *)

SInv == CountInv /\ AttackInv

\* The program is started on the databases of the two snapshots.
LEMMA LaunchInv ==
    ASSUME AttackInv, Launch PROVE AttackInv'
<1>1. /\ pc = "idle" /\ pc' = "stat" /\ Starting /\ Starting'
      /\ ~(Len(snapshots) < 2) /\ origin' = snapshots[2] /\ target' = snapshots[1]
      /\ leaking' \in Leaking /\ uniq' \in Leftover
      /\ tool' \in {"attack", "entropy_attack"}
      /\ UNCHANGED <<q_o, q_t, pairs, total, common, leak, work, ansq, tried, heapVars, seeds,
                     batch, snapshots>>
  BY DEF Launch, Begin, Counting, Starting, stats, ranking
<1>2. TablesInv /\ QueueInv /\ WorkInv /\ StatInv /\ RankInv
  BY DEF AttackInv
<1>3. TablesInv'
  <2>1. 1 \in DOMAIN snapshots /\ 2 \in DOMAIN snapshots
    BY <1>1, <1>2 DEF TablesInv
  <2>2. snapshots[1] \in Traced /\ snapshots[2] \in Traced
    BY <1>2, <2>1 DEF TablesInv
  <2>3. QED BY <1>1, <1>2, <2>2 DEF TablesInv
<1>4. q_o' = <<>> /\ q_t' = <<>> /\ ansq' = <<>> /\ tried' = {} /\ pairs' = {} /\ work' = <<>>
      /\ batch' = NoBatch /\ common' = 0 /\ leak' = 0 /\ uniq' \subseteq Fp
  BY <1>1, <1>2, ParameterAssumption DEF QueueInv, WorkInv, StatInv
<1>5. QueueInv'
  BY <1>1, <1>4, EmptyList DEF QueueInv, InHand, Trying, Starting
<1>6. PairsStayTogether'
  BY <1>4, EmptyList DEF PairsStayTogether, QueuesPaired
<1>7. WorkInv'
  BY <1>4, EmptyList, NoBatchFits DEF WorkInv
<1>8. StatInv'
  <2>1. {} \in SUBSET Present(target'.F) /\ {} \cap Present(origin'.F) = {} /\ Cardinality({}) = 0
    BY FS_EmptySet
  <2>2. QED BY <1>1, <1>2, <1>4, <2>1 DEF StatInv
<1>9. RankInv'
  BY <1>1, <1>2, HeapUnchanged, ParameterAssumption DEF RankInv
<1>10. QED BY <1>3, <1>5, <1>6, <1>7, <1>8, <1>9 DEF AttackInv

\* Nothing of the analyses changes while a snapshot is counted.
LEMMA AttackUnchanged ==
    ASSUME AttackInv, UNCHANGED <<evars, tool>>, snapshots' \in Seq(Traced)
    PROVE  AttackInv'
<1>1. /\ UNCHANGED <<origin, target, leaking, q_o, q_t, uniq, pairs, total, common, leak>>
      /\ UNCHANGED <<work, ansq, tried, tbl, todo, pq, stack, seeds, pc, batch>>
  BY DEF evars, vars, rest, tables, queues, stats, ranking, heapVars
<1>2. TablesInv /\ QueueInv /\ WorkInv /\ StatInv /\ RankInv /\ PairsStayTogether
  BY DEF AttackInv
<1>3. TablesInv' /\ WorkInv' /\ StatInv'
  BY <1>1, <1>2 DEF TablesInv, WorkInv, StatInv, Starting
<1>4. QueueInv' /\ (QueuesPaired => QueuesPaired')
  BY <1>1, <1>2, QueuesKept
<1>5. PairsStayTogether'
  BY <1>1, <1>2, <1>4 DEF PairsStayTogether, EqualStart
<1>6. RankInv'
  BY <1>1, <1>2, HeapUnchanged DEF RankInv, heapVars, Starting, Looping
<1>7. QED BY <1>3, <1>4, <1>5, <1>6 DEF AttackInv

\* Before anything is counted.
LEMMA SInitInv ==
    ASSUME SInit PROVE SInv
<1>1. CountInv
  BY CountInitInv DEF SInit
<1>2. /\ origin = TablesOf(<<>>) /\ target = TablesOf(<<>>)
      /\ leaking = FALSE /\ uniq = {} /\ q_o = <<>> /\ q_t = <<>> /\ work = <<>> /\ ansq = <<>>
      /\ total = 0 /\ common = 0 /\ leak = 0 /\ HeapInit /\ seeds = <<>> /\ pc = "idle"
      /\ pairs = {} /\ tried = {} /\ batch = NoBatch /\ snapshots = <<>> /\ tool = "none"
  BY DEF SInit, Init
<1>3. TablesInv
  <2>1. <<>> \in Traces
    BY EmptyList DEF Traces
  <2>2. TablesOf(<<>>) \in Traced
    BY <2>1 DEF Traced
  <2>3. QED BY <1>2, <2>2, EmptyList DEF TablesInv
<1>4. QueueInv
  BY <1>2, EmptyList DEF QueueInv, Starting, Trying, InHand
<1>5. PairsStayTogether
  BY <1>2, EmptyList DEF PairsStayTogether, QueuesPaired
<1>6. StatInv
  <2>1. {} \in SUBSET Present(target.F) /\ {} \cap Present(origin.F) = {} /\ Cardinality({}) = 0
    BY FS_EmptySet
  <2>2. QED BY <1>2, <2>1 DEF StatInv
<1>7. WorkInv
  BY <1>2, EmptyList, NoBatchFits DEF WorkInv
<1>8. HeapInv
  <2>1. tbl = NoTable /\ todo = {} /\ pq = {} /\ stack = <<>> /\ NoTable \in [Fp -> Nat]
    BY <1>2 DEF HeapInit, NoTable
  <2>2. Present(NoTable) = {}
    BY DEF Present, NoTable
  <2>3. Seen = {} /\ pq \cup Range(stack) = {} /\ Cardinality({}) = Least(INIT_U, Cardinality({}))
    BY <2>1, <2>2, EmptyList, FS_EmptySet, KAssumption DEF Seen, Least
  <2>4. IsTop(pq \cup Range(stack), Seen, tbl, INIT_U)
    BY <2>3 DEF IsTop
  <2>5. QED BY <2>1, <2>2, <2>4, EmptyList DEF HeapInv, HeapTypeOK
<1>9. RankInv
  BY <1>2, <1>8, EmptyList DEF RankInv, Starting
<1>10. QED BY <1>1, <1>3, <1>4, <1>5, <1>6, <1>7, <1>9 DEF SInv, AttackInv

\* A step of either analysis.
LEMMA AnalyseInv ==
    ASSUME AttackInv, Analyse PROVE AttackInv'
<1>0. UNCHANGED <<snapshots, tool>>
  BY DEF Analyse
<1>1. ASSUME tool = "attack", Next, UNCHANGED batch PROVE AttackInv'
  <2>1. CASE RankOrigin
    BY <1>0, <1>1, <2>1, RankOriginInv
  <2>2. CASE Ranks
    BY <1>0, <1>1, <2>2, RanksInv
  <2>3. CASE RankTarget
    BY <1>0, <1>1, <2>3, RankTargetInv
  <2>4. CASE StartFromRanks
    BY <1>0, <1>1, <2>4, StartFromRanksInv
  <2>5. CASE StartFromLeak
    BY <1>0, <1>1, <2>5, StartFromLeakInv
  <2>6. CASE Left
    BY <1>0, <1>1, <2>6, LeftInv DEF LeftStep
  <2>7. CASE Skip
    BY <1>0, <1>1, <2>7, SkipInv DEF SkipStep
  <2>8. CASE Infer
    BY <1>0, <1>1, <2>8, InferInv DEF InferStep
  <2>9. CASE Break
    BY <1>0, <1>1, <2>9, SkipInv DEF BreakStep
  <2>10. CASE Right
    BY <1>0, <1>1, <2>10, RightInv DEF RightStep
  <2>11. CASE Pop
    BY <1>0, <1>1, <2>11, PopInv
  <2>12. CASE End
    BY <1>0, <1>1, <2>12, EndInv
  <2>13. QED
    BY <1>1, <2>1, <2>2, <2>3, <2>4, <2>5, <2>6, <2>7, <2>8, <2>9, <2>10, <2>11, <2>12
       DEF Next
<1>2. ASSUME tool = "entropy_attack", ENext PROVE AttackInv'
  <2>1. CASE ERank
    BY <1>0, <2>1, RankOriginInv, RanksInv, RankTargetInv DEF ERank
  <2>2. CASE EStart
    BY <1>0, <2>2, EStartInv
  <2>3. CASE EStartFromLeak
    BY <1>0, <2>3, StartFromLeakInv DEF EStartFromLeak
  <2>4. CASE ELoop
    BY <1>0, <2>4, PeakSkipInv DEF ELoopStep
  <2>5. CASE ELeft
    BY <1>0, <2>5, ELeftInv DEF ELeftStep
  <2>6. CASE ERight
    BY <1>0, <2>6, ERightInv DEF ERightStep
  <2>7. CASE EPop
    BY <1>0, <2>7, PopInv DEF EPop
  <2>8. CASE EEnd
    BY <1>0, <2>8, EndInv DEF EEnd
  <2>9. CASE PeakSkip
    BY <1>0, <2>9, PeakSkipInv DEF PeakSkipStep
  <2>10. CASE PeakBreak
    BY <1>0, <2>10, PeakSkipInv DEF PeakBreakStep
  <2>11. CASE PeakPair
    BY <1>0, <2>11, PeakPairInv DEF PeakPairStep
  <2>12. QED
    BY <1>2, <2>1, <2>2, <2>3, <2>4, <2>5, <2>6, <2>7, <2>8, <2>9, <2>10, <2>11 DEF ENext
<1>3. QED BY <1>1, <1>2 DEF Analyse

\* Every step of the programs.
LEMMA SStepInv ==
    ASSUME SInv, [SNext]_svars PROVE SInv'
<1>0. CountInv /\ AttackInv /\ snapshots \in Seq(Traced)
  BY DEF SInv, AttackInv, TablesInv
<1>1. CountInv'
  BY <1>0, CountStepInv
<1>2. AttackInv'
  <2>1. CASE CountStep
    BY <1>0, <2>1, AttackUnchanged DEF CountStep
  <2>2. CASE EndSnapshot
    <3>1. Databases = TablesOf(files) /\ files \in Traces
      BY <1>0 DEF CountInv, CountTypeOK, Databases, TablesOf, Traces
    <3>2. Databases \in Traced
      BY <3>1 DEF Traced
    <3>3. snapshots' \in Seq(Traced) /\ UNCHANGED <<evars, tool>>
      BY <1>0, <2>2, <3>2 DEF EndSnapshot
    <3>4. QED BY <1>0, <3>3, AttackUnchanged
  <2>3. CASE Launch
    BY <1>0, <2>3, LaunchInv
  <2>4. CASE Analyse
    BY <1>0, <2>4, AnalyseInv
  <2>5. CASE UNCHANGED svars
    BY <1>0, <2>5, AttackUnchanged DEF svars
  <2>6. QED BY <2>1, <2>2, <2>3, <2>4, <2>5 DEF SNext
<1>3. QED BY <1>1, <1>2 DEF SInv

\* The inductive invariant holds in every reachable state.
THEOREM SInvariant == SSpec => []SInv
<1>1. SInit => SInv
  BY SInitInv
<1>2. SInv /\ [SNext]_svars => SInv'
  BY SStepInv
<1>3. QED BY <1>1, <1>2, PTL DEF SSpec

\* The databases, the queues and the locals keep their types.
THEOREM STypes == SSpec => []STypeOK
<1>1. ASSUME SInv PROVE STypeOK
  <2>1. /\ CountTypeOK /\ TablesInv /\ QueueInv /\ StatInv /\ WorkInv /\ RankInv
    BY <1>1 DEF SInv, CountInv, AttackInv
  <2>2. /\ Known(origin) \subseteq Fp /\ Known(target) \subseteq Fp
        /\ target.F \in [Fp -> Nat]
    BY <2>1, TracedTables DEF TablesInv
  <2>3. q_o \in Seq(Fp) /\ q_t \in Seq(Fp) /\ seeds \in Seq(Fp)
    BY <2>1, <2>2, SeqWiden DEF QueueInv, RankInv
  <2>4. work \in Seq(Fp \X Fp)
    <3>1. Known(origin) \X Known(target) \subseteq Fp \X Fp
      BY <2>2
    <3>2. QED BY <2>1, <3>1, SeqWiden DEF WorkInv
  <2>5. ansq \in Seq(Fp)
    <3>1. Known(origin) \cap Known(target) \subseteq Fp
      BY <2>2
    <3>2. QED BY <2>1, <3>1, SeqWiden DEF QueueInv
  <2>6. common \in Nat /\ leak \in Nat
    <3>1. PICK leaked \in SUBSET Present(target.F) :
              common = Cardinality(leaked) /\ leak = Cardinality(leaked \cap Present(origin.F))
      BY <2>1 DEF StatInv
    <3>2. leaked \cap Present(origin.F) \in SUBSET Present(target.F)
      OBVIOUS
    <3>3. QED BY <2>2, <3>1, <3>2, PresentFinite
  <2>7. TypeOK
    BY <2>1, <2>3, <2>4, <2>5, <2>6 DEF TypeOK, QueueInv, StatInv, RankInv, HeapInv
  <2>8. ETypeOK
    <3>1. /\ batch.os \in Seq(Known(origin)) /\ batch.ts \in Seq(Known(target))
          /\ batch.i \in Nat /\ batch.r \in Nat /\ batch.used \subseteq DOMAIN batch.os
      BY <2>1 DEF WorkInv, Batches
    <3>2. QED BY <2>2, <2>7, <3>1, SeqWiden DEF ETypeOK
  <2>9. QED BY <2>1, <2>8 DEF STypeOK, RankInv, Starting, Looping
<1>2. QED BY <1>1, SInvariant, PTL

\* The heap holds INIT of the most frequent entries seen so far, and the list
\* the analysis reads from the stack is the ranking of the table.
THEOREM HeapRanks == SSpec => []HeapIsTop
<1>1. ASSUME SInv PROVE HeapIsTop
  <2>1. HeapInv
    BY <1>1 DEF SInv, AttackInv, RankInv
  <2>2. QED BY <2>1, ListRanked DEF HeapInv, HeapIsTop
<1>2. QED BY <1>1, SInvariant, PTL

\* No target chunk is inferred twice, whatever an older inference-db held.
THEOREM NothingInferredTwice == SSpec => []InferredOnce
<1>1. ASSUME SInv PROVE InferredOnce
  BY <1>1 DEF SInv, AttackInv, QueueInv, InferredOnce
<1>2. QED BY <1>1, SInvariant, PTL

\* The two queues stay one list of pairs.
THEOREM QueuesInStep == SSpec => []PairsStayTogether
<1>1. ASSUME SInv PROVE PairsStayTogether
  BY <1>1 DEF SInv, AttackInv
<1>2. QED BY <1>1, SInvariant, PTL

\* The number of inferred chunks that is printed is at most that of the target
\* chunks: what is answered is disjoint from the leaked chunks that are counted.
THEOREM InferenceRate == SSpec => []RateAtMostOne
<1>1. ASSUME SInv PROVE RateAtMostOne
  <2> SUFFICES ASSUME pc = "done", Clean(origin), Clean(target)
               PROVE  correct + common - leak <= total
    BY DEF RateAtMostOne
  <2> DEFINE P == Present(target.F)  A == Range(ansq)  O == Present(origin.F)
  <2>1. /\ TablesInv /\ QueueInv /\ StatInv /\ target.F \in [Fp -> Nat]
    BY <1>1, TracedTables DEF SInv, AttackInv, TablesInv
  <2>2. ansq \in Seq(O \cap P) /\ IsInjective(ansq)
    BY <2>1 DEF QueueInv, Known
  <2>3. IsFiniteSet(A) /\ Cardinality(A) = correct /\ A \subseteq O /\ A \subseteq P
    <3>1. IsFiniteSet(A) /\ Cardinality(A) = Len(ansq)
      BY <2>2, InjectiveLength
    <3>2. A \subseteq O \cap P
      BY <2>2 DEF Range
    <3>3. QED BY <3>1, <3>2 DEF correct
  <2>4. total = Cardinality(P) /\ IsFiniteSet(P) /\ total \in Nat
    BY <2>1, PresentFinite DEF StatInv, Chunks
  <2>5. PICK leaked \in SUBSET P : common = Cardinality(leaked) /\ leak = Cardinality(leaked \cap O)
    BY <2>1 DEF StatInv
  <2> DEFINE new == leaked \ O
  <2>6. IsFiniteSet(leaked) /\ IsFiniteSet(leaked \cap O) /\ common \in Nat /\ leak \in Nat
    BY <2>4, <2>5, FS_Subset, FS_Intersection, FS_CardinalityType
  <2>7. IsFiniteSet(new) /\ Cardinality(new) = common - leak
    BY <2>5, <2>6, FS_Difference
  <2>8. A \cap new = {} /\ A \cup new \subseteq P
    BY <2>3, <2>5
  <2>9. Cardinality(A \cup new) = Cardinality(A) + Cardinality(new) - Cardinality(A \cap new)
    BY <2>3, <2>7, FS_Union
  <2>10. Cardinality(A \cup new) <= total
    BY <2>4, <2>8, FS_Subset
  <2>11. Cardinality(A \cap new) = 0 /\ Cardinality(A) \in Nat /\ Cardinality(new) \in Nat
    BY <2>3, <2>7, <2>8, FS_EmptySet, FS_CardinalityType
  <2> HIDE DEF A, new, P, O
  <2>12. QED BY <2>3, <2>6, <2>7, <2>9, <2>10, <2>11, <2>4
<1>2. QED BY <1>1, SInvariant, PTL
=============================================================================
