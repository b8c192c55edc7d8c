-------------------------- MODULE Multistream_proofs --------------------------
(***************************************************************************)
(* Proofs about the programs of multistream, for any traces, sizes,         *)
(* distances and parameters: duplicate, pair, the segmentation of pslice    *)
(* and cslice, and the programs one after the other.                       *)
(***************************************************************************)
EXTENDS Multistream, Clusterizer_proofs

-----------------------------------------------------------------------------
(* The duplicate filter *)

\* Occurrences of c among the first p lines of t.
Seen(t, c, p) == Cardinality({i \in 1..p : t[i] = c})

\* The occurrences grow by one when the next line holds c.
LEMMA SeenCounts ==
    ASSUME NEW t, NEW c, NEW p \in Nat
    PROVE  /\ Seen(t, c, p) \in Nat /\ Seen(t, c, 0) = 0
           /\ Seen(t, c, p + 1) = IF t[p + 1] = c THEN Seen(t, c, p) + 1 ELSE Seen(t, c, p)
           /\ (\E i \in 1..p : t[i] = c) => Seen(t, c, p) > 0
<1> DEFINE S(q) == {i \in 1..q : t[i] = c}
<1>1. \A n \in Nat : IsFiniteSet(1..n)
  BY FS_Interval
<1>2. S(p) \subseteq 1..p /\ S(p + 1) \subseteq 1..p + 1 /\ p + 1 \in Nat
  OBVIOUS
<1>3. IsFiniteSet(S(p)) /\ Cardinality(S(p)) \in Nat
  BY <1>1, <1>2, FS_Subset, FS_CardinalityType
<1>4. S(0) = {}
  OBVIOUS
<1>5. CASE t[p + 1] = c
  <2>1. S(p + 1) = S(p) \cup {p + 1} /\ p + 1 \notin S(p)
    BY <1>5
  <2> HIDE DEF S
  <2>2. Cardinality(S(p + 1)) = Cardinality(S(p)) + 1
    BY <2>1, <1>3, FS_AddElement
  <2>3. QED BY <2>2, <1>3, <1>4, <1>5, FS_EmptySet DEF Seen, S
<1>6. CASE t[p + 1] # c
  <2>1. S(p + 1) = S(p)
    BY <1>6
  <2>2. QED BY <2>1, <1>3, <1>4, <1>6, FS_EmptySet DEF Seen
<1>7. ASSUME NEW i \in 1..p, t[i] = c PROVE Seen(t, c, p) > 0
  <2>1. S(p) # {}
    BY <1>7
  <2> HIDE DEF S
  <2>2. Cardinality(S(p)) # 0
    BY <2>1, <1>3, FS_EmptySet
  <2>3. QED BY <2>2, <1>3 DEF Seen, S
<1>8. QED BY <1>3, <1>4, <1>5, <1>6, <1>7, FS_EmptySet DEF Seen

\* n is the count of c after p lines, or more when an earlier run has counted it.
Counts(n, c, p) ==
    /\ n \in Nat /\ n >= Seen(trace, c, p)
    /\ starts = 1 => n = Seen(trace, c, p)

\* The counts and the positions of the lines written.
DupTypes ==
    /\ trace \in RawTraces /\ db \in [Traced -> Nat]
    /\ pos \in 0..Len(trace) /\ starts \in Nat \ {0}
    /\ dup \in {"count", "remove", "done"}
    /\ kept \in Seq(1..pos)
    /\ \A n, l \in DOMAIN kept : n < l => kept[n] < kept[l]

\* While it counts: every count but the one that is being written.
CountPass ==
    /\ kept = <<>>
    /\ put # <<>> => /\ pos < Len(trace)
                     /\ \E n \in Nat : put = <<trace[pos + 1], n>> /\ Counts(n, trace[pos + 1], pos + 1)
    /\ \A c \in Traced : put = <<>> \/ c # trace[pos + 1] => Counts(db[c], c, pos)

\* After that: all counts, and the lines that have been written.
RemovePass ==
    /\ put = <<>>
    /\ \A c \in Traced : Counts(db[c], c, Len(trace))
    /\ KeptLines = {i \in 1..pos : db[trace[i]] > 1}

\* The inductive invariant of duplicate.
DupInv ==
    /\ DupTypes
    /\ dup = "count" => CountPass
    /\ dup # "count" => RemovePass
    /\ dup = "done" => pos = Len(trace)

\* The lines of the trace.
LEMMA DupLines ==
    ASSUME DupInv
    PROVE  /\ trace \in Seq(Fp) /\ trace \in Seq(Nat) /\ Len(trace) \in Nat /\ pos \in Nat
           /\ \A i \in 1..Len(trace) : trace[i] \in Traced
           /\ DOMAIN trace = 1..Len(trace)
<1>1. trace \in RawTraces /\ trace \in Seq(Nat) /\ trace \in Seq(Fp)
  BY DuplicateAssumption, TargetAssumption DEF DupInv, DupTypes
<1>2. DOMAIN trace = 1..Len(trace) /\ Len(trace) \in Nat
  BY <1>1
<1>3. \A i \in 1..Len(trace) : trace[i] \in Traced
  BY <1>1, <1>2 DEF Traced
<1>4. pos \in Nat
  <2>1. pos \in 0..Len(trace)
    BY DEF DupInv, DupTypes
  <2>2. QED BY <2>1, <1>2
<1>5. QED BY <1>1, <1>2, <1>3, <1>4

\* On a new database the counts are zero.
LEMMA DupInitInv ==
    ASSUME DupInit PROVE DupInv
<1>1. trace \in Seq(Nat) /\ Len(trace) \in Nat
  BY DuplicateAssumption DEF DupInit
<1>2. DupTypes
  BY <1>1 DEF DupInit, DupTypes
<1>3. \A c \in Traced : Counts(db[c], c, 0)
  <2> TAKE c \in Traced
  <2>1. Seen(trace, c, 0) = 0
    BY SeenCounts
  <2>2. QED BY <2>1 DEF DupInit, Counts
<1>4. CountPass
  BY <1>3 DEF DupInit, CountPass
<1>5. QED BY <1>2, <1>4 DEF DupInv, DupInit

\* Each step of duplicate, kills and restarts included, keeps the invariant.
LEMMA DupNextInv ==
    ASSUME DupInv, DupNext PROVE DupInv'
<1>0. /\ trace \in Seq(Fp) /\ trace \in Seq(Nat) /\ Len(trace) \in Nat /\ pos \in Nat
      /\ \A i \in 1..Len(trace) : trace[i] \in Traced
      /\ DOMAIN trace = 1..Len(trace)
  BY DupLines
<1>1. ASSUME NEW c \in Traced, Count(c) PROVE DupInv'
  <2>1. /\ dup = "count" /\ put = <<>> /\ pos < Len(trace) /\ c = trace[pos + 1]
        /\ put' = <<c, db[c] + 1>> /\ db' = [db EXCEPT ![c] = 0]
        /\ UNCHANGED <<trace, pos, kept, dup, starts>>
    BY <1>1 DEF Count
  <2>2. DupTypes /\ CountPass
    BY <2>1 DEF DupInv
  <2>3. DupTypes'
    BY <2>1, <2>2 DEF DupTypes
  <2>4. Counts(db[c], c, pos)
    BY <2>1, <2>2 DEF CountPass
  <2>5. PICK n \in Nat : n = db[c] + 1 /\ Counts(n, c, pos + 1)
    <3>1. Seen(trace, c, pos + 1) = Seen(trace, c, pos) + 1 /\ Seen(trace, c, pos) \in Nat
      BY <2>1, <1>0, SeenCounts
    <3>2. QED BY <3>1, <2>4 DEF Counts
  <2>6. ASSUME NEW e \in Traced, e # c PROVE Counts(db'[e], e, pos)
    <3>1. db'[e] = db[e]
      BY <2>1, <2>2, <2>6 DEF DupTypes
    <3>2. QED BY <3>1, <2>1, <2>2 DEF CountPass
  <2>7. CountPass'
    <3>1. kept' = <<>> /\ put' # <<>> /\ pos' < Len(trace')
      BY <2>1, <2>2 DEF CountPass
    <3>2. put' = <<trace'[pos' + 1], n>> /\ Counts(n, trace[pos + 1], pos + 1)'
      BY <2>1, <2>5 DEF Counts
    <3>3. \A e \in Traced : e # trace'[pos' + 1] => Counts(db[e], e, pos)'
      BY <2>6, <2>1 DEF Counts
    <3>4. QED BY <3>1, <3>2, <3>3, <2>1 DEF CountPass
  <2>8. QED BY <2>1, <2>3, <2>7 DEF DupInv
<1>2. CASE Put
  <2>0. dup = "count"
    BY <1>2 DEF Put, DupInv, RemovePass
  <2>1. /\ put # <<>> /\ db' = [db EXCEPT ![put[1]] = put[2]] /\ put' = <<>> /\ pos' = pos + 1
        /\ UNCHANGED <<trace, kept, dup, starts>>
    BY <1>2 DEF Put
  <2>2. DupTypes /\ CountPass
    BY <2>0 DEF DupInv
  <2>3. PICK n \in Nat : put = <<trace[pos + 1], n>> /\ Counts(n, trace[pos + 1], pos + 1)
    BY <2>1, <2>2 DEF CountPass
  <2>4. PICK c \in Traced : c = trace[pos + 1] /\ pos < Len(trace)
    BY <2>1, <2>2, <1>0 DEF CountPass
  <2>5. db' = [db EXCEPT ![c] = n] /\ db' \in [Traced -> Nat]
    BY <2>1, <2>2, <2>3, <2>4 DEF DupTypes
  <2>6. DupTypes'
    <3>1. kept' = <<>> /\ pos' \in 0..Len(trace)
      BY <2>1, <2>2, <2>4, <1>0 DEF CountPass
    <3>2. QED BY <3>1, <2>1, <2>2, <2>5 DEF DupTypes
  <2>7. ASSUME NEW e \in Traced PROVE Counts(db'[e], e, pos + 1)
    <3>1. CASE e = c
      BY <3>1, <2>3, <2>4, <2>5, <2>2 DEF DupTypes
    <3>2. CASE e # c
      <4>1. db'[e] = db[e] /\ Counts(db[e], e, pos)
        BY <3>2, <2>2, <2>4, <2>5 DEF DupTypes, CountPass
      <4>2. Seen(trace, e, pos + 1) = Seen(trace, e, pos)
        <5>0. pos \in Nat
          BY <1>0
        <5>1. Seen(trace, e, pos + 1) = IF trace[pos + 1] = e THEN Seen(trace, e, pos) + 1 ELSE Seen(trace, e, pos)
          BY <5>0, SeenCounts
        <5>2. trace[pos + 1] # e
          BY <3>2, <2>4
        <5>3. QED BY <5>1, <5>2
      <4>3. QED BY <4>1, <4>2 DEF Counts
    <3>3. QED BY <3>1, <3>2
  <2>8. CountPass'
    <3>1. kept' = <<>> /\ put' = <<>>
      BY <2>1, <2>2 DEF CountPass
    <3>2. \A e \in Traced : Counts(db[e], e, pos)'
      BY <2>7, <2>1 DEF Counts
    <3>3. QED BY <3>1, <3>2 DEF CountPass
  <2>9. QED BY <2>0, <2>1, <2>6, <2>8 DEF DupInv
<1>3. CASE Rewind
  <2>1. /\ dup = "count" /\ put = <<>> /\ pos = Len(trace) /\ pos' = 0 /\ dup' = "remove"
        /\ UNCHANGED <<trace, db, put, kept, starts>>
    BY <1>3 DEF Rewind
  <2>2. DupTypes /\ CountPass /\ kept = <<>>
    BY <2>1 DEF DupInv, CountPass
  <2>3. DupTypes'
    BY <2>1, <2>2, <1>0 DEF DupTypes
  <2>4. \A e \in Traced : Counts(db[e], e, Len(trace))'
    BY <2>1, <2>2 DEF Counts, CountPass
  <2>5. KeptLines' = {} /\ 1..pos' = {}
    BY <2>1, <2>2 DEF KeptLines
  <2>6. RemovePass'
    BY <2>1, <2>4, <2>5 DEF RemovePass
  <2>7. QED BY <2>1, <2>3, <2>6 DEF DupInv
<1>4. CASE RemoveUnique
  <2> DEFINE c == trace[pos + 1]
  <2>1. /\ dup = "remove" /\ pos < Len(trace) /\ pos' = pos + 1
        /\ UNCHANGED <<trace, db, put, starts>>
    BY <1>4 DEF RemoveUnique
  <2>2. DupTypes /\ RemovePass
    BY <2>1 DEF DupInv
  <2>3. c \in Traced /\ db[c] \in Nat /\ db[c] # 0
    <3>1. c \in Traced /\ pos + 1 \in 1..Len(trace)
      BY <2>1, <1>0
    <3>2. Seen(trace, c, Len(trace)) > 0 /\ Seen(trace, c, Len(trace)) \in Nat
      BY <3>1, <1>0, SeenCounts
    <3>3. Counts(db[c], c, Len(trace))
      BY <3>1, <2>2 DEF RemovePass
    <3>4. QED BY <3>1, <3>2, <3>3 DEF Counts
  <2>4. dup' = dup /\ kept' = IF db[c] > 1 THEN Append(kept, pos + 1) ELSE kept
    BY <2>3, <1>4 DEF RemoveUnique, Repeated
  <2>5. kept \in Seq(1..pos) /\ kept \in Seq(1..pos + 1) /\ DOMAIN kept = 1..Len(kept) /\ Len(kept) \in Nat
        /\ \A n \in DOMAIN kept : kept[n] \in Nat /\ kept[n] < pos + 1
    BY <2>2, <1>0 DEF DupTypes
  <2>6. \A e \in Traced : Counts(db[e], e, Len(trace))'
    BY <2>1, <2>2 DEF Counts, RemovePass
  <2>7. KeptLines = {i \in 1..pos : db[trace[i]] > 1}
    BY <2>2 DEF RemovePass
  <2>8. CASE db[c] > 1
    <3>1. /\ kept' \in Seq(1..pos + 1) /\ DOMAIN kept' = 1..Len(kept) + 1 /\ kept'[Len(kept) + 1] = pos + 1
          /\ \A n \in DOMAIN kept : kept'[n] = kept[n]
      <4>1. kept' = Append(kept, pos + 1) /\ pos + 1 \in 1..pos + 1
        BY <2>4, <2>8, <1>0
      <4>2. QED BY <4>1, <2>5
    <3>2. ASSUME NEW n \in DOMAIN kept', NEW l \in DOMAIN kept', n < l PROVE kept'[n] < kept'[l]
      <4>1. n \in DOMAIN kept
        BY <3>1, <3>2, <2>5
      <4>2. CASE l \in DOMAIN kept
        BY <4>1, <4>2, <3>1, <3>2, <2>2 DEF DupTypes
      <4>3. CASE l = Len(kept) + 1
        BY <4>1, <4>3, <3>1, <2>5
      <4>4. QED BY <4>2, <4>3, <3>1, <2>5
    <3>3. DupTypes'
      <4>1. trace' \in RawTraces /\ db' \in [Traced -> Nat] /\ starts' \in Nat \ {0}
            /\ dup' \in {"count", "remove", "done"}
        BY <2>1, <2>2, <2>4 DEF DupTypes
      <4>2. pos' \in 0..Len(trace') /\ kept' \in Seq(1..pos')
        BY <3>1, <2>1, <1>0
      <4>3. QED BY <4>1, <4>2, <3>2 DEF DupTypes
    <3>4. KeptLines' = KeptLines \cup {pos + 1}
      BY <3>1, <2>5 DEF KeptLines
    <3>5. {i \in 1..pos + 1 : db[trace[i]] > 1} = {i \in 1..pos : db[trace[i]] > 1} \cup {pos + 1}
      BY <2>8, <1>0
    <3>6. RemovePass'
      BY <3>4, <3>5, <2>1, <2>2, <2>6, <2>7 DEF RemovePass
    <3>7. QED BY <3>3, <3>6, <2>1, <2>4 DEF DupInv
  <2>9. CASE ~(db[c] > 1)
    <3>1. kept' = kept
      BY <2>4, <2>9
    <3>2. DupTypes'
      BY <3>1, <2>1, <2>2, <2>4, <2>5, <1>0 DEF DupTypes
    <3>3. {i \in 1..pos + 1 : db[trace[i]] > 1} = {i \in 1..pos : db[trace[i]] > 1}
      BY <2>9, <1>0
    <3>4. KeptLines' = KeptLines
      BY <3>1 DEF KeptLines
    <3>5. RemovePass'
      BY <3>3, <3>4, <2>1, <2>2, <2>6, <2>7 DEF RemovePass
    <3>6. QED BY <3>2, <3>5, <2>1, <2>4 DEF DupInv
  <2>10. QED BY <2>8, <2>9
<1>5. CASE DupEnd
  <2>1. /\ dup = "remove" /\ pos = Len(trace) /\ dup' = "done"
        /\ UNCHANGED <<trace, db, put, pos, kept, starts>>
    BY <1>5 DEF DupEnd
  <2>2. DupTypes'
    BY <2>1 DEF DupInv, DupTypes
  <2>3. RemovePass'
    BY <2>1 DEF DupInv, RemovePass, Counts, KeptLines
  <2>4. QED BY <2>1, <2>2, <2>3 DEF DupInv
<1>6. CASE Restart
  <2>1. /\ starts' = starts + 1 /\ trace' \in RawTraces /\ pos' = 0 /\ kept' = <<>> /\ put' = <<>>
        /\ dup' = "count" /\ db' = db
    BY <1>6 DEF Restart
  <2>2. trace' \in Seq(Nat) /\ Len(trace') \in Nat
    BY <2>1, DuplicateAssumption
  <2>3. DupTypes'
    BY <2>1, <2>2 DEF DupInv, DupTypes
  <2>4. ASSUME NEW e \in Traced PROVE Counts(db[e], e, pos)'
    <3>1. Seen(trace', e, 0) = 0
      BY SeenCounts
    <3>2. db[e] \in Nat /\ starts' # 1
      BY <2>1 DEF DupInv, DupTypes
    <3>3. QED BY <3>1, <3>2, <2>1 DEF Counts
  <2>5. CountPass'
    BY <2>1, <2>4 DEF CountPass
  <2>6. QED BY <2>1, <2>3, <2>5 DEF DupInv
<1>7. QED BY <1>1, <1>2, <1>3, <1>4, <1>5, <1>6 DEF DupNext

\* The counts of the whole file tell which lines are kept.
LEMMA DupNoneLost ==
    ASSUME DupInv PROVE NoneLost
<1>0. /\ Len(trace) \in Nat /\ DOMAIN trace = 1..Len(trace)
      /\ \A i \in 1..Len(trace) : trace[i] \in Traced
  BY DupLines
<1>1. /\ dup # "error" /\ \A n, l \in DOMAIN kept : n < l => kept[n] < kept[l]
  BY DEF DupInv, DupTypes
<1>2. ASSUME dup = "done"
      PROVE  Lines \subseteq KeptLines /\ (starts = 1 => KeptLines = Lines)
  <2>1. \A c : Occurs(c) = Seen(trace, c, Len(trace))
    BY <1>0 DEF Occurs, Seen
  <2>2. KeptLines = {i \in 1..Len(trace) : db[trace[i]] > 1}
    BY <1>2 DEF DupInv, RemovePass
  <2>3. ASSUME NEW i \in 1..Len(trace)
        PROVE  /\ Occurs(trace[i]) > 1 => db[trace[i]] > 1
               /\ starts = 1 => db[trace[i]] = Occurs(trace[i])
    <3>1. Counts(db[trace[i]], trace[i], Len(trace))
      BY <1>0, <1>2 DEF DupInv, RemovePass
    <3>2. Seen(trace, trace[i], Len(trace)) \in Nat
      BY <1>0, SeenCounts
    <3>3. QED BY <3>1, <3>2, <2>1 DEF Counts
  <2>4. QED BY <2>2, <2>3, <1>0 DEF Lines
<1>3. QED BY <1>1, <1>2 DEF NoneLost

-----------------------------------------------------------------------------
(* pair: the operators *)

\* A list of rows of counts.
RowList(s) == s \in Seq(Range(s)) /\ \A e \in Range(s) : DOMAIN e = Fp

\* A database of slices.
Stored(sdb) == IsFiniteSet(DOMAIN sdb) /\ \A c \in DOMAIN sdb : sdb[c] \in Seq(Nat)

\* A list of slices as load_slice leaves it.
Vector(vec) ==
    /\ \E n \in Nat : DOMAIN vec = 1..n
    /\ \A i \in DOMAIN vec :
          /\ vec[i].entropy \in Nat /\ DOMAIN vec[i].count = Fp
          /\ RowList(vec[i].segments)

\* The entropy of a row is a number, whatever its counts are.
LEMMA EntropyType ==
    ASSUME NEW row, DOMAIN row = Fp PROVE Entropy(row) \in Nat
<1> DEFINE S == Present(row)
           f == [x \in S |-> Lookup(plog, <<row[x], Total(row)>>, 0)]
<1>1. S \subseteq Fp /\ IsFiniteSet(S)
  BY SizeAssumption, FS_Subset DEF Present
<1>2. \A x \in S : f[x] \in Nat
  BY PairAssumption DEF Lookup
<1>3. Entropy(row) = SumFunctionOnSet(f, S)
  BY DEF Entropy
<1> HIDE DEF S, f
<1>4. SumFunctionOnSet(f, S) \in Nat
  BY <1>1, <1>2, SumPart
<1>5. QED BY <1>3, <1>4

\* A difference of two entropies.
LEMMA DistanceType ==
    ASSUME NEW m \in Nat, NEW n \in Nat PROVE Distance(m, n) \in Nat
  BY DEF Distance

\* The search for the closest candidate finds one.
LEMMA ClosestIs ==
    ASSUME NEW S, S \subseteq Nat, S # {}, NEW gap, \A x \in S : gap[x] \in Nat
    PROVE  ClosestOf(S, gap) \in S
<1>1. \E x \in S : \A y \in S : gap[x] < gap[y] \/ (gap[x] = gap[y] /\ x <= y)
  BY FirstOfLeast
<1>2. QED BY <1>1 DEF ClosestOf

\* A bounded set of numbers has a greatest element.
LEMMA Greatest ==
    ASSUME NEW n \in Nat, NEW S, S \subseteq 1..n
    PROVE  \E i \in S \cup {0} : \A l \in S : l <= i
<1> DEFINE Gaps == {n - l : l \in S}
<1>1. CASE S = {}
  BY <1>1
<1>2. CASE S # {}
  <2>1. Gaps \subseteq Nat /\ Gaps # {}
    <3>1. ASSUME NEW l \in S PROVE n - l \in Nat
      <4>1. l \in 1..n
        OBVIOUS
      <4>2. QED BY <4>1
    <3>2. QED BY <3>1, <1>2
  <2>2. PICK v \in Gaps : \A w \in Gaps : v <= w
    <3> HIDE DEF Gaps
    <3>1. QED BY <2>1, LeastNat
  <2>3. PICK i \in S : v = n - i
    OBVIOUS
  <2>4. \A l \in S : l <= i
    BY <2>2, <2>3
  <2>5. QED BY <2>4
<1>3. QED BY <1>1, <1>2

\* The iterator of a map starts at an entry or at its end.
LEMMA FirstIs ==
    ASSUME NEW n \in Nat, NEW f, DOMAIN f \subseteq 1..n
    PROVE  First(f) \in DOMAIN f \cup {0}
<1>1. \E i \in DOMAIN f \cup {0} : \A l \in DOMAIN f : l <= i
  BY Greatest
<1>2. QED BY <1>1 DEF First

\* It goes on to an entry or to the end.
LEMMA BelowIs ==
    ASSUME NEW n \in Nat, NEW f, DOMAIN f \subseteq 1..n, NEW i
    PROVE  Below(f, i) \in DOMAIN f \cup {0}
<1> DEFINE g == [l \in {m \in DOMAIN f : m < i} |-> 0]
<1>1. DOMAIN g \subseteq DOMAIN f /\ Below(f, i) = First(g)
  BY DEF Below
<1> HIDE DEF g
<1>2. First(g) \in DOMAIN g \cup {0}
  BY <1>1, FirstIs
<1>3. QED BY <1>1, <1>2

\* A ranking is a list of chunks.
LEMMA RankedIs ==
    ASSUME NEW tbl, DOMAIN tbl = Fp, NEW s \in Ranked(tbl, Cardinality(Fp))
    PROVE  s \in Seq(Fp)
<1>1. IsFiniteSet(Fp) /\ Cardinality(Fp) \in Nat
  BY SizeAssumption, FS_CardinalityType
<1>2. Present(tbl) \subseteq Fp /\ Cardinality(Present(tbl)) \in Nat
  BY <1>1, FS_Subset, FS_CardinalityType DEF Present
<1>3. Least(Cardinality(Fp), Cardinality(Present(tbl))) \in Nat
  BY <1>1, <1>2 DEF Least
<1>4. s \in [1..Least(Cardinality(Fp), Cardinality(Present(tbl))) -> Present(tbl)]
  BY DEF Ranked
<1>5. QED BY <1>2, <1>3, <1>4

\* A function on 1..n is a list of its values.
LEMMA ListOfItself ==
    ASSUME NEW s, NEW n \in Nat, DOMAIN s = 1..n, s = [i \in DOMAIN s |-> s[i]]
    PROVE  s \in Seq(Range(s))
<1>1. s \in [1..n -> Range(s)]
  BY DEF Range
<1>2. QED BY <1>1

\* Sorting the segments of a slice gives a list of them.
LEMMA BySizeIs ==
    ASSUME NEW list, RowList(list), NEW s \in BySize(list)
    PROVE  RowList(s)
<1>1. PICK g \in [DOMAIN list -> DOMAIN list] : s = [i \in DOMAIN list |-> list[g[i]]]
  BY DEF BySize
<1>2. Len(list) \in Nat /\ DOMAIN list = 1..Len(list)
  BY DEF RowList
<1>3. DOMAIN s = 1..Len(list) /\ s = [i \in 1..Len(list) |-> s[i]]
  BY <1>1, <1>2
<1>4. \A e \in Range(s) : e \in Range(list)
  BY <1>1 DEF Range
<1>5. s \in Seq(Range(s))
  <2>1. s \in [1..Len(list) -> Range(s)]
    BY <1>3 DEF Range
  <2>2. QED BY <2>1, <1>2
<1>6. QED BY <1>4, <1>5 DEF RowList

\* The head of a list of counts is taken.
LEMMA RowListTail ==
    ASSUME NEW s, RowList(s), s # <<>>
    PROVE  RowList(Tail(s)) /\ DOMAIN Head(s) = Fp
<1> DEFINE R == Range(s)
<1>1. s \in Seq(R) /\ \A e \in R : DOMAIN e = Fp
  BY DEF RowList
<1> HIDE DEF R
<1>2. Range(Tail(s)) \subseteq Range(s) /\ Head(s) \in Range(s)
  BY <1>1, RangeTail
<1>3. Tail(s) \in Seq(Range(Tail(s)))
  <2>1. Tail(s) \in Seq(R)
    BY <1>1
  <2> DEFINE t == Tail(s)
  <2>2. t \in Seq(R)
    BY <2>1
  <2> HIDE DEF t
  <2>3. DOMAIN t = 1..Len(t) /\ Len(t) \in Nat /\ t = [i \in DOMAIN t |-> t[i]]
    BY <2>2
  <2>4. t \in Seq(Range(t))
    BY <2>3, ListOfItself
  <2>5. QED BY <2>4 DEF t
<1>4. QED BY <1>1, <1>2, <1>3 DEF RowList, R

\* What load_slice reads.
LEMMA ReadSliceIs ==
    ASSUME NEW sdb, NEW ids \in Seq(Nat)
    PROVE  LET slice == ReadSlice(sdb, ids)
           IN  slice.entropy \in Nat /\ DOMAIN slice.count = Fp /\ RowList(slice.segments)
<1> DEFINE segments == [i \in DOMAIN ids |-> CountSegment(sdb[ids[i]])]
           count == CountChunk(segments)
<1>1. RowList(segments)
  <2>1. DOMAIN ids = 1..Len(ids) /\ Len(ids) \in Nat
    OBVIOUS
  <2>2. \A i \in DOMAIN ids : DOMAIN segments[i] = Fp
    BY DEF CountSegment
  <2>3. segments \in [1..Len(ids) -> Range(segments)]
    BY <2>1 DEF Range
  <2>4. segments \in Seq(Range(segments))
    BY <2>1, <2>3
  <2>5. \A e \in Range(segments) : DOMAIN e = Fp
    BY <2>2 DEF Range
  <2>6. QED BY <2>4, <2>5 DEF RowList
<1>2. DOMAIN count = Fp
  BY DEF CountChunk
<1>3. Entropy(count) \in Nat
  <2> HIDE DEF count
  <2>1. QED BY <1>2, EntropyType
<1>4. ReadSlice(sdb, ids) = [segments |-> segments, count |-> count, entropy |-> Entropy(count)]
  BY DEF ReadSlice
<1> HIDE DEF segments, count
<1>5. QED BY <1>1, <1>2, <1>3, <1>4

\* The priority queue of load_slice, emptied, is such a list.
LEMMA QueueIsVector ==
    ASSUME NEW sdb, NEW ids, Stored(ids), NEW vec,
           IsQueue(vec, [key \in DOMAIN ids |-> ReadSlice(sdb, ids[key])])
    PROVE  Vector(vec)
<1> DEFINE slices == [key \in DOMAIN ids |-> ReadSlice(sdb, ids[key])]
<1>1. PICK keys \in [1..Cardinality(DOMAIN ids) -> DOMAIN ids] :
          vec = [i \in DOMAIN keys |-> slices[keys[i]]]
  BY DEF IsQueue
<1>2. Cardinality(DOMAIN ids) \in Nat /\ DOMAIN vec = 1..Cardinality(DOMAIN ids)
  BY <1>1, FS_CardinalityType DEF Stored
<1>3. ASSUME NEW i \in DOMAIN vec
      PROVE  vec[i].entropy \in Nat /\ DOMAIN vec[i].count = Fp /\ RowList(vec[i].segments)
  <2>1. PICK key \in DOMAIN ids : vec[i] = ReadSlice(sdb, ids[key])
    BY <1>1, <1>2
  <2>2. ids[key] \in Seq(Nat)
    BY DEF Stored
  <2>3. QED BY <2>1, <2>2, ReadSliceIs
<1>4. QED BY <1>2, <1>3 DEF Vector

-----------------------------------------------------------------------------
(* pair: the invariant *)

\* A map of pairs: ranks that have been handled, with slices that are used.
PairMap(f) ==
    \A i \in DOMAIN f : i \in 1..pair_counter - 1 /\ i \in DOMAIN tar_vec /\ f[i] \in used

\* The slices and their pairs.
RanksInv ==
    /\ Vector(ori_vec) /\ Vector(tar_vec)
    /\ pair_counter \in Nat \ {0} /\ used \subseteq DOMAIN ori_vec
    /\ PairMap(slice_pairing) /\ PairMap(segment_pairing)
    /\ PairedOnce

\* What has been inferred, and the two counters.
InferInv ==
    /\ correct \in Nat /\ segmentInferChunk \in Nat
    /\ DOMAIN before \subseteq DOMAIN infer_db /\ DOMAIN infer_db \subseteq Fp
    /\ CorrectCounted

\* What is in hand at each stage.
HandInv ==
    /\ stage \in {"idle", "pair", "freq", "chunk", "segs", "seg", "done"}
    /\ stage = "idle" => /\ used = {} /\ slice_pairing = <<>> /\ segment_pairing = <<>>
                         /\ correct = 0 /\ segmentInferChunk = 0
    /\ stage = "freq" => at \in DOMAIN slice_pairing \cup {0}
    /\ stage = "chunk" => qc \in Seq(Fp) /\ qp \in Seq(Fp)
    /\ stage = "segs" => at \in DOMAIN segment_pairing \cup {0}
    /\ stage = "seg" => RowList(qc) /\ RowList(qp) /\ free \subseteq DOMAIN qp

\* The inductive invariant of pair.
PairInv == RanksInv /\ InferInv /\ HandInv

\* Nothing of the ranking changes.
LEMMA RanksFrame ==
    ASSUME RanksInv, UNCHANGED ranks PROVE RanksInv'
<1>1. /\ ori_vec' = ori_vec /\ tar_vec' = tar_vec /\ used' = used /\ pair_counter' = pair_counter
      /\ slice_pairing' = slice_pairing /\ segment_pairing' = segment_pairing
  BY DEF ranks
<1>2. Vector(ori_vec)' /\ Vector(tar_vec)'
  BY <1>1 DEF RanksInv, Vector, RowList
<1>3. PairMap(slice_pairing)' /\ PairMap(segment_pairing)'
  BY <1>1 DEF RanksInv, PairMap
<1>4. PairedOnce'
  BY <1>1 DEF RanksInv, PairedOnce
<1>5. QED BY <1>1, <1>2, <1>3, <1>4 DEF RanksInv

\* Nothing of what has been inferred changes.
LEMMA InferFrame ==
    ASSUME InferInv, UNCHANGED <<infer_db, before, correct, segmentInferChunk>> PROVE InferInv'
  BY DEF InferInv, CorrectCounted

\* Before pair runs.
LEMMA PairInitInv ==
    ASSUME PairInit PROVE PairInv
<1>1. /\ ori_vec = <<>> /\ tar_vec = <<>> /\ used = {} /\ pair_counter = 1
      /\ slice_pairing = <<>> /\ segment_pairing = <<>> /\ infer_db = <<>> /\ before = <<>>
      /\ correct = 0 /\ segmentInferChunk = 0 /\ stage = "idle"
  BY DEF PairInit
<1>2. Vector(<<>>)
  <2>1. DOMAIN <<>> = 1..0
    OBVIOUS
  <2>2. QED BY <2>1 DEF Vector
<1>3. RanksInv
  BY <1>1, <1>2 DEF RanksInv, PairMap, PairedOnce
<1>4. InferInv
  <2>1. {c \in DOMAIN infer_db \ DOMAIN before : infer_db[c] = c} = {}
    BY <1>1
  <2>2. QED BY <2>1, <1>1, FS_EmptySet DEF InferInv, CorrectCounted
<1>5. QED BY <1>1, <1>3, <1>4 DEF PairInv, HandInv

\* Only the databases change.
LEMMA PairFrame ==
    ASSUME PairInv, UNCHANGED <<ranks, counts, work, stage>> PROVE PairInv'
<1>1. RanksInv'
  BY RanksFrame DEF PairInv
<1>2. InferInv'
  BY InferFrame DEF PairInv, counts, ranks
<1>3. HandInv'
  BY DEF PairInv, HandInv, RowList, counts, ranks, work
<1>4. QED BY <1>1, <1>2, <1>3 DEF PairInv

\* pair reads both lists of slices.
LEMMA LoadInv ==
    ASSUME PairInv, Stored(slice_db), Stored(p_slice_db), LoadSlices PROVE PairInv'
<1>1. /\ stage = "idle" /\ stage' = "pair" /\ infer_db' \in Leftover /\ before' = infer_db'
      /\ IsQueue(ori_vec', [key \in DOMAIN p_slice_db |-> ReadSlice(p_seg_db, p_slice_db[key])])
      /\ IsQueue(tar_vec', [key \in DOMAIN slice_db |-> ReadSlice(seg_db, slice_db[key])])
      /\ UNCHANGED <<used, pair_counter, slice_pairing, segment_pairing, correct, segmentInferChunk>>
  BY DEF LoadSlices
<1>2. /\ used = {} /\ slice_pairing = <<>> /\ segment_pairing = <<>>
      /\ correct = 0 /\ segmentInferChunk = 0 /\ pair_counter \in Nat \ {0}
  BY <1>1 DEF PairInv, HandInv, RanksInv
<1>3. Vector(ori_vec') /\ Vector(tar_vec')
  BY <1>1, QueueIsVector
<1>4. RanksInv'
  <2>1. PairedOnce'
    BY <1>1, <1>2 DEF PairedOnce
  <2>2. Vector(ori_vec)' /\ Vector(tar_vec)'
    BY <1>3 DEF Vector, RowList
  <2>3. PairMap(slice_pairing)' /\ PairMap(segment_pairing)'
    BY <1>1, <1>2 DEF PairMap
  <2>4. QED BY <1>1, <1>2, <2>1, <2>2, <2>3 DEF RanksInv
<1>5. InferInv'
  <2>1. {c \in DOMAIN infer_db' \ DOMAIN before' : infer_db'[c] = c} = {}
    BY <1>1
  <2>2. DOMAIN infer_db' \subseteq Fp
    <3>1. PICK S \in SUBSET Fp : infer_db' \in [S -> Fp]
      <4>1. infer_db' \in UNION {[S -> Fp] : S \in SUBSET Fp}
        BY <1>1, PairAssumption
      <4>2. QED BY <4>1
    <3>2. QED BY <3>1
  <2>3. CorrectCounted'
    <3>1. Cardinality({c \in DOMAIN infer_db' \ DOMAIN before' : infer_db'[c] = c}) = 0
      BY <2>1, FS_EmptySet
    <3>2. correct' = 0 /\ segmentInferChunk' = 0
      BY <1>1, <1>2
    <3>3. QED BY <3>1, <3>2 DEF CorrectCounted
  <2>4. QED BY <2>2, <2>3, <1>1, <1>2 DEF InferInv
<1>6. HandInv'
  BY <1>1 DEF HandInv
<1>7. QED BY <1>4, <1>5, <1>6 DEF PairInv

\* What is stored in a map.
LEMMA StoreIs ==
    ASSUME NEW f, NEW x, NEW v
    PROVE  /\ DOMAIN Store(f, x, v) = DOMAIN f \cup {x} /\ Store(f, x, v)[x] = v
           /\ \A y \in DOMAIN f : y # x => Store(f, x, v)[y] = f[y]
  BY DEF Store

\* One of the two maps gets a pair of the rank at hand and a slice not used.
LEMMA AddPair ==
    ASSUME RanksInv, NEW i, i = pair_counter, i \in DOMAIN tar_vec,
           NEW j \in DOMAIN ori_vec \ used, i - RADIUS <= j, j < i + RADIUS,
           \/ segment_pairing' = Store(segment_pairing, i, j) /\ slice_pairing' = slice_pairing
           \/ slice_pairing' = Store(slice_pairing, i, j) /\ segment_pairing' = segment_pairing,
           used' = used \cup {j}, pair_counter' = pair_counter + 1,
           UNCHANGED <<ori_vec, tar_vec>>
    PROVE  RanksInv'
<1>1. i \in Nat \ {0} /\ j \in Nat /\ RADIUS \in Nat /\ j - i \in -RADIUS..RADIUS - 1
  <2>1. i \in Nat \ {0} /\ RADIUS \in Nat
    BY PairAssumption DEF RanksInv
  <2>2. PICK n \in Nat : DOMAIN ori_vec = 1..n
    BY DEF RanksInv, Vector
  <2>3. j \in Nat
    BY <2>2
  <2>4. QED BY <2>1, <2>3
<1> DEFINE PM2(f) == \A l \in DOMAIN f : l \in 1..i /\ l \in DOMAIN tar_vec /\ f[l] \in used \cup {j}
<1>2. ASSUME NEW f, PairMap(f)
      PROVE  /\ PM2(f) /\ PM2(Store(f, i, j)) /\ i \notin DOMAIN f
             /\ \A l \in DOMAIN f : f[l] # j
  <2>1. \A l \in DOMAIN f : l \in 1..i - 1 /\ l \in DOMAIN tar_vec /\ f[l] \in used
    BY <1>2 DEF PairMap
  <2>2. \A l \in 1..i - 1 : l \in 1..i /\ l # i
    BY <1>1
  <2>3. i \in 1..i
    BY <1>1
  <2>4. PM2(f) /\ i \notin DOMAIN f /\ \A l \in DOMAIN f : f[l] # j
    BY <2>1, <2>2
  <2>50. /\ DOMAIN Store(f, i, j) = DOMAIN f \cup {i} /\ Store(f, i, j)[i] = j
        /\ \A y \in DOMAIN f : y # i => Store(f, i, j)[y] = f[y]
    BY DEF Store
  <2>5. PM2(Store(f, i, j))
    <3>1. ASSUME NEW l \in DOMAIN Store(f, i, j)
          PROVE  l \in 1..i /\ l \in DOMAIN tar_vec /\ Store(f, i, j)[l] \in used \cup {j}
      <4>1. CASE l = i
        BY <4>1, <2>3, <2>50
      <4>2. CASE l # i
        <5>1. l \in DOMAIN f /\ Store(f, i, j)[l] = f[l]
          BY <4>2, <2>50
        <5>2. QED BY <5>1, <2>4
      <4>3. QED BY <4>1, <4>2
    <3>2. QED BY <3>1
  <2>6. QED BY <2>4, <2>5
<1>3. PairMap(slice_pairing) /\ PairMap(segment_pairing)
  BY DEF RanksInv
<1>4. PM2(slice_pairing') /\ PM2(segment_pairing')
  BY <1>2, <1>3
<1>5. PairMap(slice_pairing)' /\ PairMap(segment_pairing)'
  <2>1. pair_counter' - 1 = i /\ tar_vec' = tar_vec /\ used' = used \cup {j}
    BY <1>1
  <2>2. QED BY <1>4, <2>1 DEF PairMap
<1>6. PairedOnce
  BY DEF RanksInv
<1>7. ASSUME NEW f, NEW g, NEW h, h = Store(f, i, j), PairMap(f), PairMap(g),
             DOMAIN f \cap DOMAIN g = {},
             \A x, y \in {f, g} : \A l \in DOMAIN x, m \in DOMAIN y : x[l] = y[m] => l = m,
             \A x \in {f, g} : \A l \in DOMAIN x : x[l] - l \in -RADIUS..RADIUS - 1
      PROVE  /\ DOMAIN h \cap DOMAIN g = {}
             /\ \A x, y \in {h, g} : \A l \in DOMAIN x, m \in DOMAIN y : x[l] = y[m] => l = m
             /\ \A x \in {h, g} : \A l \in DOMAIN x : x[l] - l \in -RADIUS..RADIUS - 1
  <2>1. i \notin DOMAIN f /\ i \notin DOMAIN g /\ (\A l \in DOMAIN f : f[l] # j) /\ (\A l \in DOMAIN g : g[l] # j)
    BY <1>7, <1>2
  <2>2. DOMAIN h = DOMAIN f \cup {i} /\ h[i] = j /\ \A l \in DOMAIN f : h[l] = f[l]
    <3>1. /\ DOMAIN Store(f, i, j) = DOMAIN f \cup {i} /\ Store(f, i, j)[i] = j
          /\ \A y \in DOMAIN f : y # i => Store(f, i, j)[y] = f[y]
      BY DEF Store
    <3>2. QED BY <3>1, <1>7, <2>1
  <2>3. DOMAIN h \cap DOMAIN g = {}
    BY <2>1, <2>2, <1>7
  <2>4. \A l \in DOMAIN h, m \in DOMAIN h : h[l] = h[m] => l = m
    BY <2>1, <2>2, <1>7
  <2>5. \A l \in DOMAIN h, m \in DOMAIN g : h[l] # g[m]
    <3>1. \A l \in DOMAIN f, m \in DOMAIN g : f[l] # g[m]
      BY <1>7
    <3>2. QED BY <2>1, <2>2, <3>1
  <2>6. \A l \in DOMAIN g, m \in DOMAIN g : g[l] = g[m] => l = m
    BY <1>7
  <2>7. \A l \in DOMAIN h : h[l] - l \in -RADIUS..RADIUS - 1
    BY <2>2, <1>1, <1>7
  <2>8. \A l \in DOMAIN g : g[l] - l \in -RADIUS..RADIUS - 1
    BY <1>7
  <2>9. QED BY <2>3, <2>4, <2>5, <2>6, <2>7, <2>8
<1>8. PairedOnce'
  <2>1. CASE segment_pairing' = Store(segment_pairing, i, j) /\ slice_pairing' = slice_pairing
    BY <2>1, <1>3, <1>6, <1>7 DEF PairedOnce
  <2>2. CASE slice_pairing' = Store(slice_pairing, i, j) /\ segment_pairing' = segment_pairing
    BY <2>2, <1>3, <1>6, <1>7 DEF PairedOnce
  <2>3. QED BY <2>1, <2>2
<1>9. Vector(ori_vec)' /\ Vector(tar_vec)'
  BY DEF RanksInv, Vector, RowList
<1>10. pair_counter' \in Nat \ {0} /\ used' \subseteq DOMAIN ori_vec'
  BY <1>1 DEF RanksInv
<1>11. QED BY <1>5, <1>8, <1>9, <1>10 DEF RanksInv

\* A rank is paired, or finds no candidate.
LEMMA PairStepInv ==
    ASSUME PairInv, Pair \/ NoPair PROVE PairInv'
<1>0. /\ stage = "pair" /\ stage' = "pair" /\ UNCHANGED <<counts, before>> /\ UNCHANGED <<ori_vec, tar_vec>>
      /\ pair_counter' = pair_counter + 1
  BY DEF Pair, NoPair, ToPair
<1>1. InferInv'
  BY <1>0, InferFrame DEF PairInv, counts
<1>2. HandInv'
  BY <1>0 DEF HandInv
<1>3. CASE NoPair
  <2>1. UNCHANGED <<used, slice_pairing, segment_pairing>>
    BY <1>3 DEF NoPair
  <2>2. pair_counter \in Nat /\ RanksInv
    BY DEF PairInv, RanksInv
  <2>3. \A l \in 1..pair_counter - 1 : l \in 1..pair_counter' - 1
    BY <2>2, <1>0
  <2>4. PairMap(slice_pairing)' /\ PairMap(segment_pairing)'
    BY <2>1, <2>2, <2>3, <1>0 DEF RanksInv, PairMap
  <2>5. Vector(ori_vec)' /\ Vector(tar_vec)'
    BY <1>0, <2>2 DEF RanksInv, Vector, RowList
  <2>6. PairedOnce'
    BY <2>1, <2>2 DEF RanksInv, PairedOnce
  <2>7. RanksInv'
    BY <2>1, <2>2, <2>4, <2>5, <2>6, <1>0 DEF RanksInv
  <2>8. QED BY <1>1, <1>2, <2>7 DEF PairInv
<1>4. CASE Pair
  <2> DEFINE i == pair_counter
             C == Candidates(i)
             gap == [l \in DOMAIN ori_vec |-> Diff(i, l)]
             j == ClosestOf(C, gap)
  <2>1. /\ i \in DOMAIN tar_vec /\ C # {}
        /\ \/ segment_pairing' = Store(segment_pairing, i, j) /\ slice_pairing' = slice_pairing
           \/ slice_pairing' = Store(slice_pairing, i, j) /\ segment_pairing' = segment_pairing
        /\ used' = used \cup {j}
    BY <1>4 DEF Pair, ToPair
  <2>2. RanksInv /\ Vector(ori_vec) /\ Vector(tar_vec)
    BY DEF PairInv, RanksInv
  <2>3. DOMAIN ori_vec \subseteq Nat
    BY <2>2 DEF Vector
  <2>4. \A l \in DOMAIN ori_vec : gap[l] \in Nat
    <3> TAKE l \in DOMAIN ori_vec
    <3>1. ori_vec[l].entropy \in Nat /\ tar_vec[i].entropy \in Nat
      BY <2>1, <2>2 DEF Vector
    <3>2. QED BY <3>1, DistanceType DEF Diff
  <2>5. C \subseteq DOMAIN ori_vec
    BY DEF Candidates
  <2>6. j \in C
    <3>1. C \subseteq Nat /\ \A x \in C : gap[x] \in Nat
      BY <2>3, <2>4, <2>5
    <3> HIDE DEF C, gap
    <3>2. QED BY <3>1, <2>1, ClosestIs
  <2>7. j \in DOMAIN ori_vec \ used /\ i - RADIUS <= j /\ j < i + RADIUS
    <3> HIDE DEF j
    <3>1. QED BY <2>6 DEF Candidates
  <2>8. RanksInv'
    <3> HIDE DEF j, C, gap
    <3>1. i = pair_counter
      OBVIOUS
    <3> HIDE DEF i
    <3>2. QED BY <2>1, <2>2, <2>7, <1>0, <3>1, AddPair
  <2>9. QED BY <1>1, <1>2, <2>8 DEF PairInv
<1>5. QED BY <1>3, <1>4

\* Chunks that were not inferred before are recorded, the right ones counted.
LEMMA AddInferred ==
    ASSUME InferInv, NEW new, new \subseteq Fp \ DOMAIN infer_db,
           DOMAIN infer_db' = DOMAIN infer_db \cup new,
           \A c \in DOMAIN infer_db : infer_db'[c] = infer_db[c],
           before' = before, correct' \in Nat, segmentInferChunk' \in Nat,
           correct' + segmentInferChunk'
             = correct + segmentInferChunk + Cardinality({c \in new : infer_db'[c] = c})
    PROVE  InferInv'
<1> DEFINE G == {c \in DOMAIN infer_db \ DOMAIN before : infer_db[c] = c}
           H == {c \in new : infer_db'[c] = c}
<1>1. DOMAIN before \subseteq DOMAIN infer_db /\ DOMAIN infer_db \subseteq Fp
      /\ correct + segmentInferChunk = Cardinality(G)
  BY DEF InferInv, CorrectCounted
<1>2. G \subseteq Fp /\ H \subseteq Fp /\ G \cap H = {}
  BY <1>1
<1>3. {c \in DOMAIN infer_db' \ DOMAIN before' : infer_db'[c] = c} = G \cup H
  BY <1>1
<1>4. correct' + segmentInferChunk' = Cardinality(G) + Cardinality(H)
  BY <1>1
<1>5. Cardinality(G \cup H) = Cardinality(G) + Cardinality(H)
  <2> HIDE DEF G, H
  <2>1. IsFiniteSet(G) /\ IsFiniteSet(H)
    BY <1>2, SizeAssumption, FS_Subset
  <2>2. Cardinality(G \cup H) = Cardinality(G) + Cardinality(H) - Cardinality(G \cap H)
    BY <2>1, FS_Union
  <2>3. Cardinality(G \cap H) = 0
    BY <1>2, FS_EmptySet
  <2>4. Cardinality(G) \in Nat /\ Cardinality(H) \in Nat
    BY <2>1, FS_CardinalityType
  <2>5. QED BY <2>2, <2>3, <2>4
<1>6. CorrectCounted'
  BY <1>3, <1>4, <1>5 DEF CorrectCounted
<1>7. QED BY <1>1, <1>6 DEF InferInv

\* The steps between the two analyses.
LEMMA MapInv ==
    ASSUME PairInv, EndPair \/ FreqSliceDone \/ FreqDone \/ SegSliceDone \/ Finish PROVE PairInv'
<1>1. UNCHANGED ranks /\ UNCHANGED counts
  BY DEF EndPair, FreqSliceDone, FreqDone, SegSliceDone, Finish
<1>2. RanksInv' /\ InferInv'
  BY <1>1, RanksFrame, InferFrame DEF PairInv, counts, ranks
<1>3. slice_pairing' = slice_pairing /\ segment_pairing' = segment_pairing
  BY <1>1 DEF ranks
<1>4. PICK n \in Nat : DOMAIN slice_pairing \subseteq 1..n /\ DOMAIN segment_pairing \subseteq 1..n
  <2>1. pair_counter - 1 \in Nat
    BY DEF PairInv, RanksInv
  <2>2. DOMAIN slice_pairing \subseteq 1..pair_counter - 1 /\ DOMAIN segment_pairing \subseteq 1..pair_counter - 1
    BY DEF PairInv, RanksInv, PairMap
  <2>3. QED BY <2>1, <2>2
<1>5. CASE EndPair
  <2>1. at' = First(slice_pairing) /\ stage' = "freq"
    BY <1>5 DEF EndPair
  <2>2. First(slice_pairing) \in DOMAIN slice_pairing \cup {0}
    BY <1>4, FirstIs
  <2>3. QED BY <2>1, <2>2, <1>2, <1>3 DEF PairInv, HandInv
<1>6. CASE FreqSliceDone
  <2>1. at' = Below(slice_pairing, at) /\ stage' = "freq"
    BY <1>6 DEF FreqSliceDone
  <2>2. Below(slice_pairing, at) \in DOMAIN slice_pairing \cup {0}
    BY <1>4, BelowIs
  <2>3. QED BY <2>1, <2>2, <1>2, <1>3 DEF PairInv, HandInv
<1>7. CASE FreqDone
  <2>1. at' = First(segment_pairing) /\ stage' = "segs"
    BY <1>7 DEF FreqDone
  <2>2. First(segment_pairing) \in DOMAIN segment_pairing \cup {0}
    BY <1>4, FirstIs
  <2>3. QED BY <2>1, <2>2, <1>2, <1>3 DEF PairInv, HandInv
<1>8. CASE SegSliceDone
  <2>1. at' = Below(segment_pairing, at) /\ stage' = "segs"
    BY <1>8 DEF SegSliceDone
  <2>2. Below(segment_pairing, at) \in DOMAIN segment_pairing \cup {0}
    BY <1>4, BelowIs
  <2>3. QED BY <2>1, <2>2, <1>2, <1>3 DEF PairInv, HandInv
<1>9. CASE Finish
  <2>1. stage' = "done"
    BY <1>9 DEF Finish
  <2>2. QED BY <2>1, <1>2 DEF PairInv, HandInv
<1>10. QED BY <1>5, <1>6, <1>7, <1>8, <1>9

\* A step of freq_analysis.
LEMMA FreqInv ==
    ASSUME PairInv, FreqSlice \/ ChunkKnown \/ ChunkSizesDiffer \/ ChunkInfer PROVE PairInv'
<1>0. UNCHANGED ranks
  BY DEF FreqSlice, ChunkKnown, ChunkSizesDiffer, ChunkInfer
<1>1. RanksInv'
  BY <1>0, RanksFrame DEF PairInv
<1>2. CASE FreqSlice
  <2>1. /\ stage = "freq" /\ at # 0 /\ stage' = "chunk" /\ UNCHANGED counts
        /\ qc' \in Ranked(tar_vec[at].count, Cardinality(Fp))
        /\ qp' \in Ranked(ori_vec[slice_pairing[at]].count, Cardinality(Fp))
    BY <1>2 DEF FreqSlice
  <2>2. at \in DOMAIN slice_pairing
    BY <2>1 DEF PairInv, HandInv
  <2>3. at \in DOMAIN tar_vec /\ slice_pairing[at] \in DOMAIN ori_vec
    BY <2>2 DEF PairInv, RanksInv, PairMap
  <2>4. DOMAIN tar_vec[at].count = Fp /\ DOMAIN ori_vec[slice_pairing[at]].count = Fp
    BY <2>3 DEF PairInv, RanksInv, Vector
  <2>5. qc' \in Seq(Fp) /\ qp' \in Seq(Fp)
    BY <2>1, <2>4, RankedIs
  <2>6. HandInv'
    BY <2>1, <2>5 DEF HandInv
  <2>7. InferInv'
    BY <2>1, <1>0, InferFrame DEF PairInv, counts, ranks
  <2>8. QED BY <1>1, <2>6, <2>7 DEF PairInv
<1>3. ASSUME Chunk
      PROVE  /\ stage = "chunk" /\ qc # <<>> /\ qp # <<>> /\ qc \in Seq(Fp) /\ qp \in Seq(Fp)
             /\ Head(qc) \in Fp /\ Head(qp) \in Fp /\ Tail(qc) \in Seq(Fp) /\ Tail(qp) \in Seq(Fp)
  <2>1. stage = "chunk" /\ qc # <<>> /\ qp # <<>> /\ qc \in Seq(Fp) /\ qp \in Seq(Fp)
    BY <1>3 DEF Chunk, PairInv, HandInv
  <2>2. QED BY <2>1
<1>4. CASE ChunkKnown
  <2>1. Chunk /\ qc' = Tail(qc) /\ qp' = Tail(qp) /\ UNCHANGED counts /\ stage' = stage
    BY <1>4 DEF ChunkKnown
  <2>2. HandInv'
    BY <2>1, <1>3 DEF HandInv
  <2>3. InferInv'
    BY <2>1, <1>0, InferFrame DEF PairInv, counts, ranks
  <2>4. QED BY <1>1, <2>2, <2>3 DEF PairInv
<1>5. CASE ChunkSizesDiffer
  <2>1. Chunk /\ UNCHANGED work /\ stage' = stage /\ UNCHANGED <<infer_db, correct, segmentInferChunk>>
    BY <1>5 DEF ChunkSizesDiffer
  <2>2. HandInv'
    BY <2>1, <1>3 DEF HandInv, work
  <2>3. InferInv'
    BY <2>1, <1>0, InferFrame DEF PairInv, ranks
  <2>4. QED BY <1>1, <2>2, <2>3 DEF PairInv
<1>6. CASE ChunkInfer
  <2>1. /\ Chunk /\ qc' = Tail(qc) /\ qp' = Tail(qp) /\ stage' = stage
        /\ Head(qc) \notin DOMAIN infer_db
        /\ infer_db' = Store(infer_db, Head(qc), Head(qp))
        /\ correct' = IF Head(qc) = Head(qp) THEN correct + 1 ELSE correct
        /\ segmentInferChunk' = segmentInferChunk
    BY <1>6 DEF ChunkInfer, Known
  <2>2. HandInv'
    BY <2>1, <1>3 DEF HandInv
  <2>3. PICK c \in Fp, q \in Fp : c = Head(qc) /\ q = Head(qp)
    BY <2>1, <1>3
  <2>4. /\ DOMAIN infer_db' = DOMAIN infer_db \cup {c} /\ infer_db'[c] = q
        /\ \A e \in DOMAIN infer_db : infer_db'[e] = infer_db[e]
    BY <2>1, <2>3 DEF Store
  <2>5. Cardinality({e \in {c} : infer_db'[e] = e}) = IF c = q THEN 1 ELSE 0
    <3>1. CASE c = q
      <4>1. {e \in {c} : infer_db'[e] = e} = {c}
        BY <3>1, <2>4
      <4>2. QED BY <4>1, <3>1, FS_Singleton
    <3>2. CASE c # q
      <4>1. {e \in {c} : infer_db'[e] = e} = {}
        BY <3>2, <2>4
      <4>2. QED BY <4>1, <3>2, FS_EmptySet
    <3>3. QED BY <3>1, <3>2
  <2>6. InferInv /\ before' = before
    BY <1>0 DEF PairInv, ranks
  <2>7. /\ correct' \in Nat /\ segmentInferChunk' \in Nat
        /\ correct' + segmentInferChunk' = correct + segmentInferChunk + (IF c = q THEN 1 ELSE 0)
    BY <2>1, <2>3, <2>6 DEF InferInv
  <2>8. InferInv'
    <3> DEFINE new == {c}
    <3>1. /\ new \subseteq Fp \ DOMAIN infer_db /\ DOMAIN infer_db' = DOMAIN infer_db \cup new
          /\ correct' + segmentInferChunk'
               = correct + segmentInferChunk + Cardinality({e \in new : infer_db'[e] = e})
      BY <2>1, <2>3, <2>4, <2>5, <2>7
    <3> HIDE DEF new
    <3>2. QED BY <3>1, <2>4, <2>6, <2>7, AddInferred
  <2>9. QED BY <1>1, <2>2, <2>8 DEF PairInv
<1>7. QED BY <1>2, <1>4, <1>5, <1>6

\* A step of segment_pair.
LEMMA SegPairInv ==
    ASSUME PairInv, SegSlice \/ SegSkip \/ SegInfer PROVE PairInv'
<1>0. UNCHANGED ranks
  BY DEF SegSlice, SegSkip, SegInfer
<1>1. RanksInv'
  BY <1>0, RanksFrame DEF PairInv
<1>2. CASE SegSlice
  <2>1. /\ stage = "segs" /\ at # 0 /\ stage' = "seg" /\ UNCHANGED counts
        /\ qc' \in BySize(tar_vec[at].segments)
        /\ qp' \in BySize(ori_vec[segment_pairing[at]].segments)
        /\ free' = DOMAIN qp'
    BY <1>2 DEF SegSlice
  <2>2. at \in DOMAIN segment_pairing
    BY <2>1 DEF PairInv, HandInv
  <2>3. at \in DOMAIN tar_vec /\ segment_pairing[at] \in DOMAIN ori_vec
    BY <2>2 DEF PairInv, RanksInv, PairMap
  <2>4. RowList(tar_vec[at].segments) /\ RowList(ori_vec[segment_pairing[at]].segments)
    BY <2>3 DEF PairInv, RanksInv, Vector
  <2>5. RowList(qc') /\ RowList(qp')
    BY <2>1, <2>4, BySizeIs
  <2>6. HandInv'
    BY <2>1, <2>5 DEF HandInv, RowList
  <2>7. InferInv'
    BY <2>1, <1>0, InferFrame DEF PairInv, counts, ranks
  <2>8. QED BY <1>1, <2>6, <2>7 DEF PairInv
<1>3. ASSUME stage = "seg", qc # <<>>
      PROVE  /\ RowList(qp) /\ free \subseteq DOMAIN qp /\ RowList(Tail(qc)) /\ DOMAIN Head(qc) = Fp
  <2>1. RowList(qc) /\ RowList(qp) /\ free \subseteq DOMAIN qp
    BY <1>3 DEF PairInv, HandInv
  <2>2. QED BY <2>1, <1>3, RowListTail
<1>4. CASE SegSkip
  <2>1. stage = "seg" /\ qc # <<>> /\ qc' = Tail(qc) /\ UNCHANGED <<qp, free, stage>> /\ UNCHANGED counts
    BY <1>4 DEF SegSkip
  <2>2. HandInv'
    BY <2>1, <1>3 DEF HandInv, RowList
  <2>3. InferInv'
    BY <2>1, <1>0, InferFrame DEF PairInv, counts, ranks
  <2>4. QED BY <1>1, <2>2, <2>3 DEF PairInv
<1>5. CASE SegInfer
  <2> DEFINE c == Head(qc)
             j == ClosestOf(SegCandidates(c), [l \in free |-> SegDiff(c, qp[l])])
             new == IF SameSegment(c, qp[j]) THEN Present(c) \ DOMAIN infer_db ELSE {}
  <2>1. /\ stage = "seg" /\ qc # <<>> /\ qc' = Tail(qc) /\ UNCHANGED <<qp, stage>>
        /\ free' = free \ {j} /\ correct' = correct
        /\ infer_db' = [x \in DOMAIN infer_db \cup new |-> IF x \in new THEN x ELSE infer_db[x]]
        /\ segmentInferChunk' = segmentInferChunk + Cardinality(new)
    BY <1>5 DEF SegInfer
  <2>2. DOMAIN c = Fp
    BY <2>1, <1>3
  <2>3. new \subseteq Fp \ DOMAIN infer_db
    BY <2>2 DEF Present
  <2> HIDE DEF j, new
  <2>4. HandInv'
    BY <2>1, <1>3 DEF HandInv, RowList
  <2>5. IsFiniteSet(new) /\ Cardinality(new) \in Nat
    BY <2>3, SizeAssumption, FS_Subset, FS_CardinalityType
  <2>6. /\ DOMAIN infer_db' = DOMAIN infer_db \cup new
        /\ \A x \in DOMAIN infer_db : infer_db'[x] = infer_db[x]
        /\ {x \in new : infer_db'[x] = x} = new
    BY <2>1, <2>3
  <2>7. InferInv /\ before' = before
    BY <1>0 DEF PairInv, ranks
  <2>8. /\ correct' \in Nat /\ segmentInferChunk' \in Nat
        /\ correct' + segmentInferChunk' = correct + segmentInferChunk + Cardinality({x \in new : infer_db'[x] = x})
    <3>1. correct \in Nat /\ segmentInferChunk \in Nat
      BY <2>7 DEF InferInv
    <3>2. Cardinality({x \in new : infer_db'[x] = x}) = Cardinality(new)
      BY <2>6
    <3>3. QED BY <3>1, <3>2, <2>1, <2>5
  <2>9. InferInv'
    BY <2>3, <2>6, <2>7, <2>8, AddInferred
  <2>10. QED BY <1>1, <2>4, <2>9 DEF PairInv
<1>6. QED BY <1>2, <1>4, <1>5

\* Each step of pair keeps the invariant.
LEMMA PairNextInv ==
    ASSUME PairInv, Stored(slice_db), Stored(p_slice_db), PairNext PROVE PairInv'
  BY LoadInv, PairStepInv, MapInv, FreqInv, SegPairInv DEF PairNext

-----------------------------------------------------------------------------
(* Segments: the operators *)

\* g flattens the first n elements of t, one after the other.
Flattens(g, t, n, S) ==
    /\ g \in [1..n -> Seq(S)]
    /\ \A i \in 1..n : g[i] = IF i = 1 THEN t[i] ELSE g[i - 1] \o t[i]

\* There is one, for any list of lists.
LEMMA FlattensExists ==
    ASSUME NEW S, NEW t \in Seq(Seq(S))
    PROVE  \E g : Flattens(g, t, Len(t), S)
<1> DEFINE Q == {n \in Nat : n <= Len(t) => \E g : Flattens(g, t, n, S)}
<1>0. Len(t) \in Nat /\ \A i \in 1..Len(t) : t[i] \in Seq(S)
  OBVIOUS
<1>1. 0 \in Q
  <2>1. Flattens([i \in 1..0 |-> <<>>], t, 0, S)
    BY DEF Flattens
  <2>2. QED BY <2>1
<1>2. ASSUME NEW n \in Nat, n \in Q PROVE n + 1 \in Q
  <2>1. SUFFICES ASSUME n + 1 <= Len(t) PROVE \E g : Flattens(g, t, n + 1, S)
    OBVIOUS
  <2>2. PICK g : Flattens(g, t, n, S)
    BY <1>2, <2>1, <1>0
  <2>3. t[n + 1] \in Seq(S)
    BY <2>1, <1>0
  <2>4. PICK v \in Seq(S) : v = IF n = 0 THEN t[n + 1] ELSE g[n] \o t[n + 1]
    <3>1. CASE n = 0
      BY <3>1, <2>3
    <3>2. CASE n # 0
      <4>1. g[n] \in Seq(S)
        BY <3>2, <2>2 DEF Flattens
      <4>2. g[n] \o t[n + 1] \in Seq(S)
        BY <4>1, <2>3
      <4>3. QED BY <4>2, <3>2
    <3>3. QED BY <3>1, <3>2
  <2> DEFINE h == [i \in 1..n + 1 |-> IF i = n + 1 THEN v ELSE g[i]]
  <2>5. h \in [1..n + 1 -> Seq(S)]
    <3>1. ASSUME NEW i \in 1..n + 1 PROVE (IF i = n + 1 THEN v ELSE g[i]) \in Seq(S)
      <4>1. i # n + 1 => i \in 1..n
        OBVIOUS
      <4>2. QED BY <4>1, <2>2 DEF Flattens
    <3>2. QED BY <3>1
  <2>6. ASSUME NEW i \in 1..n + 1 PROVE h[i] = IF i = 1 THEN t[i] ELSE h[i - 1] \o t[i]
    <3>1. CASE i = n + 1
      <4>1. h[i] = v
        BY <3>1
      <4>2. n # 0 => h[i - 1] = g[n]
        BY <3>1
      <4>3. i = 1 <=> n = 0
        BY <3>1
      <4>4. QED BY <4>1, <4>2, <4>3, <2>4, <3>1
    <3>2. CASE i # n + 1
      <4>1. i \in 1..n /\ h[i] = g[i]
        BY <3>2
      <4>2. i # 1 => h[i - 1] = g[i - 1]
        BY <4>1
      <4>3. g[i] = IF i = 1 THEN t[i] ELSE g[i - 1] \o t[i]
        BY <4>1, <2>2 DEF Flattens
      <4>4. QED BY <4>1, <4>2, <4>3
    <3>3. QED BY <3>1, <3>2
  <2>7. Flattens(h, t, n + 1, S)
    <3> HIDE DEF h
    <3>1. QED BY <2>5, <2>6 DEF Flattens
  <2>8. QED BY <2>7
<1>3. Nat \subseteq Q
  <2> HIDE DEF Q
  <2>1. QED BY <1>1, <1>2, InductionNat
<1>4. QED BY <1>3, <1>0

\* Two such functions agree as far as the elements are the same.
LEMMA FlattensAgree ==
    ASSUME NEW S, NEW t, NEW u, NEW n \in Nat, NEW m \in Nat, n <= m,
           \A i \in 1..n : t[i] = u[i],
           NEW g, Flattens(g, t, n, S), NEW h, Flattens(h, u, m, S)
    PROVE  \A i \in 1..n : g[i] = h[i]
<1> DEFINE Q == {i \in Nat : i \in 1..n => g[i] = h[i]}
<1>1. 0 \in Q
  OBVIOUS
<1>2. ASSUME NEW i \in Nat, i \in Q PROVE i + 1 \in Q
  <2>1. SUFFICES ASSUME i + 1 \in 1..n PROVE g[i + 1] = h[i + 1]
    OBVIOUS
  <2>2. i + 1 \in 1..m /\ t[i + 1] = u[i + 1] /\ i + 1 - 1 = i
    BY <2>1
  <2>3. /\ g[i + 1] = IF i + 1 = 1 THEN t[i + 1] ELSE g[i + 1 - 1] \o t[i + 1]
        /\ h[i + 1] = IF i + 1 = 1 THEN u[i + 1] ELSE h[i + 1 - 1] \o u[i + 1]
    <3> DEFINE j == i + 1
    <3>1. j \in 1..n /\ j \in 1..m
      BY <2>1, <2>2
    <3> HIDE DEF j
    <3>2. /\ g[j] = IF j = 1 THEN t[j] ELSE g[j - 1] \o t[j]
          /\ h[j] = IF j = 1 THEN u[j] ELSE h[j - 1] \o u[j]
      BY <3>1 DEF Flattens
    <3>3. QED BY <3>2 DEF j
  <2>4. CASE i = 0
    BY <2>2, <2>3, <2>4
  <2>5. CASE i # 0
    <3>1. i \in 1..n
      BY <2>1, <2>5
    <3>2. g[i] = h[i]
      BY <1>2, <3>1
    <3>3. QED BY <3>2, <2>2, <2>3, <2>5
  <2>6. QED BY <2>4, <2>5
<1>3. Nat \subseteq Q
  <2> HIDE DEF Q
  <2>1. QED BY <1>1, <1>2, InductionNat
<1>4. QED BY <1>3

\* FlattenSeq is the last value of such a function.
LEMMA FlattenIs ==
    ASSUME NEW S, NEW t \in Seq(Seq(S)), Len(t) # 0, NEW g, Flattens(g, t, Len(t), S)
    PROVE  FlattenSeq(t) = g[Len(t)]
<1> DEFINE flatten == CHOOSE f : f = [i \in 1..Len(t) |-> IF i = 1 THEN t[i] ELSE f[i - 1] \o t[i]]
<1>1. FlattenSeq(t) = flatten[Len(t)]
  BY DEF FlattenSeq
<1>2. g = [i \in 1..Len(t) |-> IF i = 1 THEN t[i] ELSE g[i - 1] \o t[i]]
  BY DEF Flattens
<1>3. flatten = [i \in 1..Len(t) |-> IF i = 1 THEN t[i] ELSE flatten[i - 1] \o t[i]]
  BY <1>2
<1> HIDE DEF flatten
<1> DEFINE Q == {i \in Nat : i \in 1..Len(t) => g[i] = flatten[i]}
<1>4. 0 \in Q
  OBVIOUS
<1>5. ASSUME NEW i \in Nat, i \in Q PROVE i + 1 \in Q
  <2>1. SUFFICES ASSUME i + 1 \in 1..Len(t) PROVE g[i + 1] = flatten[i + 1]
    OBVIOUS
  <2>3. /\ g[i + 1] = IF i + 1 = 1 THEN t[i + 1] ELSE g[i + 1 - 1] \o t[i + 1]
        /\ flatten[i + 1] = IF i + 1 = 1 THEN t[i + 1] ELSE flatten[i + 1 - 1] \o t[i + 1]
    <3> DEFINE j == i + 1
    <3>1. j \in 1..Len(t)
      BY <2>1
    <3> HIDE DEF j
    <3>2. g[j] = IF j = 1 THEN t[j] ELSE g[j - 1] \o t[j]
      BY <3>1, <1>2
    <3>3. flatten[j] = IF j = 1 THEN t[j] ELSE flatten[j - 1] \o t[j]
      BY <3>1, <1>3
    <3>4. QED BY <3>2, <3>3 DEF j
  <2>4. CASE i = 0
    BY <2>3, <2>4
  <2>5. CASE i # 0
    <3>1. i \in 1..Len(t) /\ i + 1 - 1 = i
      BY <2>1, <2>5
    <3>2. g[i] = flatten[i]
      BY <1>5, <3>1
    <3>3. QED BY <3>1, <3>2, <2>3, <2>5
  <2>6. QED BY <2>4, <2>5
<1>6. Nat \subseteq Q
  <2> HIDE DEF Q
  <2>1. QED BY <1>4, <1>5, InductionNat
<1>7. Len(t) \in Nat /\ Len(t) \in 1..Len(t)
  OBVIOUS
<1>8. QED BY <1>1, <1>6, <1>7

\* One more list is flattened.
LEMMA FlattenAppend ==
    ASSUME NEW S, NEW t \in Seq(Seq(S)), NEW s \in Seq(S)
    PROVE  FlattenSeq(t) \in Seq(S) /\ FlattenSeq(Append(t, s)) = FlattenSeq(t) \o s
<1> DEFINE u == Append(t, s)
           n == Len(t)
<1>1. /\ u \in Seq(Seq(S)) /\ Len(u) = n + 1 /\ n \in Nat /\ u[n + 1] = s
      /\ \A i \in 1..n : t[i] = u[i]
  OBVIOUS
<1>2. PICK h : Flattens(h, u, Len(u), S)
  <2> HIDE DEF u
  <2>1. QED BY <1>1, FlattensExists
<1>3. FlattenSeq(u) = h[n + 1]
  <2> HIDE DEF u, n
  <2>1. Len(u) # 0
    BY <1>1
  <2>2. QED BY <1>1, <1>2, <2>1, FlattenIs
<1>4. h[n + 1] = IF n + 1 = 1 THEN s ELSE h[n] \o s
  <2> HIDE DEF u, n
  <2>1. n + 1 \in 1..n + 1 /\ n + 1 - 1 = n
    BY <1>1
  <2> DEFINE j == n + 1
  <2>2. j \in 1..Len(u) /\ u[j] = s /\ j - 1 = n
    BY <2>1, <1>1
  <2> HIDE DEF j
  <2>3. h[j] = IF j = 1 THEN u[j] ELSE h[j - 1] \o u[j]
    BY <2>2, <1>2 DEF Flattens
  <2>4. QED BY <2>2, <2>3 DEF j
<1>5. CASE n = 0
  <2>1. t = <<>>
    BY <1>5
  <2>2. FlattenSeq(t) = <<>>
    BY <2>1, <1>5 DEF FlattenSeq
  <2>3. <<>> \o s = s
    OBVIOUS
  <2>4. QED BY <1>3, <1>4, <1>5, <2>2, <2>3
<1>6. CASE n # 0
  <2>1. PICK g : Flattens(g, t, n, S)
    BY FlattensExists
  <2>2. FlattenSeq(t) = g[n]
    BY <2>1, <1>6, FlattenIs
  <2>3. n \in 1..n
    BY <1>1, <1>6
  <2>4. g[n] = h[n]
    <3> HIDE DEF u, n
    <3> DEFINE m == Len(u)
    <3>1. n <= m /\ m \in Nat /\ n \in Nat /\ Flattens(h, u, m, S)
      BY <1>1, <1>2
    <3> HIDE DEF m
    <3>2. \A i \in 1..n : g[i] = h[i]
      <4>1. \A i \in 1..n : t[i] = u[i]
        BY <1>1
      <4>2. QED BY <4>1, <2>1, <3>1, FlattensAgree
    <3>3. QED BY <3>2, <2>3
  <2>5. g[n] \in Seq(S)
    <3> HIDE DEF n
    <3>1. QED BY <2>1, <2>3 DEF Flattens
  <2>6. QED BY <1>3, <1>4, <1>6, <2>2, <2>4, <2>5, <1>1
<1>7. QED BY <1>5, <1>6

\* The bytes of a segment grow by the size of the chunk.
LEMMA BytesAppend ==
    ASSUME NEW seg \in Seq(Fp), NEW c \in Fp
    PROVE  /\ Bytes(seg) \in Nat /\ Bytes(<<>>) = 0 /\ size[c] \in Nat /\ size[c] <= SEG_SIZE
           /\ Bytes(Append(seg, c)) = Bytes(seg) + size[c]
<1> DEFINE n == Len(seg)
           D == 1..n
           f == [i \in D |-> size[seg[i]]]
           h == [i \in 1..n + 1 |-> size[Append(seg, c)[i]]]
<1>0. size[c] \in Nat /\ size[c] <= SEG_SIZE /\ n \in Nat /\ DOMAIN seg = D
      /\ \A e \in Fp : size[e] \in Nat
  BY SizeAssumption
<1>1. IsFiniteSet(D)
  <2>1. \A m \in Nat : IsFiniteSet(1..m)
    BY FS_Interval
  <2>2. QED BY <2>1, <1>0
<1>2. Bytes(seg) = SumFunctionOnSet(f, D)
  BY <1>0 DEF Bytes, SumFunction
<1>3. Bytes(Append(seg, c)) = SumFunctionOnSet(h, 1..n + 1)
  <2>1. DOMAIN Append(seg, c) = 1..n + 1
    OBVIOUS
  <2>2. QED BY <2>1 DEF Bytes, SumFunction
<1>4. /\ \A i \in D : f[i] \in Nat /\ h[i] = f[i]
      /\ h[n + 1] = size[c]
  BY <1>0
<1>5. 1..n + 1 = D \cup {n + 1} /\ n + 1 \notin D
  BY <1>0
<1>6. Bytes(<<>>) = 0
  <2> DEFINE e == [i \in {} |-> size[<<>>[i]]]
  <2>1. Bytes(<<>>) = SumFunctionOnSet(e, {})
    BY DEF Bytes, SumFunction
  <2> HIDE DEF e
  <2>2. QED BY <2>1, SumEmpty
<1> HIDE DEF f, h
<1> DEFINE l == n + 1
<1>7. l \notin D /\ h[l] = size[c] /\ 1..n + 1 = D \cup {l}
  BY <1>4, <1>5
<1> HIDE DEF D, l
<1>8. SumFunctionOnSet(h, D \cup {l}) = h[l] + SumFunctionOnSet(h, D)
  <2>1. \A i \in D : h[i] \in Int
    BY <1>4
  <2>2. h[l] \in Int
    BY <1>7, <1>0
  <2>3. QED BY <2>1, <2>2, <1>1, <1>7, SumAdd
<1>9. SumFunctionOnSet(f, D) = SumFunctionOnSet(h, D)
  <2>1. \A i \in D : f[i] \in Int /\ h[i] = f[i]
    BY <1>4
  <2>2. QED BY <2>1, <1>1, SumSame
<1>10. SumFunctionOnSet(f, D) \in Nat
  <2>1. \A i \in D : f[i] \in Nat
    BY <1>4
  <2>2. QED BY <2>1, <1>1, SumPart
<1>11. Bytes(Append(seg, c)) = Bytes(seg) + size[c]
  <2>1. Bytes(Append(seg, c)) = SumFunctionOnSet(h, D \cup {l})
    BY <1>3, <1>7
  <2>2. QED BY <2>1, <1>0, <1>2, <1>7, <1>8, <1>9, <1>10
<1>12. QED BY <1>0, <1>2, <1>6, <1>10, <1>11

\* The lines read grow by one.
LEMMA LinesAppend ==
    ASSUME NEW s \in Seq(Fp), NEW n \in Nat, n < Len(s)
    PROVE  /\ s[n + 1] \in Fp /\ SubSeq(s, 1, n) \in Seq(Fp)
           /\ SubSeq(s, 1, n + 1) = SubSeq(s, 1, n) \o <<s[n + 1]>>
<1>1. s[n + 1] \in Fp /\ SubSeq(s, 1, n) \in Seq(Fp)
  OBVIOUS
<1> DEFINE a == SubSeq(s, 1, n + 1)
           x == SubSeq(s, 1, n)
           e == s[n + 1]
<1>2. a \in Seq(Fp) /\ Len(a) = n + 1 /\ \A i \in 1..n + 1 : a[i] = s[i]
  OBVIOUS
<1>3. x \in Seq(Fp) /\ e \in Fp /\ Len(x) = n /\ \A i \in 1..n : x[i] = s[i]
  <2>1. Len(x) = n /\ x \in Seq(Fp)
    OBVIOUS
  <2>2. \A i \in 1..n : x[i] = s[i]
    OBVIOUS
  <2>3. QED BY <2>1, <2>2, <1>1
<1>4. e = s[n + 1]
  OBVIOUS
<1> HIDE DEF a, x, e
<1>5. Append(x, e) \in Seq(Fp) /\ Len(Append(x, e)) = n + 1 /\ \A i \in 1..n + 1 : Append(x, e)[i] = s[i]
  BY <1>3, <1>4
<1>6. a = Append(x, e)
  BY <1>2, <1>5, SeqEqual
<1>7. Append(x, e) = x \o <<e>>
  BY <1>3, AppendIsConcat
<1>8. QED BY <1>1, <1>6, <1>7 DEF a, x, e

-----------------------------------------------------------------------------
(* Segments: the invariant *)

\* The reader and the open segment.
ReadInv ==
    /\ tool \in {"duplicate", "pslice", "cslice", "pair"}
    /\ reading \in BOOLEAN /\ (reading => tool \in {"pslice", "cslice"})
    /\ input \in Seq(Fp) /\ lines \in 0..Len(input)
    /\ tool = "cslice" => input # <<>>
    /\ sq \in Seq(Fp) /\ sq_size = Bytes(sq) /\ sq_size <= SEG_SIZE
    /\ seg_count \in Nat /\ slice_count \in Nat
    /\ ~reading => sq = <<>>
    /\ reading /\ lines = 0 => seg_count = 0
    /\ reading /\ lines > 0 => sq # <<>>
    /\ chunk_size \in [Fp -> Nat]

\* The segments written, and that the last one could not take the chunk that
\* opened the current one.
CutInv ==
    /\ \A i \in 0..seg_count - 1 : i \in DOMAIN seg_db /\ seg_db[i] \in Seq(Fp)
    /\ SegmentsAreTheFile
    /\ seg_count > 0 /\ sq # <<>> => Bytes(Written[seg_count]) + size[sq[1]] > SEG_SIZE

\* What cslice keeps of its segments.
CountInv ==
    tool = "cslice" =>
        /\ DOMAIN count_map = 0..seg_count - 1
        /\ \A i \in DOMAIN count_map : count_map[i] \subseteq Fp /\ count_map[i] # {}
        /\ ~reading => seg_count > 0

\* The slices, of pslice and of cslice.
ClassInv ==
    /\ Stored(slice_db) /\ Stored(p_slice_db)
    /\ tool = "duplicate" => slice_db = <<>>
    /\ tool = "pslice" => /\ DOMAIN slice_db \subseteq Fp
                          /\ \A c \in DOMAIN slice_db : slice_db[c] \in Seq(0..seg_count - 1)
    /\ SlicesAreClasses

\* The inductive invariant of pslice and cslice.
SegInv == ReadInv /\ CutInv /\ CountInv /\ ClassInv

\* The open segment is written: the segments of the file and the limit.
LEMMA WrittenGrows ==
    ASSUME ReadInv, CutInv, seg_db' = Store(seg_db, seg_count, sq), seg_count' = seg_count + 1
    PROVE  /\ Written \in Seq(Seq(Fp)) /\ Len(Written) = seg_count
           /\ Written' = Append(Written, sq)
           /\ \A i \in 0..seg_count' - 1 : i \in DOMAIN seg_db' /\ seg_db'[i] \in Seq(Fp)
           /\ \A i \in 0..seg_count - 1 : seg_db'[i] = seg_db[i]
           /\ seg_db'[seg_count] = sq
<1> DEFINE n == seg_count
<1>1. n \in Nat /\ sq \in Seq(Fp) /\ n' = n + 1
  BY DEF ReadInv
<1>2. \A i \in 0..n - 1 : i \in DOMAIN seg_db /\ seg_db[i] \in Seq(Fp)
  BY DEF CutInv
<1>3. ASSUME NEW i \in 0..n - 1 PROVE seg_db'[i] = seg_db[i] /\ i \in DOMAIN seg_db'
  <2>1. i # n /\ i \in DOMAIN seg_db
    BY <1>1, <1>2
  <2>2. QED BY <2>1 DEF Store
<1>4. seg_db'[n] = sq /\ n \in DOMAIN seg_db'
  BY DEF Store
<1>5. ASSUME NEW i \in 0..n' - 1 PROVE i \in DOMAIN seg_db' /\ seg_db'[i] \in Seq(Fp)
  <2>1. i \in 0..n - 1 \/ i = n
    BY <1>1
  <2>2. QED BY <2>1, <1>1, <1>2, <1>3, <1>4
<1>6. ASSUME NEW i \in 1..n PROVE seg_db[i - 1] \in Seq(Fp) /\ seg_db'[i - 1] = seg_db[i - 1]
  <2> DEFINE j == i - 1
  <2>1. j \in 0..n - 1
    BY <1>1
  <2> HIDE DEF j
  <2>2. seg_db[j] \in Seq(Fp) /\ seg_db'[j] = seg_db[j]
    BY <2>1, <1>2, <1>3
  <2>3. QED BY <2>2 DEF j
<1>7. Written \in [1..n -> Seq(Fp)] /\ \A i \in 1..n : Written[i] = seg_db[i - 1]
  BY <1>6 DEF Written
<1>8. Written \in Seq(Seq(Fp)) /\ Len(Written) = n
  <2> HIDE DEF n
  <2>1. QED BY <1>1, <1>7
<1>9. Written' = [i \in 1..n + 1 |-> seg_db'[i - 1]]
  BY <1>1 DEF Written
<1>10. ASSUME NEW i \in 1..n + 1 PROVE seg_db'[i - 1] = Append(Written, sq)[i]
  <2>1. CASE i = n + 1
    <3>1. Append(Written, sq)[i] = sq
      BY <1>8, <2>1, <1>1
    <3>2. i - 1 = n
      BY <2>1, <1>1
    <3>3. QED BY <3>1, <3>2, <1>4
  <2>2. CASE i # n + 1
    <3>1. i \in 1..n
      BY <2>2, <1>1
    <3>2. Append(Written, sq)[i] = Written[i]
      BY <1>8, <3>1, <1>1
    <3>3. QED BY <3>1, <3>2, <1>6, <1>7
  <2>3. QED BY <2>1, <2>2
<1>11. Written' = Append(Written, sq)
  <2> DEFINE a == Append(Written, sq)
  <2>1. a = [i \in 1..n + 1 |-> a[i]]
    <3>1. a \in Seq(Seq(Fp)) /\ Len(a) = n + 1
      BY <1>1, <1>8
    <3> HIDE DEF a, n
    <3>2. QED BY <3>1
  <2> HIDE DEF a
  <2>2. \A i \in 1..n + 1 : seg_db'[i - 1] = a[i]
    BY <1>10 DEF a
  <2>3. QED BY <2>1, <2>2, <1>9 DEF a
<1>12. QED BY <1>3, <1>4, <1>5, <1>8, <1>11

\* One more segment is within the limit and was cut as late as possible.
LEMMA CutsKept ==
    ASSUME NEW w \in Seq(Seq(Fp)), NEW s \in Seq(Fp), Bytes(s) <= SEG_SIZE,
           \A i \in 1..Len(w) : Bytes(w[i]) <= SEG_SIZE,
           \A i \in 1..Len(w) - 1 : Bytes(w[i]) + size[w[i + 1][1]] > SEG_SIZE,
           Len(w) > 0 => Bytes(w[Len(w)]) + size[s[1]] > SEG_SIZE
    PROVE  LET a == Append(w, s)
           IN  /\ \A i \in 1..Len(w) + 1 : Bytes(a[i]) <= SEG_SIZE
               /\ \A i \in 1..Len(w) : Bytes(a[i]) + size[a[i + 1][1]] > SEG_SIZE
               /\ a[Len(w) + 1] = s
<1> DEFINE a == Append(w, s)
           n == Len(w)
<1>1. n \in Nat /\ a[n + 1] = s /\ \A i \in 1..n : a[i] = w[i]
  OBVIOUS
<1> HIDE DEF a, n
<1>2. ASSUME NEW i \in 1..n + 1 PROVE Bytes(a[i]) <= SEG_SIZE
  <2>1. i \in 1..n \/ i = n + 1
    BY <1>1
  <2>2. QED BY <2>1, <1>1 DEF n
<1>3. ASSUME NEW i \in 1..n PROVE Bytes(a[i]) + size[a[i + 1][1]] > SEG_SIZE
  <2>1. CASE i = n
    <3>1. a[i + 1] = s /\ a[i] = w[n] /\ n > 0
      BY <2>1, <1>1
    <3>2. Bytes(w[n]) + size[s[1]] > SEG_SIZE
      BY <3>1 DEF n
    <3>3. QED BY <3>1, <3>2
  <2>2. CASE i # n
    <3>1. i \in 1..n - 1 /\ i + 1 \in 1..n
      BY <2>2, <1>1
    <3>2. a[i] = w[i] /\ a[i + 1] = w[i + 1]
      BY <3>1, <1>1
    <3>3. Bytes(w[i]) + size[w[i + 1][1]] > SEG_SIZE
      BY <3>1 DEF n
    <3>4. QED BY <3>2, <3>3
  <2>3. QED BY <2>1, <2>2
<1>4. QED BY <1>1, <1>2, <1>3 DEF a, n

\* The open segment is written, and the next one is empty or opens with a chunk
\* that did not fit.
LEMMA CutStep ==
    ASSUME ReadInv, CutInv, seg_db' = Store(seg_db, seg_count, sq), seg_count' = seg_count + 1,
           seg_count > 0 => sq # <<>>, NEW next \in Seq(Fp), sq' = next, input' = input,
           NEW l, lines' = l, SubSeq(input, 1, l) = SubSeq(input, 1, lines) \o next,
           next # <<>> => sq_size + size[next[1]] > SEG_SIZE
    PROVE  CutInv'
<1>1. /\ Written \in Seq(Seq(Fp)) /\ Len(Written) = seg_count
      /\ Written' = Append(Written, sq)
      /\ \A i \in 0..seg_count' - 1 : i \in DOMAIN seg_db' /\ seg_db'[i] \in Seq(Fp)
  BY WrittenGrows
<1>2. seg_count \in Nat /\ sq \in Seq(Fp) /\ sq_size = Bytes(sq) /\ sq_size <= SEG_SIZE
  BY DEF ReadInv
<1>3. PICK w, a, s : w = Written /\ a = Written' /\ s = sq
  OBVIOUS
<1>4. PICK n \in Nat : n = seg_count
  BY <1>2
<1>5. w \in Seq(Seq(Fp)) /\ Len(w) = n /\ s \in Seq(Fp) /\ a = Append(w, s)
  BY <1>1, <1>2, <1>3, <1>4
<1>6. /\ \A i \in 1..n : Bytes(w[i]) <= SEG_SIZE
      /\ \A i \in 1..n - 1 : Bytes(w[i]) + size[w[i + 1][1]] > SEG_SIZE
      /\ n > 0 => Bytes(w[n]) + size[s[1]] > SEG_SIZE
  BY <1>3, <1>4 DEF CutInv, SegmentsAreTheFile
<1>7. /\ \A i \in 1..n + 1 : Bytes(a[i]) <= SEG_SIZE
      /\ \A i \in 1..n : Bytes(a[i]) + size[a[i + 1][1]] > SEG_SIZE
      /\ a[n + 1] = s
  <2>1. Bytes(s) <= SEG_SIZE
    BY <1>2, <1>3
  <2>2. QED BY <2>1, <1>5, <1>6, CutsKept
<1>8. FlattenSeq(a) \o next = SubSeq(input, 1, l)
  <2>1. FlattenSeq(a) = FlattenSeq(w) \o s
    BY <1>5, FlattenAppend
  <2>2. FlattenSeq(w) \o s = SubSeq(input, 1, lines)
    BY <1>3 DEF CutInv, SegmentsAreTheFile
  <2>3. QED BY <2>1, <2>2
<1>9. seg_count' = n + 1 /\ n + 1 - 1 = n
  BY <1>4
<1>10. SegmentsAreTheFile'
  <2>1. SegmentsAreTheFile' <=>
          /\ FlattenSeq(Written') \o sq' = SubSeq(input', 1, lines')
          /\ \A i \in 1..seg_count' : Bytes(Written'[i]) <= SEG_SIZE
          /\ \A i \in 1..seg_count' - 1 : Bytes(Written'[i]) + size[Written'[i + 1][1]] > SEG_SIZE
    BY DEF SegmentsAreTheFile
  <2>2. Written' = a /\ sq' = next /\ input' = input /\ lines' = l
    BY <1>3
  <2>3. \A i \in 1..seg_count' : Bytes(Written'[i]) <= SEG_SIZE
    BY <1>7, <1>9, <2>2
  <2>4. \A i \in 1..seg_count' - 1 : Bytes(Written'[i]) + size[Written'[i + 1][1]] > SEG_SIZE
    BY <1>7, <1>9, <2>2
  <2>5. QED BY <2>1, <2>2, <2>3, <2>4, <1>8
<1>11. seg_count' > 0 /\ sq' # <<>> => Bytes(Written'[seg_count']) + size[sq'[1]] > SEG_SIZE
  <2>1. Written'[seg_count'] = s
    BY <1>3, <1>7, <1>9
  <2>2. QED BY <2>1, <1>2, <1>3
<1>12. QED BY <1>1, <1>10, <1>11 DEF CutInv

\* A chunk joins the open segment.
LEMMA CutGrow ==
    ASSUME ReadInv, CutInv, reading, lines < Len(input), NEW c, c = input[lines + 1],
           sq' = Append(sq, c), lines' = lines + 1, UNCHANGED <<input, seg_db, seg_count>>
    PROVE  CutInv'
<1>1. /\ input \in Seq(Fp) /\ lines \in Nat /\ sq \in Seq(Fp) /\ seg_count \in Nat
      /\ (lines = 0 => seg_count = 0) /\ (lines > 0 => sq # <<>>)
  BY DEF ReadInv
<1>2. /\ c \in Fp /\ SubSeq(input, 1, lines) \in Seq(Fp)
      /\ SubSeq(input, 1, lines + 1) = SubSeq(input, 1, lines) \o <<c>>
  BY <1>1, LinesAppend
<1>3. Written' = Written
  BY DEF Written
<1>4. Written \in Seq(Seq(Fp))
  <2>1. ASSUME NEW i \in 1..seg_count PROVE seg_db[i - 1] \in Seq(Fp)
    <3>1. i - 1 \in 0..seg_count - 1
      BY <1>1
    <3>2. QED BY <3>1 DEF CutInv
  <2>2. QED BY <2>1, <1>1 DEF Written
<1>5. FlattenSeq(Written) \in Seq(Fp)
  BY <1>1, <1>4, FlattenAppend
<1>6. FlattenSeq(Written) \o Append(sq, c) = SubSeq(input, 1, lines + 1)
  <2>1. PICK f : f = FlattenSeq(Written)
    OBVIOUS
  <2>2. f \in Seq(Fp) /\ sq \in Seq(Fp) /\ <<c>> \in Seq(Fp)
    BY <1>1, <1>2, <1>5, <2>1
  <2>3. f \o sq = SubSeq(input, 1, lines)
    BY <2>1 DEF CutInv, SegmentsAreTheFile
  <2>4. Append(sq, c) = sq \o <<c>>
    BY <1>1, <1>2, AppendIsConcat
  <2>5. (f \o sq) \o <<c>> = f \o (sq \o <<c>>)
    BY <2>2, ConcatAssociative
  <2>6. QED BY <1>2, <2>1, <2>3, <2>4, <2>5
<1>7. SegmentsAreTheFile'
  BY <1>3, <1>6 DEF CutInv, SegmentsAreTheFile
<1>8. seg_count' > 0 => Bytes(Written'[seg_count']) + size[sq'[1]] > SEG_SIZE
  <2>1. SUFFICES ASSUME seg_count > 0 PROVE Bytes(Written[seg_count]) + size[Append(sq, c)[1]] > SEG_SIZE
    BY <1>3
  <2>2. sq # <<>>
    BY <1>1, <2>1
  <2>3. Append(sq, c)[1] = sq[1]
    BY <1>1, <1>2, <2>2
  <2>4. Bytes(Written[seg_count]) + size[sq[1]] > SEG_SIZE
    BY <2>1, <2>2 DEF CutInv
  <2>5. QED BY <2>3, <2>4
<1>9. QED BY <1>7, <1>8 DEF CutInv

-----------------------------------------------------------------------------
(* Segments: the slices *)

\* The number of times that i is in the list s.
Times(s, i) == Cardinality({n \in DOMAIN s : s[n] = i})

\* SeenCounts, its second part alone.
LEMMA SeenNext ==
    ASSUME NEW t, NEW c, NEW p \in Nat
    PROVE  Seen(t, c, p + 1) = IF t[p + 1] = c THEN Seen(t, c, p) + 1 ELSE Seen(t, c, p)
  BY SeenCounts

\* The number grows by one when i is appended.
LEMMA TimesAppend ==
    ASSUME NEW s \in Seq(Nat), NEW e \in Nat, NEW i \in Nat
    PROVE  /\ Times(s, i) \in Nat /\ Times(<<>>, i) = 0
           /\ Times(Append(s, e), i) = IF e = i THEN Times(s, i) + 1 ELSE Times(s, i)
           /\ (\A n \in DOMAIN s : s[n] # i) => Times(s, i) = 0
<1> DEFINE a == Append(s, e)
           n == Len(s)
<1>1. /\ n \in Nat /\ DOMAIN s = 1..n /\ DOMAIN a = 1..n + 1 /\ a[n + 1] = e
      /\ \A l \in 1..n : a[l] = s[l]
  OBVIOUS
<1> HIDE DEF a, n
<1>2. Times(s, i) = Seen(s, i, n) /\ Times(a, i) = Seen(a, i, n + 1)
  BY <1>1 DEF Times, Seen
<1>3. Seen(a, i, n) = Seen(s, i, n)
  <2>1. {l \in 1..n : a[l] = i} = {l \in 1..n : s[l] = i}
    BY <1>1
  <2>2. QED BY <2>1 DEF Seen
<1>4. /\ Seen(a, i, n) \in Nat
      /\ Seen(a, i, n + 1) = IF a[n + 1] = i THEN Seen(a, i, n) + 1 ELSE Seen(a, i, n)
  <2>1. ASSUME NEW x, NEW p \in Nat
        PROVE  Seen(a, x, p + 1) = IF a[p + 1] = x THEN Seen(a, x, p) + 1 ELSE Seen(a, x, p)
    BY SeenNext
  <2>2. ASSUME NEW x, NEW p \in Nat PROVE Seen(a, x, p) \in Nat
    BY SeenCounts
  <2>3. QED BY <2>1, <2>2, <1>1
<1>5. Times(<<>>, i) = 0
  <2>1. {l \in DOMAIN <<>> : <<>>[l] = i} = {}
    OBVIOUS
  <2>2. QED BY <2>1, FS_EmptySet DEF Times
<1>6. ASSUME \A l \in DOMAIN s : s[l] # i PROVE Times(s, i) = 0
  <2>1. {l \in DOMAIN s : s[l] = i} = {}
    BY <1>6
  <2>2. QED BY <2>1, FS_EmptySet DEF Times
<1>7. QED BY <1>1, <1>2, <1>3, <1>4, <1>5, <1>6 DEF a

\* A segment with chunks has one minimum.
LEMMA CoreIsOne ==
    ASSUME NEW seg \in Seq(Fp), NEW c \in Core(seg)
    PROVE  c \in Fp /\ (seg # <<>> => Core(seg) = {c})
<1>1. Range(seg) \subseteq Fp
  BY DEF Range
<1>2. c \in Fp
  BY <1>1 DEF Core
<1>3. ASSUME seg # <<>>, NEW e \in Core(seg) PROVE e = c
  <2>1. e \in Range(seg) /\ c \in Range(seg) /\ e <= c /\ c <= e
    BY <1>3 DEF Core
  <2>2. e \in Nat /\ c \in Nat
    BY <2>1, <1>1, SizeAssumption
  <2>3. QED BY <2>1, <2>2
<1>4. QED BY <1>2, <1>3

\* pslice writes the open segment: it joins the slice of its minimum.
LEMMA ClassStep ==
    ASSUME ReadInv, CutInv, ClassInv, tool = "pslice", tool' = tool, input' = input,
           input # <<>> => sq # <<>>,
           JoinSlice(sq), seg_db' = Store(seg_db, seg_count, sq), seg_count' = seg_count + 1,
           UNCHANGED p_slice_db
    PROVE  ClassInv' /\ slice_count' \in Nat
<1>1. PICK core \in Core(sq) :
        /\ slice_db' = Store(slice_db, core, Append(Slice(core), seg_count))
        /\ slice_count' = IF core \in DOMAIN slice_db THEN slice_count ELSE slice_count + 1
  BY DEF JoinSlice, Slice
<1>2. PICK n \in Nat : n = seg_count
  BY DEF ReadInv
<1>3. sq \in Seq(Fp) /\ slice_count \in Nat
  BY DEF ReadInv
<1>4. core \in Fp /\ (sq # <<>> => Core(sq) = {core})
  BY <1>3, CoreIsOne
<1>5. DOMAIN slice_db \subseteq Fp /\ \A c \in DOMAIN slice_db : slice_db[c] \in Seq(0..n - 1)
  BY <1>2 DEF ClassInv
<1>6. \A c \in Fp : Slice(c) \in Seq(0..n - 1)
  <2>1. <<>> \in Seq(0..n - 1)
    OBVIOUS
  <2>2. QED BY <2>1, <1>5 DEF Slice, Lookup
<1>7. /\ DOMAIN slice_db' = DOMAIN slice_db \cup {core}
      /\ slice_db'[core] = Append(Slice(core), n)
      /\ \A c \in DOMAIN slice_db : c # core => slice_db'[c] = slice_db[c]
  BY <1>1, <1>2 DEF Store
<1>8. \A c : Slice(c)' = IF c = core THEN Append(Slice(core), n) ELSE Slice(c)
  BY <1>7 DEF Slice, Lookup
<1>9. ASSUME NEW s \in Seq(0..n - 1) PROVE s \in Seq(0..n) /\ Append(s, n) \in Seq(0..n) /\ s \in Seq(Nat)
  <2>1. 0..n - 1 \subseteq 0..n /\ n \in 0..n /\ 0..n - 1 \subseteq Nat
    OBVIOUS
  <2>2. s \in Seq(0..n)
    BY <2>1
  <2>3. Append(s, n) \in Seq(0..n)
    BY <2>1, <2>2
  <2>4. QED BY <2>1, <2>2, <2>3
<1>10. ASSUME NEW c \in DOMAIN slice_db' PROVE slice_db'[c] \in Seq(0..n)
  <2>1. CASE c = core
    <3>1. Slice(core) \in Seq(0..n - 1)
      BY <1>4, <1>6
    <3>2. QED BY <3>1, <2>1, <1>7, <1>9
  <2>2. CASE c # core
    <3>1. c \in DOMAIN slice_db /\ slice_db'[c] = slice_db[c]
      BY <2>2, <1>7
    <3>2. QED BY <3>1, <1>5, <1>9
  <2>3. QED BY <2>1, <2>2
<1>11. DOMAIN slice_db' \subseteq Fp
  BY <1>4, <1>5, <1>7
<1>12. Stored(slice_db')
  <2>1. IsFiniteSet(DOMAIN slice_db')
    BY <1>11, SizeAssumption, FS_Subset
  <2>2. \A s \in Seq(0..n) : s \in Seq(Nat)
    <3>1. 0..n \subseteq Nat
      OBVIOUS
    <3>2. QED BY <3>1
  <2>3. QED BY <2>1, <2>2, <1>10 DEF Stored
<1>13. IsFiniteSet(DOMAIN slice_db) /\ Cardinality(DOMAIN slice_db) \in Nat
  BY <1>5, SizeAssumption, FS_Subset, FS_CardinalityType
<1>14. Cardinality(DOMAIN slice_db')
         = IF core \in DOMAIN slice_db THEN Cardinality(DOMAIN slice_db) ELSE Cardinality(DOMAIN slice_db) + 1
  BY <1>7, <1>13, FS_AddElement
<1>15. ASSUME input # <<>> PROVE slice_count' = Cardinality(DOMAIN slice_db')
  <2>1. slice_count = Cardinality(DOMAIN slice_db)
    BY <1>15 DEF ClassInv, SlicesAreClasses
  <2>2. QED BY <2>1, <1>1, <1>14
<1>16. ASSUME input # <<>>, NEW c \in Fp, NEW i \in 0..n
       PROVE  Times(Slice(c)', i) = IF c \in Core(seg_db'[i]) THEN 1 ELSE 0
  <2>1. Slice(c) \in Seq(0..n - 1) /\ Slice(c) \in Seq(Nat) /\ i \in Nat
    BY <1>6, <1>9
  <2>2. /\ seg_db'[n] = sq
        /\ \A j \in 0..n - 1 : seg_db'[j] = seg_db[j]
    BY <1>2, WrittenGrows
  <2>3. Core(sq) = {core}
    BY <1>4, <1>16
  <2>4. PICK s : s = Slice(c)
    OBVIOUS
  <2>5. s \in Seq(Nat) /\ Slice(c)' = IF c = core THEN Append(s, n) ELSE s
    BY <2>1, <2>4, <1>8
  <2>6. /\ Times(s, i) \in Nat
        /\ Times(Append(s, n), i) = IF n = i THEN Times(s, i) + 1 ELSE Times(s, i)
        /\ (\A l \in DOMAIN s : s[l] # i) => Times(s, i) = 0
    BY <2>1, <2>5, TimesAppend
  <2>7. CASE i = n
    <3>1. \A l \in DOMAIN s : s[l] # i
      <4>1. \A l \in DOMAIN s : s[l] \in 0..n - 1
        BY <2>1, <2>4
      <4>2. n \notin 0..n - 1
        OBVIOUS
      <4>3. QED BY <4>1, <4>2, <2>7
    <3>2. Times(s, i) = 0 /\ Times(Append(s, n), i) = 1
      BY <3>1, <2>6, <2>7
    <3>3. c \in Core(seg_db'[i]) <=> c = core
      BY <2>2, <2>3, <2>7
    <3>4. QED BY <3>2, <3>3, <2>5
  <2>8. CASE i # n
    <3>1. i \in 0..n - 1
      BY <2>8
    <3>2. Times(Slice(c)', i) = Times(s, i)
      BY <2>5, <2>6, <2>8
    <3>3. Times(Slice(c), i) = IF c \in Core(seg_db[i]) THEN 1 ELSE 0
      BY <1>16, <1>2, <3>1 DEF ClassInv, SlicesAreClasses, Times
    <3>4. seg_db'[i] = seg_db[i]
      BY <2>2, <3>1
    <3>5. QED BY <3>2, <3>3, <3>4, <2>4
  <2>9. QED BY <2>7, <2>8
<1>17. seg_count' = n + 1 /\ 0..seg_count' - 1 = 0..n
  BY <1>2
<1>18. SlicesAreClasses'
  <2>1. \A i \in 0..seg_count' - 1, c \in Fp : input # <<>> =>
           Cardinality({l \in DOMAIN Slice(c)' : Slice(c)'[l] = i}) = IF c \in Core(seg_db'[i]) THEN 1 ELSE 0
    BY <1>16, <1>17 DEF Times
  <2>2. QED BY <2>1, <1>15 DEF SlicesAreClasses
<1>19. QED BY <1>1, <1>3, <1>10, <1>11, <1>12, <1>17, <1>18 DEF ClassInv

\* The empty segment has no bytes.
LEMMA BytesEmpty == Bytes(<<>>) = 0
<1> DEFINE e == [i \in {} |-> size[<<>>[i]]]
<1>1. Bytes(<<>>) = SumFunctionOnSet(e, {})
  BY DEF Bytes, SumFunction
<1> HIDE DEF e
<1>2. QED BY <1>1, SumEmpty

\* The open segment is written; only then do the sizes, the sets of chunks and
\* the slices change.
LEMMA ProcessInv ==
    ASSUME SegInv, reading, ProcessSeg(sq), lines > 0 \/ input = <<>>,
           UNCHANGED <<tool, input, p_slice_db>>
    PROVE  /\ chunk_size' \in [Fp -> Nat] /\ slice_count' \in Nat
           /\ CountInv' /\ ClassInv'
<1>1. /\ chunk_size' = [c \in Fp |-> IF c \in Range(sq) THEN size[c] ELSE chunk_size[c]]
      /\ seg_db' = Store(seg_db, seg_count, sq)
      /\ IF tool = "pslice" THEN JoinSlice(sq) /\ UNCHANGED count_map
                            ELSE CountSeg(sq) /\ UNCHANGED <<slice_db, slice_count>>
      /\ seg_count' = seg_count + 1
  BY DEF ProcessSeg
<1>2. ReadInv /\ CutInv /\ CountInv /\ ClassInv /\ tool' = tool /\ input' = input
      /\ p_slice_db' = p_slice_db
  BY DEF SegInv
<1>3. /\ sq \in Seq(Fp) /\ seg_count \in Nat /\ slice_count \in Nat /\ chunk_size \in [Fp -> Nat]
      /\ tool \in {"pslice", "cslice"}
      /\ input # <<>> => sq # <<>>
      /\ tool = "cslice" => input # <<>>
  BY <1>2 DEF ReadInv
<1>4. chunk_size' \in [Fp -> Nat]
  <2>1. \A c \in Fp : size[c] \in Nat
    BY SizeAssumption
  <2>2. QED BY <2>1, <1>1, <1>3
<1>5. CASE tool = "pslice"
  <2>1. ClassInv' /\ slice_count' \in Nat
    BY <1>1, <1>2, <1>3, <1>5, ClassStep
  <2>2. CountInv'
    BY <1>2, <1>5 DEF CountInv
  <2>3. QED BY <2>1, <2>2, <1>4
<1>6. CASE tool = "cslice"
  <2>1. count_map' = Store(count_map, seg_count, Range(sq)) /\ slice_db' = slice_db /\ slice_count' = slice_count
    BY <1>1, <1>6 DEF CountSeg
  <2>2. ClassInv'
    BY <2>1, <1>2, <1>6 DEF ClassInv, SlicesAreClasses, Stored
  <2>3. Range(sq) \subseteq Fp /\ Range(sq) # {}
    <3>1. sq # <<>>
      BY <1>3, <1>6
    <3>2. 1 \in DOMAIN sq
      BY <3>1, <1>3
    <3>3. QED BY <3>2, <1>3 DEF Range
  <2>4. /\ DOMAIN count_map = 0..seg_count - 1
        /\ \A i \in DOMAIN count_map : count_map[i] \subseteq Fp /\ count_map[i] # {}
    BY <1>2, <1>6 DEF CountInv
  <2>5. DOMAIN count_map' = 0..seg_count' - 1
    <3>1. DOMAIN count_map' = DOMAIN count_map \cup {seg_count}
      BY <2>1 DEF Store
    <3>2. QED BY <3>1, <2>4, <1>1, <1>3
  <2>6. ASSUME NEW i \in DOMAIN count_map' PROVE count_map'[i] \subseteq Fp /\ count_map'[i] # {}
    <3>1. CASE i = seg_count
      BY <3>1, <2>1, <2>3 DEF Store
    <3>2. CASE i # seg_count
      <4>1. i \in DOMAIN count_map /\ count_map'[i] = count_map[i]
        BY <3>2, <2>1 DEF Store
      <4>2. QED BY <4>1, <2>4
    <3>3. QED BY <3>1, <3>2
  <2>7. seg_count' > 0
    BY <1>1, <1>3
  <2>8. CountInv'
    BY <2>5, <2>6, <2>7 DEF CountInv
  <2>9. QED BY <2>1, <2>2, <2>8, <1>3, <1>4
<1>7. QED BY <1>3, <1>5, <1>6

\* A line that closes a segment, a line that does not, and the end of the file.
LEMMA SegNextInv ==
    ASSUME SegInv, SegNext, UNCHANGED p_slice_db
    PROVE  SegInv'
<1>1. ReadInv /\ CutInv /\ CountInv /\ ClassInv
  BY DEF SegInv
<1>2. /\ input \in Seq(Fp) /\ lines \in 0..Len(input) /\ Len(input) \in Nat /\ lines \in Nat
      /\ sq \in Seq(Fp) /\ sq_size = Bytes(sq) /\ sq_size <= SEG_SIZE
      /\ seg_count \in Nat /\ slice_count \in Nat /\ chunk_size \in [Fp -> Nat]
      /\ reading /\ tool \in {"pslice", "cslice"} /\ (tool = "cslice" => input # <<>>)
      /\ (lines = 0 => seg_count = 0) /\ (lines > 0 => sq # <<>>)
  BY <1>1 DEF ReadInv, SegNext, Line, EndOfFile
<1>3. CASE Line
  <2> DEFINE c == input[lines + 1]
  <2>1. /\ lines < Len(input) /\ lines' = lines + 1 /\ UNCHANGED <<tool, input, reading>>
    BY <1>3 DEF Line
  <2>2. c \in Fp /\ SubSeq(input, 1, lines + 1) = SubSeq(input, 1, lines) \o <<c>>
    BY <1>2, <2>1, LinesAppend
  <2>3. /\ Bytes(sq) \in Nat /\ Bytes(<<>>) = 0 /\ size[c] \in Nat /\ size[c] <= SEG_SIZE
        /\ Bytes(Append(sq, c)) = Bytes(sq) + size[c]
    BY <1>2, <2>2, BytesAppend
  <2>4. CASE Cuts(c)
    <3>1. ProcessSeg(sq) /\ sq' = <<c>> /\ sq_size' = size[c]
      BY <1>3, <2>4 DEF Line
    <3>2. sq_size + size[c] > SEG_SIZE
      BY <2>4 DEF Cuts
    <3>3. sq # <<>> /\ lines > 0
      <4>1. SEG_SIZE \in Nat
        BY SizeAssumption
      <4>2. Bytes(sq) # 0
        BY <4>1, <3>2, <2>3, <1>2
      <4>3. sq # <<>>
        BY <4>2, <2>3
      <4>4. lines # 0
        <5>1. SUFFICES ASSUME lines = 0 PROVE sq = <<>>
          BY <4>3
        <5>2. seg_count = 0
          BY <5>1, <1>2
        <5>3. Written = <<>>
          BY <5>2 DEF Written
        <5>4. FlattenSeq(<<>>) = <<>>
          BY DEF FlattenSeq
        <5>5. <<>> \o sq = SubSeq(input, 1, 0)
          BY <1>1, <5>1, <5>3, <5>4 DEF CutInv, SegmentsAreTheFile
        <5>6. SubSeq(input, 1, 0) = <<>>
          BY <1>2
        <5>7. QED BY <5>5, <5>6, <1>2
      <4>5. QED BY <4>3, <4>4, <1>2
    <3>4. chunk_size' \in [Fp -> Nat] /\ slice_count' \in Nat /\ CountInv' /\ ClassInv'
      BY <1>2, <2>1, <3>1, <3>3, ProcessInv
    <3>5. seg_db' = Store(seg_db, seg_count, sq) /\ seg_count' = seg_count + 1
      BY <3>1 DEF ProcessSeg
    <3>6. CutInv'
      <4> DEFINE s == <<c>>
      <4>1. s \in Seq(Fp) /\ s # <<>> /\ s[1] = c
        BY <2>2
      <4>2. sq' = s /\ SubSeq(input, 1, lines + 1) = SubSeq(input, 1, lines) \o s
        BY <2>2, <3>1
      <4> HIDE DEF s, c
      <4>3. QED BY <4>1, <4>2, <3>2, <3>3, <3>5, <2>1, <1>1, CutStep
    <3>7. Bytes(<<c>>) = size[c]
      <4>1. <<>> \in Seq(Fp) /\ Append(<<>>, c) = <<c>>
        OBVIOUS
      <4>2. Bytes(Append(<<>>, c)) = Bytes(<<>>) + size[c]
        BY <4>1, <2>2, BytesAppend
      <4>3. QED BY <4>1, <4>2, <2>3
    <3>8. ReadInv'
      <4>1. sq' \in Seq(Fp) /\ sq' # <<>> /\ sq_size' = Bytes(sq') /\ sq_size' <= SEG_SIZE
        BY <2>2, <2>3, <3>1, <3>7
      <4>2. lines' \in 0..Len(input') /\ lines' # 0 /\ seg_count' \in Nat
        BY <1>2, <2>1, <3>5
      <4>3. QED BY <4>1, <4>2, <3>4, <2>1, <1>1, <1>2 DEF ReadInv
    <3>9. QED BY <3>4, <3>6, <3>8 DEF SegInv
  <2>5. CASE ~Cuts(c)
    <3>1. sq' = Append(sq, c) /\ sq_size' = sq_size + size[c] /\ UNCHANGED segs
      BY <1>3, <2>5 DEF Line
    <3>2. sq_size + size[c] <= SEG_SIZE
      <4>1. SEG_SIZE \in Nat
        BY SizeAssumption
      <4>2. QED BY <4>1, <2>3, <2>5, <1>2 DEF Cuts
    <3>3. UNCHANGED <<seg_db, seg_count, slice_db, slice_count, count_map, chunk_size>>
      BY <3>1 DEF segs
    <3>4. CutInv'
      <4> HIDE DEF c
      <4>1. c = input[lines + 1]
        BY DEF c
      <4>2. QED BY <4>1, <3>1, <3>3, <2>1, <1>1, <1>2, CutGrow
    <3>5. CountInv' /\ ClassInv'
      BY <1>1, <2>1, <3>3 DEF CountInv, ClassInv, SlicesAreClasses, Slice, Stored
    <3>6. ReadInv'
      <4>1. sq' \in Seq(Fp) /\ sq' # <<>>
        BY <1>2, <2>2, <3>1
      <4>2. sq_size' = Bytes(sq') /\ sq_size' <= SEG_SIZE
        BY <1>2, <2>3, <3>1, <3>2
      <4>3. lines' \in 0..Len(input') /\ lines' # 0
        BY <1>2, <2>1
      <4>4. QED BY <4>1, <4>2, <4>3, <3>3, <2>1, <1>1, <1>2 DEF ReadInv
    <3>7. QED BY <3>4, <3>5, <3>6 DEF SegInv
  <2>6. QED BY <2>4, <2>5
<1>4. CASE EndOfFile
  <2>1. /\ lines = Len(input) /\ ProcessSeg(sq) /\ sq' = <<>> /\ sq_size' = 0 /\ reading' = FALSE
        /\ UNCHANGED <<tool, input, lines>>
    BY <1>4 DEF EndOfFile
  <2>2. lines > 0 \/ input = <<>>
    BY <1>2, <2>1
  <2>3. chunk_size' \in [Fp -> Nat] /\ slice_count' \in Nat /\ CountInv' /\ ClassInv'
    BY <1>2, <2>1, <2>2, ProcessInv
  <2>4. seg_db' = Store(seg_db, seg_count, sq) /\ seg_count' = seg_count + 1
    BY <2>1 DEF ProcessSeg
  <2>5. CutInv'
    <3>1. seg_count > 0 => sq # <<>>
      BY <1>2
    <3>2. SubSeq(input, 1, lines) = SubSeq(input, 1, lines) \o <<>>
      <4>1. SubSeq(input, 1, lines) \in Seq(Fp)
        BY <1>2
      <4>2. QED BY <4>1, ConcatEmptySeq
    <3>3. PICK s \in Seq(Fp) : s = <<>>
      <4>1. <<>> \in Seq(Fp)
        OBVIOUS
      <4>2. QED BY <4>1
    <3>4. PICK l : l = lines
      OBVIOUS
    <3>5. sq' = s /\ input' = input /\ lines' = l /\ SubSeq(input, 1, l) = SubSeq(input, 1, lines) \o s
      BY <2>1, <3>2, <3>3, <3>4
    <3>6. s # <<>> => sq_size + size[s[1]] > SEG_SIZE
      BY <3>3
    <3>7. QED BY <3>1, <3>5, <3>6, <2>4, <1>1, CutStep
  <2>6. ReadInv'
    <3>1. Bytes(<<>>) = 0
      BY BytesEmpty
    <3>2. sq' \in Seq(Fp) /\ sq_size' = Bytes(sq') /\ sq_size' <= SEG_SIZE
      BY <2>1, <3>1, SizeAssumption
    <3>3. /\ input' \in Seq(Fp) /\ lines' \in 0..Len(input') /\ tool' \in {"pslice", "cslice"}
          /\ (tool' = "cslice" => input' # <<>>) /\ seg_count' \in Nat
      BY <1>2, <2>1, <2>4
    <3>4. reading' = FALSE /\ sq' = <<>>
      BY <2>1
    <3>5. QED BY <3>2, <3>3, <3>4, <2>3 DEF ReadInv
  <2>7. QED BY <2>3, <2>5, <2>6 DEF SegInv
<1>5. QED BY <1>3, <1>4 DEF SegNext

\* The bytes of a segment are a number.
LEMMA BytesType ==
    ASSUME NEW seg \in Seq(Fp) PROVE Bytes(seg) \in Nat
<1>1. CASE Fp = {}
  <2>1. seg = <<>>
    BY <1>1
  <2>2. QED BY <2>1, BytesEmpty
<1>2. CASE Fp # {}
  <2>1. PICK c \in Fp : TRUE
    BY <1>2
  <2>2. QED BY <2>1, BytesAppend
<1>3. QED BY <1>1, <1>2

-----------------------------------------------------------------------------
(* cslice: the slices of the classes, and the distances *)

\* s lists the numbers of S in increasing order.
Lists(s, S) ==
    /\ s \in [1..Cardinality(S) -> S]
    /\ \A i, j \in 1..Cardinality(S) : i < j => s[i] < s[j]

\* There is one for every set of numbers below n.
LEMMA ListsExists ==
    ASSUME NEW n \in Nat, NEW S \in SUBSET (0..n - 1)
    PROVE  \E s : Lists(s, S)
<1> DEFINE Q == {m \in Nat : \A A \in SUBSET (0..m - 1) : \E s : Lists(s, A)}
<1>0. \A m \in Nat : \A A \in SUBSET (0..m - 1) : IsFiniteSet(A) /\ Cardinality(A) \in Nat
  <2>1. \A m \in Nat : IsFiniteSet(0..m - 1)
    BY FS_Interval
  <2>2. QED BY <2>1, FS_Subset, FS_CardinalityType
<1>1. 0 \in Q
  <2>1. ASSUME NEW A \in SUBSET (0..0 - 1) PROVE \E s : Lists(s, A)
    <3>0. A = {}
      OBVIOUS
    <3>1. A = {} /\ Cardinality(A) = 0
      BY <3>0, FS_EmptySet
    <3>2. Lists([i \in 1..0 |-> 0], A)
      BY <3>1 DEF Lists
    <3>3. QED BY <3>2
  <2>2. QED BY <2>1
<1>2. ASSUME NEW m \in Nat, m \in Q PROVE m + 1 \in Q
  <2>1. ASSUME NEW A \in SUBSET (0..m + 1 - 1) PROVE \E s : Lists(s, A)
    <3> DEFINE B == A \ {m}
               l == Cardinality(B)
    <3>1. B \in SUBSET (0..m - 1)
      BY <2>1
    <3>2. PICK s : Lists(s, B)
      <4> HIDE DEF B
      <4>1. QED BY <1>2, <3>1
    <3>3. IsFiniteSet(B) /\ l \in Nat
      <4> HIDE DEF B
      <4>1. QED BY <1>0, <3>1
    <3>4. CASE m \notin A
      <4>1. A = B
        BY <3>4
      <4>2. QED BY <4>1, <3>2
    <3>5. CASE m \in A
      <4>1. A = B \cup {m} /\ m \notin B
        BY <3>5
      <4>2. Cardinality(A) = l + 1
        <5> HIDE DEF B
        <5>1. QED BY <4>1, <3>3, FS_AddElement
      <4>3. s \in [1..l -> B] /\ \A i, j \in 1..l : i < j => s[i] < s[j]
        BY <3>2 DEF Lists
      <4> HIDE DEF l
      <4> DEFINE e == [i \in 1..l + 1 |-> IF i = l + 1 THEN m ELSE s[i]]
      <4>4. \A i \in 1..l : s[i] \in A /\ s[i] \in Nat /\ s[i] < m
        <5>1. ASSUME NEW i \in 1..l PROVE s[i] \in A /\ s[i] \in 0..m - 1
          <6> HIDE DEF B
          <6>1. QED BY <4>1, <4>3, <3>1
        <5>2. QED BY <5>1
      <4>5. e \in [1..l + 1 -> A]
        <5>1. ASSUME NEW i \in 1..l + 1 PROVE (IF i = l + 1 THEN m ELSE s[i]) \in A
          <6>1. i = l + 1 \/ i \in 1..l
            BY <3>3
          <6>2. QED BY <6>1, <4>4, <3>5
        <5>2. QED BY <5>1
      <4>6. ASSUME NEW i \in 1..l + 1, NEW j \in 1..l + 1, i < j PROVE e[i] < e[j]
        <5>1. i \in 1..l /\ i # l + 1
          BY <4>6, <3>3
        <5>2. e[i] = s[i]
          BY <5>1
        <5>3. CASE j = l + 1
          BY <5>1, <5>2, <5>3, <4>4
        <5>4. CASE j # l + 1
          <6>1. j \in 1..l /\ e[j] = s[j]
            BY <5>4, <3>3
          <6>2. QED BY <6>1, <5>1, <5>2, <4>3, <4>6
        <5>5. QED BY <5>3, <5>4
      <4>7. Lists(e, A)
        <5> HIDE DEF e, B
        <5>1. QED BY <4>2, <4>5, <4>6 DEF Lists
      <4>8. QED BY <4>7
    <3>6. QED BY <3>4, <3>5
  <2>2. QED BY <2>1
<1>3. Nat \subseteq Q
  <2> HIDE DEF Q
  <2>1. QED BY <1>1, <1>2, InductionNat
<1>4. QED BY <1>3

\* port2slice stores a list of identifiers.
LEMMA IncreasingIs ==
    ASSUME NEW n \in Nat, NEW S \in SUBSET (0..n - 1)
    PROVE  Increasing(S) \in Seq(Nat)
<1>1. PICK s : Lists(s, S)
  BY ListsExists
<1>2. s \in [1..Cardinality(S) -> S] /\ \A i, j \in DOMAIN s : i < j => s[i] < s[j]
  BY <1>1 DEF Lists
<1>3. Increasing(S) \in [1..Cardinality(S) -> S]
  BY <1>2 DEF Increasing
<1>4. Cardinality(S) \in Nat
  <2>1. IsFiniteSet(0..n - 1)
    BY FS_Interval
  <2>2. QED BY <2>1, FS_Subset, FS_CardinalityType
<1>5. S \subseteq Nat
  OBVIOUS
<1>6. PICK t, l : t = Increasing(S) /\ l = Cardinality(S)
  OBVIOUS
<1>7. l \in Nat /\ t \in [1..l -> Nat]
  BY <1>3, <1>4, <1>5, <1>6
<1>8. QED BY <1>6, <1>7

\* The share of common chunks is at most one.
LEMMA JaccardType ==
    ASSUME NEW A, NEW B, A \subseteq Fp, B \subseteq Fp, A # {}
    PROVE  Jaccard(A, B) \in Nat
<1> DEFINE a == Cardinality(A)
           b == Cardinality(B)
           u == Cardinality(A \cup B)
           q == (SCALE * (a + b - u)) \div u
<1>1. /\ IsFiniteSet(A) /\ IsFiniteSet(B) /\ IsFiniteSet(A \cup B)
      /\ A \cup B \subseteq Fp
  BY SizeAssumption, FS_Subset
<1>2. a \in Nat /\ b \in Nat /\ u \in Nat
  BY <1>1, FS_CardinalityType
<1>3. a <= u /\ b <= u
  <2>1. A \subseteq A \cup B /\ B \subseteq A \cup B
    OBVIOUS
  <2>2. QED BY <2>1, <1>1, FS_Subset
<1>4. u # 0
  <2>1. A \cup B # {}
    OBVIOUS
  <2>2. QED BY <2>1, <1>1, FS_EmptySet
<1>5. SCALE \in Nat \ {0}
  BY ScaleAssumption
<1>6. a + b - u <= u
  BY <1>2, <1>3
<1> HIDE DEF a, b, u
<1>7. PICK e \in Int : e = a + b - u
  BY <1>2
<1>8. SCALE * e <= SCALE * u
  BY <1>2, <1>5, <1>6, <1>7
<1>9. PICK p \in Int : p = SCALE * e
  BY <1>5, <1>7
<1>10. PICK m \in Int : m = SCALE * u
  BY <1>2, <1>5
<1>11. p \div u <= SCALE /\ p \div u \in Int
  <2>1. p \div u \in Int /\ u * (p \div u) <= p
    BY <1>2, <1>4
  <2>2. QED BY <2>1, <1>2, <1>4, <1>5, <1>8, <1>9, <1>10
<1>12. QED BY <1>5, <1>7, <1>9, <1>11 DEF Jaccard, a, b, u

\* The list of a set of numbers below n has exactly these.
LEMMA IncreasingAll ==
    ASSUME NEW n \in Nat, NEW S \in SUBSET (0..n - 1)
    PROVE  Range(Increasing(S)) = S
<1>1. PICK s : Lists(s, S)
  BY ListsExists
<1>2. s \in [1..Cardinality(S) -> S] /\ \A i, j \in DOMAIN s : i < j => s[i] < s[j]
  BY <1>1 DEF Lists
<1>3. PICK t : t = Increasing(S)
  OBVIOUS
<1>4. t \in [1..Cardinality(S) -> S] /\ \A i, j \in DOMAIN t : i < j => t[i] < t[j]
  BY <1>2, <1>3 DEF Increasing
<1>5. IsFiniteSet(S) /\ Cardinality(S) \in Nat
  <2>1. \A b \in Int : IsFiniteSet(0..b)
    BY FS_Interval
  <2>2. n - 1 \in Int
    OBVIOUS
  <2>3. IsFiniteSet(0..n - 1)
    BY <2>1, <2>2
  <2>4. QED BY <2>3, FS_Subset, FS_CardinalityType
<1>6. PICK l \in Nat : l = Cardinality(S)
  BY <1>5
<1>7. Cardinality(1..l) = l
  BY <1>6, FS_Interval
<1>8. t \in Injection(1..l, S)
  <2>1. t \in [1..l -> S] /\ \A i, j \in 1..l : i < j => t[i] < t[j]
    BY <1>4, <1>6
  <2>2. ASSUME NEW i \in 1..l, NEW j \in 1..l, t[i] = t[j] PROVE i = j
    <3>0. S \subseteq Nat
      OBVIOUS
    <3>1. t[i] \in Nat
      BY <2>1, <3>0
    <3>2. i \in Int /\ j \in Int
      OBVIOUS
    <3>3. QED BY <2>1, <2>2, <3>1, <3>2
  <2>3. QED BY <2>1, <2>2 DEF Injection, IsInjective
<1>9. t \in Surjection(1..l, S)
  BY <1>5, <1>6, <1>7, <1>8, FS_Injection
<1>10. S = {t[i] : i \in 1..l} /\ DOMAIN t = 1..l
  BY <1>4, <1>6, <1>9 DEF Surjection
<1>11. QED BY <1>3, <1>10 DEF Range

\* The sizes that the distance of two sets of chunks is made of.
LEMMA JaccardParts ==
    ASSUME NEW A, NEW B, A \subseteq Fp, B \subseteq Fp, A # {}
    PROVE  /\ Cardinality(A) \in Nat /\ Cardinality(B) \in Nat
           /\ Cardinality(A \cup B) \in Nat \ {0} /\ Cardinality(A \cap B) \in Nat
           /\ Cardinality(A) <= Cardinality(A \cup B) /\ Cardinality(B) <= Cardinality(A \cup B)
           /\ Cardinality(A) = Cardinality(A \cup B) => A = A \cup B
           /\ Cardinality(B) = Cardinality(A \cup B) => B = A \cup B
           /\ Cardinality(A) + Cardinality(B) - Cardinality(A \cup B) = Cardinality(A \cap B)
<1>1. /\ IsFiniteSet(A) /\ IsFiniteSet(B) /\ IsFiniteSet(A \cup B) /\ IsFiniteSet(A \cap B)
  <2>1. A \cup B \subseteq Fp /\ A \cap B \subseteq Fp
    OBVIOUS
  <2>2. QED BY <2>1, SizeAssumption, FS_Subset
<1>2. /\ Cardinality(A) \in Nat /\ Cardinality(B) \in Nat
      /\ Cardinality(A \cup B) \in Nat /\ Cardinality(A \cap B) \in Nat
  BY <1>1, FS_CardinalityType
<1>3. A \subseteq A \cup B /\ B \subseteq A \cup B /\ A \cup B # {}
  OBVIOUS
<1>4. /\ Cardinality(A) <= Cardinality(A \cup B) /\ Cardinality(B) <= Cardinality(A \cup B)
      /\ Cardinality(A) = Cardinality(A \cup B) => A = A \cup B
      /\ Cardinality(B) = Cardinality(A \cup B) => B = A \cup B
  BY <1>1, <1>3, FS_Subset
<1>5. Cardinality(A \cup B) # 0
  BY <1>1, <1>3, FS_EmptySet
<1>6. Cardinality(A \cup B) = Cardinality(A) + Cardinality(B) - Cardinality(A \cap B)
  BY <1>1, FS_Union
<1>7. Cardinality(A) + Cardinality(B) - Cardinality(A \cup B) = Cardinality(A \cap B)
  BY <1>2, <1>6
<1>8. QED BY <1>2, <1>4, <1>5, <1>7

\* The distance as a share: q is the share of the e chunks in common of u.
LEMMA JaccardShare ==
    ASSUME NEW A, NEW B, A \subseteq Fp, B \subseteq Fp, A # {}
    PROVE  \E q \in Int :
               /\ Jaccard(A, B) = SCALE - q
               /\ Cardinality(A \cup B) * q <= SCALE * Cardinality(A \cap B)
               /\ SCALE * Cardinality(A \cap B) < Cardinality(A \cup B) * (q + 1)
<1>1. PICK u \in Nat \ {0}, e \in Nat : u = Cardinality(A \cup B) /\ e = Cardinality(A \cap B)
  BY JaccardParts
<1>2. SCALE \in Nat \ {0}
  BY ScaleAssumption
<1>3. PICK p \in Int : p = SCALE * e
  BY <1>1, <1>2
<1>4. PICK q \in Int : q = p \div u
  BY <1>1
<1>5. u * q <= p /\ p < u * (q + 1)
  BY <1>1, <1>4
<1>6. Cardinality(A) + Cardinality(B) - Cardinality(A \cup B) = e
  BY <1>1, JaccardParts
<1>7. Jaccard(A, B) = SCALE - q
  BY <1>1, <1>3, <1>4, <1>6 DEF Jaccard
<1>8. QED BY <1>1, <1>3, <1>5, <1>7

\* The distance does not depend on the order.
LEMMA JaccardSymmetric ==
    ASSUME NEW A, NEW B, A \subseteq Fp, B \subseteq Fp, A # {}
    PROVE  Jaccard(A, B) = Jaccard(B, A)
<1>1. A \cup B = B \cup A
  OBVIOUS
<1>2. PICK a \in Nat, b \in Nat, u \in Nat :
         a = Cardinality(A) /\ b = Cardinality(B) /\ u = Cardinality(A \cup B)
  BY JaccardParts
<1>3. a + b - u = b + a - u /\ u = Cardinality(B \cup A)
  <2>1. Cardinality(A \cup B) = Cardinality(B \cup A)
    BY <1>1, Zenon
  <2>2. a + b - u = b + a - u
    OBVIOUS
  <2>3. QED BY <2>1, <2>2, <1>2
<1>4. Jaccard(A, B) = SCALE - (SCALE * (a + b - u)) \div u
  BY <1>2 DEF Jaccard
<1>5. Jaccard(B, A) = SCALE - (SCALE * (b + a - u)) \div u
  <2>1. Cardinality(B \cup A) = u
    BY <1>3
  <2>2. QED BY <2>1, <1>2 DEF Jaccard
<1>6. QED BY <1>3, <1>4, <1>5

\* Only equal sets are at distance zero.
LEMMA JaccardZero ==
    ASSUME NEW A, NEW B, A \subseteq Fp, B \subseteq Fp, A # {}
    PROVE  Jaccard(A, B) = 0 <=> A = B
<1>0. SCALE \in Nat \ {0}
  BY ScaleAssumption
<1>1. PICK q \in Int :
               /\ Jaccard(A, B) = SCALE - q
               /\ Cardinality(A \cup B) * q <= SCALE * Cardinality(A \cap B)
               /\ SCALE * Cardinality(A \cap B) < Cardinality(A \cup B) * (q + 1)
  BY JaccardShare
<1>2. PICK a \in Nat, b \in Nat, u \in Nat \ {0}, e \in Nat :
         a = Cardinality(A) /\ b = Cardinality(B) /\ u = Cardinality(A \cup B) /\ e = Cardinality(A \cap B)
  BY JaccardParts
<1>3. u * q <= SCALE * e /\ SCALE * e < u * (q + 1)
  BY <1>1, <1>2
<1>4. a <= u /\ b <= u /\ a + b - u = e
  BY <1>2, JaccardParts
<1>5. ASSUME Jaccard(A, B) = 0 PROVE A = B
  <2>1. q = SCALE
    BY <1>0, <1>1, <1>5
  <2>2. u <= e
    BY <2>1, <1>0, <1>2, <1>3
  <2>3. a = u /\ b = u
    BY <2>2, <1>2, <1>4
  <2>4. A = A \cup B /\ B = A \cup B
    BY <2>3, <1>2, JaccardParts
  <2>5. QED BY <2>4
<1>6. ASSUME A = B PROVE Jaccard(A, B) = 0
  <2>1. u = e
    <3>1. A \cup B = A \cap B
      BY <1>6
    <3>2. QED BY <3>1, <1>2
  <2>2. u * q <= SCALE * u /\ SCALE * u < u * (q + 1)
    BY <2>1, <1>3
  <2>3. q <= SCALE /\ SCALE < q + 1
    BY <2>2, <1>0, <1>2
  <2>4. QED BY <2>3, <1>0, <1>1
<1>7. QED BY <1>5, <1>6

\* Sets nearer than R have more than 1 - R of their union in common.
LEMMA JaccardNear ==
    ASSUME NEW A, NEW B, A \subseteq Fp, B \subseteq Fp, A # {}, NEW R \in Nat, Jaccard(A, B) < R
    PROVE  Cardinality(A \cap B) * SCALE > Cardinality(A \cup B) * (SCALE - R)
<1>0. SCALE \in Nat \ {0}
  BY ScaleAssumption
<1>1. PICK q \in Int :
               /\ Jaccard(A, B) = SCALE - q
               /\ Cardinality(A \cup B) * q <= SCALE * Cardinality(A \cap B)
  BY JaccardShare
<1>2. PICK u \in Nat \ {0}, e \in Nat : u = Cardinality(A \cup B) /\ e = Cardinality(A \cap B)
  BY JaccardParts
<1>3. PICK p \in Int : p = SCALE - R
  BY <1>0
<1>4. q >= p + 1
  BY <1>0, <1>1, <1>3
<1>5. u * q >= u * (p + 1)
  BY <1>2, <1>3, <1>4
<1>6. u * (p + 1) = u * p + u
  BY <1>2, <1>3
<1>7. u * p \in Int /\ u * q \in Int
  BY <1>2, <1>3
<1>8. u * q > u * p
  <2>1. PICK v \in Int, w \in Int : v = u * q /\ w = u * p
    BY <1>7
  <2>2. v >= w + u
    BY <2>1, <1>5, <1>6
  <2>3. v > w
    <3>1. u >= 1 /\ u \in Int
      OBVIOUS
    <3>2. QED BY <2>2, <3>1
  <2>4. QED BY <2>1, <2>3
<1>9. PICK m \in Int : m = SCALE * e
  BY <1>0, <1>2
<1>10. e * SCALE = m
  BY <1>0, <1>2, <1>9
<1>11. u * q <= m
  BY <1>1, <1>2, <1>9
<1>12. m > u * p
  BY <1>7, <1>8, <1>9, <1>11
<1>13. QED BY <1>2, <1>3, <1>10, <1>12

-----------------------------------------------------------------------------
(* The programs together *)

\* The clusterizer is only used by cslice, after the file has been read.
PhaseInv == step # "idle" => tool = "cslice" /\ ~reading

\* The matrix is that of the segments' chunk sets, cslice has stored no slice
\* before port2slice, and after it the slices are the classes.
SimInv ==
    /\ step # "idle" => dist = SetDistances(port2cluster(count_map))
    /\ tool = "cslice" /\ step # "test" => slice_db = <<>>
    /\ step = "test" => slice_db = [c \in {out[i] : i \in Rows} |-> Increasing({i \in Rows : out[i] = c})]

\* The inductive invariant of the programs.
MInv == DupInv /\ SegInv /\ AhcInv /\ TreeInv /\ PairInv /\ PhaseInv /\ SimInv

\* The clusterizer rests or has not been started.
LEMMA SimIdle ==
    ASSUME step' = "idle", tool' = "cslice" => slice_db' = <<>> PROVE SimInv'
BY DEF SimInv

\* Neither the segments nor the clusterizer change.
LEMMA SimFrame ==
    ASSUME SimInv, UNCHANGED <<segVars, ahcVars>> PROVE SimInv'
<1>1. UNCHANGED <<tool, count_map, slice_db, dist, out, step>>
  BY DEF segVars, segs, ahcVars, ahc, cut
<1>2. Rows' = Rows
  BY <1>1 DEF Rows, npoints
<1>3. QED BY <1>1, <1>2 DEF SimInv

\* cslice calls the clusterizer.
LEMMA SimStart ==
    ASSUME SimInv, StartClustering PROVE SimInv'
<1>1. dist' = SetDistances(port2cluster(count_map)) /\ UNCHANGED segVars
  BY DEF StartClustering, RunAHC
<1>2. count_map' = count_map /\ slice_db' = slice_db /\ tool' = tool
  BY <1>1 DEF segVars, segs
<1>3. step = "idle" /\ step' # "test"
  BY DEF StartClustering, RunAHC
<1>4. QED BY <1>1, <1>2, <1>3 DEF SimInv

\* A step of the clusterizer.
LEMMA SimClustering ==
    ASSUME SimInv, clustering PROVE SimInv'
<1>1. AhcNext /\ UNCHANGED segVars
  BY DEF clustering
<1>2. step \notin {"idle", "test"} /\ step' # "test" /\ dist' = dist
  BY <1>1 DEF AhcNext, Merge, Layout, Split, GetK, SeparatedByDist, ahc
<1>3. count_map' = count_map /\ slice_db' = slice_db /\ tool' = tool
  BY <1>1 DEF segVars, segs
<1>4. QED BY <1>2, <1>3 DEF SimInv

\* port2slice on a database without slices.
LEMMA FirstSlices ==
    ASSUME AhcInv, PhaseInv, SimInv, port2slice
    PROVE  slice_db' = [c \in {out[i] : i \in Rows} |-> Increasing({i \in Rows : out[i] = c})]
<1>1. slice_db = <<>>
  BY DEF port2slice, PhaseInv, SimInv
<1>2. npoints \in Nat
  BY DEF AhcInv, DistInv
<1>3. ASSUME NEW c PROVE <<>> \o Increasing({i \in Rows : out[i] = c}) = Increasing({i \in Rows : out[i] = c})
  <2>1. {i \in Rows : out[i] = c} \in SUBSET (0..npoints - 1)
    BY DEF Rows
  <2>2. PICK s : s = Increasing({i \in Rows : out[i] = c})
    OBVIOUS
  <2>3. s \in Seq(Nat)
    BY <1>2, <2>1, <2>2, IncreasingIs
  <2>4. <<>> \o s = s
    BY <2>3
  <2>5. QED BY <2>2, <2>4
<1>4. DOMAIN slice_db = {} /\ \A c : Lookup(slice_db, c, <<>>) = <<>>
  BY <1>1 DEF Lookup
<1>5. slice_db' = [c \in DOMAIN slice_db \cup {out[i] : i \in Rows} |->
                     Lookup(slice_db, c, <<>>) \o Increasing({i \in Rows : out[i] = c})]
  BY DEF port2slice
<1>6. QED BY <1>3, <1>4, <1>5

\* port2slice.
LEMMA SimStore ==
    ASSUME AhcInv, PhaseInv, SimInv, port2slice PROVE SimInv'
<1>1. /\ step = "done" /\ step' = "test"
      /\ slice_db' = [c \in {out[i] : i \in Rows} |-> Increasing({i \in Rows : out[i] = c})]
      /\ UNCHANGED <<count_map, ahc, cut>>
  BY FirstSlices DEF port2slice
<1>2. dist' = dist /\ out' = out
  BY <1>1 DEF ahc, cut
<1>3. Rows' = Rows
  BY <1>2 DEF Rows, npoints
<1>4. QED BY <1>1, <1>2, <1>3 DEF SimInv

\* The distances are those of the chunk sets.
LEMMA DistIs ==
    ASSUME SegInv, AhcInv, PhaseInv, SimInv, step # "idle", NEW i \in Rows, NEW j \in Rows
    PROVE  /\ count_map[i] \subseteq Fp /\ count_map[i] # {}
           /\ i # j => dist[i][j] = Jaccard(count_map[i], count_map[j])
           /\ dist[i][j] = 0 <=> count_map[i] = count_map[j]
<1>1. PICK cm : cm = count_map
  OBVIOUS
<1>2. tool = "cslice"
  BY DEF PhaseInv
<1>3. dist = SetDistances(port2cluster(cm)) /\ DOMAIN dist = Rows /\ npoints \in Nat
  BY <1>1 DEF SimInv, AhcInv, DistInv
<1>4. DOMAIN cm = Rows
  BY <1>3 DEF SetDistances, port2cluster
<1>5. \A x \in Rows : cm[x] \subseteq Fp /\ cm[x] # {}
  BY <1>1, <1>2, <1>4 DEF SegInv, CountInv
<1>6. dist[i][j] = IF i < j THEN Jaccard(cm[i], cm[j]) ELSE IF j < i THEN Jaccard(cm[j], cm[i]) ELSE 0
  <2>1. PICK m : m = port2cluster(cm)
    OBVIOUS
  <2>2. DOMAIN m = Rows /\ m[i][j] = Jaccard(cm[i], cm[j]) /\ m[j][i] = Jaccard(cm[j], cm[i])
    BY <2>1, <1>4 DEF port2cluster
  <2>3. dist = SetDistances(m)
    BY <2>1, <1>3
  <2>4. dist[i][j] = IF i < j THEN m[i][j] ELSE IF j < i THEN m[j][i] ELSE 0
    BY <2>2, <2>3 DEF SetDistances
  <2>5. QED BY <2>2, <2>4
<1>7. i \in Int /\ j \in Int
  BY <1>3 DEF Rows
<1>8. Jaccard(cm[i], cm[j]) = Jaccard(cm[j], cm[i])
  BY <1>5, JaccardSymmetric
<1>9. i # j => dist[i][j] = Jaccard(cm[i], cm[j])
  <2>1. i # j => i < j \/ j < i
    BY <1>7
  <2>2. QED BY <2>1, <1>6, <1>8
<1>10. i = j => dist[i][j] = 0
  <2>1. i = j => ~(i < j) /\ ~(j < i)
    BY <1>7
  <2>2. QED BY <2>1, <1>6
<1>11. Jaccard(cm[i], cm[j]) = 0 <=> cm[i] = cm[j]
  BY <1>5, JaccardZero
<1>12. dist[i][j] = 0 <=> cm[i] = cm[j]
  BY <1>9, <1>10, <1>11
<1>13. QED BY <1>1, <1>5, <1>9, <1>12

\* The slices are the classes of the clusterizer.
LEMMA SegsAre ==
    ASSUME AhcInv, SimInv, step = "test", NEW i \in Rows, NEW j \in Rows
    PROVE  (\E s \in DOMAIN slice_db : {i, j} \subseteq Segs(s)) <=> out[i] = out[j]
<1>1. npoints \in Nat
  BY DEF AhcInv, DistInv
<1>2. /\ DOMAIN slice_db = {out[x] : x \in Rows}
      /\ \A s \in DOMAIN slice_db : slice_db[s] = Increasing({x \in Rows : out[x] = s})
  BY DEF SimInv
<1>3. ASSUME NEW s \in DOMAIN slice_db PROVE Segs(s) = {x \in Rows : out[x] = s}
  <2>1. PICK S : S = {x \in Rows : out[x] = s}
    OBVIOUS
  <2>2. S \in SUBSET (0..npoints - 1)
    BY <2>1 DEF Rows
  <2>3. Range(Increasing(S)) = S
    BY <1>1, <2>2, IncreasingAll
  <2>4. slice_db[s] = Increasing(S)
    BY <1>2, <2>1
  <2>5. QED BY <2>1, <2>3, <2>4 DEF Segs
<1>4. ASSUME NEW s \in DOMAIN slice_db, {i, j} \subseteq Segs(s) PROVE out[i] = out[j]
  <2>1. Segs(s) = {x \in Rows : out[x] = s}
    BY <1>3
  <2>2. i \in Segs(s) /\ j \in Segs(s)
    BY <1>4
  <2>3. QED BY <2>1, <2>2
<1>5. ASSUME out[i] = out[j] PROVE \E s \in DOMAIN slice_db : {i, j} \subseteq Segs(s)
  <2>1. out[i] \in DOMAIN slice_db
    BY <1>2
  <2>2. Segs(out[i]) = {x \in Rows : out[x] = out[i]}
    BY <1>3, <2>1
  <2>3. i \in Segs(out[i]) /\ j \in Segs(out[i])
    BY <1>5, <2>2
  <2>4. QED BY <2>1, <2>3
<1>6. QED BY <1>4, <1>5

\* Segments of a slice share enough chunks, and equal segments are in one slice.
LEMMA SimilarHold ==
    ASSUME SegInv, AhcInv, TreeInv, PhaseInv, SimInv
    PROVE  SlicesAreSimilar
<1> SUFFICES ASSUME step = "test", NEW i \in Rows, NEW j \in Rows, i # j
             PROVE  /\ (\E s \in DOMAIN slice_db : {i, j} \subseteq Segs(s))
                          => Cardinality(count_map[i] \cap count_map[j]) * SCALE
                                > Cardinality(count_map[i] \cup count_map[j]) * (SCALE - r)
                    /\ r > 0 /\ count_map[i] = count_map[j]
                          => \E s \in DOMAIN slice_db : {i, j} \subseteq Segs(s)
  BY DEF SlicesAreSimilar
<1>1. step # "idle" /\ step \in {"done", "test"} /\ r \in Nat
  BY DEF TreeInv, RadiusInv
<1>2. (\E s \in DOMAIN slice_db : {i, j} \subseteq Segs(s)) <=> out[i] = out[j]
  BY SegsAre
<1>3. \A x, y \in Rows : dist[x][y] = 0 <=> count_map[x] = count_map[y]
  BY <1>1, DistIs
<1>4. ASSUME out[i] = out[j]
      PROVE  Cardinality(count_map[i] \cap count_map[j]) * SCALE
                > Cardinality(count_map[i] \cup count_map[j]) * (SCALE - r)
  <2>1. dist[i][j] < r
    BY <1>1, <1>4, ClassClose
  <2>2. Jaccard(count_map[i], count_map[j]) < r
    BY <2>1, <1>1, DistIs
  <2>3. count_map[i] \subseteq Fp /\ count_map[j] \subseteq Fp /\ count_map[i] # {}
    BY <1>1, DistIs
  <2>4. PICK A, B, R : A = count_map[i] /\ B = count_map[j] /\ R = r
    OBVIOUS
  <2>5. A \subseteq Fp /\ B \subseteq Fp /\ A # {} /\ R \in Nat /\ Jaccard(A, B) < R
    BY <2>2, <2>3, <2>4, <1>1
  <2>6. Cardinality(A \cap B) * SCALE > Cardinality(A \cup B) * (SCALE - R)
    BY <2>5, JaccardNear
  <2>7. QED BY <2>4, <2>6
<1>5. ASSUME r > 0, count_map[i] = count_map[j] PROVE out[i] = out[j]
  <2>1. dist[i][j] = 0
    BY <1>3, <1>5
  <2>2. \A x, y, w \in Rows : dist[x][y] = 0 /\ dist[y][w] = 0 => dist[x][w] = 0
    BY <1>3
  <2>3. r # 0
    BY <1>1, <1>5
  <2>4. QED BY <1>1, <2>1, <2>2, <2>3, ClassZero
<1>6. QED BY <1>2, <1>4, <1>5

\* Before pslice runs.
LEMMA SegEmpty ==
    ASSUME slice_db = <<>>, p_slice_db = <<>>, tool = "duplicate", reading = FALSE,
           input = <<>>, lines = 0, sq = <<>>, sq_size = 0, seg_count = 0, slice_count = 0,
           chunk_size = [c \in Fp |-> 0]
    PROVE  SegInv
<1>1. ReadInv
  <2>1. input \in Seq(Fp) /\ sq \in Seq(Fp) /\ lines \in 0..Len(input)
    OBVIOUS
  <2>2. sq_size = Bytes(sq) /\ sq_size <= SEG_SIZE
    BY BytesEmpty, SizeAssumption
  <2>3. chunk_size \in [Fp -> Nat] /\ seg_count \in Nat /\ slice_count \in Nat
    OBVIOUS
  <2>4. reading \in BOOLEAN /\ ~reading /\ tool \in {"duplicate", "pslice", "cslice", "pair"}
        /\ tool # "cslice"
    OBVIOUS
  <2>5. QED BY <2>1, <2>2, <2>3, <2>4 DEF ReadInv
<1>2. CutInv
  <2>1. Written = <<>>
    BY DEF Written
  <2>2. FlattenSeq(<<>>) \o <<>> = SubSeq(<<>>, 1, 0)
    BY DEF FlattenSeq
  <2>3. QED BY <2>1, <2>2 DEF CutInv, SegmentsAreTheFile
<1>3. Stored(<<>>)
  BY FS_EmptySet DEF Stored
<1>4. CountInv /\ ClassInv
  BY <1>3 DEF CountInv, ClassInv, SlicesAreClasses
<1>5. QED BY <1>1, <1>2, <1>4 DEF SegInv

\* The invariant holds when duplicate is started on a new ./output.
LEMMA MInitInv ==
    ASSUME MInit PROVE MInv /\ Tree!Start
<1>1. DupInv
  BY DupInitInv DEF MInit
<1>2. SegInv
  BY SegEmpty DEF MInit, SegInit, PairInit
<1>3. /\ dist = <<>> /\ d = <<>> /\ members = <<>> /\ cidx = <<>> /\ nnidx = <<>>
      /\ z = <<>> /\ mergedist = <<>> /\ step = "idle"
  BY DEF MInit, AhcInit
<1>4. AhcInv /\ {members[i] : i \in Active} = {}
  BY <1>3, AhcEmpty
<1>5. PairInv
  BY PairInitInv DEF MInit
<1>6. Tree!Start
  <2>1. {{x} : x \in DOMAIN dist} = {}
    BY <1>3
  <2>2. QED BY <2>1, <1>3, <1>4 DEF Tree!Start
<1>7. TreeInv
  BY <1>3, TreeEmpty
<1>8. tool = "duplicate"
  BY DEF MInit, SegInit
<1>9. PhaseInv /\ SimInv
  BY <1>3, <1>8 DEF PhaseInv, SimInv
<1>10. QED BY <1>1, <1>2, <1>4, <1>5, <1>6, <1>7, <1>9 DEF MInv

\* Steps of the other programs.
LEMMA DupFrame ==
    ASSUME DupInv, UNCHANGED dupVars PROVE DupInv'
<1>1. UNCHANGED <<trace, db, put, pos, kept, dup, starts>>
  BY DEF dupVars
<1>2. QED BY <1>1 DEF DupInv, DupTypes, CountPass, RemovePass, Counts, KeptLines

\* Nothing of the segments changes.
LEMMA SegFrame ==
    ASSUME SegInv, UNCHANGED <<segVars, p_slice_db>> PROVE SegInv'
<1>1. UNCHANGED <<tool, input, reading, lines, sq, sq_size, seg_db, seg_count, slice_db,
                  slice_count, count_map, chunk_size, p_slice_db>>
  BY DEF segVars, queue, segs
<1>2. ReadInv'
  BY <1>1 DEF SegInv, ReadInv
<1>3. CutInv'
  BY <1>1 DEF SegInv, CutInv, SegmentsAreTheFile, Written
<1>4. CountInv'
  BY <1>1 DEF SegInv, CountInv
<1>5. ClassInv'
  BY <1>1 DEF SegInv, ClassInv, SlicesAreClasses, Slice, Stored
<1>6. QED BY <1>2, <1>3, <1>4, <1>5 DEF SegInv

\* Nothing of the clusterizer changes.
LEMMA AhcKept ==
    ASSUME AhcInv, TreeInv, UNCHANGED ahcVars
    PROVE  AhcInv' /\ TreeInv' /\ UNCHANGED <<dist, {members[i] : i \in Active}, mergedist>>
<1>1. UNCHANGED <<ahc, step>>
  BY DEF ahcVars
<1>2. UNCHANGED <<dist, d, members, cidx, nnidx, z, mergedist, step>>
  BY <1>1 DEF ahc
<1>3. StepInv'
  BY <1>2 DEF AhcInv, StepInv, npoints
<1>4. AhcInv'
  BY <1>1, <1>3, AhcFrame
<1>5. UNCHANGED {members[i] : i \in Active}
  BY <1>2 DEF Active, Rows, npoints
<1>6. TreeInv'
  <2>1. UNCHANGED <<ahc, span, cut>> /\ step' = step
    BY DEF ahcVars
  <2>2. QED BY <2>1, TreeFrame
<1>7. QED BY <1>2, <1>4, <1>5, <1>6

\* A program starts on a file.
LEMMA OpenInv ==
    ASSUME SegInv, NEW program \in {"pslice", "cslice"}, NEW file \in Seq(Fp), Open(program, file),
           program = "cslice" => file # <<>>, program = "pslice" => slice_db' = <<>>,
           Stored(slice_db'), Stored(p_slice_db'), chunk_size' = chunk_size
    PROVE  SegInv'
<1>1. /\ tool' = program /\ input' = file /\ reading' = TRUE
      /\ lines' = 0 /\ sq' = <<>> /\ sq_size' = 0
      /\ seg_count' = 0 /\ slice_count' = 0 /\ count_map' = <<>>
  BY DEF Open
<1>2. chunk_size' \in [Fp -> Nat]
  BY DEF SegInv, ReadInv
<1>3. ReadInv'
  <2>1. input' \in Seq(Fp) /\ sq' \in Seq(Fp) /\ lines' \in 0..Len(input')
    BY <1>1
  <2>2. sq_size' = Bytes(sq') /\ sq_size' <= SEG_SIZE
    BY <1>1, BytesEmpty, SizeAssumption
  <2>3. reading' \in BOOLEAN /\ reading' /\ tool' \in {"pslice", "cslice"} /\ (tool' = "cslice" => input' # <<>>)
    BY <1>1
  <2>4. seg_count' = 0 /\ slice_count' = 0 /\ lines' = 0
    BY <1>1
  <2>5. QED BY <2>1, <2>2, <2>3, <2>4, <1>2 DEF ReadInv
<1>4. CutInv'
  <2>1. Written' = <<>>
    BY <1>1 DEF Written
  <2>2. FlattenSeq(<<>>) \o <<>> = SubSeq(file, 1, 0)
    <3>1. FlattenSeq(<<>>) = <<>>
      BY DEF FlattenSeq
    <3>2. SubSeq(file, 1, 0) = <<>>
      OBVIOUS
    <3>3. <<>> \o <<>> = <<>>
      OBVIOUS
    <3>4. QED BY <3>1, <3>2, <3>3
  <2>3. QED BY <2>1, <2>2, <1>1 DEF CutInv, SegmentsAreTheFile
<1>5. CountInv'
  <2>1. DOMAIN count_map' = {} /\ 0..seg_count' - 1 = {}
    BY <1>1
  <2>2. QED BY <2>1, <1>1 DEF CountInv
<1>6. ClassInv'
  <2>1. program = "pslice" => DOMAIN slice_db' = {} /\ Cardinality(DOMAIN slice_db') = 0
    BY FS_EmptySet
  <2>2. 0..seg_count' - 1 = {}
    BY <1>1
  <2>3. SlicesAreClasses'
    BY <2>1, <2>2, <1>1 DEF SlicesAreClasses
  <2>4. QED BY <2>1, <2>3, <1>1 DEF ClassInv
<1>7. QED BY <1>3, <1>4, <1>5, <1>6 DEF SegInv

\* The file that pslice reads is what duplicate has written.
LEMMA FilteredIs ==
    ASSUME DupInv PROVE Filtered \in Seq(Fp)
<1>1. trace \in Seq(Fp) /\ Len(trace) \in Nat /\ pos \in Nat
  BY DupLines
<1>2. kept \in Seq(1..pos) /\ pos <= Len(trace)
  BY DEF DupInv, DupTypes
<1>3. ASSUME NEW i \in DOMAIN kept PROVE trace[kept[i]] \in Fp
  <2>1. kept[i] \in 1..pos
    <3>1. PICK R : R = 1..pos
      OBVIOUS
    <3>2. kept \in Seq(R)
      BY <1>2, <3>1
    <3>3. kept[i] \in R
      BY <3>2
    <3>4. QED BY <3>1, <3>3
  <2>2. kept[i] \in 1..Len(trace)
    BY <2>1, <1>1, <1>2
  <2>3. QED BY <2>2, <1>1
<1>4. DOMAIN kept = 1..Len(kept) /\ Len(kept) \in Nat
  BY <1>2
<1>5. QED BY <1>3, <1>4 DEF Filtered

\* The distances that cslice hands to the clusterizer.
LEMMA StartInv ==
    ASSUME SegInv, AhcInv, StartClustering PROVE AhcInv' /\ TreeInv' /\ Tree!Next
<1>1. tool = "cslice" /\ ~reading /\ RunAHC(port2cluster(count_map))
  BY DEF StartClustering
<1>2. PICK n \in Nat \ {0} : n = seg_count
  BY <1>1 DEF SegInv, CountInv, ReadInv
<1>3. PICK cm : cm = count_map
  OBVIOUS
<1>4. DOMAIN cm = 0..n - 1 /\ \A i \in DOMAIN cm : cm[i] \subseteq Fp /\ cm[i] # {}
  BY <1>1, <1>2, <1>3 DEF SegInv, CountInv
<1> DEFINE m == port2cluster(cm)
<1>5. DOMAIN m = 0..n - 1
  BY <1>4 DEF port2cluster
<1>6. ASSUME NEW i \in DOMAIN m, NEW j \in DOMAIN m PROVE m[i][j] \in Nat
  <2>1. i \in DOMAIN cm /\ j \in DOMAIN cm
    BY <1>4, <1>5
  <2>2. m[i][j] = Jaccard(cm[i], cm[j])
    BY <2>1 DEF port2cluster
  <2>3. Jaccard(cm[i], cm[j]) \in Nat
    BY <2>1, <1>4, JaccardType
  <2>4. QED BY <2>2, <2>3
<1>7. RunAHC(m)
  BY <1>1, <1>3
<1> HIDE DEF m
<1>8. AhcInv' /\ Tree!Next
  BY <1>5, <1>6, <1>7, RunInv
<1>9. TreeInv'
  BY <1>5, <1>6, <1>7, RunTree
<1>10. QED BY <1>8, <1>9

\* The classes are stored as slices.
LEMMA StoreSlicesInv ==
    ASSUME SegInv, AhcInv, TreeInv, PhaseInv, SimInv, port2slice, UNCHANGED p_slice_db
    PROVE  SegInv' /\ AhcInv' /\ TreeInv' /\ UNCHANGED <<dist, {members[i] : i \in Active}, mergedist>>
<1>1. /\ step = "done" /\ step' = "test"
      /\ slice_db' = [c \in {out[i] : i \in Rows} |-> Increasing({i \in Rows : out[i] = c})]
      /\ UNCHANGED <<tool, input, reading, queue, seg_db, seg_count, slice_count, count_map, chunk_size, ahc>>
  BY FirstSlices DEF port2slice
<1>2. tool = "cslice"
  BY <1>1 DEF PhaseInv
<1>3. UNCHANGED <<lines, sq, sq_size>>
  BY <1>1 DEF queue
<1>4. UNCHANGED <<dist, d, members, cidx, nnidx, z, mergedist>>
  BY <1>1 DEF ahc
<1>5. npoints \in Nat
  BY DEF AhcInv, DistInv
<1>6. Stored(slice_db')
  <2> DEFINE f == [i \in Rows |-> out[i]]
             S == {out[i] : i \in Rows}
  <2>1. IsFiniteSet(Rows)
    BY RowFacts
  <2>2. f \in Surjection(Rows, S)
    BY DEF Surjection
  <2>3. IsFiniteSet(S)
    BY <2>1, <2>2, FS_Surjection
  <2>4. ASSUME NEW c \in S PROVE Increasing({i \in Rows : out[i] = c}) \in Seq(Nat)
    <3>1. {i \in Rows : out[i] = c} \in SUBSET (0..npoints - 1)
      BY DEF Rows
    <3>2. QED BY <3>1, <1>5, IncreasingIs
  <2>5. DOMAIN slice_db' = S /\ \A c \in S : slice_db'[c] \in Seq(Nat)
    BY <2>4, <1>1
  <2> HIDE DEF S
  <2>6. QED BY <2>3, <2>5 DEF Stored
<1>7. ReadInv' /\ CountInv'
  BY <1>1, <1>3 DEF SegInv, ReadInv, CountInv
<1>8. CutInv'
  BY <1>1, <1>3 DEF SegInv, CutInv, SegmentsAreTheFile, Written
<1>9. ClassInv'
  <2>1. Stored(p_slice_db)
    BY DEF SegInv, ClassInv
  <2>2. Stored(p_slice_db')
    BY <2>1
  <2>3. tool' = "cslice"
    BY <1>1, <1>2
  <2>4. QED BY <1>6, <2>2, <2>3 DEF ClassInv, SlicesAreClasses
<1>10. StepInv'
  BY <1>1, <1>4 DEF AhcInv, StepInv, npoints
<1>11. AhcInv'
  BY <1>1, <1>10, AhcFrame
<1>12. UNCHANGED {members[i] : i \in Active}
  BY <1>4 DEF Active, Rows, npoints
<1>13. TreeInv'
  <2>1. UNCHANGED <<ahc, span, cut>>
    BY DEF port2slice
  <2>2. QED BY <2>1, <1>1, TreeFrame
<1>14. QED BY <1>4, <1>7, <1>8, <1>9, <1>11, <1>12, <1>13 DEF SegInv

\* What the abstract clustering sees of a step.
TreeStep == Tree!Next \/ UNCHANGED <<dist, {members[i] : i \in Active}, mergedist>>

\* One step of cslice after it has read the file.
LEMMA ClusteringInv ==
    ASSUME MInv, Clustering PROVE MInv' /\ TreeStep
<1>1. DupInv /\ SegInv /\ AhcInv /\ TreeInv /\ PairInv /\ PhaseInv /\ SimInv
  BY DEF MInv
<1>2. CSliceNext /\ UNCHANGED <<dupVars, pairVars>>
  BY DEF Clustering
<1>3. UNCHANGED <<ranks, counts, work, stage>> /\ p_slice_db' = p_slice_db
  BY <1>2 DEF pairVars, plain
<1>4. DupInv' /\ PairInv'
  BY <1>1, <1>2, <1>3, DupFrame, PairFrame
<1>5. CASE StartClustering
  <2>1. AhcInv' /\ TreeInv' /\ Tree!Next /\ SimInv'
    BY <1>1, <1>5, StartInv, SimStart
  <2>2. UNCHANGED segVars /\ tool = "cslice" /\ ~reading
    BY <1>5 DEF StartClustering
  <2>3. SegInv'
    BY <1>1, <1>3, <2>2, SegFrame
  <2>4. PhaseInv'
    BY <2>2 DEF PhaseInv, segVars
  <2>5. QED BY <1>4, <2>1, <2>3, <2>4 DEF MInv, TreeStep
<1>6. CASE clustering
  <2>1. AhcNext /\ UNCHANGED segVars
    BY <1>6 DEF clustering
  <2>2. AhcInv' /\ TreeInv' /\ TreeStep /\ SimInv'
    <3>1. AhcInv' /\ TreeStep
      BY <1>1, <2>1, AhcNextInv DEF TreeStep
    <3>2. TreeInv'
      BY <1>1, <2>1, AhcNextTree
    <3>3. SimInv'
      BY <1>1, <1>6, SimClustering
    <3>4. QED BY <3>1, <3>2, <3>3
  <2>3. SegInv'
    BY <1>1, <1>3, <2>1, SegFrame
  <2>4. step # "idle"
    BY <2>1 DEF AhcNext, Merge, Layout, Split, GetK, SeparatedByDist
  <2>5. PhaseInv'
    BY <1>1, <2>1, <2>4 DEF PhaseInv, segVars
  <2>6. QED BY <1>4, <2>2, <2>3, <2>5 DEF MInv
<1>7. CASE port2slice
  <2>1. SegInv' /\ AhcInv' /\ TreeInv' /\ UNCHANGED <<dist, {members[i] : i \in Active}, mergedist>>
    BY <1>1, <1>3, <1>7, StoreSlicesInv
  <2>2. PhaseInv'
    BY <1>1, <1>7 DEF PhaseInv, port2slice
  <2>3. SimInv'
    BY <1>1, <1>7, SimStore
  <2>4. QED BY <1>4, <2>1, <2>2, <2>3 DEF MInv, TreeStep
<1>8. CASE test_cluster
  <2>1. UNCHANGED <<segVars, ahcVars>>
    BY <1>8 DEF test_cluster
  <2>2. AhcInv' /\ TreeInv' /\ UNCHANGED <<dist, {members[i] : i \in Active}, mergedist>>
    BY <1>1, <2>1, AhcKept
  <2>3. SegInv'
    BY <1>1, <1>3, <2>1, SegFrame
  <2>4. PhaseInv'
    BY <1>1, <2>1 DEF PhaseInv, segVars, ahcVars
  <2>5. SimInv'
    BY <1>1, <2>1, SimFrame
  <2>6. QED BY <1>4, <2>2, <2>3, <2>4, <2>5 DEF MInv, TreeStep
<1>9. QED BY <1>2, <1>5, <1>6, <1>7, <1>8 DEF CSliceNext

\* pair starts: cslice's memory is gone, its databases stay.
LEMMA RunPairInv ==
    ASSUME MInv, RunPair PROVE MInv' /\ TreeStep
<1>1. DupInv /\ SegInv /\ AhcInv /\ TreeInv /\ PairInv /\ PhaseInv /\ SimInv
  BY DEF MInv
<1>2. /\ step = "test" /\ tool' = "pair" /\ input' = <<>> /\ lines' = 0
      /\ seg_count' = 0 /\ slice_count' = 0 /\ Forget
      /\ UNCHANGED <<reading, sq, sq_size, seg_db, slice_db, chunk_size, dupVars, pairVars>>
  BY DEF RunPair, CSliceDone
<1>3. UNCHANGED <<ranks, counts, work, stage>> /\ p_slice_db' = p_slice_db
  BY <1>2 DEF pairVars, plain
<1>4. DupInv' /\ PairInv'
  BY <1>1, <1>2, <1>3, DupFrame, PairFrame
<1>5. AhcInv' /\ TreeInv' /\ Tree!Next /\ SimInv'
  <2>1. step' = "idle"
    BY <1>2 DEF Forget
  <2>2. QED BY <1>1, <1>2, <2>1, ForgetInv, ForgetTree, SimIdle
<1>6. PhaseInv'
  BY <1>2 DEF PhaseInv, Forget
<1>7. ~reading
  BY <1>1, <1>2 DEF PhaseInv
<1>8. sq = <<>>
  BY <1>1, <1>7 DEF SegInv, ReadInv
<1>9. ReadInv'
  <2>1. input' \in Seq(Fp) /\ sq' \in Seq(Fp) /\ lines' \in 0..Len(input')
    BY <1>2, <1>8
  <2>2. sq_size' = Bytes(sq') /\ sq_size' <= SEG_SIZE /\ chunk_size' \in [Fp -> Nat]
    BY <1>1, <1>2 DEF SegInv, ReadInv
  <2>3. /\ reading' \in BOOLEAN /\ ~reading' /\ sq' = <<>>
        /\ tool' \in {"duplicate", "pslice", "cslice", "pair"} /\ tool' # "cslice"
    BY <1>1, <1>2, <1>7, <1>8 DEF SegInv, ReadInv
  <2>4. seg_count' \in Nat /\ slice_count' \in Nat
    BY <1>2
  <2>5. QED BY <2>1, <2>2, <2>3, <2>4 DEF ReadInv
<1>10. CutInv'
  <2>1. Written' = <<>>
    BY <1>2 DEF Written
  <2>2. FlattenSeq(<<>>) \o <<>> = SubSeq(<<>>, 1, 0)
    BY DEF FlattenSeq
  <2>3. QED BY <2>1, <2>2, <1>2, <1>8 DEF CutInv, SegmentsAreTheFile
<1>11. CountInv' /\ ClassInv'
  BY <1>1, <1>2, <1>3 DEF SegInv, CountInv, ClassInv, SlicesAreClasses, Stored
<1>12. QED BY <1>4, <1>5, <1>6, <1>9, <1>10, <1>11 DEF MInv, SegInv, TreeStep

\* One step of the programs before cslice clusters, or of pair: the clusterizer
\* rests.
LEMMA RestInv ==
    ASSUME MInv, RunDuplicate \/ RunPslice \/ Segmentation \/ RunCslice \/ Kill \/ Pairing
    PROVE  MInv' /\ TreeStep
<1>1. DupInv /\ SegInv /\ AhcInv /\ TreeInv /\ PairInv /\ PhaseInv /\ SimInv
  BY DEF MInv
<1>2. UNCHANGED clusterVars
  BY DEF RunDuplicate, RunPslice, Segmentation, RunCslice, Kill, Pairing
<1>3. UNCHANGED ahcVars /\ step' = step
  BY <1>2 DEF clusterVars, ahcVars
<1>4. AhcInv' /\ TreeInv' /\ TreeStep
  BY <1>1, <1>3, AhcKept DEF TreeStep
<1>5. CASE RunDuplicate
  <2>1. DupNext /\ UNCHANGED <<segVars, pairVars>>
    BY <1>5 DEF RunDuplicate
  <2>2. UNCHANGED <<ranks, counts, work, stage>> /\ p_slice_db' = p_slice_db
    BY <2>1 DEF pairVars, plain
  <2>3. DupInv' /\ PairInv'
    BY <1>1, <2>1, <2>2, DupNextInv, PairFrame
  <2>4. SegInv' /\ PhaseInv' /\ SimInv'
    <3>1. SegInv'
      BY <1>1, <2>1, <2>2, SegFrame
    <3>2. PhaseInv'
      BY <1>1, <1>3, <2>1 DEF PhaseInv, segVars
    <3>3. SimInv'
      BY <1>1, <1>3, <2>1, SimFrame
    <3>4. QED BY <3>1, <3>2, <3>3
  <2>5. QED BY <1>4, <2>3, <2>4 DEF MInv
<1>6. CASE RunPslice
  <2>1. /\ tool = "duplicate" /\ Open("pslice", Filtered)
        /\ UNCHANGED <<seg_db, slice_db, chunk_size, dupVars, pairVars>>
    BY <1>6 DEF RunPslice
  <2>2. UNCHANGED <<ranks, counts, work, stage>> /\ p_slice_db' = p_slice_db
    BY <2>1 DEF pairVars, plain
  <2>3. DupInv' /\ PairInv'
    BY <1>1, <2>1, <2>2, DupFrame, PairFrame
  <2>4. slice_db' = <<>> /\ Stored(slice_db') /\ Stored(p_slice_db')
    BY <1>1, <2>1, <2>2 DEF SegInv, ClassInv
  <2>5. SegInv'
    <3>1. PICK file : file = Filtered
      OBVIOUS
    <3>2. file \in Seq(Fp) /\ Open("pslice", file)
      BY <3>1, <1>1, <2>1, FilteredIs
    <3>3. chunk_size' = chunk_size
      BY <2>1
    <3>4. QED BY <3>2, <3>3, <2>4, <1>1, OpenInv
  <2>6. step = "idle"
    BY <1>1, <2>1 DEF PhaseInv
  <2>7. PhaseInv' /\ SimInv'
    <3>1. tool' = "pslice"
      BY <2>1 DEF Open
    <3>2. QED BY <3>1, <1>3, <2>6, SimIdle DEF PhaseInv
  <2>8. QED BY <1>4, <2>3, <2>5, <2>7 DEF MInv
<1>7. CASE Segmentation
  <2>1. SegNext /\ UNCHANGED <<dupVars, pairVars>>
    BY <1>7 DEF Segmentation
  <2>2. UNCHANGED <<ranks, counts, work, stage>> /\ p_slice_db' = p_slice_db
    BY <2>1 DEF pairVars, plain
  <2>3. DupInv' /\ PairInv'
    BY <1>1, <2>1, <2>2, DupFrame, PairFrame
  <2>4. SegInv'
    BY <1>1, <2>1, <2>2, SegNextInv
  <2>5. reading
    BY <2>1 DEF SegNext, Line, EndOfFile
  <2>6. step = "idle"
    BY <1>1, <2>5 DEF PhaseInv
  <2>7. PhaseInv' /\ SimInv'
    <3>1. tool' = tool /\ (tool = "cslice" => slice_db' = slice_db)
      BY <2>1 DEF SegNext, Line, EndOfFile, ProcessSeg, segs
    <3>2. tool' = "cslice" => slice_db' = <<>>
      BY <3>1, <1>1, <2>6 DEF SimInv
    <3>3. QED BY <3>2, <1>3, <2>6, SimIdle DEF PhaseInv
  <2>8. QED BY <1>4, <2>3, <2>4, <2>7 DEF MInv
<1>8. CASE RunCslice
  <2>1. PICK file \in Targets : Open("cslice", file)
    BY <1>8 DEF RunCslice
  <2>2. /\ tool = "pslice" /\ p_slice_db' = slice_db /\ slice_db' = <<>>
        /\ UNCHANGED <<chunk_size, dupVars, ranks, counts, work, stage>>
    BY <1>8 DEF RunCslice
  <2>3. DupInv' /\ PairInv'
    BY <1>1, <2>2, DupFrame, PairFrame
  <2>4. Stored(slice_db') /\ Stored(p_slice_db')
    <3>1. Stored(<<>>)
      BY FS_EmptySet DEF Stored
    <3>2. Stored(slice_db)
      BY <1>1 DEF SegInv, ClassInv
    <3>3. QED BY <3>1, <3>2, <2>2 DEF Stored
  <2>5. SegInv'
    <3>1. file \in Seq(Fp) /\ file # <<>>
      BY TargetAssumption
    <3>2. chunk_size' = chunk_size
      BY <2>2
    <3>3. QED BY <3>1, <3>2, <2>1, <2>4, <1>1, OpenInv
  <2>6. step = "idle"
    BY <1>1, <2>2 DEF PhaseInv
  <2>7. PhaseInv' /\ SimInv'
    BY <1>3, <2>2, <2>6, SimIdle DEF PhaseInv
  <2>8. QED BY <1>4, <2>3, <2>5, <2>7 DEF MInv
<1>9. CASE Kill
  <2>1. PICK file \in Retries : Open("cslice", file)
    BY <1>9 DEF Kill
  <2>2. reading /\ UNCHANGED <<seg_db, slice_db, chunk_size, dupVars, pairVars>>
    BY <1>9 DEF Kill
  <2>3. UNCHANGED <<ranks, counts, work, stage>> /\ p_slice_db' = p_slice_db
    BY <2>2 DEF pairVars, plain
  <2>4. DupInv' /\ PairInv'
    BY <1>1, <2>2, <2>3, DupFrame, PairFrame
  <2>5. Stored(slice_db') /\ Stored(p_slice_db')
    <3>1. Stored(slice_db) /\ Stored(p_slice_db)
      BY <1>1 DEF SegInv, ClassInv
    <3>2. QED BY <3>1, <2>2, <2>3 DEF Stored
  <2>6. SegInv'
    <3>1. file \in Seq(Fp) /\ file # <<>>
      BY TargetAssumption
    <3>2. chunk_size' = chunk_size
      BY <2>2
    <3>3. QED BY <3>1, <3>2, <2>1, <2>5, <1>1, OpenInv
  <2>7. step = "idle"
    BY <1>1, <2>2 DEF PhaseInv
  <2>8. PhaseInv' /\ SimInv'
    <3>1. tool = "cslice" /\ slice_db' = slice_db
      BY <1>9 DEF Kill
    <3>2. slice_db' = <<>>
      BY <3>1, <1>1, <2>7 DEF SimInv
    <3>3. QED BY <3>2, <1>3, <2>7, SimIdle DEF PhaseInv
  <2>9. QED BY <1>4, <2>4, <2>6, <2>8 DEF MInv
<1>10. CASE Pairing
  <2>1. PairNext /\ UNCHANGED dupVars
    BY <1>10 DEF Pairing
  <2>2. UNCHANGED files
    BY <2>1 DEF PairNext, LoadSlices, Pair, NoPair, EndPair, FreqSlice, ChunkKnown,
                ChunkSizesDiffer, ChunkInfer, FreqSliceDone, FreqDone, SegSlice, SegSkip,
                SegInfer, SegSliceDone, Finish
  <2>3. UNCHANGED segVars /\ p_slice_db' = p_slice_db
    BY <2>2 DEF files, plain
  <2>4. Stored(slice_db) /\ Stored(p_slice_db)
    BY <1>1 DEF SegInv, ClassInv
  <2>5. DupInv' /\ PairInv'
    BY <1>1, <2>1, <2>4, DupFrame, PairNextInv
  <2>6. SegInv' /\ PhaseInv' /\ SimInv'
    <3>1. SegInv'
      BY <1>1, <2>3, SegFrame
    <3>2. PhaseInv'
      BY <1>1, <1>3, <2>3 DEF PhaseInv, segVars
    <3>3. SimInv'
      BY <1>1, <1>3, <2>3, SimFrame
    <3>4. QED BY <3>1, <3>2, <3>3
  <2>7. QED BY <1>4, <2>5, <2>6 DEF MInv
<1>11. QED BY <1>5, <1>6, <1>7, <1>8, <1>9, <1>10

\* Each step keeps the invariant and is a step of the abstract clustering or none.
LEMMA MNextInv ==
    ASSUME MInv, [MNext]_mvars PROVE MInv' /\ TreeStep
<1>1. CASE MNext
  BY <1>1, ClusteringInv, RunPairInv, RestInv DEF MNext
<1>2. CASE UNCHANGED mvars
  <2>1. UNCHANGED <<dupVars, segVars, ahcVars, pairVars>>
    BY <1>2 DEF mvars, clusterVars
  <2>2. UNCHANGED <<ranks, counts, work, stage>> /\ p_slice_db' = p_slice_db
    BY <2>1 DEF pairVars, plain
  <2>3. DupInv' /\ PairInv' /\ SegInv'
    BY <2>1, <2>2, DupFrame, PairFrame, SegFrame DEF MInv
  <2>4. AhcInv' /\ TreeInv' /\ TreeStep
    BY <2>1, AhcKept DEF MInv, TreeStep
  <2>5. PhaseInv'
    BY <2>1 DEF MInv, PhaseInv, segVars, ahcVars
  <2>6. SimInv'
    BY <2>1, SimFrame DEF MInv
  <2>7. QED BY <2>3, <2>4, <2>5, <2>6 DEF MInv
<1>3. QED BY <1>1, <1>2

-----------------------------------------------------------------------------
(* Theorems *)

\* Whatever the traces, sizes and parameters: the invariant of the programs
\* that share ./output, on which the other theorems rest.
THEOREM MultistreamInv == MSpec => []MInv
<1>1. MInit => MInv
  BY MInitInv
<1>2. MInv /\ [MNext]_mvars => MInv'
  BY MNextInv
<1>3. QED BY <1>1, <1>2, PTL DEF MSpec

\* The queues and databases of pslice and cslice and the arrays of alglib's
\* clusterizer keep their types, whatever matrix cslice hands over.
THEOREM MultistreamType == MSpec => []MTypeOK
<1>1. MInv => MTypeOK
  <2>1. SUFFICES ASSUME MInv PROVE SegTypeOK /\ AhcTypeOK
    BY DEF MTypeOK
  <2>2. AhcTypeOK
    BY <2>1 DEF MInv, AhcInv, RowInv
  <2>3. ReadInv /\ CutInv
    BY <2>1 DEF MInv, SegInv
  <2>4. sq_size \in 0..SEG_SIZE
    <3>1. Bytes(sq) \in Nat /\ sq_size <= SEG_SIZE /\ sq_size = Bytes(sq)
      <4>1. sq \in Seq(Fp)
        BY <2>3 DEF ReadInv
      <4>2. Bytes(sq) \in Nat
        BY <4>1, BytesType
      <4>3. QED BY <4>2, <2>3 DEF ReadInv
    <3>2. QED BY <3>1, SizeAssumption
  <2>5. SegTypeOK
    BY <2>3, <2>4 DEF SegTypeOK, ReadInv, CutInv
  <2>6. QED BY <2>2, <2>5
<1>2. QED BY <1>1, MultistreamInv, PTL

\* duplicate, killed and started again on its old database at any line, loses
\* no line of a repeated chunk.
THEOREM DuplicateLosesNone == MSpec => []NoneLost
<1>1. MInv => NoneLost
  BY DupNoneLost DEF MInv
<1>2. QED BY <1>1, MultistreamInv, PTL

\* The segments that pslice and cslice write are the file they have read, cut
\* as late as the limit allows.
THEOREM SegmentationExact == MSpec => []SegmentsAreTheFile
<1>1. MInv => SegmentsAreTheFile
  BY DEF MInv, SegInv, CutInv
<1>2. QED BY <1>1, MultistreamInv, PTL

\* The slices of pslice are the classes of the segments by minimum fingerprint.
THEOREM SlicesExact == MSpec => []SlicesAreClasses
<1>1. MInv => SlicesAreClasses
  BY DEF MInv, SegInv, ClassInv
<1>2. QED BY <1>1, MultistreamInv, PTL

\* The neighbours that clusterizerrunahcinternal caches are exact after every
\* merge, although it searches only some rows again.
THEOREM NeighboursExact == MSpec => []NearestKept
<1>1. MInv => NearestKept
  BY DEF MInv, AhcInv
<1>2. QED BY <1>1, MultistreamInv, PTL

\* The k classes that clusterizerseparatedbydist and getkclusters return are
\* clusters of the merge tree, numbered 0..k - 1: two points of a class are
\* nearer than r, and two classes could not have been joined within r.
THEOREM ClassesExact == MSpec => []ClassesAreClusters
<1>1. MInv => ClassesAreClusters
  BY ClassesHold DEF MInv
<1>2. QED BY <1>1, MultistreamInv, PTL

\* Two segments that port2slice stores in one slice have more than 1 - r of
\* their chunks in common; when r > 0, segments with the same chunks are in one slice.
THEOREM SlicesSimilar == MSpec => []SlicesAreSimilar
<1>1. MInv => SlicesAreSimilar
  BY SimilarHold DEF MInv
<1>2. QED BY <1>1, MultistreamInv, PTL

\* No auxiliary slice is paired twice and pairs are within the radius.
THEOREM SlicesPairedOnce == MSpec => []PairedOnce
<1>1. MInv => PairedOnce
  BY DEF MInv, PairInv, RanksInv
<1>2. QED BY <1>1, MultistreamInv, PTL

\* The two counters of correct chunks count what this run has inferred right.
THEOREM CorrectExact == MSpec => []CorrectCounted
<1>1. MInv => CorrectCounted
  BY DEF MInv, PairInv, InferInv
<1>2. QED BY <1>1, MultistreamInv, PTL

\* The clusterizer implements agglomerative clustering with complete linkage,
\* as module Linkage defines it on the distances of the points.
THEOREM ClusterizerImplements == MSpec => IsAgglomerative
<1>1. MInit => Tree!Start
  BY MInitInv
<1>2. MInv /\ [MNext]_mvars => [Tree!Next]_(Tree!vars)
  <2>1. SUFFICES ASSUME MInv, [MNext]_mvars PROVE Tree!Next \/ UNCHANGED Tree!vars
    OBVIOUS
  <2>2. TreeStep
    BY <2>1, MNextInv
  <2>3. QED BY <2>2 DEF TreeStep, Tree!vars
<1>3. QED BY <1>1, <1>2, MultistreamInv, PTL DEF MSpec, IsAgglomerative, Tree!Spec

=============================================================================
