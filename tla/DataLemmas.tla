----------------------------- MODULE DataLemmas -----------------------------
(***************************************************************************)
(* Facts about naturals, finite sets and lists that the proofs about the    *)
(* analysis tools share.                                                    *)
(***************************************************************************)
EXTENDS Integers, SequencesExt, FiniteSetTheorems, SequenceTheorems, TLAPS

-----------------------------------------------------------------------------
(* Least elements and induction, with sets in place of predicates *)

\* A set of naturals has a least element.
LEMMA LeastNat ==
    ASSUME NEW T, T \subseteq Nat, T # {}
    PROVE  \E m \in T : \A n \in T : m <= n
<1> DEFINE F == {0..m : m \in T}
<1>1. \A m \in T : 0..m \in FiniteSubsetsOf(Nat)
  <2>1. ASSUME NEW m \in T PROVE IsFiniteSet(0..m) /\ 0..m \subseteq Nat
    BY FS_Interval
  <2>2. QED BY <2>1 DEF FiniteSubsetsOf
<1>2. F \subseteq FiniteSubsetsOf(Nat) /\ F # {}
  BY <1>1
<1>3. \E x \in F : \A y \in F : ~ (<<y, x>> \in StrictSubsetOrdering(Nat))
  BY <1>2, FS_StrictSubsetOrderingWellFounded, WFMin
<1>4. PICK m \in T : \A n \in T : ~ (<<0..n, 0..m>> \in StrictSubsetOrdering(Nat))
  BY <1>3
<1>5. ASSUME NEW n \in T, n < m PROVE FALSE
  <2>1. 0..n \subseteq 0..m /\ 0..n # 0..m /\ 0..n \in SUBSET Nat /\ 0..m \in SUBSET Nat
    BY <1>5
  <2>2. QED BY <2>1, <1>4 DEF StrictSubsetOrdering
<1>6. QED BY <1>5

\* Min of a set of naturals is its least element.
LEMMA MinIsLeast ==
    ASSUME NEW T, T \subseteq Nat, T # {}
    PROVE  Min(T) \in T /\ \A n \in T : Min(T) <= n
  BY LeastNat DEF Min

\* Of the numbers in S, one is the first of those with the least value of f.
LEMMA FirstOfLeast ==
    ASSUME NEW S, S \subseteq Nat, S # {}, NEW f, \A x \in S : f[x] \in Nat
    PROVE  \E x \in S : \A y \in S : f[x] < f[y] \/ (f[x] = f[y] /\ x <= y)
<1>1. PICK v \in {f[x] : x \in S} : \A w \in {f[x] : x \in S} : v <= w
  <2> DEFINE V == {f[x] : x \in S}
  <2>1. V \subseteq Nat /\ V # {}
    OBVIOUS
  <2> HIDE DEF V
  <2>2. \E v \in V : \A w \in V : v <= w
    BY <2>1, LeastNat
  <2>3. QED BY <2>2 DEF V
<1>2. PICK x \in S : f[x] = v /\ \A y \in S : f[y] = v => x <= y
  <2> DEFINE V == {z \in S : f[z] = v}
  <2>1. V \subseteq Nat /\ V # {}
    BY <1>1
  <2> HIDE DEF V
  <2>2. \E x \in V : \A y \in V : x <= y
    BY <2>1, LeastNat
  <2>3. QED BY <2>2 DEF V
<1>3. \A y \in S : f[x] < f[y] \/ (f[x] = f[y] /\ x <= y)
  <2> TAKE y \in S
  <2>1. f[x] \in Nat /\ f[y] \in Nat /\ v <= f[y] /\ v = f[x]
    BY <1>1, <1>2
  <2>2. CASE f[y] = v
    BY <1>2, <2>1, <2>2
  <2>3. CASE f[y] # v
    BY <2>1, <2>3
  <2>4. QED BY <2>2, <2>3
<1>4. QED BY <1>3

\* Induction: a set with 0 and all successors has every natural.
LEMMA InductionNat ==
    ASSUME NEW S, 0 \in S, \A n \in Nat : n \in S => n + 1 \in S
    PROVE  Nat \subseteq S
<1> DEFINE T == Nat \ S
<1>1. SUFFICES ASSUME T # {} PROVE FALSE
  OBVIOUS
<1>2. PICK m \in T : \A n \in T : m <= n
  BY <1>1, LeastNat
<1>3. m # 0 /\ m - 1 \in Nat
  BY <1>2
<1>4. m - 1 \in S
  BY <1>2, <1>3
<1>5. QED BY <1>2, <1>3, <1>4

\* Induction over the subsets of a finite set.
LEMMA InductionFinite ==
    ASSUME NEW S, IsFiniteSet(S), NEW F, {} \in F,
           \A T \in SUBSET S : \A x \in S \ T : T \in F => T \cup {x} \in F
    PROVE  SUBSET S \subseteq F
<1> DEFINE P == {n \in Nat : \A T \in SUBSET S : Cardinality(T) = n => T \in F}
<1>0. \A T \in SUBSET S : IsFiniteSet(T) /\ Cardinality(T) \in Nat
  BY FS_Subset, FS_CardinalityType
<1>1. 0 \in P
  BY <1>0, FS_EmptySet
<1>2. ASSUME NEW n \in Nat, n \in P PROVE n + 1 \in P
  <2> SUFFICES ASSUME NEW T \in SUBSET S, Cardinality(T) = n + 1 PROVE T \in F
    BY DEF P
  <2>1. T # {} /\ IsFiniteSet(T)
    BY <1>0, FS_EmptySet, n + 1 # 0
  <2>2. PICK x \in T : TRUE
    BY <2>1
  <2>3. Cardinality(T \ {x}) = n
    <3>1. Cardinality(T \ {x}) = Cardinality(T) - 1
      BY <2>1, <2>2, FS_RemoveElement
    <3>2. QED BY <3>1
  <2>4. T \ {x} \in F
    BY <2>3, <1>2
  <2>5. (T \ {x}) \cup {x} = T
    BY <2>2
  <2>6. QED BY <2>4, <2>5, <2>2
<1> HIDE DEF P
<1>3. Nat \subseteq P
  BY <1>1, <1>2, InductionNat
<1>4. QED BY <1>0, <1>3 DEF P

-----------------------------------------------------------------------------
(* Lists *)

\* The elements of a list after Append.
LEMMA RangeAppend ==
    ASSUME NEW S, NEW s \in Seq(S), NEW e \in S
    PROVE  Range(Append(s, e)) = Range(s) \cup {e}
<1>1. /\ DOMAIN Append(s, e) = 1..Len(s) + 1 /\ DOMAIN s = 1..Len(s) /\ Len(s) \in Nat
      /\ \A i \in 1..Len(s) : Append(s, e)[i] = s[i]
      /\ Append(s, e)[Len(s) + 1] = e
  OBVIOUS
<1>2. QED BY <1>1 DEF Range

\* The elements of a list after Tail.
LEMMA RangeTail ==
    ASSUME NEW S, NEW s \in Seq(S), s # <<>>
    PROVE  /\ Range(Tail(s)) \subseteq Range(s)
           /\ Head(s) \in Range(s)
           /\ Range(s) = Range(Tail(s)) \cup {Head(s)}
<1>1. /\ DOMAIN Tail(s) = 1..Len(s) - 1 /\ DOMAIN s = 1..Len(s) /\ Len(s) \in Nat \ {0}
      /\ \A i \in 1..Len(s) - 1 : Tail(s)[i] = s[i + 1]
      /\ Head(s) = s[1]
  OBVIOUS
<1>2. \A i \in 1..Len(s) : i # 1 => i - 1 \in 1..Len(s) - 1 /\ s[i] = Tail(s)[i - 1]
  BY <1>1
<1>3. ASSUME NEW x \in Range(s) PROVE x \in Range(Tail(s)) \cup {Head(s)}
  <2>1. PICK i \in 1..Len(s) : x = s[i]
    BY <1>1 DEF Range
  <2>2. QED BY <1>1, <1>2, <2>1 DEF Range
<1>4. \A i \in 1..Len(s) - 1 : i + 1 \in 1..Len(s)
  BY <1>1
<1>5. ASSUME NEW x \in Range(Tail(s)) PROVE x \in Range(s)
  <2>1. PICK i \in 1..Len(s) - 1 : x = Tail(s)[i]
    BY <1>1 DEF Range
  <2>2. QED BY <1>1, <1>4, <2>1 DEF Range
<1>7. Head(s) \in Range(s)
  BY <1>1 DEF Range
<1>8. QED BY <1>3, <1>5, <1>7

\* An injective list stays injective when a new element is appended.
LEMMA InjectiveAppend ==
    ASSUME NEW S, NEW s \in Seq(S), NEW e \in S, IsInjective(s), e \notin Range(s)
    PROVE  IsInjective(Append(s, e))
<1>1. /\ DOMAIN Append(s, e) = 1..Len(s) + 1 /\ DOMAIN s = 1..Len(s) /\ Len(s) \in Nat
      /\ \A i \in 1..Len(s) : Append(s, e)[i] = s[i]
      /\ Append(s, e)[Len(s) + 1] = e
  OBVIOUS
<1>2. \A i \in 1..Len(s) : s[i] # e
  BY <1>1 DEF Range
<1>3. QED BY <1>1, <1>2 DEF IsInjective

\* The head of an injective list is not in its tail, which is injective.
LEMMA InjectiveTail ==
    ASSUME NEW S, NEW s \in Seq(S), s # <<>>, IsInjective(s)
    PROVE  IsInjective(Tail(s)) /\ Head(s) \notin Range(Tail(s))
<1>1. /\ DOMAIN Tail(s) = 1..Len(s) - 1 /\ DOMAIN s = 1..Len(s) /\ Len(s) \in Nat \ {0}
      /\ \A i \in 1..Len(s) - 1 : Tail(s)[i] = s[i + 1]
      /\ Head(s) = s[1]
  OBVIOUS
<1>2. \A i \in 1..Len(s) - 1 : i + 1 \in 1..Len(s) /\ i + 1 # 1
  BY <1>1
<1>3. \A i, j \in 1..Len(s) - 1 : Tail(s)[i] = Tail(s)[j] => i = j
  BY <1>1, <1>2 DEF IsInjective
<1>4. \A i \in 1..Len(s) - 1 : Tail(s)[i] # Head(s)
  BY <1>1, <1>2 DEF IsInjective
<1>5. QED BY <1>1, <1>3, <1>4 DEF IsInjective, Range

\* An injective list has as many elements as its length.
LEMMA InjectiveLength ==
    ASSUME NEW S, NEW s \in Seq(S), IsInjective(s)
    PROVE  IsFiniteSet(Range(s)) /\ Cardinality(Range(s)) = Len(s)
<1>1. s \in [1..Len(s) -> Range(s)] /\ DOMAIN s = 1..Len(s) /\ Len(s) \in Nat
  BY DEF Range
<1>2. s \in Surjection(1..Len(s), Range(s)) /\ s \in Injection(1..Len(s), Range(s))
  BY <1>1 DEF Surjection, Injection, Range
<1>3. IsFiniteSet(1..Len(s)) /\ Cardinality(1..Len(s)) = Len(s)
  <2>1. IsFiniteSet(1..Len(s)) /\ Cardinality(1..Len(s)) = IF 1 > Len(s) THEN 0 ELSE Len(s) - 1 + 1
    BY <1>1, FS_Interval
  <2>2. QED BY <1>1, <2>1
<1>4. QED BY <1>2, <1>3, FS_Surjection

\* SetToSeq lists a finite set.
LEMMA SetToSeqLists ==
    ASSUME NEW S, IsFiniteSet(S)
    PROVE  /\ SetToSeq(S) \in Seq(S) /\ IsInjective(SetToSeq(S))
           /\ Len(SetToSeq(S)) = Cardinality(S) /\ Range(SetToSeq(S)) \subseteq S
<1>1. Cardinality(S) \in Nat /\ Bijection(1..Cardinality(S), S) # {}
  BY FS_CardinalityType DEF ExistsBijection
<1>2. \E f \in [1..Cardinality(S) -> S] : IsInjective(f)
  BY <1>1 DEF Bijection, Injection
<1>3. SetToSeq(S) \in [1..Cardinality(S) -> S] /\ IsInjective(SetToSeq(S))
  BY <1>2 DEF SetToSeq
<1>4. QED BY <1>1, <1>3 DEF Range

-----------------------------------------------------------------------------
(* Sums *)

\* A function that sums f over the subsets of S, one element after the other.
Sums(f, S) == {g \in [SUBSET S -> Int] :
    \A s \in SUBSET S :
        g[s] = IF s = {} THEN 0
               ELSE f[CHOOSE x \in s : TRUE] + g[s \ {CHOOSE x \in s : TRUE}]}

\* There is one.
LEMMA SumsExist ==
    ASSUME NEW S, IsFiniteSet(S), NEW f, \A x \in S : f[x] \in Int
    PROVE  Sums(f, S) # {}
<1> DEFINE Up(n) == {s \in SUBSET S : Cardinality(s) <= n}
           pick(s) == CHOOSE x \in s : TRUE
           Part(n) == {g \in [Up(n) -> Int] :
                         \A s \in Up(n) : g[s] = IF s = {} THEN 0 ELSE f[pick(s)] + g[s \ {pick(s)}]}
           P == {n \in Nat : Part(n) # {}}
<1>0. \A s \in SUBSET S : IsFiniteSet(s) /\ Cardinality(s) \in Nat
  BY FS_Subset, FS_CardinalityType
<1>1. \A s \in SUBSET S : s # {} => pick(s) \in s
  OBVIOUS
<1>2. \A n \in Nat : \A s \in Up(n + 1) : s # {} => s \ {pick(s)} \in Up(n)
  <2> SUFFICES ASSUME NEW n \in Nat, NEW s \in Up(n + 1), s # {}
               PROVE  s \ {pick(s)} \in Up(n)
    OBVIOUS
  <2>1. Cardinality(s \ {pick(s)}) = Cardinality(s) - 1
    BY <1>0, <1>1, FS_RemoveElement
  <2>2. Cardinality(s) \in Nat /\ Cardinality(s) <= n + 1 /\ s \ {pick(s)} \in SUBSET S
    BY <1>0
  <2>3. QED BY <2>1, <2>2
<1>3. \A n \in Nat : Up(n) \subseteq Up(n + 1)
  BY <1>0
<1>4. 0 \in P
  <2> DEFINE g == [s \in Up(0) |-> 0]
  <2>1. \A s \in Up(0) : s = {}
    BY <1>0, FS_EmptySet
  <2>2. g \in Part(0)
    BY <2>1
  <2>3. QED BY <2>2
<1>5. ASSUME NEW n \in Nat, n \in P PROVE n + 1 \in P
  <2>1. PICK g \in Part(n) : TRUE
    BY <1>5
  <2> DEFINE h == [s \in Up(n + 1) |-> IF s = {} THEN 0 ELSE f[pick(s)] + g[s \ {pick(s)}]]
  <2>2. \A s \in Up(n) : h[s] = g[s]
    BY <1>3, <2>1
  <2>3. h \in [Up(n + 1) -> Int]
    <3>1. ASSUME NEW s \in Up(n + 1), s # {} PROVE f[pick(s)] + g[s \ {pick(s)}] \in Int
      <4>1. f[pick(s)] \in Int
        BY <1>1, <3>1
      <4>2. s \ {pick(s)} \in Up(n)
        BY <1>2, <3>1
      <4>3. g[s \ {pick(s)}] \in Int
        BY <2>1, <4>2
      <4>4. QED BY <4>1, <4>3
    <3>2. QED BY <3>1
  <2>4. \A s \in Up(n + 1) : h[s] = IF s = {} THEN 0 ELSE f[pick(s)] + h[s \ {pick(s)}]
    <3>0. SUFFICES ASSUME NEW s \in Up(n + 1)
                   PROVE  h[s] = IF s = {} THEN 0 ELSE f[pick(s)] + h[s \ {pick(s)}]
      OBVIOUS
    <3>1. s # {} => h[s \ {pick(s)}] = g[s \ {pick(s)}]
      BY <1>2, <2>2
    <3>2. h[s] = IF s = {} THEN 0 ELSE f[pick(s)] + g[s \ {pick(s)}]
      OBVIOUS
    <3> HIDE DEF h
    <3>3. QED BY <3>1, <3>2
  <2>5. h \in Part(n + 1)
    BY <2>3, <2>4
  <2> HIDE DEF h, Part
  <2>6. QED BY <2>5
<1> HIDE DEF P
<1>6. Nat \subseteq P
  BY <1>4, <1>5, InductionNat
<1>7. PICK g \in Part(Cardinality(S)) : TRUE
  BY <1>0, <1>6 DEF P
<1>8. Up(Cardinality(S)) = SUBSET S
  BY <1>0, FS_Subset
<1>9. g \in Sums(f, S)
  BY <1>7, <1>8 DEF Sums
<1>10. QED BY <1>9

\* It is the one that SumFunctionOnSet applies to S.
LEMMA SumIsSums ==
    ASSUME NEW S, IsFiniteSet(S), NEW f, \A x \in S : f[x] \in Int, NEW h \in Sums(f, S)
    PROVE  SumFunctionOnSet(f, S) = h[S]
<1> DEFINE pick(s) == CHOOSE x \in s : TRUE
           iter == CHOOSE g : g = [s \in SUBSET S |-> IF s = {} THEN 0 ELSE f[pick(s)] + g[s \ {pick(s)}]]
<1>2. h = [s \in SUBSET S |-> IF s = {} THEN 0 ELSE f[pick(s)] + h[s \ {pick(s)}]]
  BY DEF Sums
<1>3. iter = [s \in SUBSET S |-> IF s = {} THEN 0 ELSE f[pick(s)] + iter[s \ {pick(s)}]]
  BY <1>2
<1>4. SumFunctionOnSet(f, S) = iter[S]
  BY DEF SumFunctionOnSet, FoldFunctionOnSet, MapThenFoldSet
<1> HIDE DEF iter
<1>5. \A s \in SUBSET S : iter[s] = IF s = {} THEN 0 ELSE f[pick(s)] + iter[s \ {pick(s)}]
  BY <1>3
<1>6. SUBSET S \subseteq {s \in SUBSET S : iter[s] = h[s]}
  <2> DEFINE P == {n \in Nat : \A s \in SUBSET S : Cardinality(s) = n => iter[s] = h[s]}
  <2>0. \A s \in SUBSET S : IsFiniteSet(s) /\ Cardinality(s) \in Nat
    BY FS_Subset, FS_CardinalityType
  <2>1. 0 \in P
    BY <1>5, <1>2, <2>0, FS_EmptySet
  <2>2. ASSUME NEW n \in Nat, n \in P PROVE n + 1 \in P
    <3> SUFFICES ASSUME NEW s \in SUBSET S, Cardinality(s) = n + 1 PROVE iter[s] = h[s]
      OBVIOUS
    <3>1. s # {} /\ pick(s) \in s
      BY <2>0, FS_EmptySet, n + 1 # 0
    <3>2. Cardinality(s \ {pick(s)}) = n
      <4>1. Cardinality(s \ {pick(s)}) = Cardinality(s) - 1
        BY <2>0, <3>1, FS_RemoveElement
      <4>2. QED BY <4>1
    <3>3. iter[s \ {pick(s)}] = h[s \ {pick(s)}]
      BY <2>2, <3>2
    <3>4. iter[s] = f[pick(s)] + iter[s \ {pick(s)}]
      BY <1>5, <3>1
    <3>5. h[s] = f[pick(s)] + h[s \ {pick(s)}]
      BY <1>2, <3>1
    <3>6. QED BY <3>3, <3>4, <3>5
  <2> HIDE DEF P
  <2>3. Nat \subseteq P
    BY <2>1, <2>2, InductionNat
  <2>4. QED BY <2>0, <2>3 DEF P
<1>7. QED BY <1>4, <1>6

\* Any element may be the one that is added last.
LEMMA SumsAnyOrder ==
    ASSUME NEW S, IsFiniteSet(S), NEW f, \A x \in S : f[x] \in Int, NEW g \in Sums(f, S),
           NEW T \in SUBSET S, NEW x \in T
    PROVE  g[T] = f[x] + g[T \ {x}]
<1> DEFINE pick(s) == CHOOSE y \in s : TRUE
           P == {n \in Nat : \A s \in SUBSET S : Cardinality(s) = n =>
                                \A y \in s : g[s] = f[y] + g[s \ {y}]}
<1>0. \A s \in SUBSET S : IsFiniteSet(s) /\ Cardinality(s) \in Nat
  BY FS_Subset, FS_CardinalityType
<1>1. /\ \A s \in SUBSET S : g[s] \in Int
      /\ \A s \in SUBSET S : s # {} => pick(s) \in s /\ g[s] = f[pick(s)] + g[s \ {pick(s)}]
  BY DEF Sums
<1>2. 0 \in P
  BY <1>0, FS_EmptySet
<1>3. ASSUME NEW n \in Nat, n \in P PROVE n + 1 \in P
  <2> SUFFICES ASSUME NEW s \in SUBSET S, Cardinality(s) = n + 1, NEW y \in s
               PROVE  g[s] = f[y] + g[s \ {y}]
    OBVIOUS
  <2> DEFINE p == pick(s)
  <2>1. p \in s /\ g[s] = f[p] + g[s \ {p}]
    BY <1>1
  <2> HIDE DEF p
  <2>2. CASE p = y
    BY <2>1, <2>2
  <2>3. CASE p # y
    <3>1. /\ Cardinality(s \ {p}) = n /\ s \ {p} \in SUBSET S /\ y \in s \ {p}
          /\ Cardinality(s \ {y}) = n /\ s \ {y} \in SUBSET S /\ p \in s \ {y}
      <4>1. Cardinality(s \ {p}) = Cardinality(s) - 1 /\ Cardinality(s \ {y}) = Cardinality(s) - 1
        BY <1>0, <2>1, FS_RemoveElement
      <4>2. QED BY <2>1, <2>3, <4>1
    <3>2. g[s \ {p}] = f[y] + g[(s \ {p}) \ {y}]
      BY <1>3, <3>1
    <3>3. g[s \ {y}] = f[p] + g[(s \ {y}) \ {p}]
      BY <1>3, <3>1
    <3>4. (s \ {p}) \ {y} = (s \ {y}) \ {p} /\ (s \ {p}) \ {y} \in SUBSET S
      OBVIOUS
    <3>5. f[p] \in Int /\ f[y] \in Int /\ g[(s \ {p}) \ {y}] \in Int
      BY <1>1, <2>1, <3>4
    <3> DEFINE r == g[(s \ {p}) \ {y}]  sy == g[s \ {y}]
    <3>6. g[s] = f[p] + (f[y] + r) /\ sy = f[p] + r /\ r \in Int
      BY <2>1, <3>2, <3>3, <3>4, <3>5
    <3> HIDE DEF r, sy
    <3>7. g[s] = f[y] + sy
      BY <3>5, <3>6
    <3>8. QED BY <3>7 DEF sy
  <2>4. QED BY <2>2, <2>3
<1> HIDE DEF P
<1>4. Nat \subseteq P
  BY <1>2, <1>3, InductionNat
<1>5. QED BY <1>0, <1>4 DEF P

\* The sum of no numbers.
LEMMA SumEmpty ==
    ASSUME NEW f
    PROVE  SumFunctionOnSet(f, {}) = 0
<1>1. PICK g \in Sums(f, {}) : TRUE
  BY FS_EmptySet, SumsExist
<1>2. SumFunctionOnSet(f, {}) = g[{}]
  BY FS_EmptySet, SumIsSums
<1>3. QED BY <1>2 DEF Sums

\* The sum of one number more.
LEMMA SumAdd ==
    ASSUME NEW S, IsFiniteSet(S), NEW x, x \notin S, NEW f,
           \A y \in S : f[y] \in Int, f[x] \in Int
    PROVE  /\ SumFunctionOnSet(f, S) \in Int
           /\ SumFunctionOnSet(f, S \cup {x}) = f[x] + SumFunctionOnSet(f, S)
<1> DEFINE U == S \cup {x}
<1>1. IsFiniteSet(U) /\ \A y \in U : f[y] \in Int
  BY FS_AddElement
<1>2. PICK g \in Sums(f, U) : TRUE
  BY <1>1, SumsExist
<1>3. SumFunctionOnSet(f, U) = g[U]
  BY <1>1, SumIsSums
<1>4. g[U] = f[x] + g[U \ {x}] /\ U \ {x} = S
  <2>1. U \in SUBSET U /\ x \in U /\ U \ {x} = S
    OBVIOUS
  <2> HIDE DEF U
  <2>2. QED BY <1>1, <2>1, SumsAnyOrder
<1> DEFINE h == [s \in SUBSET S |-> g[s]]
<1>5. h \in Sums(f, S)
  <2>1. SUBSET S \subseteq SUBSET U
    OBVIOUS
  <2>2. /\ \A s \in SUBSET U : g[s] \in Int
        /\ \A s \in SUBSET U : g[s] = IF s = {} THEN 0
                ELSE f[CHOOSE z \in s : TRUE] + g[s \ {CHOOSE z \in s : TRUE}]
    BY <1>2 DEF Sums
  <2>3. h \in [SUBSET S -> Int]
    BY <2>1, <2>2
  <2>4. ASSUME NEW s \in SUBSET S
        PROVE  h[s] = IF s = {} THEN 0
                      ELSE f[CHOOSE z \in s : TRUE] + h[s \ {CHOOSE z \in s : TRUE}]
    <3> DEFINE r == s \ {CHOOSE z \in s : TRUE}
    <3>1. h[r] = g[r] /\ h[s] = g[s]
      OBVIOUS
    <3>2. QED BY <3>1, <2>1, <2>2
  <2> HIDE DEF h
  <2>5. QED BY <2>3, <2>4 DEF Sums
<1>6. SumFunctionOnSet(f, S) = g[S]
  BY <1>5, SumIsSums
<1>7. g[S] \in Int
  BY <1>2 DEF Sums
<1>8. QED BY <1>3, <1>4, <1>6, <1>7

\* A sum of integers is an integer.
LEMMA SumType ==
    ASSUME NEW S, IsFiniteSet(S), NEW f, \A x \in S : f[x] \in Int
    PROVE  SumFunctionOnSet(f, S) \in Int
<1>1. PICK g \in Sums(f, S) : TRUE
  BY SumsExist
<1>2. SumFunctionOnSet(f, S) = g[S]
  BY SumIsSums
<1>3. QED BY <1>2 DEF Sums

\* One number taken out of a sum.
LEMMA SumRemove ==
    ASSUME NEW S, IsFiniteSet(S), NEW x \in S, NEW f, \A y \in S : f[y] \in Int
    PROVE  /\ SumFunctionOnSet(f, S \ {x}) \in Int
           /\ SumFunctionOnSet(f, S) = f[x] + SumFunctionOnSet(f, S \ {x})
<1> DEFINE R == S \ {x}
<1>1. IsFiniteSet(R) /\ x \notin R /\ R \cup {x} = S /\ f[x] \in Int /\ \A y \in R : f[y] \in Int
  BY FS_RemoveElement
<1> HIDE DEF R
<1>2. SumFunctionOnSet(f, R) \in Int /\ SumFunctionOnSet(f, R \cup {x}) = f[x] + SumFunctionOnSet(f, R)
  BY <1>1, SumAdd
<1>3. QED BY <1>1, <1>2 DEF R

\* Sums are monotone in the numbers.
LEMMA SumLeq ==
    ASSUME NEW S, IsFiniteSet(S), NEW f, NEW h,
           \A x \in S : f[x] \in Int /\ h[x] \in Int /\ f[x] <= h[x]
    PROVE  SumFunctionOnSet(f, S) <= SumFunctionOnSet(h, S)
<1> DEFINE F == {T \in SUBSET S : SumFunctionOnSet(f, T) <= SumFunctionOnSet(h, T)}
<1>1. {} \in F
  BY SumEmpty
<1>2. ASSUME NEW T \in SUBSET S, NEW x \in S \ T, T \in F PROVE T \cup {x} \in F
  <2>1. /\ SumFunctionOnSet(f, T) \in Int /\ SumFunctionOnSet(h, T) \in Int
        /\ SumFunctionOnSet(f, T \cup {x}) = f[x] + SumFunctionOnSet(f, T)
        /\ SumFunctionOnSet(h, T \cup {x}) = h[x] + SumFunctionOnSet(h, T)
    BY FS_Subset, SumAdd
  <2>2. f[x] \in Int /\ h[x] \in Int /\ f[x] <= h[x] /\ T \cup {x} \in SUBSET S
    OBVIOUS
  <2>3. SumFunctionOnSet(f, T) <= SumFunctionOnSet(h, T)
    BY <1>2
  <2>4. SumFunctionOnSet(f, T \cup {x}) <= SumFunctionOnSet(h, T \cup {x})
    BY <2>1, <2>2, <2>3
  <2>5. QED BY <2>2, <2>4
<1> HIDE DEF F
<1>3. SUBSET S \subseteq F
  BY <1>1, <1>2, InductionFinite
<1>4. QED BY <1>3 DEF F

\* The sum depends on the numbers only.
LEMMA SumSame ==
    ASSUME NEW S, IsFiniteSet(S), NEW f, NEW h, \A x \in S : f[x] \in Int /\ h[x] = f[x]
    PROVE  SumFunctionOnSet(f, S) = SumFunctionOnSet(h, S)
<1>1. \A x \in S : /\ f[x] \in Int /\ h[x] \in Int
                   /\ f[x] <= h[x] /\ h[x] <= f[x]
  OBVIOUS
<1>2. SumFunctionOnSet(f, S) <= SumFunctionOnSet(h, S) /\ SumFunctionOnSet(h, S) <= SumFunctionOnSet(f, S)
  BY <1>1, SumLeq
<1>3. SumFunctionOnSet(f, S) \in Int /\ SumFunctionOnSet(h, S) \in Int
  BY <1>1, SumType
<1>4. QED BY <1>2, <1>3

\* One of the numbers changes.
LEMMA SumChange ==
    ASSUME NEW S, IsFiniteSet(S), NEW f, NEW h, NEW x \in S,
           \A y \in S : f[y] \in Int /\ h[y] \in Int,
           \A y \in S \ {x} : h[y] = f[y]
    PROVE  SumFunctionOnSet(h, S) = SumFunctionOnSet(f, S) + (h[x] - f[x])
<1>1. /\ SumFunctionOnSet(f, S) = f[x] + SumFunctionOnSet(f, S \ {x})
      /\ SumFunctionOnSet(h, S) = h[x] + SumFunctionOnSet(h, S \ {x})
      /\ SumFunctionOnSet(f, S \ {x}) \in Int
  BY SumRemove
<1>2. SumFunctionOnSet(f, S \ {x}) = SumFunctionOnSet(h, S \ {x})
  <2> DEFINE R == S \ {x}
  <2>1. IsFiniteSet(R) /\ \A y \in R : f[y] \in Int /\ h[y] = f[y]
    BY FS_RemoveElement
  <2> HIDE DEF R
  <2>2. SumFunctionOnSet(f, R) = SumFunctionOnSet(h, R)
    BY <2>1, SumSame
  <2>3. QED BY <2>2 DEF R
<1>3. QED BY <1>1, <1>2

\* A sum of natural numbers is at least any part of it.
LEMMA SumPart ==
    ASSUME NEW S, IsFiniteSet(S), NEW f, \A x \in S : f[x] \in Nat, NEW T \in SUBSET S
    PROVE  SumFunctionOnSet(f, T) \in Nat /\ SumFunctionOnSet(f, T) <= SumFunctionOnSet(f, S)
<1>0. \A U \in SUBSET S : IsFiniteSet(U) /\ SumFunctionOnSet(f, U) \in Int
  <2> TAKE U \in SUBSET S
  <2>1. IsFiniteSet(U) /\ \A x \in U : f[x] \in Int
    BY FS_Subset
  <2>2. QED BY <2>1, SumType
<1>1. ASSUME NEW A \in SUBSET S
      PROVE  SumFunctionOnSet(f, A) <= SumFunctionOnSet(f, S)
  <2> DEFINE R == S \ A
             F == {U \in SUBSET R : SumFunctionOnSet(f, A) <= SumFunctionOnSet(f, A \cup U)}
  <2>1. {} \in F
    <3>1. A \cup {} = A /\ SumFunctionOnSet(f, A) \in Int
      BY <1>0
    <3>2. QED BY <3>1
  <2>2. ASSUME NEW U \in SUBSET R, NEW x \in R \ U, U \in F PROVE U \cup {x} \in F
    <3> DEFINE B == A \cup U
    <3>1. /\ B \in SUBSET S /\ x \notin B /\ x \in S /\ A \cup (U \cup {x}) = B \cup {x}
          /\ U \cup {x} \in SUBSET R /\ f[x] \in Nat
      OBVIOUS
    <3>2. SumFunctionOnSet(f, A) <= SumFunctionOnSet(f, B)
      BY <2>2
    <3> HIDE DEF B
    <3>3. SumFunctionOnSet(f, B \cup {x}) = f[x] + SumFunctionOnSet(f, B)
      BY <1>0, <3>1, SumAdd
    <3>4. SumFunctionOnSet(f, B) \in Int /\ SumFunctionOnSet(f, A) \in Int
      BY <1>0, <3>1
    <3>5. SumFunctionOnSet(f, A) <= SumFunctionOnSet(f, B \cup {x})
      BY <3>1, <3>2, <3>3, <3>4
    <3>6. SumFunctionOnSet(f, A) <= SumFunctionOnSet(f, A \cup (U \cup {x}))
      BY <3>1, <3>5
    <3>7. QED BY <3>1, <3>6
  <2>3. IsFiniteSet(R)
    BY FS_Subset
  <2> HIDE DEF F
  <2>4. SUBSET R \subseteq F
    BY <2>1, <2>2, <2>3, InductionFinite
  <2>5. R \in F /\ A \cup R = S
    BY <2>4
  <2>6. QED BY <2>5 DEF F
<1>2. 0 <= SumFunctionOnSet(f, T)
  <2> DEFINE F == {U \in SUBSET T : SumFunctionOnSet(f, U) \in Nat}
  <2>1. {} \in F
    BY SumEmpty
  <2>2. ASSUME NEW U \in SUBSET T, NEW x \in T \ U, U \in F PROVE U \cup {x} \in F
    <3>0. IsFiniteSet(U) /\ x \notin U /\ f[x] \in Int /\ \A y \in U : f[y] \in Int
      BY <1>0
    <3>1. SumFunctionOnSet(f, U \cup {x}) = f[x] + SumFunctionOnSet(f, U)
      BY <3>0, SumAdd
    <3>2. SumFunctionOnSet(f, U) \in Nat /\ f[x] \in Nat
      BY <2>2
    <3>3. QED BY <3>1, <3>2
  <2> HIDE DEF F
  <2>3. SUBSET T \subseteq F
    BY <1>0, <2>1, <2>2, InductionFinite
  <2>4. QED BY <2>3 DEF F
<1>3. QED BY <1>0, <1>1, <1>2

\* A sum of zeros.
LEMMA SumZero ==
    ASSUME NEW S, IsFiniteSet(S), NEW f, \A x \in S : f[x] = 0
    PROVE  SumFunctionOnSet(f, S) = 0
<1> DEFINE F == {T \in SUBSET S : SumFunctionOnSet(f, T) = 0}
<1>1. {} \in F
  BY SumEmpty
<1>2. ASSUME NEW T \in SUBSET S, NEW x \in S \ T, T \in F PROVE T \cup {x} \in F
  <2>1. IsFiniteSet(T) /\ x \notin T /\ f[x] \in Int /\ \A y \in T : f[y] \in Int
    BY FS_Subset
  <2>2. SumFunctionOnSet(f, T \cup {x}) = f[x] + SumFunctionOnSet(f, T)
    BY <2>1, SumAdd
  <2>3. QED BY <1>2, <2>2
<1> HIDE DEF F
<1>3. SUBSET S \subseteq F
  BY <1>1, <1>2, InductionFinite
<1>4. QED BY <1>3 DEF F
=============================================================================
