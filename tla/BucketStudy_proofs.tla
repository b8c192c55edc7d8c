------------------------- MODULE BucketStudy_proofs -------------------------
(***************************************************************************)
(* Proofs about the studies of Bucket, for any fingerprints, types, traces  *)
(* and parameters, and any number of restarts.                              *)
(***************************************************************************)
EXTENDS BucketStudy, DataLemmas

-----------------------------------------------------------------------------
(* The inductive invariant *)

Kinds   == Types \cup {"any"}
Files(S) == [type : Types, chunks : Seq(S)]

\* Where the program is in the trace it reads.
ReadInv ==
    /\ study \in {"base", "type"}
    /\ phase \in {"target", "auxiliary", "infer", "files", "compare"}
    /\ target \in Seq(Files(Plain)) /\ auxiliary \in Seq(Files(Plain))
    /\ input \in Seq(Files(Fp))
    /\ nfile \in 0..Len(input) /\ nchunk \in Nat
    /\ IF nfile = 0 THEN nchunk = 0 ELSE nchunk <= Len(input[nfile].chunks)

\* Types under which the database fc counts the chunk c.
Under(fc, c) == {t \in Kinds : fc[<<c, t>>] > 0}

\* The chunks of sf are in the buckets of their sizes, at most once for each type.
Placed(fc, sf) ==
    /\ fc \in [Fp \X Kinds -> Nat]
    /\ sf \in [Buckets -> Seq(Fp)]
    /\ \A b \in Buckets, c \in Fp :
          Entries(sf[b], c) <= IF b = BucketOf(c) THEN Cardinality(Under(fc, c)) ELSE 0

\* Types of c for which its bucket has no entry of c.
Missing(c) == Cardinality(TypesOf(c)) - Entries(SFdb[BucketOf(c)], c)

Misses == [c \in Fp |-> Missing(c)]

\* LostOnlyByKills with what makes it inductive: a chunk that waits for its
\* bucket is missing there.
PlaceInv ==
    /\ Placed(FCdb, SFdb)
    /\ kills \in Nat
    /\ pending = {} \/ \E c \in Fp : pending = {c} /\ Missing(c) > 0
    /\ SumFunctionOnSet(Misses, Fp) = kills + Cardinality(pending)

Right == {p \in made : enc[p[1]] = p[2]}

Kind == IF study = "type" THEN Type ELSE "any"

\* A chunk with one type is in the queue once, after its bucket was loaded and
\* before it is paired.
Once(q, k) ==
    \A x \in Fp : /\ q[x] \in {0, 1}
                  /\ q[x] = 1 => BucketOf(x) \notin todo /\ \A p \in made : p[k] # x

\* PairedOnce and OutputCounted with what makes them inductive.
OnceInv ==
    /\ Once(mQue, 1) /\ Once(cQue, 2)
    /\ \A p \in made : BucketOf(p[1]) \notin todo /\ BucketOf(p[2]) \notin todo
    /\ uniqueInfer = Cardinality(made)
    /\ \A p, q \in made : p[1] = q[1] <=> p[2] = q[2]
    /\ DOMAIN OUTdb = {p[1] : p \in Right}
    /\ correctInfer = Cardinality(DOMAIN OUTdb)
    /\ rawInfer = SumFunctionOnSet(CFCdb, {<<p[2], Kind>> : p \in Right})

\* What one bucket puts into the queues of inferChunks.
BaseInv ==
    /\ \A p \in made : BucketOf(p[1]) = BucketOf(p[2])
    /\ loop # "infer" => mQue = Empty /\ cQue = Empty
    /\ loop = "infer" => \E b \in Buckets : \A x \in Fp : mQue[x] > 0 \/ cQue[x] > 0 => BucketOf(x) = b

InferInv ==
    /\ loop \in {"idle", "bucket", "infer"}
    /\ phase \in {"target", "auxiliary"} => loop = "idle"
    /\ phase # "target" => Placed(CFCdb, CSFdb)
    /\ todo \subseteq Buckets
    /\ mQue \in [Fp -> Nat] /\ cQue \in [Fp -> Nat]
    /\ made \subseteq Plain \X Fp
    /\ loop = "idle" => /\ mQue = Empty /\ cQue = Empty /\ made = {} /\ OUTdb = <<>>
                        /\ uniqueInfer = 0 /\ correctInfer = 0 /\ rawInfer = 0
    /\ study = "base" => BaseInv
    /\ loop # "idle" /\ OneTypeEach => OnceInv

-----------------------------------------------------------------------------
(* Files *)

Occurrences(list) == Logic(list, DOMAIN list)

FileList(list) ==
    /\ list \in Seq(Fp \X Nat)
    /\ \A i, j \in DOMAIN list : list[i][1] = list[j][1] => i = j

\* RatesAreShares with what makes it inductive: the first time the files are
\* read, the entry of the file in hand counts the chunks read of it.
FileInv ==
    /\ \A k \in DOMAIN FILEdb : k \in Nat \X Nat \X Types /\ FileList(FILEdb[k])
    /\ frun \in Nat
    /\ files \in Nat /\ totalLogic \in Nat /\ totalUnique \in Nat /\ correctLogic \in Nat
    /\ correctUnique \in Nat /\ uniqueOver \in Nat /\ logicOver \in Nat /\ allOver \in Nat
    /\ IF phase \in {"files", "compare"} THEN frun > 0 ELSE FILEdb = <<>> /\ frun = 0
    /\ phase # "compare" => totalLogic = 0 /\ correctLogic = 0
    /\ frun = 1 => \A k \in DOMAIN FILEdb : Occurrences(FILEdb[k]) <= k[2]
    /\ frun = 1 /\ phase = "files" =>
          /\ \A k \in DOMAIN FILEdb : /\ k[1] < nfile
                                      /\ k[1] = nfile - 1 => k = meta /\ Occurrences(FILEdb[k]) = nchunk
          /\ nfile > 0 /\ meta \notin DOMAIN FILEdb => nchunk = 0
    /\ RatesAreShares

BInv == ReadInv /\ PlaceInv /\ InferInv /\ FileInv

-----------------------------------------------------------------------------
(* Databases *)

\* How often a chunk is in a list.
LEMMA EntriesOf ==
    ASSUME NEW list \in Seq(Fp), NEW x
    PROVE  /\ Entries(list, x) \in Nat
           /\ Entries(list, x) > 0 <=> x \in Range(list)
<1> DEFINE S == {i \in DOMAIN list : list[i] = x}
<1>0. \A n \in Nat : IsFiniteSet(1..n)
  BY FS_Interval
<1>1. IsFiniteSet(S)
  <2>1. Len(list) \in Nat /\ DOMAIN list = 1..Len(list)
    OBVIOUS
  <2>2. QED BY <1>0, <2>1, FS_Subset
<1>2. Entries(list, x) = Cardinality(S)
  BY DEF Entries
<1>3. x \in Range(list) <=> S # {}
  BY DEF Range
<1> HIDE DEF S
<1>4. Cardinality(S) \in Nat /\ (Cardinality(S) = 0 <=> S = {})
  BY <1>1, FS_CardinalityType, FS_EmptySet
<1>5. QED BY <1>2, <1>3, <1>4

\* One entry more.
LEMMA EntriesAppend ==
    ASSUME NEW list \in Seq(Fp), NEW c \in Fp, NEW x
    PROVE  Entries(Append(list, c), x) = IF x = c THEN Entries(list, x) + 1 ELSE Entries(list, x)
<1> DEFINE n == Len(list)  S == {i \in 1..n : list[i] = x}
<1>1. /\ n \in Nat /\ DOMAIN list = 1..n /\ DOMAIN Append(list, c) = 1..n + 1
      /\ \A i \in 1..n : Append(list, c)[i] = list[i]
      /\ Append(list, c)[n + 1] = c
  OBVIOUS
<1>2. {i \in DOMAIN Append(list, c) : Append(list, c)[i] = x} = IF x = c THEN S \cup {n + 1} ELSE S
  BY <1>1
<1>3. IsFiniteSet(S) /\ n + 1 \notin S
  <2>1. IsFiniteSet(1..n)
    BY <1>1, FS_Interval
  <2>2. QED BY <1>1, <2>1, FS_Subset
<1>4. Cardinality(S \cup {n + 1}) = Cardinality(S) + 1
  BY <1>3, FS_AddElement
<1>5. Entries(list, x) = Cardinality(S)
  BY <1>1 DEF Entries
<1>6. QED BY <1>2, <1>4, <1>5 DEF Entries

\* The types of a chunk are finitely many; a count adds at most one.
LEMMA UnderTypes ==
    ASSUME NEW fc \in [Fp \X Kinds -> Nat], NEW c \in Fp
    PROVE  IsFiniteSet(Under(fc, c)) /\ Cardinality(Under(fc, c)) \in Nat
<1>1. IsFiniteSet(Kinds)
  BY BucketAssumption, FS_AddElement DEF Kinds
<1>2. QED BY <1>1, FS_Subset, FS_CardinalityType DEF Under

Counted(fc, c, t) == [fc EXCEPT ![<<c, t>>] = @ + 1]

\* A chunk is counted.
LEMMA CountedTypes ==
    ASSUME NEW fc \in [Fp \X Kinds -> Nat], NEW c \in Fp, NEW t \in Kinds
    PROVE  /\ Counted(fc, c, t) \in [Fp \X Kinds -> Nat]
           /\ \A x \in Fp : Cardinality(Under(Counted(fc, c, t), x))
                              = IF x = c /\ fc[<<c, t>>] = 0 THEN Cardinality(Under(fc, x)) + 1
                                                         ELSE Cardinality(Under(fc, x))
<1> DEFINE gc == Counted(fc, c, t)
<1>1. /\ gc \in [Fp \X Kinds -> Nat]
      /\ \A x \in Fp, u \in Kinds : gc[<<x, u>>] = IF x = c /\ u = t THEN fc[<<x, u>>] + 1 ELSE fc[<<x, u>>]
  <2>1. <<c, t>> \in Fp \X Kinds /\ fc[<<c, t>>] + 1 \in Nat
    OBVIOUS
  <2>2. gc = [fc EXCEPT ![<<c, t>>] = fc[<<c, t>>] + 1]
    BY DEF Counted
  <2>3. QED BY <2>1, <2>2
<1> HIDE DEF gc
<1>2. \A x \in Fp, u \in Kinds : fc[<<x, u>>] \in Nat
  OBVIOUS
<1>3. ASSUME NEW x \in Fp
      PROVE  Under(gc, x) = IF x = c THEN Under(fc, x) \cup {t} ELSE Under(fc, x)
  BY <1>1, <1>2 DEF Under
<1>4. t \in Under(fc, c) <=> fc[<<c, t>>] # 0
  BY <1>2 DEF Under
<1>5. ASSUME NEW x \in Fp
      PROVE  Cardinality(Under(gc, x)) = IF x = c /\ fc[<<c, t>>] = 0 THEN Cardinality(Under(fc, x)) + 1
                                                                  ELSE Cardinality(Under(fc, x))
  <2>1. IsFiniteSet(Under(fc, x))
    BY UnderTypes
  <2>2. CASE x = c
    <3>1. Cardinality(Under(fc, c) \cup {t})
            = IF t \in Under(fc, c) THEN Cardinality(Under(fc, c)) ELSE Cardinality(Under(fc, c)) + 1
      BY <2>1, <2>2, FS_AddElement
    <3>2. QED BY <1>3, <1>4, <2>2, <3>1
  <2>3. CASE x # c
    BY <1>3, <2>3
  <2>4. QED BY <2>2, <2>3
<1>6. QED BY <1>1, <1>5 DEF gc

\* The buckets do not change.
LEMMA StudyKept ==
    ASSUME study' = study
    PROVE  /\ Buckets' = Buckets
           /\ \A c : BucketOf(c)' = BucketOf(c)
  BY DEF Buckets, BucketOf

\* Empty databases.
LEMMA NothingPlaced ==
    /\ \A c \in Fp : Under(NoCounts, c) = {} /\ Entries(<<>>, c) = 0
    /\ NoCounts \in [Fp \X Kinds -> Nat] /\ Cardinality({}) = 0
<1>1. NoCounts = [k \in Fp \X Kinds |-> 0]
  BY DEF NoCounts, Kinds
<1>2. \A c \in Fp : Under(NoCounts, c) = {}
  BY <1>1 DEF Under
<1>3. \A c \in Fp : Entries(<<>>, c) = 0
  <2> TAKE c \in Fp
  <2>1. {i \in DOMAIN <<>> : <<>>[i] = c} = {}
    OBVIOUS
  <2>2. QED BY <2>1, FS_EmptySet DEF Entries
<1>4. QED BY <1>1, <1>2, <1>3, FS_EmptySet

\* The next chunk of the file that is read.
LEMMA NextChunk ==
    ASSUME ReadInv, ~AtEndOfFile
    PROVE  /\ nfile \in 1..Len(input) /\ nfile > 0
           /\ input[nfile].type \in Types /\ input[nfile].chunks \in Seq(Fp)
           /\ nchunk + 1 \in 1..Len(input[nfile].chunks)
           /\ input[nfile].chunks[nchunk + 1] \in Fp
<1>1. nfile # 0 /\ nfile \in 1..Len(input) /\ Len(input) \in Nat
  BY DEF ReadInv, AtEndOfFile
<1>2. input[nfile] \in Files(Fp)
  BY <1>1 DEF ReadInv
<1>3. input[nfile].type \in Types /\ input[nfile].chunks \in Seq(Fp)
  BY <1>2 DEF Files
<1>4. nchunk \in Nat /\ nchunk <= Len(input[nfile].chunks) /\ nchunk # Len(input[nfile].chunks)
  BY <1>1 DEF ReadInv, AtEndOfFile
<1>5. nchunk + 1 \in 1..Len(input[nfile].chunks)
  BY <1>3, <1>4
<1>6. QED BY <1>1, <1>3, <1>5

-----------------------------------------------------------------------------
(* Reading a trace *)

\* The next file, the next chunk, and the start of a trace.
LEMMA NextFileRead ==
    ASSUME ReadInv, nfile < Len(input), nfile' = nfile + 1, nchunk' = 0,
           UNCHANGED <<study, input, phase, target, auxiliary>>
    PROVE  ReadInv'
<1>1. input' = input /\ input \in Seq(Files(Fp)) /\ Len(input) \in Nat /\ nfile \in 0..Len(input)
  BY DEF ReadInv
<1>2. nfile' \in 1..Len(input)
  BY <1>1
<1>3. input[nfile'] \in Files(Fp)
  BY <1>1, <1>2
<1>4. 0 <= Len(input[nfile'].chunks)
  <2>1. input[nfile'].chunks \in Seq(Fp)
    BY <1>3 DEF Files
  <2>2. QED BY <2>1
<1>5. QED BY <1>1, <1>2, <1>4 DEF ReadInv

\* A chunk is read.
LEMMA NextChunkRead ==
    ASSUME ReadInv, ~AtEndOfFile, nchunk' = nchunk + 1, nfile' = nfile,
           UNCHANGED <<study, input, phase, target, auxiliary>>
    PROVE  ReadInv'
<1>1. nfile # 0 /\ nchunk \in Nat /\ nchunk + 1 <= Len(input[nfile].chunks)
  BY NextChunk DEF ReadInv
<1>2. QED BY <1>1 DEF ReadInv

\* A trace is read from its beginning.
LEMMA Rewound ==
    ASSUME ReadInv, nfile' = 0, nchunk' = 0, input' \in Seq(Files(Fp)),
           phase' \in {"target", "auxiliary", "infer", "files", "compare"},
           UNCHANGED <<study, target, auxiliary>>
    PROVE  ReadInv'
<1>1. 0 \in 0..Len(input')
  <2>1. Len(input') \in Nat
    OBVIOUS
  <2>2. QED BY <2>1
<1>2. QED BY <1>1 DEF ReadInv

\* What a chunk misses is a natural number.
LEMMA MissingType ==
    ASSUME Placed(FCdb, SFdb), NEW c \in Fp
    PROVE  /\ Missing(c) = Cardinality(Under(FCdb, c)) - Entries(SFdb[BucketOf(c)], c)
           /\ Missing(c) \in Nat /\ Misses[c] = Missing(c)
           /\ BucketOf(c) \in Buckets /\ SFdb[BucketOf(c)] \in Seq(Fp)
<1>1. BucketOf(c) \in Buckets
  BY DEF Buckets
<1>2. SFdb[BucketOf(c)] \in Seq(Fp) /\ Entries(SFdb[BucketOf(c)], c) <= Cardinality(Under(FCdb, c))
  BY <1>1 DEF Placed
<1>3. Entries(SFdb[BucketOf(c)], c) \in Nat /\ Cardinality(Under(FCdb, c)) \in Nat
  BY <1>2, EntriesOf, UnderTypes DEF Placed
<1>4. TypesOf(c) = Under(FCdb, c)
  BY DEF TypesOf, Under, Kinds
<1>5. Missing(c) = Cardinality(Under(FCdb, c)) - Entries(SFdb[BucketOf(c)], c)
  BY <1>4 DEF Missing
<1>6. QED BY <1>1, <1>2, <1>3, <1>5 DEF Misses

\* The databases change so that only one chunk misses more or less.
LEMMA MissesChange ==
    ASSUME PlaceInv, study' = study, Placed(FCdb, SFdb)', NEW c \in Fp, NEW d \in Int,
           Missing(c)' = Missing(c) + d,
           \A x \in Fp : x # c => Missing(x)' = Missing(x),
           kills' \in Nat,
           kills' + Cardinality(pending') = kills + Cardinality(pending) + d,
           Cardinality(pending) \in Nat,
           pending' = {} \/ (pending' = {c} /\ Missing(c)' > 0)
    PROVE  PlaceInv'
<1>0. Placed(FCdb, SFdb)
  BY DEF PlaceInv
<1>1. \A x \in Fp : Misses[x] = Missing(x) /\ Missing(x) \in Nat
  BY <1>0, MissingType
<1>2. \A x \in Fp : Misses'[x] = Missing(x)'
  BY DEF Misses
<1>3. \A x \in Fp : Misses[x] \in Int /\ Misses'[x] \in Int
  BY <1>1, <1>2
<1>4. SumFunctionOnSet(Misses', Fp) = SumFunctionOnSet(Misses, Fp) + (Misses'[c] - Misses[c])
  <2> DEFINE f == Misses  h == Misses'
  <2>0. IsFiniteSet(Fp)
    BY BucketAssumption
  <2>1. (\A x \in Fp : f[x] \in Int /\ h[x] \in Int) /\ \A x \in Fp \ {c} : h[x] = f[x]
    BY <1>1, <1>2, <1>3
  <2> HIDE DEF f, h
  <2>2. SumFunctionOnSet(h, Fp) = SumFunctionOnSet(f, Fp) + (h[c] - f[c])
    BY <2>0, <2>1, SumChange
  <2>3. QED BY <2>2 DEF f, h
<1>5. SumFunctionOnSet(Misses, Fp) = kills + Cardinality(pending) /\ kills \in Nat
  BY DEF PlaceInv
<1>6. Misses'[c] - Misses[c] = d
  BY <1>1, <1>2
<1>7. SumFunctionOnSet(Misses', Fp) = kills' + Cardinality(pending')
  BY <1>4, <1>5, <1>6
<1>8. QED BY <1>7 DEF PlaceInv

\* The chunks that wait are at most one.
LEMMA PendingOne ==
    ASSUME PlaceInv
    PROVE  /\ Cardinality(pending) \in Nat
           /\ pending = {} <=> Cardinality(pending) = 0
           /\ \A c \in pending : c \in Fp /\ pending = {c} /\ Cardinality(pending) = 1 /\ Missing(c) > 0
<1>1. CASE pending = {}
  BY <1>1, FS_EmptySet
<1>2. CASE pending # {}
  <2>1. PICK c \in Fp : pending = {c} /\ Missing(c) > 0
    BY <1>2 DEF PlaceInv
  <2>2. Cardinality({c}) = 1
    BY FS_Singleton
  <2>3. QED BY <2>1, <2>2
<1>3. QED BY <1>1, <1>2

\* A chunk is counted and, when it is new, waits for its bucket.
LEMMA InsertFCInv ==
    ASSUME ReadInv, PlaceInv, insertFCdb, UNCHANGED studyVars
    PROVE  ReadInv' /\ PlaceInv'
<1>0. PICK c \in Fp, t \in Kinds : c = input[nfile].chunks[nchunk + 1] /\ t = TypeIn(input[nfile])
  <2>1. ~AtEndOfFile
    BY DEF insertFCdb
  <2>2. QED BY <2>1, NextChunk DEF TypeIn, Kinds
<1>1. /\ ~AtEndOfFile /\ pending = {} /\ FCdb' = Counted(FCdb, c, t)
      /\ pending' = IF FCdb[<<c, t>>] = 0 THEN {c} ELSE {}
      /\ nchunk' = nchunk + 1
      /\ UNCHANGED <<study, input, nfile, run, SFdb, Tdb, kills, phase, target, auxiliary>>
  BY <1>0 DEF insertFCdb, Counted, IsNew, studyVars
<1>2. c \in Fp /\ t \in Kinds
  OBVIOUS
<1>3. ReadInv'
  BY <1>1, NextChunkRead
<1>4. /\ Placed(FCdb, SFdb) /\ FCdb \in [Fp \X Kinds -> Nat] /\ study' = study /\ SFdb' = SFdb
      /\ kills' = kills /\ kills \in Nat
  BY <1>1 DEF PlaceInv, Placed
<1>5. /\ FCdb' \in [Fp \X Kinds -> Nat]
      /\ \A x \in Fp : Cardinality(Under(FCdb', x))
              = IF x = c /\ FCdb[<<c, t>>] = 0 THEN Cardinality(Under(FCdb, x)) + 1
                                               ELSE Cardinality(Under(FCdb, x))
  BY <1>1, <1>2, <1>4, CountedTypes
<1>6. \A x \in Fp : Cardinality(Under(FCdb, x)) \in Nat
  BY <1>4, UnderTypes
<1>7. Buckets' = Buckets /\ \A x : BucketOf(x)' = BucketOf(x)
  BY <1>4, StudyKept
<1>8. Placed(FCdb, SFdb)'
  <2>1. ASSUME NEW b \in Buckets, NEW x \in Fp
        PROVE  Entries(SFdb[b], x) <= IF b = BucketOf(x) THEN Cardinality(Under(FCdb', x)) ELSE 0
    <3>1. Entries(SFdb[b], x) <= IF b = BucketOf(x) THEN Cardinality(Under(FCdb, x)) ELSE 0
      BY <1>4 DEF Placed
    <3>2. Entries(SFdb[b], x) \in Nat
      BY <1>4, EntriesOf DEF Placed
    <3>3. QED BY <3>1, <3>2, <1>5, <1>6
  <2>2. QED BY <2>1, <1>4, <1>5, <1>7 DEF Placed
<1>9. \A x \in Fp : /\ Missing(x) = Cardinality(Under(FCdb, x)) - Entries(SFdb[BucketOf(x)], x)
                    /\ Missing(x)' = Cardinality(Under(FCdb', x)) - Entries(SFdb[BucketOf(x)], x)
                    /\ Missing(x) \in Nat /\ Entries(SFdb[BucketOf(x)], x) \in Nat
  <2> TAKE x \in Fp
  <2>1. TypesOf(x)' = Under(FCdb', x)
    BY DEF TypesOf, Under, Kinds
  <2>2. Missing(x)' = Cardinality(Under(FCdb', x)) - Entries(SFdb[BucketOf(x)], x)
    BY <1>4, <1>7, <2>1 DEF Missing
  <2>3. QED BY <1>4, <2>2, MissingType, EntriesOf
<1>10. CASE FCdb[<<c, t>>] = 0
  <2> DEFINE d == 1
  <2>0. Cardinality(Under(FCdb', c)) = Cardinality(Under(FCdb, c)) + 1
    BY <1>2, <1>5, <1>10
  <2>1. /\ Missing(c)' = Missing(c) + d /\ Missing(c)' > 0 /\ d \in Int
        /\ \A x \in Fp : x # c => Missing(x)' = Missing(x)
    <3>1. Missing(c)' = Missing(c) + 1 /\ Missing(c)' > 0
      BY <1>2, <1>6, <1>9, <2>0
    <3>2. ASSUME NEW x \in Fp, x # c PROVE Missing(x)' = Missing(x)
      <4>1. Cardinality(Under(FCdb', x)) = Cardinality(Under(FCdb, x))
        BY <1>5, <3>2
      <4>2. QED BY <1>9, <4>1
    <3>3. QED BY <3>1, <3>2
  <2>2. pending' = {c} /\ Cardinality(pending') = 1 /\ Cardinality(pending) = 0
    BY <1>1, <1>10, FS_Singleton, FS_EmptySet
  <2>3. kills' + Cardinality(pending') = kills + Cardinality(pending) + d
    BY <1>4, <2>2
  <2>6. kills' \in Nat /\ Cardinality(pending) \in Nat
    BY <1>4, <2>2
  <2> HIDE DEF d
  <2>4. PlaceInv'
    BY <1>2, <1>4, <1>8, <2>1, <2>2, <2>3, <2>6, MissesChange
  <2>5. QED BY <1>3, <2>4
<1>11. CASE FCdb[<<c, t>>] # 0
  <2> DEFINE d == 0
  <2>1. /\ Missing(c)' = Missing(c) + d /\ d \in Int
        /\ \A x \in Fp : x # c => Missing(x)' = Missing(x)
    <3>1. ASSUME NEW x \in Fp PROVE Missing(x)' = Missing(x) /\ Missing(x) \in Nat
      <4>1. Cardinality(Under(FCdb', x)) = Cardinality(Under(FCdb, x))
        BY <1>5, <1>11
      <4>2. QED BY <1>9, <4>1
    <3>2. Missing(c)' = Missing(c) /\ Missing(c) \in Nat
      BY <1>2, <3>1
    <3>3. QED BY <3>1, <3>2
  <2>2. pending' = {} /\ Cardinality(pending') = 0 /\ Cardinality(pending) = 0
    BY <1>1, <1>11, FS_EmptySet
  <2>3. kills' + Cardinality(pending') = kills + Cardinality(pending) + d
    BY <1>4, <2>2
  <2>6. kills' \in Nat /\ Cardinality(pending) \in Nat
    BY <1>4, <2>2
  <2> HIDE DEF d
  <2>4. PlaceInv'
    BY <1>2, <1>4, <1>8, <2>1, <2>2, <2>3, <2>6, MissesChange
  <2>5. QED BY <1>3, <2>4
<1>12. QED BY <1>10, <1>11

\* A chunk that waits is put into its bucket.
LEMMA InsertSFInv ==
    ASSUME ReadInv, PlaceInv, NEW c \in Fp, insertSFdb(c), UNCHANGED studyVars
    PROVE  ReadInv' /\ PlaceInv'
<1> DEFINE b0 == BucketOf(c)
<1>1. /\ c \in pending /\ SFdb' = [SFdb EXCEPT ![b0] = Append(SFdb[b0], c)]
      /\ pending' = {}
      /\ UNCHANGED <<study, input, nfile, nchunk, run, FCdb, Tdb, kills, phase, target, auxiliary>>
  BY DEF insertSFdb, studyVars, reader
<1>2. ReadInv'
  BY <1>1 DEF ReadInv
<1>3. Placed(FCdb, SFdb) /\ study' = study /\ FCdb' = FCdb /\ kills' = kills /\ kills \in Nat
  BY <1>1 DEF PlaceInv
<1>4. b0 \in Buckets /\ SFdb[b0] \in Seq(Fp) /\ SFdb \in [Buckets -> Seq(Fp)]
  BY <1>3, MissingType DEF Placed
<1>5. Buckets' = Buckets /\ \A x : BucketOf(x)' = BucketOf(x)
  BY <1>3, StudyKept
<1> HIDE DEF b0
<1>6. /\ SFdb' \in [Buckets -> Seq(Fp)]
      /\ SFdb'[b0] = Append(SFdb[b0], c)
      /\ \A b \in Buckets : b # b0 => SFdb'[b] = SFdb[b]
  BY <1>1, <1>4
<1>7. \A b \in Buckets, x \in Fp :
          Entries(SFdb'[b], x) = IF b = b0 /\ x = c THEN Entries(SFdb[b], x) + 1 ELSE Entries(SFdb[b], x)
  <2> TAKE b \in Buckets, x \in Fp
  <2>1. CASE b = b0
    <3> DEFINE list == SFdb[b0]
    <3>1. list \in Seq(Fp)
      BY <1>4
    <3>2. Entries(Append(list, c), x) = IF x = c THEN Entries(list, x) + 1 ELSE Entries(list, x)
      BY <3>1, EntriesAppend
    <3>3. QED BY <1>6, <2>1, <3>2
  <2>2. CASE b # b0
    BY <1>6, <2>2
  <2>3. QED BY <2>1, <2>2
<1>8. Missing(c) > 0 /\ Cardinality(pending) = 1
  BY <1>1, PendingOne
<1>9. \A x \in Fp : /\ Missing(x) = Cardinality(Under(FCdb, x)) - Entries(SFdb[BucketOf(x)], x)
                    /\ Missing(x) \in Nat /\ BucketOf(x) \in Buckets
                    /\ Cardinality(Under(FCdb, x)) \in Nat
                    /\ Entries(SFdb[BucketOf(x)], x) \in Nat
                    /\ Missing(x)' = Cardinality(Under(FCdb, x)) - Entries(SFdb'[BucketOf(x)], x)
  <2> TAKE x \in Fp
  <2>1. TypesOf(x)' = Under(FCdb, x)
    BY <1>3 DEF TypesOf, Under, Kinds
  <2>2. Missing(x)' = Cardinality(Under(FCdb, x)) - Entries(SFdb'[BucketOf(x)], x)
    BY <1>5, <2>1 DEF Missing
  <2>3. QED BY <1>3, <2>2, MissingType, UnderTypes, EntriesOf DEF Placed
<1>10. Placed(FCdb, SFdb)'
  <2>1. ASSUME NEW b \in Buckets, NEW x \in Fp
        PROVE  Entries(SFdb'[b], x) <= IF b = BucketOf(x) THEN Cardinality(Under(FCdb, x)) ELSE 0
    <3>1. Entries(SFdb[b], x) <= IF b = BucketOf(x) THEN Cardinality(Under(FCdb, x)) ELSE 0
      BY <1>3 DEF Placed
    <3>2. CASE b = b0 /\ x = c
      BY <3>2, <1>7, <1>8, <1>9 DEF b0
    <3>3. CASE ~(b = b0 /\ x = c)
      BY <3>1, <3>3, <1>7
    <3>4. QED BY <3>2, <3>3
  <2>2. QED BY <2>1, <1>3, <1>5, <1>6 DEF Placed
<1>11. /\ Missing(c)' = Missing(c) + (-1)
       /\ \A x \in Fp : x # c => Missing(x)' = Missing(x)
  BY <1>7, <1>9 DEF b0
<1>12. Cardinality(pending') = 0
  BY <1>1, FS_EmptySet
<1>13. kills' + Cardinality(pending') = kills + Cardinality(pending) + (-1)
  BY <1>3, <1>8, <1>12
<1>14. PlaceInv'
  <2> DEFINE d == -1
  <2>1. d \in Int /\ Missing(c)' = Missing(c) + d
        /\ kills' + Cardinality(pending') = kills + Cardinality(pending) + d
    BY <1>11, <1>13
  <2> HIDE DEF d
  <2>2. QED BY <1>1, <1>3, <1>8, <1>10, <1>11, <2>1, MissesChange
<1>15. QED BY <1>2, <1>14

\* The databases stay as they are.
LEMMA PlacesKept ==
    ASSUME UNCHANGED <<study, FCdb, SFdb>>, Placed(FCdb, SFdb)
    PROVE  Placed(FCdb, SFdb)' /\ Misses' = Misses /\ \A c \in Fp : Missing(c)' = Missing(c)
<1>1. study' = study /\ FCdb' = FCdb /\ SFdb' = SFdb
  OBVIOUS
<1>2. Buckets' = Buckets /\ \A c : BucketOf(c)' = BucketOf(c)
  BY <1>1, StudyKept
<1>3. Placed(FCdb, SFdb)'
  BY <1>1, <1>2 DEF Placed
<1>4. ASSUME NEW c \in Fp
      PROVE  Missing(c)' = Missing(c)
  <2>1. TypesOf(c)' = TypesOf(c)
    BY <1>1 DEF TypesOf
  <2>2. QED BY <1>1, <1>2, <2>1 DEF Missing
<1>5. Misses' = Misses
  BY <1>4 DEF Misses
<1>6. QED BY <1>3, <1>4, <1>5

\* The program is killed and started again: what waited is lost.
LEMMA RestartInv ==
    ASSUME ReadInv, PlaceInv, Restart, UNCHANGED studyVars
    PROVE  ReadInv' /\ PlaceInv'
<1>1. /\ nfile' = 0 /\ nchunk' = 0 /\ kills' = kills + Cardinality(pending) /\ pending' = {}
      /\ UNCHANGED <<study, input, FCdb, SFdb, phase, target, auxiliary>>
  BY DEF Restart, studyVars
<1>2. ReadInv'
  BY <1>1, Rewound DEF ReadInv
<1>3. kills \in Nat /\ Cardinality(pending) \in Nat /\ Cardinality({}) = 0
  BY PendingOne, FS_EmptySet DEF PlaceInv
<1>4. Placed(FCdb, SFdb)' /\ Misses' = Misses
  BY <1>1, PlacesKept DEF PlaceInv
<1>5. kills' \in Nat /\ kills' + Cardinality(pending') = kills + Cardinality(pending)
  BY <1>1, <1>3
<1>6. QED BY <1>1, <1>2, <1>4, <1>5 DEF PlaceInv

\* The next file begins.
LEMMA NextFileInv ==
    ASSUME ReadInv, PlaceInv, NextFile, UNCHANGED studyVars
    PROVE  ReadInv' /\ PlaceInv'
<1>1. /\ nfile < Len(input) /\ nfile' = nfile + 1 /\ nchunk' = 0
      /\ UNCHANGED <<study, input, FCdb, SFdb, pending, kills, phase, target, auxiliary>>
  BY DEF NextFile, studyVars
<1>2. ReadInv'
  BY <1>1, NextFileRead
<1>3. PlaceInv'
  BY <1>1, PlacesKept DEF PlaceInv
<1>4. QED BY <1>2, <1>3

\* Empty databases miss nothing.
LEMMA EmptyPlaced ==
    ASSUME FCdb = NoCounts, SFdb = [b \in Buckets |-> <<>>], pending = {}, kills = 0
    PROVE  PlaceInv
<1>1. \A b \in Buckets : SFdb[b] = <<>>
  OBVIOUS
<1>2. \A c \in Fp : BucketOf(c) \in Buckets
  BY DEF Buckets
<1>3. \A c \in Fp : /\ Cardinality(Under(FCdb, c)) = 0
                    /\ \A b \in Buckets : Entries(SFdb[b], c) = 0
  BY <1>1, NothingPlaced
<1>4. Placed(FCdb, SFdb)
  <2>1. <<>> \in Seq(Fp)
    OBVIOUS
  <2>2. SFdb \in [Buckets -> Seq(Fp)]
    BY <2>1
  <2>3. FCdb \in [Fp \X Kinds -> Nat]
    BY NothingPlaced
  <2>4. QED BY <1>3, <2>2, <2>3 DEF Placed
<1>5. \A c \in Fp : Misses[c] = 0
  BY <1>2, <1>3, <1>4, MissingType
<1>6. SumFunctionOnSet(Misses, Fp) = 0
  <2> DEFINE f == Misses
  <2>1. IsFiniteSet(Fp) /\ \A c \in Fp : f[c] = 0
    BY <1>5, BucketAssumption
  <2> HIDE DEF f
  <2>2. SumFunctionOnSet(f, Fp) = 0
    BY <2>1, SumZero
  <2>3. QED BY <2>2 DEF f
<1>7. Cardinality(pending) = 0
  BY FS_EmptySet
<1>8. QED BY <1>4, <1>6, <1>7 DEF PlaceInv

\* Before the first chunk of a trace.
NoDatabases == FCdb = NoCounts /\ SFdb = [b \in Buckets |-> <<>>] /\ pending = {} /\ kills = 0

\* The same after a step.
LEMMA EmptyPlacedNext == NoDatabases' => PlaceInv'
<1>1. NoDatabases => PlaceInv
  BY EmptyPlaced DEF NoDatabases
<1>2. QED BY <1>1, PTL

\* A trace of plaintext fingerprints is one of fingerprints, also when it is
\* encrypted.
LEMMA TraceTypes ==
    ASSUME NEW tr \in Seq(Files(Plain))
    PROVE  tr \in Seq(Files(Fp)) /\ Encrypt(tr) \in Seq(Files(Fp))
<1>1. Plain \subseteq Fp /\ enc \in [Plain -> Fp]
  BY InferAssumption
<1>2. \A s \in Seq(Plain) : s \in Seq(Fp)
  BY <1>1
<1>3. \A f \in Files(Plain) : f \in Files(Fp)
  BY <1>2 DEF Files
<1>4. tr \in Seq(Files(Fp))
  <2>1. \A i \in DOMAIN tr : tr[i] \in Files(Fp)
    BY <1>3
  <2>2. QED BY <2>1
<1>5. ASSUME NEW i \in DOMAIN tr
      PROVE  [type |-> tr[i].type, chunks |-> [j \in DOMAIN tr[i].chunks |-> enc[tr[i].chunks[j]]]] \in Files(Fp)
  <2>1. tr[i] \in Files(Plain)
    OBVIOUS
  <2>2. tr[i].type \in Types /\ tr[i].chunks \in Seq(Plain)
    BY <2>1 DEF Files
  <2> DEFINE s == tr[i].chunks
             e == [j \in DOMAIN s |-> enc[s[j]]]
  <2>3. DOMAIN s = 1..Len(s) /\ Len(s) \in Nat /\ \A j \in DOMAIN s : s[j] \in Plain
    BY <2>2
  <2>4. e \in [1..Len(s) -> Fp]
    BY <1>1, <2>3
  <2>5. e \in Seq(Fp)
    BY <2>3, <2>4
  <2>6. QED BY <2>2, <2>5 DEF Files
<1>6. Encrypt(tr) \in Seq(Files(Fp))
  <2>1. DOMAIN tr = 1..Len(tr) /\ Len(tr) \in Nat
    OBVIOUS
  <2>2. Encrypt(tr) \in [1..Len(tr) -> Files(Fp)]
    BY <1>5, <2>1 DEF Encrypt
  <2>3. QED BY <2>1, <2>2
<1>7. QED BY <1>4, <1>6

-----------------------------------------------------------------------------
(* Inference *)

\* What the steps of inferTest leave alone.
LEMMA InferKept ==
    ASSUME UNCHANGED <<study, FCdb, SFdb, CFCdb, CSFdb>>
    PROVE  /\ Buckets' = Buckets /\ \A c : BucketOf(c)' = BucketOf(c)
           /\ Kind' = Kind /\ OneTypeEach' = OneTypeEach
           /\ Placed(CFCdb, CSFdb)' = Placed(CFCdb, CSFdb)
<1>1. study' = study /\ FCdb' = FCdb /\ CFCdb' = CFCdb /\ CSFdb' = CSFdb
  OBVIOUS
<1>2. Buckets' = Buckets /\ \A c : BucketOf(c)' = BucketOf(c)
  BY <1>1, StudyKept
<1>3. Kind' = Kind
  BY <1>1 DEF Kind
<1>4. OneTypeEach' = OneTypeEach
  BY <1>1 DEF OneTypeEach
<1>5. Placed(CFCdb, CSFdb)' = Placed(CFCdb, CSFdb)
  BY <1>1, <1>2 DEF Placed
<1>6. QED BY <1>2, <1>3, <1>4, <1>5

\* If chunks have one type, both databases count a chunk under at most one.
LEMMA OneType ==
    OneTypeEach <=> \A x \in Fp : Cardinality(Under(FCdb, x)) <= 1 /\ Cardinality(Under(CFCdb, x)) <= 1
<1>1. \A db, x : {t \in Types \cup {"any"} : db[<<x, t>>] > 0} = Under(db, x)
  BY DEF Under, Kinds
<1>2. OneTypeEach <=> \A x \in Fp : \A db \in {FCdb, CFCdb} : Cardinality(Under(db, x)) <= 1
  BY <1>1 DEF OneTypeEach
<1>3. QED BY <1>2

\* The pairs are finitely many.
LEMMA MadeFinite ==
    ASSUME made \subseteq Plain \X Fp
    PROVE  IsFiniteSet(made) /\ Cardinality(made) \in Nat /\ IsFiniteSet(Right) /\ Cardinality(Right) \in Nat
<1>1. IsFiniteSet(Fp) /\ IsFiniteSet(Plain)
  BY BucketAssumption, InferAssumption, FS_Subset
<1>2. IsFiniteSet(Plain \X Fp)
  BY <1>1, FS_Product
<1>3. IsFiniteSet(made) /\ IsFiniteSet(Right)
  BY <1>2, FS_Subset DEF Right
<1>4. QED BY <1>3, FS_CardinalityType

\* The iterator starts.
LEMMA StartInferInv ==
    ASSUME InferInv, phase = "infer", StartInfer, UNCHANGED <<study, FCdb, SFdb, phase>>
    PROVE  InferInv'
<1>1. /\ loop = "idle" /\ todo' = Filled(CSFdb) /\ loop' = "bucket"
      /\ UNCHANGED <<study, FCdb, SFdb, phase, CFCdb, CSFdb, mQue, cQue, rounds, uniqueInfer,
                     correctInfer, rawInfer, OUTdb, made>>
  BY DEF StartInfer, queues, result
<1>2. /\ Buckets' = Buckets /\ Placed(CFCdb, CSFdb) /\ Placed(CFCdb, CSFdb)'
      /\ mQue = Empty /\ cQue = Empty /\ made = {} /\ OUTdb = <<>>
      /\ uniqueInfer = 0 /\ correctInfer = 0 /\ rawInfer = 0
  BY <1>1, InferKept DEF InferInv
<1>3. todo' \subseteq Buckets'
  BY <1>1, <1>2 DEF Filled, Placed
<1>4. study = "base" => BaseInv'
  BY <1>1, <1>2 DEF BaseInv, Empty
<1>5. OnceInv'
  <2>1. \A x \in Fp : Empty[x] = 0
    BY DEF Empty
  <2>2. Once(mQue, 1)' /\ Once(cQue, 2)'
    BY <1>1, <1>2, <2>1 DEF Once
  <2>3. Right' = {} /\ DOMAIN OUTdb' = {}
    BY <1>1, <1>2 DEF Right
  <2>4. Cardinality({}) = 0
    BY FS_EmptySet
  <2>5. DOMAIN OUTdb' = {p[1] : p \in Right'} /\ {<<p[2], Kind'>> : p \in Right'} = {}
    BY <2>3
  <2>6. rawInfer' = SumFunctionOnSet(CFCdb', {<<p[2], Kind'>> : p \in Right'})
    <3> DEFINE e == {<<p[2], Kind'>> : p \in Right'}
    <3>1. SumFunctionOnSet(CFCdb', {}) = 0
      BY SumEmpty
    <3>2. e = {}
      BY <2>5
    <3> HIDE DEF e
    <3>3. rawInfer' = SumFunctionOnSet(CFCdb', e)
      BY <1>1, <1>2, <3>1, <3>2
    <3>4. QED BY <3>3 DEF e
  <2>7. uniqueInfer' = Cardinality(made') /\ correctInfer' = Cardinality(DOMAIN OUTdb')
    BY <1>1, <1>2, <2>3, <2>4
  <2>8. made' = {}
    BY <1>1, <1>2
  <2>9. QED BY <2>2, <2>5, <2>6, <2>7, <2>8 DEF OnceInv
<1>6. QED BY <1>1, <1>2, <1>3, <1>4, <1>5 DEF InferInv

\* The parts of OnceInv that depend on the pairs alone stay with them.
LEMMA PairsKept ==
    ASSUME OnceInv, UNCHANGED <<study, FCdb, SFdb, CFCdb, CSFdb, uniqueInfer, correctInfer, rawInfer, OUTdb, made>>,
           todo' \subseteq todo, Once(mQue, 1)', Once(cQue, 2)'
    PROVE  OnceInv'
<1>1. Kind' = Kind /\ \A c : BucketOf(c)' = BucketOf(c)
  BY InferKept
<1>2. Right' = Right /\ made' = made
  BY DEF Right
<1>3. \A p \in made' : BucketOf(p[1])' \notin todo' /\ BucketOf(p[2])' \notin todo'
  BY <1>1, <1>2 DEF OnceInv
<1>4. {<<p[2], Kind'>> : p \in Right'} = {<<p[2], Kind>> : p \in Right} /\ {p[1] : p \in Right'} = {p[1] : p \in Right}
  BY <1>1, <1>2
<1>5. rawInfer' = SumFunctionOnSet(CFCdb', {<<p[2], Kind'>> : p \in Right'})
  BY <1>4 DEF OnceInv
<1>6. QED BY <1>2, <1>3, <1>4, <1>5 DEF OnceInv

\* A bucket that the auxiliary trace does not have.
LEMMA NoBucketInv ==
    ASSUME InferInv, phase = "infer", NEW b \in Buckets, NoBucket(b), UNCHANGED <<study, FCdb, SFdb, phase>>
    PROVE  InferInv'
<1>1. /\ loop = "bucket" /\ todo' = todo \ {b} /\ loop' = loop
      /\ UNCHANGED <<study, FCdb, SFdb, phase, CFCdb, CSFdb, mQue, cQue, uniqueInfer,
                     correctInfer, rawInfer, OUTdb, made>>
  BY DEF NoBucket, Current, queues, result
<1>2. /\ Buckets' = Buckets /\ (\A c : BucketOf(c)' = BucketOf(c)) /\ OneTypeEach' = OneTypeEach
      /\ Placed(CFCdb, CSFdb)' = Placed(CFCdb, CSFdb)
  BY <1>1, InferKept
<1>3. study = "base" => BaseInv'
  BY <1>1, <1>2 DEF InferInv, BaseInv, Empty
<1>4. OneTypeEach => OnceInv'
  <2>1. HAVE OneTypeEach
  <2>2. OnceInv
    BY <1>1, <2>1 DEF InferInv
  <2>3. Once(mQue, 1)' /\ Once(cQue, 2)'
    BY <1>1, <1>2, <2>2 DEF OnceInv, Once
  <2>4. QED BY <1>1, <2>2, <2>3, PairsKept
<1>5. QED BY <1>1, <1>2, <1>3, <1>4 DEF InferInv, Empty

\* The loop over a bucket ends.
LEMMA EndBucketInv ==
    ASSUME InferInv, phase = "infer", EndBucket, UNCHANGED <<study, FCdb, SFdb, phase>>
    PROVE  InferInv'
<1>1. /\ loop = "infer" /\ loop' = "bucket"
      /\ IF study = "type" THEN UNCHANGED <<mQue, cQue>> ELSE mQue' = Empty /\ cQue' = Empty
      /\ UNCHANGED <<study, FCdb, SFdb, phase, CFCdb, CSFdb, todo, uniqueInfer,
                     correctInfer, rawInfer, OUTdb, made>>
  BY DEF EndBucket, result
<1>2. /\ Buckets' = Buckets /\ (\A c : BucketOf(c)' = BucketOf(c)) /\ OneTypeEach' = OneTypeEach
      /\ Placed(CFCdb, CSFdb)' = Placed(CFCdb, CSFdb)
  BY <1>1, InferKept
<1>3. Empty \in [Fp -> Nat] /\ Empty' = Empty /\ \A x \in Fp : Empty[x] = 0
  BY DEF Empty
<1>4. study = "base" => BaseInv'
  BY <1>1, <1>2, <1>3 DEF InferInv, BaseInv
<1>5. OneTypeEach => OnceInv'
  <2>1. HAVE OneTypeEach
  <2>2. OnceInv
    BY <1>1, <2>1 DEF InferInv
  <2>3. Once(mQue, 1)' /\ Once(cQue, 2)'
    BY <1>1, <1>2, <1>3, <2>2 DEF OnceInv, Once
  <2>4. QED BY <1>1, <2>2, <2>3, PairsKept
<1>6. mQue' \in [Fp -> Nat] /\ cQue' \in [Fp -> Nat]
  BY <1>1, <1>3 DEF InferInv
<1>7. QED BY <1>1, <1>2, <1>4, <1>5, <1>6 DEF InferInv

\* A bucket is pushed: only its chunks are, and a chunk with one type once.
LEMMA PushOne ==
    ASSUME NEW fc, NEW sf, Placed(fc, sf), NEW b \in Buckets, NEW q \in [Fp -> Nat]
    PROVE  /\ Push(q, fc, sf[b]) \in [Fp -> Nat]
           /\ \A x \in Fp : /\ Push(q, fc, sf[b])[x] = q[x] \/ BucketOf(x) = b
                            /\ Cardinality(Under(fc, x)) <= 1 => Push(q, fc, sf[b])[x] <= q[x] + 1
<1> DEFINE h == Push(q, fc, sf[b])
<1>1. sf[b] \in Seq(Fp)
  BY DEF Placed
<1>2. \A x \in Fp : Entries(sf[b], x) \in Nat
  BY <1>1, EntriesOf
<1>3. h \in [Fp -> Nat] /\ \A x \in Fp : h[x] = q[x] \/ h[x] = q[x] + Entries(sf[b], x)
  <2>1. h = [x \in Fp |-> q[x] + IF FC(fc, x) > 0 THEN Entries(sf[b], x) ELSE 0]
    BY DEF Push
  <2>2. \A x \in Fp : q[x] \in Nat
    OBVIOUS
  <2> HIDE DEF h
  <2>3. \A x \in Fp : h[x] = IF FC(fc, x) > 0 THEN q[x] + Entries(sf[b], x) ELSE q[x]
    BY <2>1, <2>2
  <2>4. \A x \in Fp : h[x] \in Nat
    BY <1>2, <2>2, <2>3
  <2>5. QED BY <2>1, <2>3, <2>4
<1> HIDE DEF h
<1>4. ASSUME NEW x \in Fp
      PROVE  (h[x] = q[x] \/ BucketOf(x) = b) /\ (Cardinality(Under(fc, x)) <= 1 => h[x] <= q[x] + 1)
  <2>1. Entries(sf[b], x) <= IF b = BucketOf(x) THEN Cardinality(Under(fc, x)) ELSE 0
    BY DEF Placed
  <2>2. Cardinality(Under(fc, x)) \in Nat /\ q[x] \in Nat
    BY UnderTypes DEF Placed
  <2>3. QED BY <1>2, <1>3, <2>1, <2>2
<1>5. QED BY <1>3, <1>4 DEF h

\* A queue with one entry for a chunk has one after a bucket is pushed.
LEMMA OncePushed ==
    ASSUME NEW fc, NEW sf, Placed(fc, sf), \A x \in Fp : Cardinality(Under(fc, x)) <= 1,
           NEW b \in todo, b \in Buckets, NEW q \in [Fp -> Nat], NEW k \in {1, 2}, Once(q, k),
           \A p \in made : BucketOf(p[k]) \notin todo
    PROVE  \A x \in Fp : LET h == Push(q, fc, sf[b])
                         IN  /\ h[x] \in {0, 1}
                             /\ h[x] = 1 => BucketOf(x) \notin todo \ {b} /\ \A p \in made : p[k] # x
<1> DEFINE h == Push(q, fc, sf[b])
<1>1. h \in [Fp -> Nat] /\ \A x \in Fp : (h[x] = q[x] \/ BucketOf(x) = b) /\ h[x] <= q[x] + 1
  BY PushOne
<1> HIDE DEF h
<1>2. ASSUME NEW x \in Fp
      PROVE  h[x] \in {0, 1} /\ (h[x] = 1 => BucketOf(x) \notin todo \ {b} /\ \A p \in made : p[k] # x)
  <2>1. h[x] \in Nat /\ q[x] \in {0, 1} /\ (q[x] = 1 => BucketOf(x) \notin todo /\ \A p \in made : p[k] # x)
    BY <1>1 DEF Once
  <2>2. CASE h[x] = q[x]
    BY <2>1, <2>2
  <2>3. CASE BucketOf(x) = b
    <3>1. q[x] = 0
      BY <2>1, <2>3
    <3>2. h[x] <= 0 + 1
      BY <1>1, <3>1
    <3>3. \A p \in made : p[k] # x
      BY <2>3
    <3>4. QED BY <2>1, <2>3, <3>2, <3>3
  <2>4. QED BY <1>1, <2>2, <2>3
<1>3. QED BY <1>2 DEF h

\* Both queues are filled.
LEMMA LoadInv ==
    ASSUME InferInv, Placed(FCdb, SFdb), phase = "infer", NEW b \in Buckets, Load(b),
           UNCHANGED <<study, FCdb, SFdb, phase>>
    PROVE  InferInv'
<1>1. /\ loop = "bucket" /\ b \in todo /\ todo' = todo \ {b} /\ loop' = "infer"
      /\ mQue' = Push(mQue, FCdb, SFdb[b]) /\ cQue' = Push(cQue, CFCdb, CSFdb[b])
      /\ UNCHANGED <<study, FCdb, SFdb, phase, CFCdb, CSFdb, uniqueInfer,
                     correctInfer, rawInfer, OUTdb, made>>
  BY DEF Load, Current, result
<1>2. /\ Buckets' = Buckets /\ (\A c : BucketOf(c)' = BucketOf(c)) /\ OneTypeEach' = OneTypeEach
      /\ Placed(CFCdb, CSFdb)' = Placed(CFCdb, CSFdb)
  BY <1>1, InferKept
<1>3. mQue \in [Fp -> Nat] /\ cQue \in [Fp -> Nat] /\ Placed(CFCdb, CSFdb) /\ todo \subseteq Buckets
  BY DEF InferInv
<1>4. /\ mQue' \in [Fp -> Nat] /\ cQue' \in [Fp -> Nat]
      /\ \A x \in Fp : (mQue'[x] = mQue[x] \/ BucketOf(x) = b) /\ (cQue'[x] = cQue[x] \/ BucketOf(x) = b)
  BY <1>1, <1>3, PushOne
<1>5. study = "base" => BaseInv'
  <2>1. HAVE study = "base"
  <2>2. BaseInv /\ mQue = Empty /\ cQue = Empty
    BY <1>1, <2>1 DEF InferInv, BaseInv
  <2>3. \A x \in Fp : mQue[x] = 0 /\ cQue[x] = 0
    BY <2>2 DEF Empty
  <2>4. \A x \in Fp : mQue'[x] > 0 \/ cQue'[x] > 0 => BucketOf(x) = b
    BY <1>4, <2>3
  <2>5. QED BY <1>1, <1>2, <2>2, <2>4 DEF BaseInv
<1>6. OneTypeEach => OnceInv'
  <2>1. HAVE OneTypeEach
  <2>2. OnceInv
    BY <1>1, <2>1 DEF InferInv
  <2>3. \A x \in Fp : Cardinality(Under(FCdb, x)) <= 1 /\ Cardinality(Under(CFCdb, x)) <= 1
    BY <2>1, OneType
  <2>4. Once(mQue, 1)'
    <3>1. \A x \in Fp : mQue'[x] \in {0, 1}
                        /\ (mQue'[x] = 1 => BucketOf(x) \notin todo \ {b} /\ \A p \in made : p[1] # x)
      BY <1>1, <1>3, <2>2, <2>3, OncePushed DEF OnceInv
    <3>2. QED BY <1>1, <1>2, <3>1 DEF Once
  <2>5. Once(cQue, 2)'
    <3>1. \A x \in Fp : cQue'[x] \in {0, 1}
                        /\ (cQue'[x] = 1 => BucketOf(x) \notin todo \ {b} /\ \A p \in made : p[2] # x)
      BY <1>1, <1>3, <2>2, <2>3, OncePushed DEF OnceInv
    <3>2. QED BY <1>1, <1>2, <3>1 DEF Once
  <2>6. todo' \subseteq todo
    BY <1>1
  <2>7. QED BY <1>1, <2>2, <2>4, <2>5, <2>6, PairsKept
<1>7. QED BY <1>1, <1>2, <1>3, <1>4, <1>5, <1>6 DEF InferInv

\* The top of a queue with one entry for a chunk is popped and paired.
LEMMA OncePopped ==
    ASSUME NEW q \in [Fp -> Nat], NEW k \in {1, 2}, NEW x0 \in Fp, NEW pair, pair[k] = x0, Once(q, k), q[x0] > 0
    PROVE  /\ \A p \in made : p[k] # x0
           /\ BucketOf(x0) \notin todo
           /\ \A x \in Fp : LET h == [q EXCEPT ![x0] = @ - 1]
                            IN  /\ h[x] \in {0, 1}
                                /\ h[x] = 1 => BucketOf(x) \notin todo /\ \A p \in made \cup {pair} : p[k] # x
<1>1. q[x0] = 1 /\ BucketOf(x0) \notin todo /\ \A p \in made : p[k] # x0
  BY DEF Once
<1> DEFINE h == [q EXCEPT ![x0] = @ - 1]
<1>2. h[x0] = 0 /\ \A x \in Fp : x # x0 => h[x] = q[x]
  BY <1>1
<1> HIDE DEF h
<1>3. ASSUME NEW x \in Fp
      PROVE  h[x] \in {0, 1} /\ (h[x] = 1 => BucketOf(x) \notin todo /\ \A p \in made \cup {pair} : p[k] # x)
  <2>1. CASE x = x0
    BY <1>2, <2>1
  <2>2. CASE x # x0
    BY <1>2, <2>2 DEF Once
  <2>3. QED BY <2>1, <2>2
<1>4. QED BY <1>1, <1>3 DEF h

\* A right pair is counted.
LEMMA RightCounted ==
    ASSUME InferInv, OnceInv, NEW m \in Plain, NEW c \in Fp, enc[m] = c,
           \A p \in made : p[1] # m /\ p[2] # c,
           Correct(m, c), made' = made \cup {<<m, c>>}, CFCdb' = CFCdb, Placed(CFCdb, CSFdb), study' = study
    PROVE  /\ DOMAIN OUTdb' = {p[1] : p \in Right'}
           /\ correctInfer' = Cardinality(DOMAIN OUTdb')
           /\ rawInfer' = SumFunctionOnSet(CFCdb', {<<p[2], Kind'>> : p \in Right'})
<1>1. /\ rawInfer' = rawInfer + FC(CFCdb, c) /\ correctInfer' = correctInfer + 1
      /\ DOMAIN OUTdb' = DOMAIN OUTdb \cup {m}
  BY DEF Correct
<1>2. Right' = Right \cup {<<m, c>>} /\ Right \subseteq made /\ <<m, c>>[1] = m /\ <<m, c>>[2] = c
  <2>1. <<m, c>>[1] = m /\ <<m, c>>[2] = c
    OBVIOUS
  <2>2. QED BY <2>1 DEF Right
<1>3. DOMAIN OUTdb = {p[1] : p \in Right} /\ correctInfer = Cardinality(DOMAIN OUTdb)
  BY DEF OnceInv
<1>4. DOMAIN OUTdb' = {p[1] : p \in Right'}
  BY <1>1, <1>2, <1>3
<1>5. IsFiniteSet(made) /\ IsFiniteSet(Right)
  BY MadeFinite DEF InferInv
<1>6. IsFiniteSet(DOMAIN OUTdb) /\ m \notin DOMAIN OUTdb
  <2>1. DOMAIN OUTdb \subseteq Fp
    BY <1>2, <1>3, InferAssumption DEF InferInv
  <2>2. IsFiniteSet(DOMAIN OUTdb)
    BY <2>1, BucketAssumption, FS_Subset
  <2>3. QED BY <1>2, <1>3, <2>2
<1>7. correctInfer' = Cardinality(DOMAIN OUTdb')
  <2>1. Cardinality(DOMAIN OUTdb \cup {m}) = Cardinality(DOMAIN OUTdb) + 1
    BY <1>6, FS_AddElement
  <2>2. QED BY <1>1, <1>3, <2>1
<1>8. Kind' = Kind /\ Kind \in Kinds /\ FC(CFCdb, c) = CFCdb[<<c, Kind>>]
  BY InferAssumption DEF Kind, Kinds, FC
<1> DEFINE A == {<<p[2], Kind>> : p \in Right}  e == <<c, Kind>>
<1>9. {<<p[2], Kind'>> : p \in Right'} = A \cup {e}
  BY <1>2, <1>8
<1>10. IsFiniteSet(A)
  <2>1. IsFiniteSet(Kinds) /\ IsFiniteSet(Fp)
    BY BucketAssumption, FS_AddElement DEF Kinds
  <2>2. IsFiniteSet(Fp \X Kinds)
    BY <2>1, FS_Product
  <2>3. A \subseteq Fp \X Kinds
    BY <1>2, <1>8 DEF InferInv
  <2>4. QED BY <2>2, <2>3, FS_Subset
<1>11. e \notin A
  BY <1>2
<1>12. (\A a \in A : CFCdb[a] \in Int) /\ CFCdb[e] \in Int
  <2>1. CFCdb \in [Fp \X Kinds -> Nat]
    BY DEF Placed
  <2>2. \A p \in Right : p[2] \in Fp
    BY <1>2 DEF InferInv
  <2>3. \A a \in A : a \in Fp \X Kinds
    BY <1>8, <2>2
  <2>4. e \in Fp \X Kinds
    BY <1>8
  <2>5. QED BY <2>1, <2>3, <2>4
<1>13. rawInfer = SumFunctionOnSet(CFCdb, A) /\ rawInfer' = rawInfer + CFCdb[e]
  BY <1>1, <1>8 DEF OnceInv
<1> HIDE DEF A, e
<1>14. SumFunctionOnSet(CFCdb, A) \in Int /\ SumFunctionOnSet(CFCdb, A \cup {e}) = CFCdb[e] + SumFunctionOnSet(CFCdb, A)
  BY <1>10, <1>11, <1>12, SumAdd
<1>15. rawInfer' = SumFunctionOnSet(CFCdb, A \cup {e})
  BY <1>12, <1>13, <1>14
<1>16. QED BY <1>4, <1>7, <1>9, <1>15

\* A wrong pair changes neither counters nor output.
LEMMA WrongNotCounted ==
    ASSUME InferInv, OnceInv, NEW m \in Plain, NEW c \in Fp, enc[m] # c,
           Correct(m, c), made' = made \cup {<<m, c>>}, CFCdb' = CFCdb, study' = study
    PROVE  /\ DOMAIN OUTdb' = {p[1] : p \in Right'}
           /\ correctInfer' = Cardinality(DOMAIN OUTdb')
           /\ rawInfer' = SumFunctionOnSet(CFCdb', {<<p[2], Kind'>> : p \in Right'})
<1>1. UNCHANGED <<rawInfer, correctInfer, OUTdb>>
  BY DEF Correct
<1>2. Right' = Right
  <2>1. <<m, c>>[1] = m /\ <<m, c>>[2] = c
    OBVIOUS
  <2>2. QED BY <2>1 DEF Right
<1>3. Kind' = Kind
  BY DEF Kind
<1>4. {<<p[2], Kind'>> : p \in Right'} = {<<p[2], Kind>> : p \in Right} /\ {p[1] : p \in Right'} = {p[1] : p \in Right}
  BY <1>2, <1>3
<1>5. QED BY <1>1, <1>4 DEF OnceInv

\* The two tops are paired.
LEMMA InferPairInv ==
    ASSUME InferInv, Placed(FCdb, SFdb), phase = "infer", NEW m \in Plain, NEW c \in Range(enc), InferPair(m, c),
           UNCHANGED <<study, FCdb, SFdb, phase>>
    PROVE  InferInv'
<1> DEFINE pair == <<m, c>>
<1>1. /\ loop = "infer" /\ mQue[m] > 0 /\ cQue[c] > 0 /\ Correct(m, c)
      /\ made' = made \cup {pair} /\ uniqueInfer' = uniqueInfer + 1
      /\ mQue' = [mQue EXCEPT ![m] = @ - 1] /\ cQue' = [cQue EXCEPT ![c] = @ - 1]
      /\ UNCHANGED <<study, FCdb, SFdb, phase, CFCdb, CSFdb, todo, loop>>
  BY DEF InferPair, Top, Pop
<1>2. m \in Fp /\ c \in Fp /\ pair \in Plain \X Fp /\ pair[1] = m /\ pair[2] = c
  BY InferAssumption DEF Range
<1>3. /\ Buckets' = Buckets /\ (\A x : BucketOf(x)' = BucketOf(x)) /\ OneTypeEach' = OneTypeEach
      /\ Placed(CFCdb, CSFdb)' = Placed(CFCdb, CSFdb)
  BY <1>1, InferKept
<1>4. /\ mQue \in [Fp -> Nat] /\ cQue \in [Fp -> Nat] /\ Placed(CFCdb, CSFdb) /\ made \subseteq Plain \X Fp
      /\ todo \subseteq Buckets
  BY DEF InferInv
<1> HIDE DEF pair
<1>5. /\ mQue' \in [Fp -> Nat] /\ cQue' \in [Fp -> Nat]
      /\ \A x \in Fp : (mQue'[x] > 0 => mQue[x] > 0) /\ (cQue'[x] > 0 => cQue[x] > 0)
  <2>1. mQue[m] - 1 \in Nat /\ cQue[c] - 1 \in Nat
    BY <1>1, <1>2, <1>4
  <2>2. QED BY <1>1, <1>2, <1>4, <2>1
<1>6. made' \subseteq Plain \X Fp
  BY <1>1, <1>2, <1>4
<1>7. study = "base" => BaseInv'
  <2>1. HAVE study = "base"
  <2>2. BaseInv
    BY <2>1 DEF InferInv
  <2>3. PICK b \in Buckets : \A x \in Fp : mQue[x] > 0 \/ cQue[x] > 0 => BucketOf(x) = b
    BY <1>1, <2>2 DEF BaseInv
  <2>4. BucketOf(m) = b /\ BucketOf(c) = b
    BY <1>1, <1>2, <2>3
  <2>5. \A p \in made' : BucketOf(p[1]) = BucketOf(p[2])
    BY <1>1, <1>2, <2>2, <2>4 DEF BaseInv
  <2>6. \A x \in Fp : mQue'[x] > 0 \/ cQue'[x] > 0 => BucketOf(x) = b
    BY <1>5, <2>3
  <2>7. QED BY <1>1, <1>3, <2>5, <2>6 DEF BaseInv
<1>8. OneTypeEach => OnceInv'
  <2>1. HAVE OneTypeEach
  <2>2. OnceInv
    BY <1>1, <2>1 DEF InferInv
  <2>3. /\ \A p \in made : p[1] # m
        /\ BucketOf(m) \notin todo
        /\ \A x \in Fp : mQue'[x] \in {0, 1}
               /\ (mQue'[x] = 1 => BucketOf(x) \notin todo /\ \A p \in made' : p[1] # x)
    BY <1>1, <1>2, <1>4, <2>2, OncePopped DEF OnceInv
  <2>4. /\ \A p \in made : p[2] # c
        /\ BucketOf(c) \notin todo
        /\ \A x \in Fp : cQue'[x] \in {0, 1}
               /\ (cQue'[x] = 1 => BucketOf(x) \notin todo /\ \A p \in made' : p[2] # x)
    BY <1>1, <1>2, <1>4, <2>2, OncePopped DEF OnceInv
  <2>5. Once(mQue, 1)' /\ Once(cQue, 2)'
    BY <1>1, <1>3, <2>3, <2>4 DEF Once
  <2>6. \A p \in made' : BucketOf(p[1])' \notin todo' /\ BucketOf(p[2])' \notin todo'
    BY <1>1, <1>2, <1>3, <2>2, <2>3, <2>4 DEF OnceInv
  <2>7. uniqueInfer' = Cardinality(made')
    <3>1. IsFiniteSet(made) /\ pair \notin made
      BY <1>2, <1>4, <2>3, MadeFinite
    <3>2. Cardinality(made \cup {pair}) = Cardinality(made) + 1
      BY <3>1, FS_AddElement
    <3>3. QED BY <1>1, <2>2, <3>2 DEF OnceInv
  <2>8. \A p, q \in made' : p[1] = q[1] <=> p[2] = q[2]
    BY <1>1, <1>2, <2>2, <2>3, <2>4 DEF OnceInv
  <2>9. /\ DOMAIN OUTdb' = {p[1] : p \in Right'}
        /\ correctInfer' = Cardinality(DOMAIN OUTdb')
        /\ rawInfer' = SumFunctionOnSet(CFCdb', {<<p[2], Kind'>> : p \in Right'})
    <3>1. CASE enc[m] = c
      BY <1>1, <1>2, <1>4, <2>2, <2>3, <2>4, <3>1, RightCounted DEF pair
    <3>2. CASE enc[m] # c
      BY <1>1, <1>2, <2>2, <3>2, WrongNotCounted DEF pair
    <3>3. QED BY <3>1, <3>2
  <2>10. QED BY <2>5, <2>6, <2>7, <2>8, <2>9 DEF OnceInv
<1>9. QED BY <1>1, <1>3, <1>4, <1>5, <1>6, <1>7, <1>8 DEF InferInv

\* What OnceInv says of the numbers printed.
LEMMA OutputFollows ==
    ASSUME InferInv, phase # "target", loop # "idle", OneTypeEach
    PROVE  rawInfer <= SumFunction(CFCdb)
<1>1. OnceInv /\ Placed(CFCdb, CSFdb) /\ made \subseteq Plain \X Fp
  BY DEF InferInv
<1>2. CFCdb \in [Fp \X Kinds -> Nat]
  BY <1>1 DEF Placed
<1> DEFINE A == {<<p[2], Kind>> : p \in Right}  D == Fp \X Kinds
<1>3. A \in SUBSET D
  <2>1. Kind \in Kinds
    BY InferAssumption DEF Kind, Kinds
  <2>2. \A p \in Right : p[2] \in Fp
    BY <1>1 DEF Right
  <2>3. QED BY <2>1, <2>2
<1>4. IsFiniteSet(D)
  <2>1. IsFiniteSet(Kinds) /\ IsFiniteSet(Fp)
    BY BucketAssumption, FS_AddElement DEF Kinds
  <2>2. QED BY <2>1, FS_Product
<1>5. rawInfer = SumFunctionOnSet(CFCdb, A)
  BY <1>1 DEF OnceInv
<1>6. SumFunction(CFCdb) = SumFunctionOnSet(CFCdb, D)
  <2>1. DOMAIN CFCdb = D
    BY <1>2
  <2>2. QED BY <2>1 DEF SumFunction, SumFunctionOnSet, FoldFunction
<1>7. \A x \in D : CFCdb[x] \in Nat
  BY <1>2
<1> HIDE DEF A, D
<1>8. SumFunctionOnSet(CFCdb, A) <= SumFunctionOnSet(CFCdb, D)
  BY <1>3, <1>4, <1>7, SumPart
<1>9. QED BY <1>5, <1>6, <1>8

-----------------------------------------------------------------------------
(* Files *)

\* The second components of a list.
Counts(list) == [i \in DOMAIN list |-> list[i][2]]

\* The list of a file has numbers to add up.
LEMMA ListSums ==
    ASSUME NEW list, FileList(list)
    PROVE  /\ Len(list) \in Nat /\ DOMAIN list = 1..Len(list) /\ IsFiniteSet(DOMAIN list)
           /\ \A i \in DOMAIN list : /\ Counts(list)[i] = list[i][2] /\ Counts(list)[i] \in Nat
                                     /\ list[i] \in Fp \X Nat
           /\ \A T \in SUBSET DOMAIN list : /\ Logic(list, T) = SumFunctionOnSet(Counts(list), T)
                                            /\ Logic(list, T) \in Nat
                                            /\ Logic(list, T) <= Occurrences(list)
           /\ Occurrences(list) \in Nat
<1>0. \A n \in Nat : IsFiniteSet(1..n)
  BY FS_Interval
<1>1. list \in Seq(Fp \X Nat)
  BY DEF FileList
<1>2. Len(list) \in Nat /\ DOMAIN list = 1..Len(list) /\ \A i \in DOMAIN list : list[i] \in Fp \X Nat
  BY <1>1
<1>3. IsFiniteSet(DOMAIN list)
  BY <1>0, <1>2
<1>4. \A i \in DOMAIN list : Counts(list)[i] = list[i][2] /\ Counts(list)[i] \in Nat
  BY <1>2 DEF Counts
<1>5. \A T : Logic(list, T) = SumFunctionOnSet(Counts(list), T)
  BY DEF Logic, Counts
<1>6. \A T \in SUBSET DOMAIN list : /\ Logic(list, T) \in Nat /\ Logic(list, T) <= Occurrences(list)
  <2> DEFINE f == Counts(list)  S == DOMAIN list
  <2>1. IsFiniteSet(S) /\ \A i \in S : f[i] \in Nat
    BY <1>3, <1>4
  <2>2. (\A T : Logic(list, T) = SumFunctionOnSet(f, T)) /\ Occurrences(list) = SumFunctionOnSet(f, S)
    BY <1>5 DEF Occurrences
  <2> HIDE DEF f, S
  <2>3. \A T \in SUBSET S : SumFunctionOnSet(f, T) \in Nat /\ SumFunctionOnSet(f, T) <= SumFunctionOnSet(f, S)
    BY <2>1, SumPart
  <2>4. \A T \in SUBSET S : Logic(list, T) \in Nat /\ Logic(list, T) <= Occurrences(list)
    BY <2>2, <2>3
  <2>5. QED BY <2>4 DEF S
<1>7. Occurrences(list) \in Nat
  BY <1>6 DEF Occurrences
<1>8. QED BY <1>2, <1>3, <1>4, <1>5, <1>6, <1>7

\* The list of a file of which nothing was read.
LEMMA NoList == FileList(<<>>) /\ Occurrences(<<>>) = 0
<1>1. FileList(<<>>)
  BY DEF FileList
<1>2. DOMAIN <<>> = {}
  OBVIOUS
<1>3. SumFunctionOnSet(Counts(<<>>), {}) = 0
  BY SumEmpty
<1>4. Occurrences(<<>>) = 0
  BY <1>2, <1>3 DEF Occurrences, Logic, Counts
<1>5. QED BY <1>1, <1>4

\* One of the numbers grows by one.
LEMMA OneMore ==
    ASSUME NEW S, IsFiniteSet(S), NEW f, NEW h, NEW e, e \in S,
           \A i \in S : f[i] \in Int /\ h[i] \in Int,
           \A i \in S \ {e} : h[i] = f[i], h[e] = f[e] + 1
    PROVE  SumFunctionOnSet(h, S) = SumFunctionOnSet(f, S) + 1
<1>1. SumFunctionOnSet(h, S) = SumFunctionOnSet(f, S) + (h[e] - f[e])
  BY SumChange
<1>2. SumFunctionOnSet(f, S) \in Int
  BY SumType
<1>3. f[e] \in Int
  OBVIOUS
<1>4. QED BY <1>1, <1>2, <1>3

\* insertFCDB counts one chunk more, wherever it is in the list.
LEMMA CountedOnce ==
    ASSUME NEW list, FileList(list), NEW c \in Fp
    PROVE  FileList(CountedIn(list, c)) /\ Occurrences(CountedIn(list, c)) = Occurrences(list) + 1
<1> DEFINE n == Len(list)  new == CountedIn(list, c)  f == Counts(list)  h == Counts(new)
<1>1. /\ n \in Nat /\ DOMAIN list = 1..n /\ IsFiniteSet(1..n)
      /\ \A i \in 1..n : f[i] = list[i][2] /\ f[i] \in Nat /\ list[i] \in Fp \X Nat
      /\ list \in Seq(Fp \X Nat) /\ \A i, j \in 1..n : list[i][1] = list[j][1] => i = j
      /\ Occurrences(list) = SumFunctionOnSet(f, 1..n)
  BY ListSums DEF FileList, Occurrences
<1>2. CASE \E i \in 1..n : list[i][1] = c
  <2>1. PICK i0 \in 1..n : list[i0][1] = c
    BY <1>2
  <2>2. new = [i \in 1..n |-> IF list[i][1] = c THEN <<c, list[i][2] + 1>> ELSE list[i]]
    BY <1>1, <1>2 DEF CountedIn
  <2> HIDE DEF new
  <2>3. /\ DOMAIN new = 1..n
        /\ new[i0] = <<c, list[i0][2] + 1>>
        /\ \A i \in 1..n : i # i0 => new[i] = list[i]
    BY <1>1, <2>1, <2>2
  <2>4. new[i0] \in Fp \X Nat /\ new[i0][1] = c /\ new[i0][2] = list[i0][2] + 1
    <3>1. list[i0][2] \in Nat
      BY <1>1, <2>1
    <3>2. QED BY <2>3, <3>1
  <2>5. \A i \in 1..n : new[i] \in Fp \X Nat /\ new[i][1] = list[i][1]
    BY <1>1, <2>1, <2>3, <2>4
  <2>6. new \in Seq(Fp \X Nat)
    <3> DEFINE X == Fp \X Nat
    <3>1. new \in [1..n -> X] /\ n \in Nat
      BY <1>1, <2>2, <2>3, <2>5
    <3> HIDE DEF X, n
    <3>2. new \in Seq(X)
      BY <3>1
    <3>3. QED BY <3>2 DEF X
  <2>7. FileList(new)
    BY <1>1, <2>3, <2>5, <2>6 DEF FileList
  <2>8. Occurrences(new) = SumFunctionOnSet(h, 1..n) /\ \A i \in 1..n : h[i] = new[i][2] /\ h[i] \in Nat
    BY <2>3, <2>7, ListSums DEF Occurrences
  <2>9. /\ \A i \in 1..n : f[i] \in Int /\ h[i] \in Int
        /\ \A i \in 1..n \ {i0} : h[i] = f[i]
        /\ h[i0] = f[i0] + 1 /\ f[i0] \in Int
    BY <1>1, <2>1, <2>3, <2>4, <2>8
  <2> DEFINE S == 1..n  e == i0
  <2>10. /\ IsFiniteSet(S) /\ e \in S /\ (\A i \in S : f[i] \in Int /\ h[i] \in Int)
         /\ (\A i \in S \ {e} : h[i] = f[i]) /\ h[e] = f[e] + 1 /\ f[e] \in Int
    BY <1>1, <2>1, <2>9
  <2>11. SumFunctionOnSet(h, S) = SumFunctionOnSet(f, S) + 1
    <3> HIDE DEF S, e, f, h
    <3>1. QED BY <2>10, OneMore
  <2>12. QED BY <1>1, <2>7, <2>8, <2>11 DEF new
<1>3. CASE ~\E i \in 1..n : list[i][1] = c
  <2>2. new = Append(list, <<c, 1>>)
    BY <1>1, <1>3 DEF CountedIn
  <2>3. /\ DOMAIN new = 1..(n + 1) /\ Len(new) = n + 1 /\ new \in Seq(Fp \X Nat)
        /\ new[n + 1] = <<c, 1>>
        /\ \A i \in 1..n : new[i] = list[i]
    <3>1. <<c, 1>> \in Fp \X Nat
      OBVIOUS
    <3> HIDE DEF new
    <3>2. QED BY <1>1, <2>2, <3>1
  <2> HIDE DEF new
  <2>4. new[n + 1][1] = c /\ new[n + 1][2] = 1
    BY <2>3
  <2>5. 1..(n + 1) = 1..n \cup {n + 1} /\ n + 1 \notin 1..n
    BY <1>1
  <2>6. FileList(new)
    <3>1. ASSUME NEW i \in 1..(n + 1), NEW j \in 1..(n + 1), new[i][1] = new[j][1]
          PROVE  i = j
      <4>1. CASE i \in 1..n /\ j \in 1..n
        BY <1>1, <2>3, <3>1, <4>1
      <4>2. CASE i = n + 1 /\ j \in 1..n
        BY <1>3, <2>3, <2>4, <3>1, <4>2
      <4>3. CASE i \in 1..n /\ j = n + 1
        BY <1>3, <2>3, <2>4, <3>1, <4>3
      <4>4. CASE i = n + 1 /\ j = n + 1
        BY <4>4
      <4>5. QED BY <2>5, <4>1, <4>2, <4>3, <4>4
    <3>2. QED BY <2>3, <3>1 DEF FileList
  <2>7. /\ Occurrences(new) = SumFunctionOnSet(h, 1..n \cup {n + 1})
        /\ \A i \in 1..(n + 1) : h[i] = new[i][2] /\ h[i] \in Nat
    BY <2>3, <2>5, <2>6, ListSums DEF Occurrences
  <2> DEFINE S == 1..n  e == n + 1
  <2>8. /\ IsFiniteSet(S) /\ e \notin S /\ (\A i \in S : f[i] \in Int /\ h[i] = f[i]) /\ h[e] = 1
    BY <1>1, <2>3, <2>4, <2>5, <2>7
  <2>9. Occurrences(new) = SumFunctionOnSet(h, S \cup {e}) /\ Occurrences(list) = SumFunctionOnSet(f, S)
    BY <1>1, <2>7
  <2> HIDE DEF S, e, f, h
  <2>10. SumFunctionOnSet(f, S) = SumFunctionOnSet(h, S)
    BY <2>8, SumSame
  <2>11. SumFunctionOnSet(h, S) \in Int /\ SumFunctionOnSet(h, S \cup {e}) = h[e] + SumFunctionOnSet(h, S)
    <3>1. (\A i \in S : h[i] \in Int) /\ h[e] \in Int
      BY <2>8
    <3>2. QED BY <2>8, <3>1, SumAdd
  <2>12. QED BY <2>6, <2>8, <2>9, <2>10, <2>11 DEF new
<1>4. QED BY <1>2, <1>3

\* Nothing of the second case study changes before it starts.
LEMMA FilesIdle ==
    ASSUME FileInv, UNCHANGED fileVars, phase \notin {"files", "compare"}, phase' \notin {"files", "compare"}
    PROVE  FileInv'
<1>1. UNCHANGED <<FILEdb, frun, files, totalLogic, totalUnique, correctLogic, correctUnique,
                  uniqueOver, logicOver, allOver>>
  BY DEF fileVars, tally
<1>2. FILEdb = <<>> /\ frun = 0 /\ FILEdb' = <<>> /\ frun' = 0 /\ DOMAIN <<>> = {}
  BY <1>1 DEF FileInv
<1>3. RatesAreShares'
  BY <1>1, <1>2 DEF FileInv, RatesAreShares
<1>4. QED BY <1>1, <1>2, <1>3 DEF FileInv

\* readChunksFile starts.
LEMMA RunReadFilesInv ==
    ASSUME FileInv, RunReadFiles
    PROVE  FileInv'
<1>1. /\ phase = "infer" /\ phase' = "files" /\ frun' = 1 /\ nfile' = 0
      /\ UNCHANGED <<FILEdb, files, totalLogic, totalUnique, correctLogic, correctUnique,
                     uniqueOver, logicOver, allOver>>
  BY DEF RunReadFiles, tally
<1>2. FILEdb' = <<>> /\ DOMAIN <<>> = {}
  BY <1>1 DEF FileInv
<1>3. RatesAreShares'
  BY <1>1 DEF FileInv, RatesAreShares
<1>4. QED BY <1>1, <1>2, <1>3 DEF FileInv

\* The next file begins.
LEMMA NextMetaInv ==
    ASSUME FileInv, ReadInv, phase = "files", NextMeta, UNCHANGED studyVars
    PROVE  FileInv'
<1>1. /\ nfile' = nfile + 1 /\ nchunk' = 0 /\ phase' = "files"
      /\ UNCHANGED <<FILEdb, frun, files, totalLogic, totalUnique, correctLogic, correctUnique,
                     uniqueOver, logicOver, allOver>>
  BY DEF NextMeta, fileVars, tally, studyVars
<1>2. nfile \in Nat
  BY DEF ReadInv
<1>3. frun = 1 => \A k \in DOMAIN FILEdb : k[1] \in Nat /\ k[1] < nfile' /\ k[1] # nfile' - 1
  BY <1>1, <1>2 DEF FileInv
<1>4. RatesAreShares'
  BY <1>1 DEF FileInv, RatesAreShares
<1>5. QED BY <1>1, <1>3, <1>4 DEF FileInv

\* A chunk of the file is counted in its entry.
LEMMA InsertFCDBInv ==
    ASSUME FileInv, ReadInv, phase = "files", insertFCDB, UNCHANGED studyVars
    PROVE  FileInv'
<1>0. PICK c, key : c = input[nfile].chunks[nchunk + 1] /\ key = meta
  OBVIOUS
<1>1. /\ ~AtEndOfFile
      /\ FILEdb' = [k \in DOMAIN FILEdb \cup {key} |-> IF k = key THEN CountedIn(Entry(key), c) ELSE FILEdb[k]]
      /\ nchunk' = nchunk + 1 /\ phase' = "files"
      /\ UNCHANGED <<nfile, input, frun, files, totalLogic, totalUnique, correctLogic, correctUnique,
                     uniqueOver, logicOver, allOver>>
  BY <1>0 DEF insertFCDB, tally, studyVars
<1>2. /\ nfile \in Nat /\ nfile > 0 /\ nchunk \in Nat /\ c \in Fp /\ input[nfile].type \in Types
      /\ Len(input[nfile].chunks) \in Nat /\ nchunk + 1 <= Len(input[nfile].chunks)
  BY <1>0, <1>1, NextChunk DEF ReadInv
<1>3. /\ key \in Nat \X Nat \X Types /\ key[1] = nfile - 1 /\ key[2] = Len(input[nfile].chunks) /\ meta' = key
      /\ meta = key
  <2>1. key = <<nfile - 1, Len(input[nfile].chunks), input[nfile].type>> /\ meta' = meta
    BY <1>0, <1>1 DEF meta
  <2> DEFINE i == nfile - 1  n == Len(input[nfile].chunks)  t == input[nfile].type
  <2>2. i \in Nat /\ n \in Nat /\ t \in Types /\ key = <<i, n, t>>
    BY <1>2, <2>1
  <2> HIDE DEF i, n, t
  <2>3. key \in Nat \X Nat \X Types /\ key[1] = i /\ key[2] = n
    BY <2>2
  <2>4. QED BY <1>0, <2>1, <2>3 DEF i, n
<1>4. FileList(Entry(key))
  BY NoList DEF Entry, FileInv
<1>5. FileList(CountedIn(Entry(key), c)) /\ Occurrences(CountedIn(Entry(key), c)) = Occurrences(Entry(key)) + 1
  BY <1>2, <1>4, CountedOnce
<1>6. frun = 1 => Occurrences(Entry(key)) = nchunk
  BY <1>2, <1>3, NoList DEF FileInv, Entry
<1> DEFINE new == CountedIn(Entry(key), c)
<1>7. /\ DOMAIN FILEdb' = DOMAIN FILEdb \cup {key}
      /\ FILEdb'[key] = new
      /\ \A k \in DOMAIN FILEdb : k # key => FILEdb'[k] = FILEdb[k]
  BY <1>1
<1> HIDE DEF new
<1>8. \A k \in DOMAIN FILEdb' : k \in Nat \X Nat \X Types /\ FileList(FILEdb'[k])
  BY <1>3, <1>5, <1>7 DEF FileInv, new
<1>9. frun = 1 => /\ Occurrences(FILEdb'[key]) = nchunk'
                  /\ \A k \in DOMAIN FILEdb' : /\ Occurrences(FILEdb'[k]) <= k[2] /\ k[1] < nfile
                                               /\ k[1] = nfile - 1 => k = key
  <2>1. HAVE frun = 1
  <2>2. Occurrences(FILEdb'[key]) = nchunk'
    BY <1>1, <1>5, <1>6, <1>7, <2>1 DEF new
  <2>3. Occurrences(FILEdb'[key]) <= key[2] /\ key[1] < nfile
    BY <1>1, <1>2, <1>3, <2>2
  <2>4. ASSUME NEW k \in DOMAIN FILEdb, k # key
        PROVE  Occurrences(FILEdb'[k]) <= k[2] /\ k[1] < nfile /\ k[1] # nfile - 1
    BY <1>3, <1>7, <2>1, <2>4 DEF FileInv
  <2>5. QED BY <1>7, <2>2, <2>3, <2>4
<1>10. RatesAreShares'
  BY <1>1 DEF FileInv, RatesAreShares
<1>11. key \in DOMAIN FILEdb'
  BY <1>7
<1>12. ASSUME frun' = 1
       PROVE  /\ \A k \in DOMAIN FILEdb' : /\ k[1] < nfile'
                                           /\ k[1] = nfile' - 1 => k = meta' /\ Occurrences(FILEdb'[k]) = nchunk'
              /\ meta' \in DOMAIN FILEdb'
              /\ \A k \in DOMAIN FILEdb' : Occurrences(FILEdb'[k]) <= k[2]
  <2>1. frun = 1 /\ nfile' = nfile /\ meta' = key
    BY <1>1, <1>3, <1>12
  <2>2. /\ Occurrences(FILEdb'[key]) = nchunk'
        /\ \A k \in DOMAIN FILEdb' : Occurrences(FILEdb'[k]) <= k[2] /\ k[1] < nfile /\ (k[1] = nfile - 1 => k = key)
    BY <1>9, <2>1
  <2>3. ASSUME NEW k \in DOMAIN FILEdb'
        PROVE  k[1] < nfile' /\ (k[1] = nfile' - 1 => k = meta' /\ Occurrences(FILEdb'[k]) = nchunk')
    <3>1. k[1] < nfile' /\ (k[1] = nfile' - 1 => k = key)
      BY <2>1, <2>2
    <3>2. k = key => Occurrences(FILEdb'[k]) = nchunk'
      BY <2>2
    <3>3. QED BY <2>1, <3>1, <3>2
  <2>4. QED BY <1>11, <2>1, <2>2, <2>3
<1>13. /\ phase' = "files"
       /\ UNCHANGED <<frun, files, totalLogic, totalUnique, correctLogic, correctUnique,
                      uniqueOver, logicOver, allOver>>
  BY <1>1
<1>14. /\ frun' \in Nat /\ frun' > 0 /\ files' \in Nat /\ totalLogic' \in Nat /\ totalUnique' \in Nat
       /\ correctLogic' \in Nat /\ correctUnique' \in Nat /\ uniqueOver' \in Nat /\ logicOver' \in Nat
       /\ allOver' \in Nat /\ totalLogic' = 0 /\ correctLogic' = 0
  BY <1>13 DEF FileInv
<1>15. phase' = "files"
  BY <1>13
<1>16. QED BY <1>8, <1>10, <1>12, <1>14, <1>15 DEF FileInv

\* readChunksFile is started again.
LEMMA RerunInv ==
    ASSUME FileInv, phase = "files", Rerun, UNCHANGED studyVars
    PROVE  FileInv'
<1>1. /\ frun' = frun + 1 /\ nfile' = 0 /\ nchunk' = 0 /\ phase' = "files"
      /\ UNCHANGED <<FILEdb, files, totalLogic, totalUnique, correctLogic, correctUnique,
                     uniqueOver, logicOver, allOver>>
  BY DEF Rerun, tally, studyVars
<1>2. frun' \in Nat /\ frun' > 0 /\ frun' # 1
  BY <1>1 DEF FileInv
<1>3. RatesAreShares'
  BY <1>1, <1>2 DEF FileInv, RatesAreShares
<1>4. QED BY <1>1, <1>2, <1>3 DEF FileInv

\* compareDB starts.
LEMMA RunCompareInv ==
    ASSUME FileInv, RunCompare
    PROVE  FileInv'
<1>1. /\ phase = "files" /\ phase' = "compare"
      /\ UNCHANGED <<FILEdb, frun, files, totalLogic, totalUnique, correctLogic, correctUnique,
                     uniqueOver, logicOver, allOver>>
  BY DEF RunCompare, fileVars, tally
<1>2. RatesAreShares'
  BY <1>1 DEF FileInv, RatesAreShares
<1>3. QED BY <1>1, <1>2 DEF FileInv

\* An entry of another type.
LEMMA OtherTypeInv ==
    ASSUME FileInv, phase = "compare", NEW key, OtherType(key), UNCHANGED studyVars
    PROVE  FileInv'
<1>1. /\ phase' = "compare"
      /\ UNCHANGED <<FILEdb, frun, files, totalLogic, totalUnique, correctLogic, correctUnique,
                     uniqueOver, logicOver, allOver>>
  BY DEF OtherType, tally, studyVars
<1>2. RatesAreShares'
  BY <1>1 DEF FileInv, RatesAreShares
<1>3. QED BY <1>1, <1>2 DEF FileInv

\* An entry of the type is compared: what it adds to a part is at most what it
\* adds to the whole.
LEMMA CompareInv ==
    ASSUME FileInv, phase = "compare", NEW key \in DOMAIN FILEdb, Compare(key), UNCHANGED studyVars
    PROVE  FileInv'
<1> DEFINE list == FILEdb[key]  logic == Logic(list, Answered(list))  unique == Cardinality(Answered(list))
<1>1. /\ files' = files + 1
      /\ totalLogic' = totalLogic + key[2]
      /\ totalUnique' = totalUnique + Len(list)
      /\ correctLogic' = correctLogic + logic
      /\ correctUnique' = correctUnique + unique
      /\ logicOver' = Add(logicOver, Reaches(logic, key[2]))
      /\ uniqueOver' = Add(uniqueOver, Reaches(unique, Len(list)))
      /\ allOver' = Add(allOver, Reaches(logic, key[2]) /\ Reaches(unique, Len(list)))
      /\ FILEdb' = FILEdb /\ frun' = frun /\ phase' = "compare"
  BY DEF Compare, studyVars
<1>2. FileList(list) /\ key[2] \in Nat
  BY DEF FileInv
<1>3. Len(list) \in Nat /\ DOMAIN list = 1..Len(list) /\ Answered(list) \in SUBSET DOMAIN list
  BY <1>2, ListSums DEF Answered
<1>4. logic \in Nat /\ logic <= Occurrences(list) /\ Occurrences(list) \in Nat
  BY <1>2, <1>3, ListSums
<1>5. unique \in Nat /\ unique <= Len(list)
  <2>0. \A n \in Nat : IsFiniteSet(1..n) /\ Cardinality(1..n) = n
    BY FS_Interval
  <2>1. IsFiniteSet(1..Len(list)) /\ Cardinality(1..Len(list)) = Len(list)
    BY <1>3, <2>0
  <2> DEFINE A == Answered(list)  D == 1..Len(list)
  <2>2. A \subseteq D /\ IsFiniteSet(D) /\ Cardinality(D) = Len(list)
    BY <1>3, <2>1
  <2> HIDE DEF A, D
  <2>3. Cardinality(A) \in Nat /\ Cardinality(A) <= Cardinality(D)
    BY <2>2, FS_Subset, FS_CardinalityType
  <2>4. QED BY <2>2, <2>3 DEF A
<1>6. frun = 1 => logic <= key[2]
  BY <1>2, <1>4 DEF FileInv
<1> HIDE DEF list, logic, unique
<1>7. /\ files \in Nat /\ totalLogic \in Nat /\ totalUnique \in Nat /\ correctLogic \in Nat
      /\ correctUnique \in Nat /\ uniqueOver \in Nat /\ logicOver \in Nat /\ allOver \in Nat
      /\ correctUnique <= totalUnique /\ (frun = 1 => correctLogic <= totalLogic)
      /\ allOver <= logicOver /\ allOver <= uniqueOver /\ logicOver <= files /\ uniqueOver <= files
  BY DEF FileInv, RatesAreShares
<1>8. /\ files' \in Nat /\ totalLogic' \in Nat /\ totalUnique' \in Nat /\ correctLogic' \in Nat
      /\ correctUnique' \in Nat /\ correctUnique' <= totalUnique' /\ (frun' = 1 => correctLogic' <= totalLogic')
  <2> DEFINE w == key[2]  n == Len(list)
  <2>1. w \in Nat /\ n \in Nat /\ totalLogic' = totalLogic + w /\ totalUnique' = totalUnique + n
    BY <1>1, <1>2, <1>3
  <2>2. unique <= n /\ (frun = 1 => logic <= w) /\ frun' = frun
    BY <1>1, <1>5, <1>6
  <2>3. files' = files + 1 /\ correctLogic' = correctLogic + logic /\ correctUnique' = correctUnique + unique
    BY <1>1
  <2> HIDE DEF w, n
  <2>4. QED BY <1>4, <1>5, <1>7, <2>1, <2>2, <2>3
<1>9. /\ uniqueOver' \in Nat /\ logicOver' \in Nat /\ allOver' \in Nat
      /\ allOver' <= logicOver' /\ allOver' <= uniqueOver' /\ logicOver' <= files' /\ uniqueOver' <= files'
  <2> DEFINE L == Reaches(logic, key[2])  U == Reaches(unique, Len(list))
  <2>1. /\ logicOver' = IF L THEN logicOver + 1 ELSE logicOver
        /\ uniqueOver' = IF U THEN uniqueOver + 1 ELSE uniqueOver
        /\ allOver' = IF L /\ U THEN allOver + 1 ELSE allOver
        /\ files' = files + 1
    BY <1>1 DEF Add
  <2> HIDE DEF L, U
  <2>2. QED BY <1>7, <2>1
<1>10. RatesAreShares'
  BY <1>8, <1>9 DEF RatesAreShares
<1>11. QED BY <1>1, <1>8, <1>9, <1>10 DEF FileInv

-----------------------------------------------------------------------------
(* The studies *)

\* Nothing of the inference changes before it starts.
LEMMA InferIdle ==
    ASSUME InferInv, UNCHANGED <<study, phase, inferVars>>, phase \in {"target", "auxiliary"}
    PROVE  InferInv'
<1>1. UNCHANGED <<study, phase, CFCdb, CSFdb, todo, mQue, cQue, uniqueInfer, correctInfer, rawInfer,
                  OUTdb, loop, made>>
  BY DEF inferVars, queues, result
<1>2. Buckets' = Buckets /\ (\A c : BucketOf(c)' = BucketOf(c)) /\ loop = "idle" /\ loop' = "idle"
  BY <1>1, StudyKept DEF InferInv
<1>3. Placed(CFCdb, CSFdb)' = Placed(CFCdb, CSFdb)
  BY <1>1, <1>2 DEF Placed
<1>4. /\ mQue = Empty /\ cQue = Empty /\ made = {}
      /\ mQue' = Empty /\ cQue' = Empty /\ made' = {}
  BY <1>1, <1>2 DEF InferInv
<1>5. BaseInv'
  BY <1>2, <1>4 DEF BaseInv, Empty
<1>6. QED BY <1>1, <1>2, <1>3, <1>5 DEF InferInv, Empty

\* The databases and the result of the inference stay as they are.
LEMMA InferStays ==
    ASSUME InferInv, UNCHANGED <<study, FCdb, SFdb, inferVars>>,
           phase # "target", phase' \notin {"target", "auxiliary"}
    PROVE  InferInv'
<1>1. UNCHANGED <<study, FCdb, SFdb, CFCdb, CSFdb, todo, mQue, cQue, uniqueInfer, correctInfer, rawInfer,
                  OUTdb, loop, made>>
  BY DEF inferVars, queues, result
<1>2. /\ Buckets' = Buckets /\ (\A c : BucketOf(c)' = BucketOf(c)) /\ OneTypeEach' = OneTypeEach
      /\ Placed(CFCdb, CSFdb)' = Placed(CFCdb, CSFdb)
  BY <1>1, InferKept
<1>3. study = "base" => BaseInv'
  BY <1>1, <1>2 DEF InferInv, BaseInv, Empty
<1>4. loop # "idle" /\ OneTypeEach => OnceInv'
  <2>1. HAVE loop # "idle" /\ OneTypeEach
  <2>2. OnceInv
    BY <2>1 DEF InferInv
  <2>3. Once(mQue, 1)' /\ Once(cQue, 2)' /\ todo' \subseteq todo
    BY <1>1, <1>2, <2>2 DEF OnceInv, Once
  <2>4. QED BY <1>1, <2>2, <2>3, PairsKept
<1>5. QED BY <1>1, <1>2, <1>3, <1>4 DEF InferInv, Empty

\* What waits, and what is missing, stays.
LEMMA PlaceStays ==
    ASSUME PlaceInv, UNCHANGED <<study, FCdb, SFdb, pending, kills>>
    PROVE  PlaceInv'
  BY PlacesKept DEF PlaceInv

\* The invariant holds at the start.
LEMMA BInitInv ==
    ASSUME BInit
    PROVE  BInv
<1>1. /\ input = Encrypt(target) /\ phase = "target" /\ study \in {"base", "type"} /\ nfile = 0 /\ nchunk = 0
      /\ FCdb = NoCounts /\ SFdb = [b \in Buckets |-> <<>>] /\ pending = {} /\ kills = 0
      /\ todo = {} /\ mQue = Empty /\ cQue = Empty /\ uniqueInfer = 0 /\ correctInfer = 0 /\ rawInfer = 0
      /\ OUTdb = <<>> /\ made = {} /\ loop = "idle"
  BY DEF BInit, CountInit, InferInit
<1>2. target \in Seq(Files(Plain)) /\ auxiliary \in Seq(Files(Plain))
  <2>1. PICK w \in Traces : target = w[1] /\ auxiliary = w[2]
    BY DEF BInit
  <2>2. QED BY <2>1, TraceAssumption DEF Files
<1>3. input \in Seq(Files(Fp)) /\ Len(input) \in Nat
  BY <1>1, <1>2, TraceTypes
<1>4. ReadInv
  BY <1>1, <1>2, <1>3 DEF ReadInv
<1>5. PlaceInv
  BY <1>1, EmptyPlaced
<1>6. InferInv
  <2>1. Empty \in [Fp -> Nat]
    BY DEF Empty
  <2>2. BaseInv
    BY <1>1 DEF BaseInv
  <2>3. QED BY <1>1, <2>1, <2>2 DEF InferInv
<1>7. FileInv
  <2>1. /\ FILEdb = <<>> /\ frun = 0 /\ files = 0 /\ totalLogic = 0 /\ totalUnique = 0
        /\ correctLogic = 0 /\ correctUnique = 0 /\ uniqueOver = 0 /\ logicOver = 0 /\ allOver = 0
    BY DEF BInit, FileInit
  <2>2. DOMAIN FILEdb = {}
    BY <2>1
  <2>3. RatesAreShares
    BY <2>1 DEF RatesAreShares
  <2>4. QED BY <1>1, <2>1, <2>2, <2>3 DEF FileInv
<1>8. QED BY <1>4, <1>5, <1>6, <1>7 DEF BInv

\* A step of a program that reads a trace into databases.
LEMMA ReadingStep ==
    ASSUME BInv, Reading
    PROVE  BInv'
<1>1. /\ phase \in {"target", "auxiliary"} /\ phase' = phase /\ UNCHANGED studyVars
      /\ UNCHANGED inferVars /\ UNCHANGED fileVars
      /\ NextFile \/ insertFCdb \/ (\E c \in Fp : insertSFdb(c)) \/ Restart
  BY DEF Reading, CountNext, studyVars
<1>2. study' = study
  BY <1>1 DEF NextFile, insertFCdb, insertSFdb, Restart, reader
<1>3. ReadInv' /\ PlaceInv'
  BY <1>1, NextFileInv, InsertFCInv, InsertSFInv, RestartInv DEF BInv
<1>4. InferInv'
  BY <1>1, <1>2, InferIdle DEF BInv
<1>5. FileInv'
  BY <1>1, FilesIdle DEF BInv
<1>6. QED BY <1>3, <1>4, <1>5 DEF BInv

\* The auxiliary trace is next.
LEMMA ReadAuxiliaryStep ==
    ASSUME BInv, ReadAuxiliary
    PROVE  BInv'
<1>1. /\ phase = "target" /\ phase' = "auxiliary" /\ pending' = {} /\ CFCdb' = FCdb /\ CSFdb' = SFdb
      /\ input' = auxiliary /\ nfile' = 0 /\ nchunk' = 0 /\ FCdb' = NoCounts
      /\ SFdb' = [b \in Buckets |-> <<>>] /\ kills' = 0
      /\ UNCHANGED <<study, todo, mQue, cQue, uniqueInfer, correctInfer, rawInfer, OUTdb, made, loop,
                     target, auxiliary>>
      /\ UNCHANGED fileVars
  BY DEF ReadAuxiliary, queues, result
<1>2. Buckets' = Buckets /\ \A c : BucketOf(c)' = BucketOf(c)
  BY <1>1, StudyKept
<1>3. ReadInv'
  <2>1. input' \in Seq(Files(Fp))
    BY <1>1, TraceTypes DEF BInv, ReadInv
  <2>2. QED BY <1>1, <2>1, Rewound DEF BInv
<1>4. PlaceInv'
  <2>1. FCdb' = NoCounts' /\ SFdb' = [b \in Buckets' |-> <<>>] /\ pending' = {} /\ kills' = 0
    BY <1>1, <1>2 DEF NoCounts
  <2>2. NoDatabases'
    BY <2>1 DEF NoDatabases
  <2>3. QED BY <2>2, EmptyPlacedNext
<1>5. InferInv'
  <2>1. Placed(FCdb, SFdb)
    BY DEF BInv, PlaceInv
  <2>2. Placed(CFCdb, CSFdb)'
    BY <1>1, <1>2, <2>1 DEF Placed
  <2>3. loop = "idle" /\ mQue = Empty /\ cQue = Empty /\ made = {}
    BY <1>1 DEF BInv, InferInv
  <2>4. BaseInv'
    BY <1>1, <2>3 DEF BaseInv, Empty
  <2>5. QED BY <1>1, <1>2, <2>2, <2>3, <2>4 DEF BInv, InferInv, Empty
<1>6. FileInv'
  BY <1>1, FilesIdle DEF BInv
<1>7. QED BY <1>3, <1>4, <1>5, <1>6 DEF BInv

\* A step of inferTest.
LEMMA InferringStep ==
    ASSUME BInv, Inferring
    PROVE  BInv'
<1>1. /\ phase = "infer" /\ phase' = "infer" /\ InferNext /\ UNCHANGED fileVars
      /\ UNCHANGED <<study, input, nfile, nchunk, FCdb, SFdb, pending, kills, target, auxiliary, phase>>
  BY DEF Inferring, countVars, reader, studyVars
<1>2. InferInv /\ Placed(FCdb, SFdb)
  BY DEF BInv, PlaceInv
<1>3. InferInv'
  <2>1. CASE StartInfer
    BY <1>1, <1>2, <2>1, StartInferInv
  <2>2. CASE EndBucket
    BY <1>1, <1>2, <2>2, EndBucketInv
  <2>3. CASE \E b \in Buckets : NoBucket(b) \/ Load(b)
    BY <1>1, <1>2, <2>3, NoBucketInv, LoadInv
  <2>4. CASE \E m \in Plain, c \in Range(enc) : InferPair(m, c)
    BY <1>1, <1>2, <2>4, InferPairInv
  <2>5. QED BY <1>1, <2>1, <2>2, <2>3, <2>4 DEF InferNext
<1>4. ReadInv'
  BY <1>1 DEF BInv, ReadInv
<1>5. PlaceInv'
  BY <1>1, PlaceStays DEF BInv
<1>6. FileInv'
  BY <1>1, FilesIdle DEF BInv
<1>7. QED BY <1>3, <1>4, <1>5, <1>6 DEF BInv

\* A step of readChunksFile.
LEMMA ReadingFilesStep ==
    ASSUME BInv, ReadingFiles
    PROVE  BInv'
<1>1. /\ phase = "files" /\ phase' = "files" /\ ReadFiles /\ UNCHANGED studyVars /\ UNCHANGED inferVars
      /\ UNCHANGED <<FCdb, SFdb, pending, kills, target, auxiliary, phase>>
  BY DEF ReadingFiles, studyVars
<1>2. CASE NextMeta
  <2>1. nfile < Len(input) /\ nfile' = nfile + 1 /\ nchunk' = 0 /\ UNCHANGED <<study, input>>
    BY <1>2 DEF NextMeta
  <2>2. ReadInv'
    BY <1>1, <2>1, NextFileRead DEF BInv
  <2>3. FileInv'
    BY <1>1, <1>2, NextMetaInv DEF BInv
  <2>4. PlaceInv' /\ InferInv'
    BY <1>1, <2>1, PlaceStays, InferStays DEF BInv
  <2>5. QED BY <2>2, <2>3, <2>4 DEF BInv
<1>3. CASE insertFCDB
  <2>1. ~AtEndOfFile /\ nfile' = nfile /\ nchunk' = nchunk + 1 /\ UNCHANGED <<study, input>>
    BY <1>3 DEF insertFCDB
  <2>2. ReadInv'
    BY <1>1, <2>1, NextChunkRead DEF BInv
  <2>3. FileInv'
    BY <1>1, <1>3, InsertFCDBInv DEF BInv
  <2>4. PlaceInv' /\ InferInv'
    BY <1>1, <2>1, PlaceStays, InferStays DEF BInv
  <2>5. QED BY <2>2, <2>3, <2>4 DEF BInv
<1>4. CASE Rerun
  <2>1. nfile' = 0 /\ nchunk' = 0 /\ UNCHANGED <<study, input>>
    BY <1>4 DEF Rerun
  <2>2. ReadInv'
    BY <1>1, <2>1, Rewound DEF BInv, ReadInv
  <2>3. FileInv'
    BY <1>1, <1>4, RerunInv DEF BInv
  <2>4. PlaceInv' /\ InferInv'
    BY <1>1, <2>1, PlaceStays, InferStays DEF BInv
  <2>5. QED BY <2>2, <2>3, <2>4 DEF BInv
<1>5. QED BY <1>1, <1>2, <1>3, <1>4 DEF ReadFiles

\* The programs that follow each other, and the steps of compareDB.
LEMMA OtherSteps ==
    ASSUME BInv, RunInfer \/ RunReadFiles \/ RunCompare \/ Comparing
    PROVE  BInv'
<1>1. CASE RunInfer
  <2>1. /\ phase = "auxiliary" /\ phase' = "infer" /\ UNCHANGED inferVars /\ UNCHANGED fileVars
        /\ UNCHANGED <<study, input, nfile, nchunk, FCdb, SFdb, pending, kills, target, auxiliary>>
    BY <1>1 DEF RunInfer, countVars, reader
  <2>2. ReadInv' /\ PlaceInv' /\ InferInv' /\ FileInv'
    <3>1. ReadInv'
      BY <2>1 DEF BInv, ReadInv
    <3>2. QED BY <2>1, <3>1, PlaceStays, InferStays, FilesIdle DEF BInv
  <2>3. QED BY <2>2 DEF BInv
<1>2. CASE RunReadFiles
  <2>1. /\ phase = "infer" /\ phase' = "files" /\ UNCHANGED inferVars
        /\ input' = target /\ nfile' = 0 /\ nchunk' = 0
        /\ UNCHANGED <<study, FCdb, SFdb, pending, kills, target, auxiliary>>
    BY <1>2 DEF RunReadFiles
  <2>2. ReadInv'
    <3>1. input' \in Seq(Files(Fp))
      BY <2>1, TraceTypes DEF BInv, ReadInv
    <3>2. QED BY <2>1, <3>1, Rewound DEF BInv
  <2>3. QED BY <1>2, <2>1, <2>2, PlaceStays, InferStays, RunReadFilesInv DEF BInv
<1>3. CASE RunCompare
  <2>1. /\ phase = "files" /\ phase' = "compare" /\ UNCHANGED inferVars
        /\ UNCHANGED <<study, input, nfile, nchunk, FCdb, SFdb, pending, kills, target, auxiliary>>
    BY <1>3 DEF RunCompare, countVars, reader
  <2>2. ReadInv'
    BY <2>1 DEF BInv, ReadInv
  <2>3. QED BY <1>3, <2>1, <2>2, PlaceStays, InferStays, RunCompareInv DEF BInv
<1>4. CASE Comparing
  <2>1. /\ phase = "compare" /\ phase' = "compare" /\ UNCHANGED inferVars /\ UNCHANGED studyVars
        /\ UNCHANGED <<study, input, nfile, nchunk, FCdb, SFdb, pending, kills, target, auxiliary, phase>>
    BY <1>4 DEF Comparing, countVars, reader, studyVars
  <2>2. ReadInv'
    BY <2>1 DEF BInv, ReadInv
  <2>3. PICK key \in DOMAIN FILEdb : OtherType(key) \/ Compare(key)
    BY <1>4 DEF Comparing, CompareNext
  <2>4. FileInv'
    BY <2>1, <2>3, OtherTypeInv, CompareInv DEF BInv
  <2>5. QED BY <2>1, <2>2, <2>4, PlaceStays, InferStays DEF BInv
<1>5. QED BY <1>1, <1>2, <1>3, <1>4

\* Every step keeps the invariant.
LEMMA BNextInv ==
    ASSUME BInv, [BNext]_bvars
    PROVE  BInv'
<1>1. CASE BNext
  BY <1>1, ReadingStep, ReadAuxiliaryStep, InferringStep, ReadingFilesStep, OtherSteps DEF BNext
<1>2. CASE UNCHANGED bvars
  <2>1. /\ UNCHANGED <<study, input, nfile, nchunk, FCdb, SFdb, pending, kills, target, auxiliary, phase>>
        /\ UNCHANGED inferVars
        /\ UNCHANGED <<CFCdb, CSFdb, todo, mQue, cQue, uniqueInfer, correctInfer, rawInfer, OUTdb, loop, made>>
        /\ UNCHANGED <<FILEdb, frun, files, totalLogic, totalUnique, correctLogic, correctUnique,
                       uniqueOver, logicOver, allOver>>
        /\ UNCHANGED fileVars
    BY <1>2 DEF bvars, countVars, reader, studyVars, inferVars, queues, result, fileVars, tally
  <2>2. ReadInv' /\ PlaceInv'
    <3>1. ReadInv'
      BY <2>1 DEF BInv, ReadInv
    <3>2. QED BY <2>1, <3>1, PlaceStays DEF BInv
  <2>3. InferInv'
    <3>1. CASE phase \in {"target", "auxiliary"}
      BY <2>1, <3>1, InferIdle DEF BInv
    <3>2. CASE phase \notin {"target", "auxiliary"}
      BY <2>1, <3>2, InferStays DEF BInv
    <3>3. QED BY <3>1, <3>2
  <2>4. FileInv'
    <3>1. meta' = meta /\ RatesAreShares'
      BY <2>1 DEF meta, RatesAreShares, BInv, FileInv
    <3>2. QED BY <2>1, <3>1 DEF BInv, FileInv
  <2>5. QED BY <2>2, <2>3, <2>4 DEF BInv
<1>3. QED BY <1>1, <1>2

\* BInv is an invariant of the studies.
THEOREM BInvariant == BSpec => []BInv
<1>1. BInit => BInv
  BY BInitInv
<1>2. BInv /\ [BNext]_bvars => BInv'
  BY BNextInv
<1>3. QED BY <1>1, <1>2, PTL DEF BSpec

\* A chunk gets into the bucket of its size only, once for each type at most;
\* of the two writes of readChunksToDBs and readInChunkToDBsFileType the second
\* one is missing for as many chunks as there were kills between them.
THEOREM LostByKills == BSpec => []LostOnlyByKills
<1>1. BInv => LostOnlyByKills
  <2>1. SUFFICES ASSUME BInv PROVE LostOnlyByKills
    OBVIOUS
  <2>2. Placed(FCdb, SFdb) /\ SumFunctionOnSet(Misses, Fp) = kills + Cardinality(pending)
    BY <2>1 DEF BInv, PlaceInv
  <2>3. \A c : TypesOf(c) = Under(FCdb, c)
    BY DEF TypesOf, Under, Kinds
  <2>4. SumFunction(Misses) = SumFunctionOnSet(Misses, Fp)
    <3>1. DOMAIN Misses = Fp
      BY DEF Misses
    <3>2. QED BY <3>1 DEF SumFunction
  <2>5. Misses = [c \in Fp |-> Cardinality(TypesOf(c)) - Entries(SFdb[BucketOf(c)], c)]
    BY DEF Misses, Missing
  <2>6. \A b \in Buckets, c \in Fp : Entries(SFdb[b], c) <= IF b = BucketOf(c) THEN Cardinality(TypesOf(c)) ELSE 0
    BY <2>2, <2>3 DEF Placed
  <2>7. QED BY <2>2, <2>4, <2>5, <2>6 DEF LostOnlyByKills
<1>2. QED BY <1>1, BInvariant, PTL

\* inferChunks pairs only chunks of one size.
THEOREM PairsInOneBucket == BSpec => []SameBucket
<1>1. BInv => SameBucket
  BY DEF BInv, InferInv, BaseInv, SameBucket
<1>2. QED BY <1>1, BInvariant, PTL

\* When chunks have one type, inferChunks and inferChunksType pair a chunk at
\* most once, and uniqueinferchunknumber is the number of pairs.
THEOREM ChunksPairedOnce == BSpec => []PairedOnce
<1>1. BInv => PairedOnce
  BY DEF BInv, InferInv, OnceInv, PairedOnce
<1>2. QED BY <1>1, BInvariant, PTL

\* When chunks have one type, the counters of the inference agree with its
\* output database, and it infers no more occurrences than the target has.
THEOREM OutputAgrees == BSpec => []OutputCounted
<1>1. BInv => OutputCounted
  <2>1. SUFFICES ASSUME BInv, loop # "idle", OneTypeEach
                 PROVE  correctInfer = Cardinality(DOMAIN OUTdb) /\ rawInfer <= SumFunction(CFCdb)
    BY DEF OutputCounted
  <2>2. InferInv /\ phase # "target" /\ OnceInv
    BY <2>1 DEF BInv, InferInv
  <2>3. QED BY <2>1, <2>2, OutputFollows DEF OnceInv
<1>2. QED BY <1>1, BInvariant, PTL

\* The rates that compareDB prints are shares.
THEOREM RatesShares == BSpec => []RatesAreShares
<1>1. BInv => RatesAreShares
  BY DEF BInv, FileInv
<1>2. QED BY <1>1, BInvariant, PTL
=============================================================================
