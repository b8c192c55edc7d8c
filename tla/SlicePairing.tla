---------------------------- MODULE SlicePairing ----------------------------
(***************************************************************************)
(* multistream/src/similarity/pair.cc: the slices of the auxiliary trace    *)
(* (pslice) are paired with those of the target trace (cslice) by rank and  *)
(* entropy; paired slices are then analysed chunk by chunk (freq_analysis)  *)
(* or, when they look identical, segment by segment (segment_pair).         *)
(*                                                                         *)
(* A segment is the number of occurrences of each fingerprint, 0 for none;  *)
(* a slice is a list of segments.  Entropies are thousandths of a bit       *)
(* taken from the table plog.  E_ATTACK is 0: a pair is correct when both   *)
(* fingerprints are equal.  Overlaps, which are only printed, and the       *)
(* printed counter segmentcount are left out.                               *)
(***************************************************************************)
EXTENDS Segments, Ranking

CONSTANTS
    plog,       \* <<n, s>> -> -(n/s) * log2(n/s), in thousandths; 0 outside the table
    U, RADIUS, T, MINP,     \* parameters u, r, t of pair and minP of segment_pair
    Leftover,   \* contents output/referdb may have
    InferMod    \* bound: the counter infer (2^64 in the code) wraps here

ASSUME PairAssumption ==
    /\ {U, RADIUS, T, MINP, InferMod} \subseteq Nat \ {0}
    /\ \A x \in DOMAIN plog : plog[x] \in Nat
    /\ Leftover \subseteq UNION {[S -> Fp] : S \in SUBSET Fp}

VARIABLES
    p_seg_db, p_slice_db,       \* the databases that pslice has written
    ori_vec, tar_vec,           \* ranked slices
    used,                       \* positions of ori_vec set to MAXIMUM_ENTROPY
    pair_counter,               \* rank, from 1, of the slice to be paired
    slice_pairing,              \* target position -> auxiliary position
    segment_pairing,            \* the same, for slices that look identical
    infer_db,                   \* ciphertext -> inferred plaintext
    infer, correct,             \* counters of freq_analysis
    infersegment, segmentInferChunk,    \* counters of segment_pair
    at,                         \* the pairing in progress, a target position
    qc, qp,                     \* its chunks or segments still to be handled
    free,                       \* positions of qp not taken by segment_pair
    stage,
    before                      \* history: infer_db at the start

plain  == <<p_seg_db, p_slice_db>>
files  == <<segVars, plain>>
ranks  == <<ori_vec, tar_vec, used, pair_counter, slice_pairing, segment_pairing, before>>
counts == <<infer_db, infer, correct, infersegment, segmentInferChunk>>
work   == <<at, qc, qp, free>>
pairVars == <<plain, ranks, counts, work, stage>>

-----------------------------------------------------------------------------
(* count_chunk, entropy and load_slice *)

Total(row) == SumFunction(row)

\* count_chunk on one segment, and on the segments of a slice.
CountSegment(seg) == [x \in Fp |-> Cardinality({i \in DOMAIN seg : seg[i] = x})]

CountChunk(slice) == [x \in Fp |-> FoldSeq(LAMBDA seg, n : seg[x] + n, 0, slice)]

SumSize(row) == SumFunction([x \in Fp |-> row[x] * chunk_size[x]])

Entropy(row) ==
    SumFunctionOnSet([x \in Present(row) |-> Lookup(plog, <<row[x], Total(row)>>, 0)], Present(row))

Distance(m, n) == IF m < n THEN n - m ELSE m - n

\* A slice as load_slice reads it.
ReadSlice(sdb, ids) ==
    LET segments == [i \in DOMAIN ids |-> CountSegment(sdb[ids[i]])]
        count    == CountChunk(segments)
    IN  [segments |-> segments, count |-> count, entropy |-> Entropy(count)]

\* The priority queue of load_slice: the slices by decreasing number of
\* chunks, then by decreasing key.
Before(slices, j, l) ==
    \/ Total(slices[j].count) > Total(slices[l].count)
    \/ Total(slices[j].count) = Total(slices[l].count) /\ j > l

IsQueue(vec, slices) ==
    \E keys \in [1..Cardinality(DOMAIN slices) -> DOMAIN slices] :
        /\ \A i, j \in DOMAIN keys : i < j => Before(slices, keys[i], keys[j])
        /\ vec = [i \in DOMAIN keys |-> slices[keys[i]]]

PairInit ==
    /\ p_seg_db = <<>> /\ p_slice_db = <<>>
    /\ ori_vec = <<>> /\ tar_vec = <<>>
    /\ used = {} /\ pair_counter = 1
    /\ slice_pairing = <<>> /\ segment_pairing = <<>>
    /\ infer_db = <<>> /\ before = <<>>
    /\ infer = 0 /\ correct = 0 /\ infersegment = 0 /\ segmentInferChunk = 0
    /\ at = 0 /\ qc = <<>> /\ qp = <<>> /\ free = {}
    /\ stage = "idle"

\* The program starts: both lists of slices are read, and infer_db is what
\* earlier runs have left.
LoadSlices ==
    /\ tool = "pair" /\ stage = "idle"
    /\ \E slices \in {[key \in DOMAIN p_slice_db |-> ReadSlice(p_seg_db, p_slice_db[key])]} :
          IsQueue(ori_vec', slices)
    /\ \E slices \in {[key \in DOMAIN slice_db |-> ReadSlice(seg_db, slice_db[key])]} :
          IsQueue(tar_vec', slices)
    /\ infer_db' \in Leftover /\ before' = infer_db'
    /\ stage' = "pair"
    /\ UNCHANGED <<files, used, pair_counter, slice_pairing, segment_pairing,
                   infer, correct, infersegment, segmentInferChunk, work>>

-----------------------------------------------------------------------------
(* pair *)

Diff(i, j) == Distance(ori_vec[j].entropy, tar_vec[i].entropy)

\* Mutant: used slices keep their entropy.
CandidatesUsed(i) ==
    {j \in DOMAIN ori_vec : i - RADIUS <= j /\ j < i + RADIUS /\ Diff(i, j) < T}

\* Ranks i - r to i + r - 1 whose entropy is close; a used slice has
\* MAXIMUM_ENTROPY and is never close.
Candidates(i) ==
    {j \in DOMAIN ori_vec \ used :
        i - RADIUS <= j /\ j < i + RADIUS /\ Diff(i, j) < T}

\* The closest one, the first of several.
ClosestOf(S, gap) ==
    CHOOSE j \in S : \A l \in S : gap[j] < gap[l] \/ (gap[j] = gap[l] /\ j <= l)

\* The two slices have the same numbers of chunks and bytes and the same
\* entropy.
LookSame(i, j) ==
    /\ Diff(i, j) = 0
    /\ Total(tar_vec[i].count) = Total(ori_vec[j].count)
    /\ SumSize(tar_vec[i].count) = SumSize(ori_vec[j].count)

ToPair(i) == stage = "pair" /\ i \in DOMAIN tar_vec /\ i <= Len(ori_vec) /\ i <= U

Pair ==
    /\ ToPair(pair_counter)
    /\ Candidates(pair_counter) # {}
    /\ LET i == pair_counter
           j == ClosestOf(Candidates(i), [l \in DOMAIN ori_vec |-> Diff(i, l)])
       IN  /\ IF LookSame(i, j)
                THEN segment_pairing' = Store(segment_pairing, i, j) /\ UNCHANGED slice_pairing
                ELSE slice_pairing' = Store(slice_pairing, i, j) /\ UNCHANGED segment_pairing
           /\ used' = used \cup {j}
    /\ pair_counter' = pair_counter + 1
    /\ UNCHANGED <<files, ori_vec, tar_vec, before, counts, work, stage>>

NoPair ==
    /\ ToPair(pair_counter)
    /\ Candidates(pair_counter) = {}
    /\ pair_counter' = pair_counter + 1
    /\ UNCHANGED <<files, ori_vec, tar_vec, used, slice_pairing, segment_pairing, before,
                   counts, work, stage>>

\* The maps are iterated from the smallest slice up.
First(pairing) == CHOOSE i \in DOMAIN pairing \cup {0} : \A l \in DOMAIN pairing : l <= i

\* Mutant: the iterator does not advance.
BelowStays(pairing, i) == First([l \in {m \in DOMAIN pairing : m <= i} |-> 0])

\* The next pair of a map below position i; 0 is the end.
Below(pairing, i) == First([l \in {m \in DOMAIN pairing : m < i} |-> 0])

EndPair ==
    /\ stage = "pair" /\ ~ToPair(pair_counter)
    /\ at' = First(slice_pairing)
    /\ stage' = "freq"
    /\ UNCHANGED <<files, ranks, counts, qc, qp, free>>

-----------------------------------------------------------------------------
(* freq_analysis *)

\* The chunks of the two slices by decreasing frequency.
FreqSlice ==
    /\ stage = "freq" /\ at # 0
    /\ qc' \in Ranked(tar_vec[at].count, Cardinality(Fp))
    /\ qp' \in Ranked(ori_vec[slice_pairing[at]].count, Cardinality(Fp))
    /\ stage' = "chunk"
    /\ UNCHANGED <<files, ranks, counts, at, free>>

Chunk == stage = "chunk" /\ qc # <<>> /\ qp # <<>>

Known(c) == c \in DOMAIN infer_db

\* The ciphertext has been inferred before.
ChunkKnown ==
    /\ Chunk /\ Known(Head(qc))
    /\ qc' = Tail(qc) /\ qp' = Tail(qp)
    /\ UNCHANGED <<files, ranks, counts, at, free, stage>>

Counted(n) == (n + 1) % InferMod

\* The sizes differ: continue, with both queues as they are.
ChunkSizesDiffer ==
    /\ Chunk /\ ~Known(Head(qc)) /\ chunk_size[Head(qc)] # chunk_size[Head(qp)]
    /\ infer' = Counted(infer)
    /\ UNCHANGED <<files, ranks, infer_db, correct, infersegment, segmentInferChunk, work, stage>>

ChunkInfer ==
    /\ Chunk /\ ~Known(Head(qc)) /\ chunk_size[Head(qc)] = chunk_size[Head(qp)]
    /\ infer' = Counted(infer)
    /\ infer_db' = Store(infer_db, Head(qc), Head(qp))
    /\ correct' = IF Head(qc) = Head(qp) THEN correct + 1 ELSE correct
    /\ qc' = Tail(qc) /\ qp' = Tail(qp)
    /\ UNCHANGED <<files, ranks, infersegment, segmentInferChunk, at, free, stage>>

FreqSliceDone ==
    /\ stage = "chunk" /\ ~Chunk
    /\ at' = Below(slice_pairing, at)
    /\ stage' = "freq"
    /\ UNCHANGED <<files, ranks, counts, qc, qp, free>>

FreqDone ==
    /\ stage = "freq" /\ at = 0
    /\ at' = First(segment_pairing)
    /\ stage' = "segs"
    /\ UNCHANGED <<files, ranks, counts, qc, qp, free>>

-----------------------------------------------------------------------------
(* segment_pair *)

\* The segments by decreasing number of chunks.
BySize(list) ==
    {[i \in DOMAIN list |-> list[f[i]]] :
        f \in {g \in [DOMAIN list -> DOMAIN list] :
                 /\ IsInjective(g)
                 /\ \A i, j \in DOMAIN list : i < j => Total(list[g[i]]) >= Total(list[g[j]])}}

SegSlice ==
    /\ stage = "segs" /\ at # 0
    /\ qc' \in BySize(tar_vec[at].segments)
    /\ qp' \in BySize(ori_vec[segment_pairing[at]].segments)
    /\ free' = DOMAIN qp'
    /\ stage' = "seg"
    /\ UNCHANGED <<files, ranks, counts, at>>

SegDiff(c, p) == Distance(Entropy(c), Entropy(p))

\* Auxiliary segments with as many bytes and a close entropy.
SegCandidates(c) ==
    {j \in free : SumSize(c) = SumSize(qp[j]) /\ SegDiff(c, qp[j]) < MINP}

Sorted(seg) == SetToSortSeq(Present(seg), <)

\* operator ==: the fingerprints agree as far as the shorter segment goes.
SameSegment(c, p) ==
    \A i \in 1..Least(Len(Sorted(c)), Len(Sorted(p))) : Sorted(c)[i] = Sorted(p)[i]

\* Nothing close enough for the next target segment.
SegSkip ==
    /\ stage = "seg" /\ qc # <<>> /\ SegCandidates(Head(qc)) = {}
    /\ qc' = Tail(qc)
    /\ UNCHANGED <<files, ranks, counts, at, qp, free, stage>>

\* Mutant of SegInfer: chunks that were inferred before are counted again.
SegInferAgain ==
    /\ stage = "seg" /\ qc # <<>> /\ SegCandidates(Head(qc)) # {}
    /\ LET c   == Head(qc)
           j   == ClosestOf(SegCandidates(c), [l \in free |-> SegDiff(c, qp[l])])
           new == IF SameSegment(c, qp[j]) THEN Present(c) ELSE {}
       IN  /\ free' = free \ {j}
           /\ infersegment' = IF SameSegment(c, qp[j]) THEN infersegment + 1 ELSE infersegment
           /\ infer_db' = [x \in DOMAIN infer_db \cup new |-> IF x \in new THEN x ELSE infer_db[x]]
           /\ segmentInferChunk' = segmentInferChunk + Cardinality(new)
    /\ qc' = Tail(qc)
    /\ UNCHANGED <<files, ranks, infer, correct, at, qp, stage>>

\* The closest segment is taken; if it compares equal the chunks not inferred
\* before are recorded as inferred, each as itself.
SegInfer ==
    /\ stage = "seg" /\ qc # <<>> /\ SegCandidates(Head(qc)) # {}
    /\ LET c   == Head(qc)
           j   == ClosestOf(SegCandidates(c), [l \in free |-> SegDiff(c, qp[l])])
           new == IF SameSegment(c, qp[j]) THEN Present(c) \ DOMAIN infer_db ELSE {}
       IN  /\ free' = free \ {j}
           /\ infersegment' = IF SameSegment(c, qp[j]) THEN infersegment + 1 ELSE infersegment
           /\ infer_db' = [x \in DOMAIN infer_db \cup new |-> IF x \in new THEN x ELSE infer_db[x]]
           /\ segmentInferChunk' = segmentInferChunk + Cardinality(new)
    /\ qc' = Tail(qc)
    /\ UNCHANGED <<files, ranks, infer, correct, at, qp, stage>>

SegSliceDone ==
    /\ stage = "seg" /\ qc = <<>>
    /\ at' = Below(segment_pairing, at)
    /\ stage' = "segs"
    /\ UNCHANGED <<files, ranks, counts, qc, qp, free>>

Finish ==
    /\ stage = "segs" /\ at = 0
    /\ stage' = "done"
    /\ UNCHANGED <<files, ranks, counts, work>>

PairNext ==
    \/ LoadSlices \/ Pair \/ NoPair \/ EndPair
    \/ FreqSlice \/ ChunkKnown \/ ChunkSizesDiffer \/ ChunkInfer \/ FreqSliceDone \/ FreqDone
    \/ SegSlice \/ SegSkip \/ SegInfer \/ SegSliceDone \/ Finish

-----------------------------------------------------------------------------
(* Properties *)

\* No auxiliary slice is paired twice, in one map or across both, although
\* used slices stay in the list that every target slice searches; pairs are
\* within the radius.
PairedOnce ==
    /\ DOMAIN slice_pairing \cap DOMAIN segment_pairing = {}
    /\ \A f, g \in {slice_pairing, segment_pairing} :
          \A i \in DOMAIN f, l \in DOMAIN g : f[i] = g[l] => i = l
    /\ \A f \in {slice_pairing, segment_pairing} :
          \A i \in DOMAIN f : f[i] - i \in -RADIUS..RADIUS - 1

\* The two counters of correct chunks never count a chunk twice: together they
\* are the entries of infer_db that this run added and that are right.
CorrectCounted ==
    correct + segmentInferChunk
      = Cardinality({c \in DOMAIN infer_db \ DOMAIN before : infer_db[c] = c})

=============================================================================
