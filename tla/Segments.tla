------------------------------ MODULE Segments ------------------------------
(***************************************************************************)
(* The segmentation of a trace: multistream/src/similarity/pslice.cc for    *)
(* the auxiliary trace and cslice.cc for the target trace.  Both cut the    *)
(* stream of chunks into segments of at most SEG_SIZE bytes and store them  *)
(* under consecutive identifiers; pslice groups the segments into slices by *)
(* their minimum fingerprint, cslice keeps the chunks of every segment for  *)
(* the clustering (module CSlice).                                          *)
(*                                                                         *)
(* A fingerprint is a number, ordered as memcmp orders the bytes; its size  *)
(* is a function of it.  K_MINHASH is 1: the priority queue holds the least *)
(* fingerprint of the segment.  top() of the empty queue, which an empty    *)
(* file leads to, is undefined and returns any fingerprint here.            *)
(***************************************************************************)
EXTENDS Integers, Sequences, SequencesExt

CONSTANTS
    Fp,         \* fingerprints
    size,       \* fingerprint -> bytes
    SEG_SIZE    \* bound of a segment in bytes

ASSUME SizeAssumption ==
    /\ Fp \subseteq Nat /\ IsFiniteSet(Fp)
    /\ SEG_SIZE \in Nat
    /\ size \in [Fp -> 1..SEG_SIZE]

VARIABLES
    tool,           \* the program that runs
    input,          \* the file it reads
    reading,        \* read_hashes has not ended
    lines,          \* number of lines read
    sq, sq_size,    \* chunks of the current segment and their bytes
    seg_db,         \* segment identifier -> its chunks
    seg_count,      \* next segment identifier
    slice_db,       \* minimum fingerprint -> identifiers
    slice_count,    \* number of slices this run created
    count_map,      \* cslice: segment identifier -> its set of chunks
    chunk_size      \* fingerprint -> bytes, 0 when absent

queue   == <<lines, sq, sq_size>>
segs    == <<seg_db, seg_count, slice_db, slice_count, count_map, chunk_size>>
segVars == <<tool, input, reading, queue, segs>>

SegInit ==
    /\ tool = "duplicate" /\ input = <<>> /\ reading = FALSE
    /\ lines = 0 /\ sq = <<>> /\ sq_size = 0
    /\ seg_db = <<>> /\ slice_db = <<>> /\ count_map = <<>>
    /\ chunk_size = [c \in Fp |-> 0]
    /\ seg_count = 0 /\ slice_count = 0

Lookup(f, x, default) == IF x \in DOMAIN f THEN f[x] ELSE default

\* A program starts on a file, with what it keeps in memory empty.
Open(program, file) ==
    /\ tool' = program /\ input' = file /\ reading' = TRUE
    /\ lines' = 0 /\ sq' = <<>> /\ sq_size' = 0
    /\ seg_count' = 0 /\ slice_count' = 0 /\ count_map' = <<>>

-----------------------------------------------------------------------------
(* process_seg *)

Store(f, x, v) == [y \in DOMAIN f \cup {x} |-> IF y = x THEN v ELSE f[y]]

\* pq.top()
Core(seg) ==
    IF seg = <<>> THEN Fp ELSE {c \in Range(seg) : \A e \in Range(seg) : c <= e}

\* Mutant: every segment opens a slice.
JoinSliceNew(seg) ==
    \E core \in Core(seg) :
        /\ slice_db' = Store(slice_db, core, <<seg_count>>)
        /\ slice_count' = slice_count + 1

\* pslice: the segment joins the slice of its minimum fingerprint.
JoinSlice(seg) ==
    \E core \in Core(seg) :
        /\ slice_db' = Store(slice_db, core, Append(Lookup(slice_db, core, <<>>), seg_count))
        /\ slice_count' = IF core \in DOMAIN slice_db THEN slice_count ELSE slice_count + 1

\* cslice: the set of chunks of the segment.
CountSeg(seg) == count_map' = Store(count_map, seg_count, Range(seg))

\* The segment is written under the next identifier, the sizes of its chunks
\* into a database that both tools share.
ProcessSeg(seg) ==
    /\ chunk_size' = [c \in Fp |-> IF c \in Range(seg) THEN size[c] ELSE chunk_size[c]]
    /\ seg_db' = Store(seg_db, seg_count, seg)
    /\ IF tool = "pslice" THEN JoinSlice(seg) /\ UNCHANGED count_map
                          ELSE CountSeg(seg) /\ UNCHANGED <<slice_db, slice_count>>
    /\ seg_count' = seg_count + 1

-----------------------------------------------------------------------------
(* read_hashes *)

\* Mutant: a segment may be one byte too long.
CutsLate(c) == sq_size + size[c] > SEG_SIZE + 1

Cuts(c) == sq_size + size[c] > SEG_SIZE

\* Mutant of Line: the chunk that closes a segment is not in the next one.
LineDrops ==
    /\ reading /\ lines < Len(input)
    /\ LET c == input[lines + 1]
       IN  IF Cuts(c)
             THEN ProcessSeg(sq) /\ sq' = <<>> /\ sq_size' = 0
             ELSE sq' = Append(sq, c) /\ sq_size' = sq_size + size[c] /\ UNCHANGED segs
    /\ lines' = lines + 1
    /\ UNCHANGED <<tool, input, reading>>

\* A line: when its chunk does not fit, the segment is closed and the chunk
\* opens the next one.
Line ==
    /\ reading /\ lines < Len(input)
    /\ LET c == input[lines + 1]
       IN  IF Cuts(c)
             THEN ProcessSeg(sq) /\ sq' = <<c>> /\ sq_size' = size[c]
             ELSE sq' = Append(sq, c) /\ sq_size' = sq_size + size[c] /\ UNCHANGED segs
    /\ lines' = lines + 1
    /\ UNCHANGED <<tool, input, reading>>

\* End of the file: the last segment, whatever it holds.
EndOfFile ==
    /\ reading /\ lines = Len(input)
    /\ ProcessSeg(sq)
    /\ sq' = <<>> /\ sq_size' = 0
    /\ reading' = FALSE
    /\ UNCHANGED <<tool, input, lines>>

SegNext == Line \/ EndOfFile

-----------------------------------------------------------------------------
(* Properties *)

\* Segments, slices and sizes.
SegTypeOK ==
    /\ sq \in Seq(Fp) /\ sq_size \in 0..SEG_SIZE
    /\ lines \in 0..Len(input)
    /\ 0..seg_count - 1 \subseteq DOMAIN seg_db
    /\ chunk_size \in [Fp -> Nat]

Written == [i \in 1..seg_count |-> seg_db[i - 1]]

Bytes(seg) == SumFunction([i \in DOMAIN seg |-> size[seg[i]]])

\* No chunk is lost, repeated or moved: the segments that read_hashes has
\* written in this run, followed by the open one, are the lines it has read.
\* Segments are cut as late as the limit allows: none could have taken the
\* first chunk of the next one.
SegmentsAreTheFile ==
    /\ FlattenSeq(Written) \o sq = SubSeq(input, 1, lines)
    /\ \A i \in 1..seg_count : Bytes(Written[i]) <= SEG_SIZE
    /\ \A i \in 1..seg_count - 1 :
          Bytes(Written[i]) + size[Written[i + 1][1]] > SEG_SIZE

Slice(c) == Lookup(slice_db, c, <<>>)

\* The slices of pslice on empty databases group the segments by their
\* minimum fingerprint: every segment is in the slice of its minimum, once, in
\* no other, and slice_count counts the slices.
SlicesAreClasses ==
    tool = "pslice" /\ input # <<>> =>
        /\ slice_count = Cardinality(DOMAIN slice_db)
        /\ \A i \in 0..seg_count - 1, c \in Fp :
              Cardinality({n \in DOMAIN Slice(c) : Slice(c)[n] = i})
                = IF c \in Core(seg_db[i]) THEN 1 ELSE 0

=============================================================================
