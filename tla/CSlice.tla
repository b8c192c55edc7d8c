------------------------------- MODULE CSlice -------------------------------
(***************************************************************************)
(* cslice.cc around the clusterizer: port2cluster turns the chunk sets of   *)
(* the segments into distances, port2slice stores the classes as slices and *)
(* test_cluster compares them with the minimum fingerprints.                *)
(***************************************************************************)
EXTENDS Segments, Clusterizer

CONSTANT SCALE      \* distances are multiples of 1 / SCALE

ASSUME ScaleAssumption == SCALE \in Nat \ {0}

VARIABLES
    ratio_sum,  \* sum of the ratios of the slices
    visited     \* number of slices that test_cluster has visited

testVars == <<ratio_sum, visited>>

TestInit == ratio_sum = 0 /\ visited = 0

\* Mutant: the duplicates are not discounted.
JaccardUnion(A, B) ==
    SCALE - (SCALE * (Cardinality(A) + Cardinality(B) - Cardinality(A \cup B)))
              \div (Cardinality(A) + Cardinality(B))

\* One minus the share of common chunks.
Jaccard(A, B) ==
    SCALE - (SCALE * (Cardinality(A) + Cardinality(B) - Cardinality(A \cup B)))
              \div Cardinality(A \cup B)

port2cluster(cm) == [i \in DOMAIN cm |-> [j \in DOMAIN cm |-> Jaccard(cm[i], cm[j])]]

\* The file has been read: distances, and the call of the clusterizer.
StartClustering ==
    /\ tool = "cslice" /\ ~reading
    /\ RunAHC(port2cluster(count_map))
    /\ UNCHANGED <<segVars, testVars>>

clustering == AhcNext /\ UNCHANGED <<segVars, testVars>>

\* The members of S as a list in increasing order.
Increasing(S) ==
    CHOOSE s \in [1..Cardinality(S) -> S] : \A i, j \in DOMAIN s : i < j => s[i] < s[j]

\* One segment after the other is appended to the slice of its class.
port2slice ==
    /\ step = "done"
    /\ slice_db' = [c \in DOMAIN slice_db \cup {out[i] : i \in Rows} |->
                      Lookup(slice_db, c, <<>>) \o Increasing({i \in Rows : out[i] = c})]
    /\ step' = "test"
    /\ UNCHANGED <<tool, input, reading, queue, seg_db, seg_count, slice_count, count_map,
                   chunk_size, ahc, span, cut, testVars>>

MinHash(i) == CHOOSE c \in Core(seg_db[i]) : TRUE

Segs(s) == Range(slice_db[s])

\* The largest number of segments of a slice that share their MinHash.
max_count(s) ==
    CHOOSE n \in 0..npoints :
        /\ \E i \in Segs(s) : n = Cardinality({j \in Segs(s) : MinHash(j) = MinHash(i)})
        /\ \A i \in Segs(s) : n >= Cardinality({j \in Segs(s) : MinHash(j) = MinHash(i)})

\* Two integers are divided before the cast.
Ratio(s) == max_count(s) \div Len(slice_db[s])

\* The next slice in the order of the keys.
test_cluster ==
    /\ step = "test" /\ visited \in DOMAIN slice_db
    /\ ratio_sum' = ratio_sum + Ratio(visited)
    /\ visited' = visited + 1
    /\ UNCHANGED <<segVars, ahcVars>>

CSliceNext == StartClustering \/ clustering \/ port2slice \/ test_cluster

\* The report is printed.
CSliceDone == step = "test" /\ visited \notin DOMAIN slice_db

-----------------------------------------------------------------------------
(* Properties *)

\* Two segments that cslice stores in a slice share enough chunks: more than
\* 1 - r of their union.  Segments with the same chunks are never in different
\* slices when r > 0.
SlicesAreSimilar ==
    step = "test" => \A i, j \in Rows : i # j =>
        LET common == Cardinality(count_map[i] \cap count_map[j])
            union  == Cardinality(count_map[i] \cup count_map[j])
        IN  /\ (\E s \in DOMAIN slice_db : {i, j} \subseteq Segs(s))
                  => common * SCALE > union * (SCALE - r)
            /\ r > 0 /\ count_map[i] = count_map[j]
                  => \E s \in DOMAIN slice_db : {i, j} \subseteq Segs(s)

=============================================================================
