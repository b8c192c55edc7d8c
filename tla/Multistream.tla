---------------------------- MODULE Multistream -----------------------------
(***************************************************************************)
(* The programs of multistream/src/similarity, one after the other on the   *)
(* same ./output: duplicate on the auxiliary trace, pslice on what it       *)
(* keeps, cslice on the target trace, pair on the slices of both.           *)
(*                                                                         *)
(* A trace that pslice, cslice or pair finds in its databases is never      *)
(* removed by them.  Here ./output is new, duplicate may be started again   *)
(* at any time, and cslice may be killed while it reads and started again.  *)
(***************************************************************************)
EXTENDS Duplicate, CSlice, SlicePairing

CONSTANTS
    Targets,    \* bound: the target traces
    KillAt,     \* bound: the line at which cslice may be killed
    Retries     \* bound: the target traces of the run after that

ASSUME TargetAssumption ==
    /\ RawTraces \subseteq Seq(Fp)
    /\ Targets \cup Retries \subseteq Seq(Fp) \ {<<>>}
    /\ KillAt \in Nat

clusterVars == <<ahcVars, testVars>>
mvars       == <<dupVars, segVars, clusterVars, pairVars>>

MInit == DupInit /\ SegInit /\ AhcInit /\ TestInit /\ PairInit

RunDuplicate ==
    /\ tool = "duplicate"
    /\ DupNext
    /\ UNCHANGED <<segVars, clusterVars, pairVars>>

\* Only what a first run of duplicate has written is followed further.
RunPslice ==
    /\ tool = "duplicate" /\ dup = "done" /\ starts = 1
    /\ Open("pslice", Filtered)
    /\ UNCHANGED <<seg_db, slice_db, chunk_size, dupVars, clusterVars, pairVars>>

Segmentation == SegNext /\ UNCHANGED <<dupVars, clusterVars, pairVars>>

\* ./output/plain is complete, ./output/cipher is new.
RunCslice ==
    /\ tool = "pslice" /\ ~reading
    /\ \E trc \in Targets : Open("cslice", trc)
    /\ p_seg_db' = seg_db /\ p_slice_db' = slice_db
    /\ seg_db' = <<>> /\ slice_db' = <<>>
    /\ UNCHANGED <<chunk_size, dupVars, clusterVars, ranks, counts, work, stage>>

\* cslice is killed and started again; the databases are opened as they are.
Kill ==
    /\ tool = "cslice" /\ reading /\ lines = KillAt /\ input \in Targets
    /\ \E trc \in Retries : Open("cslice", trc)
    /\ UNCHANGED <<seg_db, slice_db, chunk_size, dupVars, clusterVars, pairVars>>

Clustering == CSliceNext /\ UNCHANGED <<dupVars, pairVars>>

RunPair ==
    /\ tool = "cslice" /\ CSliceDone
    /\ tool' = "pair"
    /\ input' = <<>> /\ lines' = 0 /\ seg_count' = 0 /\ slice_count' = 0 /\ count_map' = <<>>
    /\ Forget /\ ratio_sum' = 0 /\ visited' = 0
    /\ UNCHANGED <<reading, sq, sq_size, seg_db, slice_db, chunk_size, dupVars, pairVars>>

Pairing == PairNext /\ UNCHANGED <<dupVars, clusterVars>>

MNext ==
    \/ RunDuplicate \/ RunPslice \/ Segmentation \/ RunCslice \/ Kill
    \/ Clustering \/ RunPair \/ Pairing

\* One program runs at a time, and nothing makes it wait.
MSpec == MInit /\ [][MNext]_mvars /\ WF_mvars(MNext)

-----------------------------------------------------------------------------
(* Properties *)

\* Queues, databases and the arrays of the clusterizer.
MTypeOK == SegTypeOK /\ AhcTypeOK

\* The loop of freq_analysis in which two chunks of different size stay at
\* the heads of their queues.
Stuck == Chunk /\ ~Known(Head(qc)) /\ chunk_size[Head(qc)] # chunk_size[Head(qp)]

\* The programs end, and no assertion stops them, unless freq_analysis meets
\* two chunks of different size.
ProgramsEnd == <>(stage = "done" \/ Stuck \/ (starts > 1 /\ dup = "done"))
=============================================================================
