---------------------------- MODULE BucketStudy -----------------------------
(***************************************************************************)
(* The studies of Bucket/README.md from end to end.  The base line encrypts *)
(* the target trace, reads it and the auxiliary trace into databases and    *)
(* runs inferChunks.  The case study of file types does the same with the   *)
(* programs for types; the second case study then reads the files of the    *)
(* target trace and compares them with the output of inferChunksType.       *)
(***************************************************************************)
EXTENDS FileRates

CONSTANT
    Traces      \* bound: the pairs of a target trace and an auxiliary trace

ASSUME TraceAssumption ==
    \A w \in Traces : \A i \in {1, 2} : w[i] \in Seq([type : Types, chunks : Seq(Plain)])

VARIABLES
    target, auxiliary,
    phase       \* "target", "auxiliary", "infer", "files", "compare"

studyVars == <<target, auxiliary, phase>>
bvars     == <<countVars, inferVars, fileVars, studyVars>>

BInit ==
    /\ \E w \in Traces : target = w[1] /\ auxiliary = w[2]
    /\ input = Encrypt(target)
    /\ phase = "target"
    /\ CountInit /\ InferInit /\ FileInit

Reading ==
    /\ phase \in {"target", "auxiliary"}
    /\ CountNext
    /\ UNCHANGED <<inferVars, fileVars, studyVars>>

\* The auxiliary trace is read into databases of its own, apart from Tdb: the
\* README gives both readers the same one.
ReadAuxiliary ==
    /\ phase = "target" /\ EndOfTrace /\ pending = {}
    /\ phase' = "auxiliary"
    /\ CFCdb' = FCdb /\ CSFdb' = SFdb
    /\ input' = auxiliary /\ nfile' = 0 /\ nchunk' = 0
    /\ FCdb' = NoCounts /\ SFdb' = [b \in Buckets |-> <<>>]
    /\ kills' = 0
    /\ UNCHANGED <<Tdb, study, run, pending, todo, queues, result, loop, fileVars, target, auxiliary>>

RunInfer ==
    /\ phase = "auxiliary" /\ EndOfTrace /\ pending = {}
    /\ phase' = "infer"
    /\ UNCHANGED <<countVars, inferVars, fileVars, target, auxiliary>>

Inferring ==
    /\ phase = "infer"
    /\ InferNext
    /\ UNCHANGED <<countVars, fileVars, studyVars>>

\* The second case study.
RunReadFiles ==
    /\ phase = "infer" /\ InferDone /\ study = "type"
    /\ phase' = "files" /\ frun' = 1
    /\ input' = target /\ nfile' = 0 /\ nchunk' = 0
    /\ UNCHANGED <<study, run, FCdb, SFdb, Tdb, pending, kills, inferVars,
                   FILEdb, passed, tally, target, auxiliary>>

ReadingFiles ==
    /\ phase = "files"
    /\ ReadFiles
    /\ UNCHANGED <<FCdb, SFdb, Tdb, pending, kills, inferVars, studyVars>>

RunCompare ==
    /\ phase = "files" /\ EndOfTrace
    /\ phase' = "compare"
    /\ UNCHANGED <<countVars, inferVars, fileVars, target, auxiliary>>

Comparing ==
    /\ phase = "compare"
    /\ CompareNext
    /\ UNCHANGED <<countVars, inferVars, studyVars>>

BNext ==
    \/ Reading \/ ReadAuxiliary \/ RunInfer \/ Inferring
    \/ RunReadFiles \/ ReadingFiles \/ RunCompare \/ Comparing

BSpec == BInit /\ [][BNext]_bvars /\ WF_bvars(BNext)

-----------------------------------------------------------------------------
(* Properties *)

\* The programs end, and no assertion stops them.
StudyEnds ==
    <>( \/ study = "base" /\ phase = "infer" /\ InferDone
        \/ phase = "compare" /\ passed = DOMAIN FILEdb )
=============================================================================
