---------------------------- MODULE SingleStream ----------------------------
(***************************************************************************)
(* The programs of single_stream as locality_script_fsl.sh runs them: the   *)
(* target snapshot and an auxiliary one are counted, file by file, each     *)
(* into its own databases (LocalityCount), and one of the two analyses is   *)
(* started on them (LocalityAttack, EntropyAttack).                         *)
(***************************************************************************)
EXTENDS LocalityCount, EntropyAttack

VARIABLES
    snapshots,  \* the databases of the snapshots counted so far
    tool        \* the analysis that was started

svars == <<countVars, evars, snapshots, tool>>

SInit ==
    /\ CountInit
    /\ Init /\ batch = NoBatch
    /\ snapshots = <<>> /\ tool = "none"

Counting == Len(snapshots) < 2

CountStep == Counting /\ CountNext /\ UNCHANGED <<evars, snapshots, tool>>

\* All files of the snapshot have been counted.
EndSnapshot ==
    /\ Counting
    /\ snapshots' = Append(snapshots, Databases)
    /\ NewSnapshot
    /\ UNCHANGED <<evars, tool>>

Launch ==
    /\ ~Counting
    /\ Begin(snapshots[2], snapshots[1])
    /\ tool' \in {"attack", "entropy_attack"}
    /\ UNCHANGED <<countVars, batch, snapshots>>

Analyse ==
    /\ \/ tool = "attack" /\ Next /\ UNCHANGED batch
       \/ tool = "entropy_attack" /\ ENext
    /\ UNCHANGED <<countVars, snapshots, tool>>

SNext == CountStep \/ EndSnapshot \/ Launch \/ Analyse

\* The programs run one after the other and none of them waits for anything; a
\* snapshot has finitely many lines.
SSpec == SInit /\ [][SNext]_svars /\ WF_svars(SNext)

-----------------------------------------------------------------------------
(* Properties *)

\* The types of the databases, the queues and the locals.
STypeOK ==
    /\ CountTypeOK /\ ETypeOK
    /\ pc \in {"idle", "stat", "rank_o", "rank_t", "peak", "loop", "left", "right", "done"}
    /\ tool \in {"none", "attack", "entropy_attack"}

\* The two queues stay one set of pairs, however pairs are skipped or dropped:
\* always in entropy_attack, whose queues are only filled by pairs, and in
\* locality_attack when both traces have as many chunks to start from.
PairsStayTogether == tool = "entropy_attack" \/ EqualStart => QueuesPaired

=============================================================================
