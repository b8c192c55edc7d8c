---------------------------- MODULE BucketCount -----------------------------
(***************************************************************************)
(* Bucket/src/readChunksToDBs.cc and readInChunkToDBsFileType.cc: a trace   *)
(* is read into FCdb (how often a chunk occurs) and SFdb (the chunks of     *)
(* each size).  The second program keys FCdb by chunk and file type, uses   *)
(* sizes in blocks of 16 bytes and counts the chunks of each type in Tdb.   *)
(*                                                                         *)
(* The two databases of a new chunk are written one after the other, and    *)
(* the databases survive a program that is killed and started again.  A     *)
(* trace is a list of files; the list of types agrees with it.  TPdb, which *)
(* only names types, is left out.                                           *)
(***************************************************************************)
EXTENDS Integers, Sequences, FiniteSets, Functions

CONSTANTS
    Fp, Types,
    size,       \* fingerprint -> bytes
    BLOCK,      \* 16
    MaxRuns     \* bound: times a program that reads a trace is started again

\* A fingerprint is a fixed number of bytes, a type an extension that occurs in
\* a list of files: there are finitely many.
ASSUME BucketAssumption ==
    /\ IsFiniteSet(Fp) /\ IsFiniteSet(Types)
    /\ size \in [Fp -> Nat] /\ BLOCK \in Nat \ {0}
    /\ "any" \notin Types
    /\ MaxRuns \in Nat

VARIABLES
    study,      \* "base": readChunksToDBs, "type": readInChunkToDBsFileType
    input,      \* the trace that is read: a list of records type, chunks
    nfile, nchunk,  \* number of files begun, chunks read of the last one
    FCdb,       \* <<chunk, type>> -> count, 0 when absent
    SFdb,       \* bucket -> list of chunks
    Tdb,        \* type -> chunks announced
    pending,    \* a chunk that is in FCdb and not yet in SFdb
    run,        \* number of times a reader was started again
    kills       \* history: kills between the two writes of a chunk of input

reader    == <<study, input, nfile, nchunk, run>>
countVars == <<reader, FCdb, SFdb, Tdb, pending, kills>>

\* Blocks of the chunk, rounded up, or its size.
BucketOf(c) == IF study = "type" THEN (size[c] + BLOCK - 1) \div BLOCK ELSE size[c]

Buckets == {BucketOf(c) : c \in Fp}

\* The type under which the chunks of file f are counted.
TypeIn(f) == IF study = "type" THEN f.type ELSE "any"

NoCounts == [k \in Fp \X (Types \cup {"any"}) |-> 0]

CountInit ==
    /\ study \in {"base", "type"}
    /\ nfile = 0 /\ nchunk = 0
    /\ FCdb = NoCounts /\ SFdb = [b \in Buckets |-> <<>>] /\ Tdb = [t \in Types |-> 0]
    /\ pending = {} /\ run = 0 /\ kills = 0

AtEndOfFile == nchunk = IF nfile = 0 THEN 0 ELSE Len(input[nfile].chunks)

EndOfTrace == nfile = Len(input) /\ AtEndOfFile

\* insertTypeDB
InsertType(t, n) == Tdb' = [Tdb EXCEPT ![t] = @ + n]

\* The next file, its type and number of chunks; readChunksToDBs does not
\* read types and has no Tdb.
NextFile ==
    /\ AtEndOfFile /\ pending = {} /\ nfile < Len(input)
    /\ LET f == input[nfile + 1]
       IN  IF study = "type" THEN InsertType(f.type, Len(f.chunks)) ELSE UNCHANGED Tdb
    /\ nfile' = nfile + 1 /\ nchunk' = 0
    /\ UNCHANGED <<study, input, run, FCdb, SFdb, pending, kills>>

\* insertFCdb returned 1.
IsNew(c, t) == FCdb[<<c, t>>] = 0

\* insertFCdb: the count of the chunk, which is new when the count is 1.
insertFCdb ==
    /\ ~AtEndOfFile /\ pending = {}
    /\ LET c == input[nfile].chunks[nchunk + 1]
           t == TypeIn(input[nfile])
       IN  /\ FCdb' = [FCdb EXCEPT ![<<c, t>>] = @ + 1]
           /\ pending' = IF IsNew(c, t) THEN {c} ELSE {}
    /\ nchunk' = nchunk + 1
    /\ UNCHANGED <<study, input, nfile, run, SFdb, Tdb, kills>>

\* Mutant: the list of the bucket is replaced.
insertSFdbReplaces(c) ==
    /\ c \in pending
    /\ SFdb' = [SFdb EXCEPT ![BucketOf(c)] = <<c>>]
    /\ pending' = {}
    /\ UNCHANGED <<reader, FCdb, Tdb, kills>>

\* insertSFdb
insertSFdb(c) ==
    /\ c \in pending
    /\ SFdb' = [SFdb EXCEPT ![BucketOf(c)] = Append(@, c)]
    /\ pending' = {}
    /\ UNCHANGED <<reader, FCdb, Tdb, kills>>

\* The program is killed, and started again on the same databases.
Restart ==
    /\ run < MaxRuns /\ nfile > 0
    /\ run' = run + 1
    /\ nfile' = 0 /\ nchunk' = 0
    /\ kills' = kills + Cardinality(pending)
    /\ pending' = {}
    /\ UNCHANGED <<study, input, FCdb, SFdb, Tdb>>

CountNext == NextFile \/ insertFCdb \/ (\E c \in Fp : insertSFdb(c)) \/ Restart

-----------------------------------------------------------------------------
(* Properties *)

Entries(list, c) == Cardinality({i \in DOMAIN list : list[i] = c})

TypesOf(c) == {t \in Types \cup {"any"} : FCdb[<<c, t>>] > 0}

\* A chunk is only in the bucket of its size, and there at most once for each
\* type it occurs with, however often the program is restarted.  A chunk that
\* was counted and not put into its bucket never gets there: its count is no
\* longer 1.  Only a kill between the two writes has that effect, on one chunk
\* each.
LostOnlyByKills ==
    /\ \A b \in Buckets, c \in Fp :
          Entries(SFdb[b], c) <= IF b = BucketOf(c) THEN Cardinality(TypesOf(c)) ELSE 0
    /\ SumFunction([c \in Fp |-> Cardinality(TypesOf(c)) - Entries(SFdb[BucketOf(c)], c)])
         = kills + Cardinality(pending)
=============================================================================
