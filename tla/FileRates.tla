----------------------------- MODULE FileRates ------------------------------
(***************************************************************************)
(* The second case study of Bucket/README.md: readChunksFile.cc stores the  *)
(* chunks of every file of a trace, compareDB.cc then counts, for the files *)
(* of one type, the chunks that the output of inferChunksType names.        *)
(*                                                                         *)
(* An entry of FILEdb (FCdb in these programs) is the list of               *)
(* <<chunk, count>> that the code packs into 14 bytes each; its key has the *)
(* index, number of chunks and type of the file.                            *)
(***************************************************************************)
EXTENDS BucketInfer

CONSTANT overHold   \* a file counts when 1 / overHold of it was inferred

ASSUME FileAssumption == overHold \in Nat

VARIABLES
    FILEdb,     \* <<index, chunks, type>> -> list of <<chunk, count>>
    frun,       \* times readChunksFile was started
    passed,     \* entries the iterator of compareDB has passed
    files, totalLogic, totalUnique, correctLogic, correctUnique,
    uniqueOver, logicOver, allOver

tally    == <<files, totalLogic, totalUnique, correctLogic, correctUnique,
              uniqueOver, logicOver, allOver>>
fileVars == <<FILEdb, frun, passed, tally>>

FileInit ==
    /\ FILEdb = <<>> /\ frun = 0 /\ passed = {}
    /\ files = 0 /\ totalLogic = 0 /\ totalUnique = 0
    /\ correctLogic = 0 /\ correctUnique = 0
    /\ uniqueOver = 0 /\ logicOver = 0 /\ allOver = 0

-----------------------------------------------------------------------------
(* readChunksFile *)

\* Type and number of chunks of the next file; a file without chunks gets an
\* index and no entry.
NextMeta ==
    /\ AtEndOfFile /\ nfile < Len(input)
    /\ nfile' = nfile + 1 /\ nchunk' = 0
    /\ UNCHANGED <<study, input, run, fileVars>>

meta == <<nfile - 1, Len(input[nfile].chunks), input[nfile].type>>

Entry(key) == IF key \in DOMAIN FILEdb THEN FILEdb[key] ELSE <<>>

\* insertFCDB: the count of the chunk in the list, or a new pair at its end.
CountedIn(list, c) ==
    IF \E i \in DOMAIN list : list[i][1] = c
      THEN [i \in DOMAIN list |-> IF list[i][1] = c THEN <<c, list[i][2] + 1>> ELSE list[i]]
      ELSE Append(list, <<c, 1>>)

insertFCDB ==
    /\ ~AtEndOfFile
    /\ FILEdb' = [k \in DOMAIN FILEdb \cup {meta} |->
                    IF k = meta THEN CountedIn(Entry(meta), input[nfile].chunks[nchunk + 1])
                                ELSE FILEdb[k]]
    /\ nchunk' = nchunk + 1
    /\ UNCHANGED <<study, input, nfile, run, frun, passed, tally>>

\* The program is killed or has ended, and is started again; the indexes start from 0, the database stays.
Rerun ==
    /\ nfile > 0 /\ frun <= MaxRuns
    /\ frun' = frun + 1
    /\ nfile' = 0 /\ nchunk' = 0
    /\ UNCHANGED <<study, input, run, FILEdb, passed, tally>>

ReadFiles == NextMeta \/ insertFCDB \/ Rerun

-----------------------------------------------------------------------------
(* compareDB; ANSdb is the OUTdb of inferChunksType *)

Answered(list) == {i \in DOMAIN list : list[i][1] \in DOMAIN OUTdb}

Logic(list, S) == SumFunctionOnSet([i \in DOMAIN list |-> list[i][2]], S)

Reaches(part, whole) == part * overHold >= whole

\* Mutant of OtherType: the answers of other types are counted.
OtherTypeCounts(key) ==
    /\ key \in DOMAIN FILEdb \ passed /\ key[3] # Type
    /\ passed' = passed \cup {key}
    /\ correctLogic' = correctLogic + Logic(FILEdb[key], Answered(FILEdb[key]))
    /\ UNCHANGED <<FILEdb, frun, files, totalLogic, totalUnique, correctUnique,
                   uniqueOver, logicOver, allOver>>

\* Entries of another type are passed over.
OtherType(key) ==
    /\ key \in DOMAIN FILEdb \ passed /\ key[3] # Type
    /\ passed' = passed \cup {key}
    /\ UNCHANGED <<FILEdb, frun, tally>>

Add(n, yes) == IF yes THEN n + 1 ELSE n

Compare(key) ==
    /\ key \in DOMAIN FILEdb \ passed /\ key[3] = Type
    /\ LET list   == FILEdb[key]
           logic  == Logic(list, Answered(list))
           unique == Cardinality(Answered(list))
       IN  /\ files' = files + 1
           /\ totalLogic' = totalLogic + key[2]
           /\ totalUnique' = totalUnique + Len(list)
           /\ correctLogic' = correctLogic + logic
           /\ correctUnique' = correctUnique + unique
           /\ logicOver' = Add(logicOver, Reaches(logic, key[2]))
           /\ uniqueOver' = Add(uniqueOver, Reaches(unique, Len(list)))
           /\ allOver' = Add(allOver, Reaches(logic, key[2]) /\ Reaches(unique, Len(list)))
    /\ passed' = passed \cup {key}
    /\ UNCHANGED <<FILEdb, frun>>

CompareNext == \E key \in DOMAIN FILEdb : OtherType(key) \/ Compare(key)

-----------------------------------------------------------------------------
(* Properties *)

\* The printed numbers are shares: of the chunks of the type, and of its
\* files; a file over the limit in both ways is over it in each. The logical
\* chunks are a share only if readChunksFile ran once (frun = 1): a second run
\* adds to the counts under a key that holds the number of chunks of one run.
RatesAreShares ==
    /\ correctUnique <= totalUnique
    /\ frun = 1 => correctLogic <= totalLogic
    /\ allOver <= logicOver /\ allOver <= uniqueOver
    /\ logicOver <= files /\ uniqueOver <= files
=============================================================================
