----------------------------- MODULE Duplicate ------------------------------
(***************************************************************************)
(* multistream/src/similarity/duplicate.cc: two passes over a trace, the    *)
(* first counts its chunks in a database (read_hashes), the second writes   *)
(* the lines of the chunks that occur more than once (remove_unique).       *)
(*                                                                         *)
(* A count is updated by a Delete and a Put, and the database survives the  *)
(* program: it may be killed at any step and started again, on this or on   *)
(* another trace.                                                           *)
(***************************************************************************)
EXTENDS Integers, Sequences, FiniteSets

CONSTANTS
    RawTraces,  \* bound: the traces the program may be given
    MaxStarts   \* bound: times the program is started

ASSUME DuplicateAssumption == RawTraces \subseteq Seq(Nat) /\ MaxStarts \in Nat

VARIABLES
    trace,
    db,         \* chunk -> count, 0 when absent
    put,        \* the count that is deleted and not yet put back
    pos,        \* lines read in this pass
    kept,       \* positions of the lines written
    dup,        \* "count", "remove", "done" or "error"
    starts

dupVars == <<trace, db, put, pos, kept, dup, starts>>

Traced == UNION {{t[i] : i \in DOMAIN t} : t \in RawTraces}

DupInit ==
    /\ trace \in RawTraces
    /\ db = [c \in Traced |-> 0]
    /\ put = <<>> /\ pos = 0 /\ kept = <<>>
    /\ dup = "count" /\ starts = 1

\* A line of the first pass: the count is read and, if there is one, deleted.
Count(c) ==
    /\ dup = "count" /\ put = <<>> /\ pos < Len(trace) /\ c = trace[pos + 1]
    /\ put' = <<c, db[c] + 1>>
    /\ db' = [db EXCEPT ![c] = 0]
    /\ UNCHANGED <<trace, pos, kept, dup, starts>>

\* Mutant: the count that was read is written back.
PutOld ==
    /\ put # <<>>
    /\ db' = [db EXCEPT ![put[1]] = IF put[2] = 1 THEN 1 ELSE put[2] - 1]
    /\ put' = <<>>
    /\ pos' = pos + 1
    /\ UNCHANGED <<trace, kept, dup, starts>>

\* The new count is written.
Put ==
    /\ put # <<>>
    /\ db' = [db EXCEPT ![put[1]] = put[2]]
    /\ put' = <<>>
    /\ pos' = pos + 1
    /\ UNCHANGED <<trace, kept, dup, starts>>

\* rewind
Rewind ==
    /\ dup = "count" /\ put = <<>> /\ pos = Len(trace)
    /\ pos' = 0 /\ dup' = "remove"
    /\ UNCHANGED <<trace, db, put, kept, starts>>

Repeated(c) == db[c] > 1

\* A line of the second pass.
RemoveUnique ==
    /\ dup = "remove" /\ pos < Len(trace)
    /\ pos' = pos + 1
    /\ LET c == trace[pos + 1]
       IN  IF db[c] = 0
             THEN dup' = "error" /\ UNCHANGED kept
             ELSE /\ kept' = IF Repeated(c) THEN Append(kept, pos + 1) ELSE kept
                  /\ UNCHANGED dup
    /\ UNCHANGED <<trace, db, put, starts>>

DupEnd ==
    /\ dup = "remove" /\ pos = Len(trace)
    /\ dup' = "done"
    /\ UNCHANGED <<trace, db, put, pos, kept, starts>>

\* The program is killed or has ended, and is started with the same database.
Restart ==
    /\ starts < MaxStarts
    /\ starts' = starts + 1
    /\ trace' \in RawTraces
    /\ pos' = 0 /\ kept' = <<>> /\ put' = <<>>
    /\ dup' = "count"
    /\ UNCHANGED db

\* The file that the program has written.
Filtered == [i \in DOMAIN kept |-> trace[kept[i]]]

DupNext == (\E c \in Traced : Count(c)) \/ Put \/ Rewind \/ RemoveUnique \/ DupEnd \/ Restart

-----------------------------------------------------------------------------
(* Properties *)

Occurs(c) == Cardinality({i \in DOMAIN trace : trace[i] = c})

\* The lines that the file should have.
Lines == {i \in DOMAIN trace : Occurs(trace[i]) > 1}

KeptLines == {kept[n] : n \in DOMAIN kept}

\* Whatever earlier runs left behind, and wherever they were killed, no line
\* of a repeated chunk is lost and no chunk is missing from the database; on a
\* new database nothing else is written.  The order is kept.
NoneLost ==
    /\ dup # "error"
    /\ dup = "done" => Lines \subseteq KeptLines
    /\ starts = 1 /\ dup = "done" => KeptLines = Lines
    /\ \A n, l \in DOMAIN kept : n < l => kept[n] < kept[l]

=============================================================================
