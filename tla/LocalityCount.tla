--------------------------- MODULE LocalityCount ---------------------------
(***************************************************************************)
(* single_stream/locality_count.cc, the counting pass: one run of the tool  *)
(* per file of a snapshot, all runs of a snapshot on the same three LevelDB *)
(* databases (locality_script_fsl.sh).                                      *)
(*                                                                         *)
(* The neighbour databases map a fingerprint to a row, a byte string of     *)
(* (fingerprint, count) entries that is scanned from its start; the         *)
(* fingerprint in an entry is name[fp], a C string (RowTables).             *)
(*                                                                         *)
(* A line of the input is abstracted to the fingerprint it carries; the     *)
(* title line is skipped by the code and changes nothing.  A fingerprint    *)
(* that has no row, NotFound for LevelDB, has the empty row here.           *)
(***************************************************************************)
EXTENDS RowTables, FiniteSetsExt, SequencesExt

CONSTANTS
    None,       \* no previous chunk
    Snapshots   \* bound: the snapshots that are counted, as lists of files

ASSUME NoneAssumption == None \notin Fp

ASSUME SnapshotAssumption == \A s \in Snapshots : s # <<>> /\ s \in Seq(Seq(Fp))

VARIABLES
    db,             \* fingerprint -> occurrences, 0 when absent
    store_left,     \* fingerprint -> row of left neighbours
    store_right,    \* fingerprint -> row of right neighbours
    flag, last,     \* locals of read_hashes: is there a previous chunk, which
    files           \* the lines read so far, by file

countVars == <<db, store_left, store_right, flag, last, files>>

Entry == [fp : Fp, n : Nat \ {0}]

-----------------------------------------------------------------------------
(* One row *)

\* Positions of the entries that carry the fingerprint x.
Holds(row, x) == {i \in DOMAIN row : row[i].fp = x}

\* The scan stops at the first entry that matches and increments it in place;
\* without a match an entry with count 1 is appended.
Bump(row, x) ==
    IF Holds(row, x) # {}
      THEN [row EXCEPT ![Min(Holds(row, x))].n = @ + 1]
      ELSE Append(row, [fp |-> x, n |-> 1])

CountIn(row, x) == IF Holds(row, x) = {} THEN 0 ELSE row[Min(Holds(row, x))].n

-----------------------------------------------------------------------------
(* read_hashes *)

\* What has been read, fs, is the beginning of a snapshot.
Begins(fs) ==
    \E s \in Snapshots :
        /\ Len(fs) <= Len(s)
        /\ SubSeq(s, 1, Len(fs) - 1) = SubSeq(fs, 1, Len(fs) - 1)
        /\ IsPrefix(fs[Len(fs)], s[Len(fs)])

CountInit ==
    /\ db = [c \in Fp |-> 0]
    /\ store_left  = [c \in Fp |-> <<>>]
    /\ store_right = [c \in Fp |-> <<>>]
    /\ flag = FALSE
    /\ last = None
    /\ files = << <<>> >>

\* Frequency: read the count, delete the key, put the count plus one.
CountFreq(hash) == [db EXCEPT ![hash] = @ + 1]

\* Left row of the chunk just read: its predecessor, by its C string.
CountLeft(hash) == [store_left EXCEPT ![hash] = Bump(@, name[last])]

\* Right row of the predecessor: the chunk just read, by its C string.
CountRight(hash) == [store_right EXCEPT ![last] = Bump(@, name[hash])]

\* A line of the hash file.  The first chunk of a file has no left neighbour.
Line(hash) ==
    /\ Begins([files EXCEPT ![Len(files)] = Append(@, hash)])
    /\ db' = CountFreq(hash)
    /\ store_left'  = IF flag THEN CountLeft(hash) ELSE store_left
    /\ store_right' = IF flag THEN CountRight(hash) ELSE store_right
    /\ last' = hash
    /\ flag' = TRUE
    /\ files' = [files EXCEPT ![Len(files)] = Append(@, hash)]

\* Mutant of NewFile: last and flag are kept for the next file.
NewFileKeepsLast ==
    /\ Begins(Append(files, <<>>))
    /\ files' = Append(files, <<>>)
    /\ UNCHANGED <<db, store_left, store_right, flag, last>>

\* Mutant of NewFile: flag is kept, last is not.
NewFileKeepsFlag ==
    /\ Begins(Append(files, <<>>))
    /\ files' = Append(files, <<>>)
    /\ last' = None
    /\ UNCHANGED <<db, store_left, store_right, flag>>

\* The tool ends and is started on the next file of the snapshot; the
\* databases are opened again with what they hold.
NewFile ==
    /\ Begins(Append(files, <<>>))
    /\ files' = Append(files, <<>>)
    /\ flag' = FALSE
    /\ last' = None
    /\ UNCHANGED <<db, store_left, store_right>>

CountNext == NewFile \/ \E hash \in Fp : Line(hash)

\* What the databases hold, as tables.
Counts(store) == [k \in Fp |-> [x \in Fp |-> CountIn(store[k], x)]]

Databases == [F |-> db, L |-> Counts(store_left), R |-> Counts(store_right)]

\* The snapshot is complete: the next one is counted into new databases.
NewSnapshot ==
    /\ files \in Snapshots
    /\ db' = [c \in Fp |-> 0]
    /\ store_left'  = [c \in Fp |-> <<>>]
    /\ store_right' = [c \in Fp |-> <<>>]
    /\ flag' = FALSE
    /\ last' = None
    /\ files' = << <<>> >>

-----------------------------------------------------------------------------
(* Properties *)

\* The databases hold counts and rows of entries with positive counts.
CountTypeOK ==
    /\ db \in [Fp -> Nat]
    /\ store_left  \in [Fp -> Seq(Entry)]
    /\ store_right \in [Fp -> Seq(Entry)]
    /\ flag \in BOOLEAN
    /\ last \in Fp \cup {None}
    /\ flag => last \in Fp
    /\ files \in Seq(Seq(Fp))

\* The counts of the neighbours that no other chunk is mistaken for.
WholeCounts(store) == [k \in Fp |-> [x \in Whole |-> Counts(store)[k][x]]]

Trace == INSTANCE CoOccurrence
    WITH Neighbour <- Whole, F <- db,
         L <- WholeCounts(store_left), R <- WholeCounts(store_right)

\* The counting pass implements the tables of the trace, in one snapshot after
\* the other: the frequencies of all chunks and, in the rows of all chunks, the
\* counts of the neighbours without a zero byte.  The thesis has the counts of all
\* of them (L_C and R_C in paper/DistributionAttack.tex).
CountsTheTrace == Trace!Spec
=============================================================================
