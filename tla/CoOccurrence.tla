---------------------------- MODULE CoOccurrence ----------------------------
(***************************************************************************)
(* What the counting pass over a trace promises: whatever has been read, in *)
(* however many runs, the databases hold the frequency of every chunk and,  *)
(* for every chunk, how often each chunk of Neighbour stood next to it.     *)
(***************************************************************************)
EXTENDS ChunkTables

CONSTANT Neighbour  \* the fingerprints whose co-occurrences are promised

VARIABLES
    files,      \* the lines read so far, by file
    F, L, R     \* the tables

cvars == <<files, F, L, R>>

\* A table of neighbours, for those of Neighbour.
Within(t) == [k \in Fp |-> [x \in Neighbour |-> t[k][x]]]

Init ==
    /\ files = << <<>> >>
    /\ F = FreqOf(files) /\ L = Within(LeftOf(files)) /\ R = Within(RightOf(files))

Read(fs) ==
    /\ files' = fs
    /\ F' = FreqOf(fs) /\ L' = Within(LeftOf(fs)) /\ R' = Within(RightOf(fs))

Line(c) == Read([files EXCEPT ![Len(files)] = Append(@, c)])

NewFile == Read(Append(files, <<>>))

NewSnapshot == Read(<< <<>> >>)

Next == NewFile \/ NewSnapshot \/ \E c \in Fp : Line(c)

Spec == Init /\ [][Next]_cvars
=============================================================================
