----------------------------- MODULE RowTables -----------------------------
(***************************************************************************)
(* The tables as the databases can hold them.  locality_count writes the    *)
(* key of a row with its length, but assigns a neighbour as a C string and  *)
(* pads it to its length: in a row stands the fingerprint cut at its first  *)
(* zero byte, name[fp].  Neighbours with the same C string share an entry.  *)
(***************************************************************************)
EXTENDS ChunkTables

CONSTANT name   \* fingerprint -> the fingerprint that stands for it in a row

\* The bytes up to the first zero, padded, are cut at the same zero.
ASSUME NameAssumption == name \in [Fp -> Fp] /\ \A c \in Fp : name[name[c]] = name[c]

LeftBy(fs) ==
    [k \in Fp |-> [x \in Fp |->
        Cardinality({p \in Pos(fs) : /\ p[2] > 1
                                     /\ At(fs, p) = k
                                     /\ name[Prev(fs, p)] = x})]]

RightBy(fs) ==
    [k \in Fp |-> [x \in Fp |->
        Cardinality({p \in Pos(fs) : /\ p[2] > 1
                                     /\ Prev(fs, p) = k
                                     /\ name[At(fs, p)] = x})]]

\* The databases F, L and R of a trace.
TablesOf(fs) == [F |-> FreqOf(fs), L |-> LeftBy(fs), R |-> RightBy(fs)]

\* The fingerprints that stand for themselves and for no other, among them all
\* those without a zero byte.
Whole == {x \in Fp : \A c \in Fp : name[c] = x <=> c = x}
=============================================================================
