---------------------------- MODULE ChunkTables ----------------------------
(***************************************************************************)
(* The three tables of a trace that the analyses are about, defined by      *)
(* counting positions.                                                      *)
(*                                                                         *)
(* A trace is a list of files, a file is a list of fingerprints.  FreqOf    *)
(* counts the occurrences of a chunk; LeftOf[k][x] counts how often x       *)
(* stands directly before k in a file, RightOf[k][x] how often it stands    *)
(* directly after k.  Chunks of different files are no neighbours.  Chapter *)
(* 3 of the thesis (paper/DistributionAttack.tex) defines L_C and R_C this  *)
(* way, for every unique chunk.                                             *)
(***************************************************************************)
EXTENDS Naturals, Sequences, FiniteSets

CONSTANT Fp     \* chunk fingerprints, numbered in the order of their bytes

\* A fingerprint is a fixed number of bytes: there are finitely many.
ASSUME FpAssumption == Fp \subseteq Nat /\ IsFiniteSet(Fp)

Pos(fs)     == UNION {{f} \X DOMAIN fs[f] : f \in DOMAIN fs}

At(fs, p)   == fs[p[1]][p[2]]

Prev(fs, p) == fs[p[1]][p[2] - 1]

FreqOf(fs) == [c \in Fp |-> Cardinality({p \in Pos(fs) : At(fs, p) = c})]

LeftOf(fs) ==
    [k \in Fp |-> [x \in Fp |->
        Cardinality({p \in Pos(fs) : p[2] > 1 /\ At(fs, p) = k /\ Prev(fs, p) = x})]]

RightOf(fs) ==
    [k \in Fp |-> [x \in Fp |->
        Cardinality({p \in Pos(fs) : p[2] > 1 /\ Prev(fs, p) = k /\ At(fs, p) = x})]]
=============================================================================
