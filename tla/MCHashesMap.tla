---------------------------- MODULE MCHashesMap ----------------------------
(* HashesMap for TLC: two hashes, two archives, symmetric in both. *)
EXTENDS HashesMap, TLC

CONSTANTS h1, h2, a1, a2

MCHash       == {h1, h2}
MCArchive    == {a1, a2}
MCReferences == {-1, 2}
Symmetry     == Permutations(MCHash) \cup Permutations(MCArchive)
=============================================================================
