----------------------- MODULE MCBatchFileChunkStore -----------------------
(* BatchFileChunkStore for TLC: two hashes, two archives. *)
EXTENDS BatchFileChunkStore, TLC

CONSTANTS h1, h2, a1, a2

MCHash       == {h1, h2}
MCArchive    == {a1, a2}
MCReferences == {-1}
MCEither     == {TRUE, FALSE}
MCAlways     == {TRUE}
Symmetry     == Permutations(MCHash) \cup Permutations(MCArchive)
=============================================================================
