------------------------- MODULE MCHashBlobArchive -------------------------
(* HashBlobArchive for TLC.  Writers and hashes are interchangeable (archives *)
(* are not: getNewArchiveID is a CHOOSE; u1 is Default); symmetry is used by  *)
(* the runs without fairness only.                                            *)
EXTENDS HashBlobArchive, TLC

CONSTANTS w1, w2, h1, h2, h3, u1, u2, a1, a2, a3

MCWriters  == {w1, w2}
MCHashes2  == {h1, h2}
MCHashes3  == {h1, h2, h3}
MCUuids1   == {u1}
MCUuids2   == {u1, u2}
MCArchive2 == {a1, a2}
MCArchive3 == {a1, a2, a3}

MCFault     == {"fault"}
MCFaultClose == {"fault", "close"}
MCClose     == {"close"}
MCSync      == {"sync"}

Symmetry == Permutations(MCWriters) \cup Permutations(Hash)
=============================================================================
