--------------------------- MODULE MCArchiveReuse ---------------------------
(* ArchiveReuse for TLC, with the model values of MCHashBlobArchive and a     *)
(* third writer.  No I/O fails, sync() and close() are not called.            *)
EXTENDS ArchiveReuse, MCHashBlobArchive

CONSTANT w3

MCWriters3  == {w1, w2, w3}
MCCallsOnly == {}
=============================================================================
