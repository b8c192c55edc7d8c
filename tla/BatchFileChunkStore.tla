------------------------ MODULE BatchFileChunkStore ------------------------
(***************************************************************************)
(* The index of HashesMap together with the archives it points into: where  *)
(* org.opendedup.sdfs.filestore.BatchFileChunkStore stores chunks, collects *)
(* the delete requests of the garbage collector and has its background      *)
(* thread compact the archives they name (HashBlobArchive.compact).         *)
(*                                                                         *)
(* An archive is open while it is in rchunks.  Module HashBlobArchive shows *)
(* what this module assumes of the rest of an archive's life: nothing is    *)
(* added to an archive that left rchunks, and before it leaves the index    *)
(* was told about each of its chunks (LeavesReported).                      *)
(***************************************************************************)
EXTENDS HashesMap

CONSTANT
    MapOpens    \* what may come of opening the staged map of a stored archive:
                \* TRUE, it opens; FALSE, the open fails

ASSUME MapAssumption == MapOpens \subseteq BOOLEAN

VARIABLES
    open,       \* archives in rchunks
    stored,     \* archives that have left it
    blocks,     \* archive -> hashes of the chunks in it
    deletes,    \* archives with delete requests
    odel,       \* what the background thread took of them and has left to do
    comp,       \* "idle", "scan" or "copy": compact
    target,     \* the archive it compacts
    todo,       \* hashes it has not asked the index about
    keep        \* hashes it will copy

compVars  == <<comp, target, todo, keep>>
storeVars == <<open, stored, blocks, deletes, odel, compVars>>
allVars   == <<vars, storeVars>>

StoreInit ==
    /\ Init
    /\ open = {} /\ stored = {}
    /\ blocks = [p \in Archive |-> {}]
    /\ deletes = {} /\ odel = {}
    /\ comp = "idle" /\ target = None /\ todo = {} /\ keep = {}

(***************************************************************************)
(* The index operations, with what they do to the store.                    *)
(***************************************************************************)
IsNew(h) == Lookup(h) = None

\* put: a new chunk goes to an archive that accepts writes, made if need be.
StorePut(h, n, p) ==
    /\ put(h, n, p)
    /\ IF IsNew(h)
       THEN /\ p \notin stored
            /\ open' = open \cup {p}
            /\ blocks' = [blocks EXCEPT ![p] = @ \cup {h}]
       ELSE UNCHANGED <<open, blocks>>
    /\ UNCHANGED <<stored, deletes, odel, compVars>>

\* MoveThread: the archive leaves rchunks, each of its chunks reported.
Stored(p) ==
    /\ p \in open
    /\ \A h \in Hash : tempHt[h] # None => tempHt[h].pos # p
    /\ open' = open \ {p}
    /\ stored' = stored \cup {p}
    /\ UNCHANGED <<vars, blocks, deletes, odel, compVars>>

\* Mutant: the position is read after the key has been deleted.
VisitReadsLate(h) ==
    /\ VisitKey(h)
    /\ deletes' = deletes \cup (IF Deleted(h) = {} THEN {} ELSE {Lookup(h)'})
    /\ UNCHANGED <<open, stored, blocks, odel, compVars>>

\* claimRecords with setmDelete(true): deleteChunk notes the archive.
StoreVisit(h) ==
    /\ VisitKey(h)
    /\ deletes' = deletes \cup Deleted(h)
    /\ UNCHANGED <<open, stored, blocks, odel, compVars>>

(***************************************************************************)
(* run, the background thread of the store.                                 *)
(***************************************************************************)
TakeDeletes ==
    /\ comp = "idle" /\ odel = {}
    /\ deletes # {}
    /\ odel' = deletes
    /\ deletes' = {}
    /\ UNCHANGED <<vars, open, stored, blocks, compVars>>

\* compactArchive and the first lines of compact.  The request is dropped when
\* the archive is open, and when its map in wMaps opens.
Skip(p) ==
    /\ comp = "idle"
    /\ p \in odel
    /\ p \in open \/ TRUE \in MapOpens
    /\ odel' = odel \ {p}
    /\ UNCHANGED <<vars, open, stored, blocks, deletes, compVars>>

\* Mutant: an archive that is still in rchunks is compacted too.
CompactOpen(p) ==
    /\ comp = "idle"
    /\ p \in odel
    /\ FALSE \in MapOpens
    /\ odel' = odel \ {p}
    /\ comp' = "scan"
    /\ target' = p
    /\ todo' = blocks[p]
    /\ keep' = {}
    /\ UNCHANGED <<vars, open, stored, blocks, deletes>>

\* getRawMap: the hashes of the archive.
StartCompact(p) ==
    /\ comp = "idle"
    /\ p \in odel \ open
    /\ FALSE \in MapOpens
    /\ odel' = odel \ {p}
    /\ comp' = "scan"
    /\ target' = p
    /\ todo' = blocks[p]
    /\ keep' = {}
    /\ UNCHANGED <<vars, open, stored, blocks, deletes>>

AskIndex(h) ==
    /\ comp = "scan"
    /\ h \in todo
    /\ todo' = todo \ {h}
    /\ keep' = IF mightContainKey(h, target) THEN keep \cup {h} ELSE keep
    /\ UNCHANGED <<vars, open, stored, blocks, deletes, odel, comp, target>>

Finish(left) ==
    /\ blocks' = [blocks EXCEPT ![target] = left]
    /\ comp' = "idle"
    /\ target' = None
    /\ keep' = {}
    /\ UNCHANGED <<vars, open, stored, deletes, odel, todo>>

\* No chunk is left: delete the archive.
DeleteArchive ==
    /\ comp = "scan" /\ todo = {} /\ keep = {}
    /\ Finish({})

\* Copy what is left to a new archive ...
StartCopy ==
    /\ comp = "scan" /\ todo = {} /\ keep # {}
    /\ comp' = "copy"
    /\ UNCHANGED <<vars, open, stored, blocks, deletes, odel, target, todo, keep>>

\* ... and move that over the old one,
Replace == comp = "copy" /\ Finish(keep)

\* or give up: the copy is deleted and the archive stays as it was.
CopyFails == comp = "copy" /\ Finish(blocks[target])

-----------------------------------------------------------------------------
CompactStep ==
    \/ TakeDeletes
    \/ \E p \in Archive : Skip(p) \/ StartCompact(p)
    \/ \E h \in Hash : AskIndex(h)
    \/ DeleteArchive \/ StartCopy \/ Replace

\* What the store takes no part in.
IndexOnly ==
    \/ \E h \in Hash, p \in Archive, n \in 1..MaxCt : addRef(h, p, n)
    \/ \E h \in Hash, p \in Archive, n \in 1..MaxCt : removeRef(h, p, n)
    \/ \E h \in Hash : hashBlobArchiveSync(h)
    \/ StartScan \/ EndScan \/ Tick

StoreNext ==
    \/ \E h \in Hash, n \in References, p \in Archive : StorePut(h, n, p)
    \/ \E p \in Archive : Stored(p)
    \/ \E h \in Hash : StoreVisit(h)
    \/ IndexOnly /\ UNCHANGED storeVars
    \/ CompactStep
    \/ CopyFails

StoreSpec == StoreInit /\ [][StoreNext]_allVars

\* The background thread runs for ever.
StoreFairSpec == StoreSpec /\ WF_allVars(CompactStep)

-----------------------------------------------------------------------------
StoreTypeOK ==
    /\ open \subseteq Archive
    /\ stored \subseteq Archive
    /\ blocks \in [Archive -> SUBSET Hash]
    /\ deletes \subseteq Archive
    /\ odel \subseteq Archive
    /\ comp \in {"idle", "scan", "copy"}
    /\ target \in Archive \cup {None}
    /\ todo \subseteq Hash
    /\ keep \subseteq Hash

\* A chunk some file refers to is in the archive the file's map names, whatever
\* the garbage collector, the writers and compaction do at the same time.
NoLoss ==
    \A h \in Hash, p \in Archive : held[h][p] > 0 => h \in blocks[p]

\* compact asks the index about one key at a time and replaces the archive later;
\* a chunk it drops is still one the index does not need at that later time.
DropsOnlyUnindexed ==
    [][\A h \in Hash, p \in Archive :
         h \in blocks[p] \ blocks'[p] => Lookup(h) # p]_allVars

(***************************************************************************)
(* Why NoLoss holds: the inductive invariant, by its parts.                 *)
(***************************************************************************)

\* Every chunk the index has is in the archive it names.
IndexedIsStored ==
    \A h \in Hash : Lookup(h) # None =>
        /\ Lookup(h) \in open \cup stored
        /\ h \in blocks[Lookup(h)]

\* Entries of tempHt are of open archives, so new chunks never go to an archive
\* compact may be at work on.
TempIsOpen ==
    /\ open \cap stored = {}
    /\ \A h \in Hash : tempHt[h] # None => tempHt[h].pos \in open

\* What compact has not asked about or will copy includes all the index needs.
CompactionKeeps ==
    /\ deletes \cup odel \subseteq open \cup stored
    /\ comp # "idle" =>
         /\ target \in stored
         /\ \A h \in blocks[target] : Lookup(h) = target => h \in todo \cup keep
    /\ comp = "copy" => todo = {}

StoreInv ==
    /\ StoreTypeOK
    /\ IndexedIsStored
    /\ TempIsOpen
    /\ CompactionKeeps

\* A delete request for an archive ends with the unindexed chunks of that archive
\* removed.  ("Removes individual orphaned blocks from chunks stored on disk",
\* changes.txt)
OrphansRemoved ==
    \A p \in Archive :
        p \in odel /\ p \notin open
            ~> \A h \in blocks[p] : mightContainKey(h, p)
=============================================================================
