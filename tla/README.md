# SDFS chunk storage and the chunk-analysis tools: TLA+ models, checks and proofs

The repository holds SDFS, a deduplicating file system in Java
(`src/code/SDFS`), as changed for a thesis on encrypted deduplication, and the
thesis's data-analysis tools in C++ (`src/code/InferenceAttacks`). This
directory models both:

* **SDFS** from the point where a chunk and its fingerprint arrive at the chunk
  index to the point where the chunk is durable in an archive, and back:
  reference counting, garbage collection and compaction. That is the part where
  a mistake in the order of two threads loses user data.
* **The analysis tools**: sequential programs that read traces of chunk
  fingerprints, count, segment, cluster and rank them and print how much of one
  trace can be matched with another. What they compute goes into the tables of
  the thesis, so the question is whether the numbers are what the text says
  they are. They keep state in LevelDB databases between runs, and loop until a
  work list is empty.

## The system

| Component | State | Operations | Talks to |
|---|---|---|---|
| **Chunk index** `RocksDBMap` | `tempHt` (volatile entries), `dbs` (RocksDB shards), `rmdb` (removal records); one lock per first byte of the hash | `put`, `claimKey`, `get`, `mightContainKey`, `hashBlobArchiveSync`, `claimRecords` | persists a new chunk through `ChunkData.persistData`; is told by an `ArchiveSync` event that an archive is durable; asks the store to delete chunks |
| **File references** `DedupFileStore.addRef/removeRef` | the maps of the files | add or release references when a file is copied, overwritten, deleted | `claimKey` |
| **Garbage collector** `ManualGC`, `HashStore.processHashClaims` | an iterator over `rmdb` | one scan at a time | `claimRecords` |
| **Archives** `HashBlobArchive` | `writableArchives`, `rchunks`, per archive: map, file, flags, locks; upload pool, sync queue | `writeBlock`/`putChunk`, `upload`, `SyncQueue.run`, `MoveThread`, `sync`, `close`, `compact` | chunk store; `ArchiveSync` event bus |
| **Local chunk store** `BatchFileChunkStore`, `ChunkData` | `deletes`, the requests of the collector | `writeChunk`, `deleteChunk`, background thread | `HashBlobArchive.writeBlock`, `compactArchive` |
| File layer `SparseDedupFile`, `WritableCacheBuffer`, `LongByteArrayMap` | write buffers, file maps | write, flush, truncate, copy | index, references |
| Recovery `ConsistancyCheck`, `FDisk` | - | rebuild index and counts at mount | index, archives |
| Front ends, cloud stores, replication, management | - | translation and I/O | the above |
| **Locality counting** `single_stream/locality_count` | LevelDB tables of chunk frequencies and of left and right neighbours | one line of a trace; a further file of the snapshot | writes the tables the next two read |
| **Locality-based analysis** `single_stream/locality_attack` | queues of inferred pairs, bounded heaps, the record of inferred chunks | start from ranks or leaked pairs; neighbours of the front pair | reads two sets of tables |
| **Distribution-based analysis** `single_stream/entropy_attack` | the same, and the batch being compared | the same, filtered by entropies | reads two sets of tables |
| **Segmentation** `multistream pslice, cslice` | current segment, segment and slice databases | one line of a file, end of file, rerun | writes the databases `pair` reads; `cslice` clusters |
| **Clustering** `cslice` around alglib's clusterizer | distance matrix, merge tree, classes | distances, merges, layout, separation by distance, slices, report | reads segments, writes slices |
| **Slice pairing** `multistream pair` | ranked slices, pairings, database of inferences | pair slices, analyse pairs by chunk or by segment | reads both slice databases |
| **Duplicate filter** `multistream duplicate` | database of counts | count pass, output pass, kill and rerun | - |
| **Buckets** `Bucket/src` | databases of chunks by size and by type; files of a trace | count, infer by size, compare | output of one is input of the next |

The path of a chunk: `RocksDBMap.put` holds the lock of the hash; an unknown
hash is written by `HashBlobArchive.writeBlock` to the writable archive of the
file and entered in `tempHt`. An upload thread per archive closes it after at
most `THREAD_SLEEP_TIME`, waits for the writes in progress, hands it to the
chunk store and to the sync queue. The `SyncQueue` thread posts `ArchiveSync`
(the index moves the keys from `tempHt` to RocksDB) and starts a `MoveThread`,
which takes the archive out of `rchunks`. A key whose count falls to zero gets
a record in `rmdb`; after a grace period `claimRecords` deletes the key and
tells the store, whose background thread compacts the archive: it asks the
index about each chunk and rewrites the archive without the unindexed ones.

What is hard in SDFS: the collector works from a snapshot that other threads make
stale; map entry and data of a chunk are written in two steps with the upload
in between; the lock on the writable archives is given up and taken again; a
saturated pool makes a writer run an upload under that lock; compaction acts
on answers that are old; three background threads hand work to each other and
one of them stops on a flag; any I/O step may fail.

What is hard in the tools: nothing runs concurrently, but databases outlive the
runs and their parameters; programs can be killed between two writes that
belong together; ranks are cut by bounded heaps and popped from the small end;
two queues are one set of pairs only if every push is on both; a cached nearest
neighbour must survive a merge; loops end only because of a record kept
elsewhere; and binary fingerprints pass through C strings, unsigned counters
and integer divisions. `PROJECT.json` lists each of these hazards at its line, with the properties that would catch it.

## Modules

### `HashesMap` - index, references and collector

`tempHt`, `dbs`, `rmdb` map a hash to an entry `[pos, ct]`, a removal record
`[pos, tm]`, or `None`. Each method works under the lock of its key, so it is
one action (`put`, `addRef`, `removeRef`); `hashBlobArchiveSync` and
`claimRecords` take the lock once per key and are one action per key
(`VisitKey` for the scan, between `StartScan` and `EndScan`). `iter` is what is
left of RocksDB's snapshot iterator: position and time come from it, presence
and count from the live tables, as in the code. A scan may end early (the
method catches any exception). `held` is a history variable: how many
references the maps of the files hold, per archive. Every client is assumed to
follow the protocol of the callers: it claims references it holds
(`addRef`), and releases no more than it holds (`removeRef`). That the file
layer does so is a question for the file-layer module (see the plan).
`System.currentTimeMillis` is `now`.

### `HashBlobArchive` - the life of an archive

`writeBlock` is split where other threads can intervene: `LockRead`, the
attempt (`Insert`, `Exists`, `Miss`), `LockWrite`, the attempt under the write
lock (`Insert`, `Retry`, `Create`), the file write (`FileWrite`, `CtorWrite`)
and `Install`. The per-archive `lock` is held within one action; the
`uploadlock` is `InFlight(a) = {}` in `Upload`. `run` of the upload thread is
`Mark`, `Upload`, `Enqueue`; the `SyncQueue` thread is `CheckClosed`, `Take`,
`SyncArchive`; then `Move`. `sync()` is `SyncStatic`, `close()` is `Close` and
`CloseReturn`. `LOCK.wait(timeout)` may end at any time, so notifications need
no action. `Env` says what the environment does: `"fault"` enables
`WriteFails`, `UploadFails`, `SyncFails`; `"sync"` and `"close"` the calls of
that name. `closed` is a plain static field read by other threads: the
`SyncQueue` thread and writers may see it late. `acked`, `reported`, `torn`
are history variables (answers given, `ArchiveSync` events, failed writes).
`Default` is the `"default"` uuid, which an archive has until its constructor
returns: `upload` then removes the wrong table entry, as the code does.
Modelled configuration: `maxQueueSize = 0` (synchronous hand-off to the pool,
`CallerRunsPolicy`) and `allowSync = false`, the defaults. Identifiers of archives
(`getNewArchiveID`) are random 64-bit numbers in the code and distinct here.

### `ArchiveReuse` - archives without an end

The identifiers of `HashBlobArchive` run out, so in its behaviours every call of
`writeBlock` ends, if only because nobody can make another archive. The loop of
`writeBlock` (`HashBlobArchive.java:744-778`) is therefore checked in `ArchiveReuse`:
`Fresh` gives the identifier of an archive that is stored, reported and forgotten
to a new one, and behaviours have no end. Safety properties remember what became of
every archive; they are checked and proved without reuse, where "for every set of
identifiers" covers any number of them.

### `BatchFileChunkStore` - index and archives together

Extends `HashesMap` with the contents of the archives (`blocks`), delete
requests and compaction (`TakeDeletes`, `Skip`, `StartCompact`, `AskIndex` per
chunk, `DeleteArchive`, `StartCopy`, `Replace`, `CopyFails`). The life of an
archive is reduced to open (in `rchunks`) and stored; what that reduction
needs is what `HashBlobArchive` proves: nothing is added after the upload
(`UploadComplete`), every hash is reported before the archive leaves `rchunks`
(`LeavesReported`). `MapOpens` says whether opening the staged map of a stored
archive succeeds: with the code's cache loader it does (`{TRUE}`) and `compact`
then gives up; the safety run allows both so that compaction itself is checked.

The store is a refinement of the index: `StoreSpec => Spec`
(`StoreImplementsIndex`), so `HashesMap` is the abstract specification of the
store and every index property carries over.

### `ChunkTables`, `RowTables`, `CoOccurrence`, `LocalityCount` - counting a trace

`ChunkTables` defines, for a list of files, the frequency table and the tables
of left and right neighbours as the thesis does, per unique chunk. `CoOccurrence` is
the abstract specification: after every line the tables are those of what was read,
for a given set of neighbours.
`LocalityCount` is the program: each row of a neighbour database is the packed
list of `(fingerprint, count)` entries that the code scans and rewrites (`Bump`);
`Line` is one iteration of `read_hashes` with its three updates; `NewFile` is the
next run of the program on the same databases, `NewSnapshot` on new ones. The program
writes a neighbour with `string.assign(const char*)`, which keeps its bytes up to the
first zero. `RowTables` has that as `name`, with the tables that rows cut in this way
can hold (the analyses start from these); `Whole` is the set of the fingerprints that
stand for themselves and for no other. The program refines `CoOccurrence` for the
neighbours in `Whole` (`CountsTheTrace`). It does not for all: after the lines 1, 2 of
the instance checked, in which 2 is cut to 3, the right row of 1 holds 3.

### `Ranking`, `TopK` - the most frequent chunks

`IsTop` and `Ranked` say which lists a bounded heap may leave, ties in any order.
`TopK` is the heap itself as `db_insert` keeps it: one `Insert` for each entry the
iterator visits, then `Drain`. `HeapIsTop` ties the two together; the heaps of the neighbour rows (`left_insert`, `right_insert`) work
alike and are used through `Ranked`.

### `LocalityAttack`, `EntropyAttack`, `SingleStream` - iterated analysis

`RankOrigin`, `Ranks`, `RankTarget` and `StartFromRanks` choose the first pairs by
rank, `StartFromLeak` takes the leaked chunks of `stat_db`; `Left`, `Right` compute
the pairs of neighbours of the front of the queues, `Skip`, `Infer`, `Break` are the
iterations of the loop over them, and `Pop`, `End` the outer loop. `q_o`, `q_t` are
the two queues, `uniq` the LevelDB record of inferred chunks, which may have been
left by an earlier run. `pairs` and `tried` are history variables. `EntropyAttack`
extends it: the lists go through `peakToPair` (`PeakSkip`, `PeakBreak`, `PeakPair`),
which pairs a target chunk with the chunk of a nearby rank whose neighbours have the
closest entropy. Entropies are integers, thousandths of a bit, from the table `plog`.
`SingleStream` composes them as `locality_script_fsl.sh` does: the target snapshot
and an auxiliary one are counted, and one of the two programs is started on the
databases.

### `Duplicate`, `Segments`, `Linkage`, `Clusterizer`, `CSlice`, `SlicePairing`, `Multistream`

`Duplicate` keeps the two writes of a count apart (`Count` deletes, `Put` writes) and
lets the program be killed anywhere and started again on its database. `Segments` is
`read_hashes` and `process_seg` of both `pslice` and `cslice`: `Line` adds a chunk and
closes the segment before it when it no longer fits, `EndOfFile` closes the last one.
`Linkage` is the abstract agglomerative clustering: merge two clusters of least
distance. `Clusterizer` is alglib's implementation of it as `cslice` calls it: rows of
a distance matrix with a cached nearest neighbour each, the merge list, the layout
of the points in the order of the dendrogram, the search for the number of clusters
and the replay of the merges. Its refinement mapping reads the clusters off the rows
that are still occupied (`IsAgglomerative`). `CSlice` composes the clusterizer with
what surrounds it: Jaccard distances, slices, the report. `SlicePairing` is `pair`:
`LoadSlices` ranks the slices; `Pair`, `NoPair` are the iterations of `pair`;
`FreqSlice`, `ChunkKnown`, `ChunkSizesDiffer`, `ChunkInfer` those of `freq_analysis`,
and `SegSlice`, `SegSkip`, `SegInfer` those of `segment_pair`. `infer` counts modulo
`InferMod`, in place of 2^64. `Multistream` runs the four programs one after the other
on one `./output`; `cslice` may be killed while it reads and started again on another
trace.

### `BucketCount`, `BucketInfer`, `FileRates`, `BucketStudy`

`BucketCount` is both readers; `study` says which. The two databases of a new chunk
are written one after the other (`insertFCdb`, `insertSFdb`) and `Restart` kills the
program in between. `BucketInfer` is `inferChunks` and `inferChunksType`: one bucket
at a time both queues are filled (`Load`) and their tops paired (`InferPair`); only
the first program empties them again (`EndBucket`). The assertion of `inferChunks`
that every chunk has a count is a guard of `Load`, so that a failing one would show
as a program that does not end. `FileRates` is `readChunksFile` and then `compareDB`.
`BucketStudy` is the sequence of commands of `Bucket/README.md`, from the encryption
of the target trace to the printed shares.

## Runs

SDFS:

| Run | Checks | Bounds |
|---|---|---|
| `index` | `TypeOK`, `TempAndDbDisjoint`, `RefCountExact`, `RemovalPositionCurrent`, `OnlyDeadKeysLeave` | 2 hashes, 2 archives, counts to 2, clock to 3, grace 1 |
| `archive` | `TypeOK`, `UploadComplete`, `LeavesReported`, `NeverDisplaced` | 2 writers, 3 hashes, 2 files, 3 archives of 2 chunks, pool of 1 |
| `archive_faults` | `AckedInFile`, `UploadComplete` with failing I/O and `close()` | 2 writers, 2 hashes, 1 file, 3 archives of 3 chunks, pool of 1 |
| `archive_live` | `WriteReturns`, `ArchiveDrains` | 3 writers, 3 hashes, 1 file, 2 archives of 1 chunk that are used again, pool of 1 |
| `store` | `StoreTypeOK`, `NoLoss`, `DropsOnlyUnindexed` | 2 hashes, 2 archives, count 1, clock to 2 |
| `index_orphans` | refutes `OrphansAreScheduled` | as `index` |
| `archive_torn` | refutes `AckedIsWritten` | as `archive_faults`, without `close()` |
| `archive_close` | refutes `CloseReturns` | 2 writers, 2 archives of 1 chunk, pool of 2 |
| `store_orphans` | refutes `OrphansRemoved` | as `store`, the map opens |

Why the bounds suffice: operations on the index touch one hash, so two hashes
show one being worked on while the other changes; two archives let a hash be
collected and written again elsewhere; a clock of three lets a record become
due, be renewed and become due again. Two writers are what it takes to race
for a lock; three archives let one be uploaded, one written and one made. An
archive of 3 chunks (`archive_faults`) is not full after a failed write, so
the retry meets the stale map entry. A pool of one is saturated by the second
archive. In `archive_live` an archive is full as soon as it is made, so a writer that
waited for the write lock finds the new archive of another full and goes round its
loop (`Retry`), again and again. The proofs remove these bounds for every safety
property.

`WriteReturns` names the one way in which a call does not return. That every call
returns, `pc[w] # "idle" ~> pc[w] = "idle"`, does not hold: TLC finds the behaviour in
which a writer goes round the loop for ever, because each time another has made
and filled an archive before it. No comment or document of the repository promises
more, so this is stated here and is no finding.

`CHECK_DEADLOCK FALSE` in the `HashBlobArchive` runs: the program may be
closed, and the bounded supply of archive identifiers runs out. `archive_live` has
neither and is checked for deadlock.

The analysis tools, one run for each set of programs:

| Run | Checks | Bounds |
|---|---|---|
| `single_stream` | `STypeOK`, `HeapIsTop`, `InferredOnce`, `PairsStayTogether`, `RateAtMostOne`, `CountsTheTrace`, `Terminates` | 4 fingerprints, one of them the C string of another; all pairs of 39 snapshots: files of up to 3 lines, snapshots of 2 files, longer ones; u = v = w = 2, radius 2; with and without leakage and a left-over record |
| `multistream` | `MTypeOK`, `NoneLost`, `SegmentsAreTheFile`, `SlicesAreClasses`, `NearestKept`, `ClassesAreClusters`, `SlicesAreSimilar`, `PairedOnce`, `CorrectCounted`, `IsAgglomerative`, `ProgramsEnd` | 5 auxiliary traces of up to 6 lines, all target traces of up to 4 lines and 3 of 6, over 3 chunks of two sizes; segments of 3 units, up to 5 of them; 6 radii; 3 left-over inference databases; `duplicate` started twice, `cslice` killed once after 4 lines and retried on 2 traces |
| `bucket` | `LostOnlyByKills`, `SameBucket`, `PairedOnce`, `OutputCounted`, `RatesAreShares`, `StudyEnds` | 256 pairs of traces of up to 3 chunks in up to 3 files of two types, both studies, a reader started again once |

What the runs show. `single_stream`: whatever the files, the databases hold
the frequencies of the traces and the counts of every neighbour without a zero byte (a
refinement; in the instance fingerprint 2 is cut to 3, 1 and 4 are whole); every list the analysis pairs by
position is a true ranking; and however pairs are skipped, dropped at the limit or
already recorded, no chunk is inferred twice, the two queues remain one set of
pairs, and the printed rate is a rate. `multistream`: from the trace to the
inferences nothing is lost or repeated by the segmentation, the cached nearest
neighbours stay exact although most rows are not searched again, the classes are
those of agglomerative clustering and separated by the radius, and the counters of
`pair` count each chunk once over both of its stages. `bucket`: what a kill costs
(one chunk of its bucket each, never more), that `inferChunks` pairs within a
bucket, and that the numbers of the case studies are shares. Preconditions in the
properties are part of the result and name where the code stops giving it:
`PairsStayTogether` needs traces with equally many chunks to start from,
`RateAtMostOne` fingerprints without a zero byte, `CountsTheTrace` neighbours without
one, `RatesAreShares` one run of `readChunksFile` for the share of logical chunks, `SameBucket` is about
`inferChunks`, `PairedOnce` of the buckets about chunks of one type,
`ProgramsEnd` excepts two chunks of different size. The next section says what
happens without them.

Why these bounds suffice: the tools treat chunks alike except for order, equality
and size, so three or four chunks give ties, a strict order and a bystander; files of up to
three lines give a chunk two different neighbours and a repeated one; a limit of two
is reached and passed; four segments are the least for which a merge leaves two rows
whose cached neighbour was not part of it. One restart shows a run on the databases
of another. Only what a first run of `duplicate` writes is followed into `pslice`:
later runs write a trace of the same kind.

`CHECK_DEADLOCK FALSE` in these runs: the programs end.

### What the tools do outside the preconditions

Facts met while modelling, at their lines under `code/InferenceAttacks`:

* `single_stream/locality_count.cc:109, 162`: a neighbour is stored as a C string; a
  fingerprint with a zero byte enters a row as another fingerprint, which may be in no
  database, where the thesis has the co-occurrences of every unique chunk
  (`paper/DistributionAttack.tex:14`), and the printed rate can then exceed 100% (`locality_attack.cc:394`).
* `locality_attack.cc:276-301`: if one trace has fewer than u chunks the two queues
  start with different lengths, and every later pair is shifted.
* `locality_attack.cc:322`: two heaps of different size are popped in step from the
  small end, so the longer row loses its most frequent chunks.
* `entropy_attack.cc:375, 401`: the window of ranks is not symmetric, and the record
  also holds the plaintext half of a pair, which keeps that chunk from being inferred.
* `multistream/src/similarity/pslice.cc:115, 282`: a second `pslice` on the same output
  overwrites segments that slices of the first still list.
* `cslice.cc:387`: the ratio of a slice is an integer division, 1 when all its
  segments share their minimum fingerprint and 0 otherwise.
* `alglib/dataanalysis.cpp:32854`: classes may be exactly r apart, where the thesis has
  more than the parameter.
* `pair.cc:530`: two chunks of different size are compared for ever; `ProgramsEnd` shows
  that this is the only loop that does not end.
* `pair.cc:59`: `operator ==` of segments compares up to the end of the shorter one, so
  chunks are counted that the matched segment does not have.
* `Bucket/src/inferChunksType.cc:179`, `readInChunkToDBsFileType.cc:108`: the queues are
  not emptied between buckets, so chunks of different sizes are paired, and a chunk of
  two types is ranked twice.
* `Bucket/src/readChunksToDBs.cc:60-62`: a reader killed between `insertFCdb` and
  `insertSFdb` leaves a chunk that no later run puts into its bucket.

### What the refuted properties show

* `OrphansAreScheduled`: the collector meets a due record whose key is still in
  `tempHt`, finds nothing in the shard and deletes the record; `ArchiveSync` then
  moves the key, count 0, to the shard, where no scan will find it
  (`RocksDBMap.java:526-531`). The chunk is never reclaimed; no data is lost.
* `AckedIsWritten`: after a failed `ch.write` (`HashBlobArchive.java:1303`) the map
  keeps the hash, and the next write of the chunk is taken for a duplicate.
  `AckedInFile` says this is the only way to a false answer.
* `CloseReturns`: the `SyncQueue` thread ends on `closed` (line 2399) with archives
  still queued, and `close()` polls `rchunks` for ever.
* `OrphansRemoved`: `compact()` (lines 1927-1934) returns at once for every stored
  archive whose staged map opens, and the loader of `wMaps` always opens one.

## Fairness

`FairSpec` of `HashBlobArchive`: weak fairness for each writer's own steps, each
upload thread, each `MoveThread`, the `SyncQueue` thread and the polling loop of
`close()` - they are Java threads that are always runnable or wait with a
timeout. Strong fairness only for taking the write side of `slock`: other
writers may hold the lock again and again, but `ReentrantReadWriteLock` lets
new readers queue behind a waiting writer, so the writer gets its turn. No
fairness for callers, `sync`, `close`, faults. `ReuseSpec` of `ArchiveReuse` adds strong
fairness for the read side of `slock`: in behaviours without an end a reader may find
the lock taken for writing infinitely often, and the queue of waiting threads is what
lets it in. The lock is created in its default, non-fair mode, whose documentation
gives no bound, so this is an assumption about the Java library. `StoreFairSpec`: weak fairness of
the store's background thread, an endless loop with a sleep.

The tools are single-threaded: `WF(Next)` in `SSpec`, `MSpec` and `BSpec` says that
the running program goes on as long as it has a step, and nothing else is assumed.
Kills are bounded, as a study that is always killed does not end.

## Proofs

All theorems hold for every value of the constants, under the named
assumptions (`None` is no entry, record or archive; bounds are naturals;
`Default` is a file; the sets of fingerprints and of file types are finite, as
fingerprints have a fixed length; traces are sequences of them).

`HashesMap_proofs`: `IndInv` is the conjunction of `TypeOK`,
`TempAndDbDisjoint`, `RefCountExact` and `RemovalPositionCurrent`. Each is
needed by the others: a collected key has count zero in the *shard*, which says
nothing of the references unless the key is not in `tempHt` too; exactness
of counts needs that what the collector deletes is the archive the index names;
and that the record and the stale snapshot name it needs that a key keeps its
archive as long as it is indexed. The argument is key by key: a step changes
the tables of one hash, and one lemma per operation shows that the part of the
invariant about that hash is kept. `OnlyDeadKeysLeave` follows as an action
property.

`BatchFileChunkStore_proofs`: each step of the store is a step of the index or
leaves the index alone (refinement), so `IndInv` is an invariant of the
store; `StoreInv` is inductive relative to it. Its key part, `CompactionKeeps`,
says that what compaction has not asked about or will copy includes every
chunk indexed in the archive. It is preserved because a key can only start to
name an archive that is open (`TempIsOpen`), and compaction works on stored
ones: an old "not indexed" stays true.

`HashBlobArchive_proofs`: `ArchiveInv` is inductive with every fault allowed.
`ContentInv` accounts for each map entry without data: it belongs to a write in
progress or a failed one; together with "closed before drained before uploaded"
it gives `UploadComplete`. `CallsInv` (no two calls on one hash, from the lock
`RocksDBMap.put` holds) makes the answer to a duplicate true. `LockInv` carries
the double check under the write lock to the `Install`, which gives
`NeverDisplaced`. `QueueInv` gives `LeavesReported`.

`DataLemmas` holds what the proofs about the tools share: induction over the
naturals and over finite sets in a form without an operator parameter (a set
that contains 0 and is closed under successor contains `Nat`), the least element
of a set, ranges and injectivity of sequences under `Append` and `Tail`, and the
sum of a function over a finite set - that it exists, does not depend on the
order, and what adding, removing or changing one element does to it. Sums are
recursive functions of the community modules; these lemmas are what makes
statements such as "a rate is at most one" provable.

`SingleStream_proofs`: that the tables are those of the
trace (`CountingRefines`) rests on one fact about `Bump` - a packed row with no
fingerprint twice keeps that form and gains one in one entry. So the rows are the
tables of cut neighbours (`RowTables`), and for a neighbour in `Whole` those are the
tables of the thesis (`ChunkTables`), as no other fingerprint is cut to it. `SInv` is
`CountInv /\ AttackInv`. Of `AttackInv`, `TablesInv` says that the loaded tables are
those of traces that were counted; `QueueInv` that the queues hold known chunks,
that no target chunk is queued twice or after it was tried, and that whatever is
queued or tried is marked in `uniq`; `StatInv` that the total is the number of target
chunks and that the printed counters count a set of leaked ones; `WorkInv` types the
work list and the batch in hand; `RankInv` says that the heap ranks the table main is
at, and that the auxiliary ranking is kept while the target's is made.
`RateAtMostOne` needs them together: the numerator counts distinct target chunks,
which is `InferredOnce`, and they are chunks of the target's table, which `TablesInv` and
the precondition on zero bytes give.

`BucketStudy_proofs`: `BInv` is `ReadInv /\ PlaceInv /\ InferInv /\ FileInv`.
`LostOnlyByKills` is not inductive: while a chunk is in one database and not yet
in the other it is missing from its bucket although no kill has happened, so
`PlaceInv` carries the pending chunk as the one exception. `PairedOnce` needs that
a chunk is in the queues at most once and that the bucket of whatever is queued
has been visited; `OutputCounted` that the domain of the output database is the
set of right pairs and the counter the sum of their counts; `RatesAreShares` that
the entry of the file in hand counts the chunks read of it so far and that a
file written to the database has at least one.

`Clusterizer_proofs`: two invariants, about the rows and about the tree. `NearestKept` is
not inductive alone: a row is searched again only if its neighbour took part in the
merge, so one has to know that the merge made no other row nearer. `RowInv` (in `AhcInv`)
says that a cell of the matrix between two rows in use is the greatest distance between
the points of their clusters; with complete linkage a merge then never lowers a cell,
and the pair with the least cell is the pair that `Linkage` may merge, which is the
refinement `ClusterizerImplements` (`MergeInv`, `RunInv` and `ForgetInv` are its steps).

`TreeInv` is for what is done with the merges afterwards. The code keeps no history: it
rebuilds the clusters from the merge list, and `Size`, `Spans` and `PointsOf` define by
recursion what it computes. `TreeInv` therefore says that *there is* a function `G` from
cluster numbers to points with `G[c] = {c}` for points and the union of the two halves
for merges (`IsTree`), and the lemmas show, by induction over the cluster numbers, that
the three recursive functions are `G`, its cardinalities and a layout of it. About `G`:
the clusters alive after `l` merges partition the points (`TreeParted`); no two
points of the halves of a merge are farther apart than its distance, and any two clusters
alive before it have points at least that far apart (`IsLinkage`), so merge distances never decrease (`MergesRise`) and
all points of a cluster are within the distance of its last merge (`TreeWithin`). The span
of a cluster contains the positions of its points and is divided by its halves (`LaidOut`),
which is why replaying a merge over positions relabels the right points (`SplitTree`). With the radius between
the distances of two successive merges (`RadiusInv`), the `k` clusters present are those
alive after `npoints - k` merges, and their ranks number them without a gap (`RanksOnto`).
`ClassesHold`, `ClassClose` and `ClassZero` read `ClassesAreClusters` off that, and
what `cslice` needs of it.

`Multistream_proofs`: `MInv` is `DupInv /\ SegInv /\ AhcInv /\ TreeInv /\ PairInv /\ PhaseInv /\
SimInv`, one part per program and two that tie them: the clusterizer is in use only in
`cslice` after the file has been read (`PhaseInv`), and then its matrix is that of the
segments' chunk sets, the slice database is empty until `port2slice` and then holds the
classes (`SimInv`): `port2slice` appends to what it finds. That the matrix handed over
is one of natural numbers (`JaccardType`) needs that no segment of `cslice` is empty, which
`CountInv` carries. `SlicesAreSimilar` follows from the diameter of the classes and two
facts about the rounded Jaccard distance: below `r` it leaves more than `1 - r` of the
union in common (`JaccardNear`), and it is zero only for equal sets (`JaccardZero`), so that
zero distance is transitive and equal segments are merged before any cut. For the segmentation, `CutInv` adds to
`SegmentsAreTheFile` that the last segment written could not have taken the chunk that
opened the current one; `ClassInv` that identifiers in the slices are those given so
far, so that a new segment is in no slice yet. For `duplicate`, `CountPass` excepts the one
count that is deleted and not yet put back, and says "at least" where an older run
may have counted; `RemovePass` says which lines are written. For `pair`, `RanksInv` says
that everything paired is marked used and lies below the rank at hand, `InferInv` that
the two counters together count the right entries this run has added.

Only model-checked: the liveness properties `WriteReturns`, `ArchiveDrains`, `Terminates`,
`ProgramsEnd` and `StudyEnds` (fairness and `ENABLED` are out of the prover's reach), and
the four refuted properties. Every invariant and every safety action property of a passing
run is a theorem.

## Not modelled

SDFS: reads (`getBlock`), the size-bounded caches of maps and files, compression
and encryption, RocksDB errors inside one operation, `maxQueueSize # 0`,
`allowSync`, start-up and recovery, the file layer, cloud stores, front ends,
replication and management; two archives that draw the same random identifier.
`moveFile` moves the data file of a compacted archive and then its map
(`HashBlobArchive.java:2088-2091`); here both are one step, which succeeds or leaves the
archive as it was, so a failure between the two is not covered.

The tools: `k_minhash.cc` writes a database that is only read with `E_ATTACK = 1`,
which is compiled as 0; `tran2vm_*` convert a file format; `newCslice.cc`, `mkDB.cc`
and `cmpWHFile.cpp` do not compile as they are; the other programs of `Bucket/src`
print databases. Reruns of `pslice` on the databases of an earlier run are left out
of the composition, see above for what they do; so are a kill of `cslice` inside
`port2slice` and the rerun that would append to the slices stored before it.
`inferChunksType` starts on a new output database, where the code opens an existing one.
`getEntropy` takes at most 5000 chunks of a list and writes arrays of 4000 entries
(`entropy_attack.cc:18-19, 449-450`); the lists of the model stay below both.

alglib, with 308,000 of the 313,000 lines of C++ in the repository, is a vendored
floating-point library of which `cslice` calls one class; the functions behind that
class are modelled with the linkage `cslice` uses, the rest (linear algebra,
optimizers, splines, statistics, other clusterings) is called by no program here and
is arithmetic that neither TLC nor the prover reaches. Counted against all C++ files
the share of modelled lines is therefore small; of the programs the thesis wrote it
is most of the code. `PROJECT.json` gives the reason for each part left out.

## Plan

1. Crash and restart: index writes without a write-ahead log
   (`RocksDBMap.java:370`), archives left in staging, `ConsistancyCheck`, `FDisk`;
   what survives, what the counts are afterwards.
2. File layer: `WritableCacheBuffer`/`SparseDedupFile` flush with timeouts,
   `LongByteArrayMap` update, copy and truncate, open-file table, against an
   abstract deduplicated file; it discharges the protocol `HashesMap` assumes of
   its clients.
3. Composition of `HashBlobArchive` with the index through `ArchiveSync`, replacing
   the open/stored reduction of `BatchFileChunkStore` by a refinement.
4. Reads against move, compaction and cache eviction.
5. Proofs of the invariants of 1-4.
