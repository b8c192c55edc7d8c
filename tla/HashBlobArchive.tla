-------------------------- MODULE HashBlobArchive --------------------------
(***************************************************************************)
(* The life of an archive, org.opendedup.sdfs.filestore.HashBlobArchive:    *)
(* writers append chunks to the writable archive of their file (writeBlock, *)
(* putChunk); one upload thread per archive closes it and hands it to the   *)
(* chunk store (run, upload); the SyncQueue thread makes it durable and     *)
(* tells the index (ArchiveSync); a MoveThread takes it out of rchunks.     *)
(*                                                                         *)
(* Locks.  slock is a read/write lock on the table of writable archives.    *)
(* The lock of an archive is held only inside one atomic step here.  Its    *)
(* uploadlock is read-held by a writer from putChunk's tryLock to the end   *)
(* of the file write and write-held by upload: here that is the writer's pc *)
(* ("file", "ctor") and the guard of Upload.                                *)
(***************************************************************************)
EXTENDS Integers, FiniteSets, Sequences

CONSTANTS
    Writer,     \* threads that call writeBlock
    Hash,       \* chunk fingerprints
    Uuid,       \* files; each has its own writable archive
    Archive,    \* bound: the identifiers getNewArchiveID hands out
    None,       \* null
    Default,    \* the file of a call that names none, and of a new archive
    BlockSz,    \* bound: chunks in a full archive
    PoolSize,   \* threads of the upload executor
    Env         \* what happens to the program besides writes: "fault", an I/O
                \* operation may fail; "sync", sync() is called; "close", close()

ASSUME NoneAssumption == None \notin Archive \cup Uuid \cup [h : Hash, u : Uuid]
ASSUME DefaultAssumption == Default \in Uuid
ASSUME SizeAssumption == BlockSz \in Nat \ {0} /\ PoolSize \in Nat
ASSUME EnvAssumption == Env \subseteq {"fault", "sync", "close"}

VARIABLES
    pc,         \* writer -> where it is in writeBlock
    lk,         \* writer -> what it holds of slock
    job,        \* writer -> the hash and the file of its call
    at,         \* writer -> the archive it writes to
    writableArchives,   \* file -> its writable archive
    rchunks,    \* archives that are not yet stored
    writeable,  \* archive -> its flag
    owner,      \* archive -> its uuid field
    wMap,       \* archive -> hashes in its staged map
    file,       \* archive -> hashes whose data is in its staged file
    thread,     \* archive -> where its upload thread is in run
    store,      \* archive -> hashes in the copy the chunk store was given
    syncQueue,  \* archives waiting for the SyncQueue thread
    sq,         \* where the SyncQueue thread is
    cur,        \* the archive it took
    syncd,      \* archive -> its flag
    moving,     \* archives handed to a MoveThread
    closed,     \* "no", "closing" (close has set the flag) or "closed"
    acked,      \* <<hash, archive>> some writeBlock answered
    reported,   \* <<hash, archive>> of the ArchiveSync events
    torn        \* <<hash, archive>> whose file write failed

callVars  == <<pc, lk, job, at>>
arVars    == <<writeable, owner, wMap, file, thread, store>>
syncVars  == <<syncQueue, sq, cur, syncd, moving>>
vars == <<callVars, writableArchives, rchunks, arVars, syncVars, closed,
          acked, reported, torn>>

-----------------------------------------------------------------------------
Unused == {a \in Archive : thread[a] = "unused"}
Active == {w \in Writer : pc[w] # "idle"}
MayCreate == {w \in Writer : pc[w] \in {"enter", "try", "relock", "write"}}

Running(a) == thread[a] \in {"wait", "drain", "uploaded"}
CallerRun(a) == \E w \in Writer : pc[w] = "run" /\ at[w] = a
PoolBusy == Cardinality({a \in Archive : Running(a) /\ ~CallerRun(a)}) >= PoolSize

\* The writers that hold the uploadlock of a.
InFlight(a) == {w \in Writer : pc[w] \in {"file", "ctor"} /\ at[w] = a}

Init ==
    /\ pc  = [w \in Writer |-> "idle"]
    /\ lk  = [w \in Writer |-> "none"]
    /\ job = [w \in Writer |-> None]
    /\ at  = [w \in Writer |-> None]
    /\ writableArchives = [u \in Uuid |-> None]
    /\ rchunks   = {}
    /\ writeable = [a \in Archive |-> FALSE]
    /\ owner     = [a \in Archive |-> Default]
    /\ wMap      = [a \in Archive |-> {}]
    /\ file      = [a \in Archive |-> {}]
    /\ thread    = [a \in Archive |-> "unused"]
    /\ store     = [a \in Archive |-> {}]
    /\ syncQueue = <<>>
    /\ sq        = "take"
    /\ cur       = None
    /\ syncd     = [a \in Archive |-> FALSE]
    /\ moving    = {}
    /\ closed    = "no"
    /\ acked = {} /\ reported = {} /\ torn = {}

(***************************************************************************)
(* writeBlock.  The caller is ChunkData.persistData inside RocksDBMap.put,  *)
(* which holds the lock of the hash: no two calls are about one hash.  A    *)
(* hash may be written again: its key may have been collected since.        *)
(***************************************************************************)
Target(w) == writableArchives[job[w].u]

\* Mutant: putChunk forgets to look at the writeable flag.
PutResultIgnoresFlag(a, h) ==
    IF Cardinality(wMap[a]) >= BlockSz THEN "full"
    ELSE IF h \in wMap[a] THEN "exists"
    ELSE "ok"

PutResult(a, h) ==
    IF ~writeable[a] THEN "readonly"
    ELSE IF Cardinality(wMap[a]) >= BlockSz THEN "full"
    ELSE IF h \in wMap[a] THEN "exists"
    ELSE "ok"

Goto(w, where, lock) ==
    /\ pc' = [pc EXCEPT ![w] = where]
    /\ lk' = [lk EXCEPT ![w] = lock]

\* The call ends; unlock what is held.
Return(w) ==
    /\ Goto(w, "idle", "none")
    /\ job' = [job EXCEPT ![w] = None]
    /\ at'  = [at EXCEPT ![w] = None]

\* Mutant: the answer is read from the table, not from the archive written to.
AckFromTable(w, a) == acked' = acked \cup {<<job[w].h, Target(w)>>}

Ack(w, a) == acked' = acked \cup {<<job[w].h, a>>}

\* closed is not volatile: a call may still come in while close() waits.
\* Bound: a call starts only while the archive it may need can be made.
Call(w, h, u) ==
    /\ pc[w] = "idle"
    /\ closed # "closed"
    /\ \A v \in Active : job[v].h # h
    /\ Cardinality(Unused) > Cardinality(MayCreate)
    /\ Goto(w, "enter", "none")
    /\ job' = [job EXCEPT ![w] = [h |-> h, u |-> u]]
    /\ UNCHANGED <<at, writableArchives, rchunks, arVars, syncVars, closed,
                   acked, reported, torn>>

\* slock.readLock().lock()
LockRead(w) ==
    /\ pc[w] = "enter"
    /\ \A v \in Writer : lk[v] # "write"
    /\ Goto(w, "try", "read")
    /\ UNCHANGED <<job, at, writableArchives, rchunks, arVars, syncVars, closed,
                   acked, reported, torn>>

\* slock.writeLock().lock(), after the first attempt failed
LockWrite(w) ==
    /\ pc[w] = "relock"
    /\ \A v \in Writer : lk[v] = "none"
    /\ Goto(w, "write", "write")
    /\ UNCHANGED <<job, at, writableArchives, rchunks, arVars, syncVars, closed,
                   acked, reported, torn>>

\* putChunk under the lock of the archive, when there is room: the map gets
\* the hash now, the file gets the data in a later step.
Insert(w) ==
    /\ pc[w] \in {"try", "write"}
    /\ Target(w) # None
    /\ PutResult(Target(w), job[w].h) = "ok"
    /\ wMap' = [wMap EXCEPT ![Target(w)] = @ \cup {job[w].h}]
    /\ at' = [at EXCEPT ![w] = Target(w)]
    /\ Goto(w, "file", lk[w])
    /\ UNCHANGED <<job, writableArchives, rchunks, writeable, owner, file, thread,
                   store, syncVars, closed, acked, reported, torn>>

\* The archive's map has the hash: HashExistsException names the archive and
\* the caller takes that for its answer.
Exists(w) ==
    /\ pc[w] = "try"
    /\ Target(w) # None
    /\ PutResult(Target(w), job[w].h) = "exists"
    /\ Ack(w, Target(w))
    /\ Return(w)
    /\ UNCHANGED <<writableArchives, rchunks, arVars, syncVars, closed, reported,
                   torn>>

\* A full archive stops being writable.
CloseIfFull(w) ==
    writeable' = IF PutResult(Target(w), job[w].h) = "full"
                 THEN [writeable EXCEPT ![Target(w)] = FALSE] ELSE writeable

\* Mutant: the read lock is kept while the write lock is asked for.
MissKeepsLock(w) ==
    /\ pc[w] = "try"
    /\ \/ Target(w) = None /\ UNCHANGED writeable
       \/ /\ Target(w) # None
          /\ PutResult(Target(w), job[w].h) \in {"full", "readonly"}
          /\ CloseIfFull(w)
    /\ Goto(w, "relock", lk[w])
    /\ UNCHANGED <<job, at, writableArchives, rchunks, owner, wMap, file, thread,
                   store, syncVars, closed, acked, reported, torn>>

\* No archive, or one that is full or read-only: unlock and ask for slock again,
\* this time to write.
Miss(w) ==
    /\ pc[w] = "try"
    /\ \/ Target(w) = None /\ UNCHANGED writeable
       \/ /\ Target(w) # None
          /\ PutResult(Target(w), job[w].h) \in {"full", "readonly"}
          /\ CloseIfFull(w)
    /\ Goto(w, "relock", "none")
    /\ UNCHANGED <<job, at, writableArchives, rchunks, owner, wMap, file, thread,
                   store, syncVars, closed, acked, reported, torn>>

\* Under the write lock every exception of putChunk is swallowed; the loop
\* starts again with no lock held.
Retry(w) ==
    /\ pc[w] = "write"
    /\ Target(w) # None
    /\ PutResult(Target(w), job[w].h) \in {"full", "exists"}
    /\ CloseIfFull(w)
    /\ Goto(w, "try", "none")
    /\ UNCHANGED <<job, at, writableArchives, rchunks, owner, wMap, file, thread,
                   store, syncVars, closed, acked, reported, torn>>

\* Mutant: no second look under the write lock.
NeverWritable(w) == FALSE

HasWritable(w) == Target(w) # None /\ writeable[Target(w)]

\* A random 64-bit number.  Whether an archive has it is only asked below 100: two
\* equal draws are left out.  Which identifier it is is of no consequence.
getNewArchiveID == CHOOSE a \in Archive : a \in Unused

\* The constructor, up to the file write of its putChunk.
Create(w) ==
    LET a == getNewArchiveID IN
    /\ pc[w] = "write"
    /\ ~HasWritable(w)
    /\ Unused # {}
    /\ thread' = [thread EXCEPT ![a] = "born"]
    /\ writeable' = [writeable EXCEPT ![a] = TRUE]
    /\ rchunks' = rchunks \cup {a}
    /\ wMap' = [wMap EXCEPT ![a] = {job[w].h}]
    /\ at' = [at EXCEPT ![w] = a]
    /\ Goto(w, "ctor", "write")
    /\ UNCHANGED <<job, writableArchives, owner, file, store, syncVars, closed,
                   acked, reported, torn>>

\* Mutant: the data goes to whatever archive the table names by now.
FileWriteToTable(w) ==
    /\ pc[w] = "file"
    /\ file' = IF Target(w) = None THEN file
               ELSE [file EXCEPT ![Target(w)] = @ \cup {job[w].h}]
    /\ Ack(w, at[w])
    /\ Return(w)
    /\ UNCHANGED <<writableArchives, rchunks, writeable, owner, wMap, thread, store,
                   syncVars, closed, reported, torn>>

\* ch.write(buf, cp)
FileWrite(w) ==
    /\ pc[w] = "file"
    /\ file' = [file EXCEPT ![at[w]] = @ \cup {job[w].h}]
    /\ Ack(w, at[w])
    /\ Return(w)
    /\ UNCHANGED <<writableArchives, rchunks, writeable, owner, wMap, thread, store,
                   syncVars, closed, reported, torn>>

\* The same in the constructor; then executor.execute(this).  A saturated pool
\* makes the writer itself run the upload (CallerRunsPolicy).
CtorWrite(w) ==
    /\ pc[w] = "ctor"
    /\ file' = [file EXCEPT ![at[w]] = @ \cup {job[w].h}]
    /\ thread' = [thread EXCEPT ![at[w]] = "wait"]
    /\ Goto(w, IF PoolBusy THEN "run" ELSE "install", "write")
    /\ UNCHANGED <<job, at, writableArchives, rchunks, writeable, owner, wMap, store,
                   syncVars, closed, acked, reported, torn>>

\* ar.uuid = uuid; writableArchives.put(uuid, ar)
Install(w) ==
    /\ \/ pc[w] = "install"
       \/ pc[w] = "run" /\ thread[at[w]] = "queued"
    /\ owner' = [owner EXCEPT ![at[w]] = job[w].u]
    /\ writableArchives' = [writableArchives EXCEPT ![job[w].u] = at[w]]
    /\ Ack(w, at[w])
    /\ Return(w)
    /\ UNCHANGED <<rchunks, writeable, wMap, file, thread, store, syncVars, closed,
                   reported, torn>>

\* A file write fails and the map keeps the hash.  Under the write lock the
\* exception is swallowed (a new archive then stays in rchunks, with no upload
\* thread); otherwise the call fails.
WriteFails(w) ==
    /\ "fault" \in Env
    /\ pc[w] \in {"file", "ctor"}
    /\ torn' = torn \cup {<<job[w].h, at[w]>>}
    /\ IF lk[w] = "write"
       THEN /\ Goto(w, "try", "none")
            /\ at' = [at EXCEPT ![w] = None]
            /\ UNCHANGED job
       ELSE Return(w)
    /\ UNCHANGED <<writableArchives, rchunks, arVars, syncVars, closed, acked,
                   reported>>

(***************************************************************************)
(* run, the upload thread.  It waits at most THREAD_SLEEP_TIME; putChunk,   *)
(* sync(uuid) and close notify it, which only makes it wake sooner, so Mark *)
(* is enabled from the moment the thread waits.                             *)
(***************************************************************************)
\* upload, with the lock of the archive.  Whatever archive the table has for the
\* file by now is taken out; the file is still "default" if the constructor has
\* not returned.
Mark(a) ==
    /\ thread[a] = "wait"
    /\ thread' = [thread EXCEPT ![a] = "drain"]
    /\ writeable' = [writeable EXCEPT ![a] = FALSE]
    /\ writableArchives' = [writableArchives EXCEPT ![owner[a]] = None]
    /\ UNCHANGED <<callVars, rchunks, owner, wMap, file, store, syncVars, closed,
                   acked, reported, torn>>

\* Mutant: the upload does not wait for the uploadlock.
UploadAtOnce(a) ==
    /\ thread[a] = "drain"
    /\ store' = [store EXCEPT ![a] = file[a]]
    /\ thread' = [thread EXCEPT ![a] = "uploaded"]
    /\ UNCHANGED <<callVars, writableArchives, rchunks, writeable, owner, wMap, file,
                   syncVars, closed, acked, reported, torn>>

\* With the uploadlock: uploadFile gives the file to the chunk store.
Upload(a) ==
    /\ thread[a] = "drain"
    /\ InFlight(a) = {}
    /\ store' = [store EXCEPT ![a] = file[a]]
    /\ thread' = [thread EXCEPT ![a] = "uploaded"]
    /\ UNCHANGED <<callVars, writableArchives, rchunks, writeable, owner, wMap, file,
                   syncVars, closed, acked, reported, torn>>

\* The store refuses; the thread sleeps and does all of upload again.
UploadFails(a) ==
    /\ "fault" \in Env
    /\ thread[a] = "drain"
    /\ InFlight(a) = {}
    /\ thread' = [thread EXCEPT ![a] = "wait"]
    /\ UNCHANGED <<callVars, writableArchives, rchunks, writeable, owner, wMap, file,
                   store, syncVars, closed, acked, reported, torn>>

Enqueue(a) ==
    /\ thread[a] = "uploaded"
    /\ thread' = [thread EXCEPT ![a] = "queued"]
    /\ syncQueue' = Append(syncQueue, a)
    /\ UNCHANGED <<callVars, writableArchives, rchunks, writeable, owner, wMap, file,
                   store, sq, cur, syncd, moving, closed, acked, reported, torn>>

(***************************************************************************)
(* SyncQueue.run, one thread for the whole program.                         *)
(***************************************************************************)
\* while (!closed).  The flag is not volatile: a set flag may be seen late.
CheckClosed ==
    /\ sq = "check"
    /\ sq' \in IF closed = "no" THEN {"take"} ELSE {"take", "exit"}
    /\ UNCHANGED <<callVars, writableArchives, rchunks, arVars, syncQueue, cur, syncd,
                   moving, closed, acked, reported, torn>>

Take ==
    /\ sq = "take"
    /\ syncQueue # <<>>
    /\ cur' = Head(syncQueue)
    /\ syncQueue' = Tail(syncQueue)
    /\ sq' = "sync"
    /\ UNCHANGED <<callVars, writableArchives, rchunks, arVars, syncd, moving, closed,
                   acked, reported, torn>>

HashesOf(a) == wMap[a] \X {a}

\* Mutant: the index is not told.
SyncUnreported ==
    /\ sq = "sync"
    /\ syncd' = [syncd EXCEPT ![cur] = TRUE]
    /\ moving' = moving \cup {cur}
    /\ sq' = "check"
    /\ cur' = None
    /\ UNCHANGED <<callVars, writableArchives, rchunks, arVars, syncQueue, closed,
                   acked, reported, torn>>

\* Mutant: no MoveThread is started.
SyncUnmoved ==
    /\ sq = "sync"
    /\ reported' = reported \cup HashesOf(cur)
    /\ syncd' = [syncd EXCEPT ![cur] = TRUE]
    /\ sq' = "check"
    /\ cur' = None
    /\ UNCHANGED <<callVars, writableArchives, rchunks, arVars, syncQueue, moving,
                   closed, acked, torn>>

\* _sync, syncHashTables, syncd = true, and a MoveThread
SyncArchive ==
    /\ sq = "sync"
    /\ reported' = reported \cup HashesOf(cur)
    /\ syncd' = [syncd EXCEPT ![cur] = TRUE]
    /\ moving' = moving \cup {cur}
    /\ sq' = "check"
    /\ cur' = None
    /\ UNCHANGED <<callVars, writableArchives, rchunks, arVars, syncQueue, closed,
                   acked, torn>>

\* _sync throws: the archive is forgotten and stays in rchunks.
SyncFails ==
    /\ "fault" \in Env
    /\ sq = "sync"
    /\ sq' = "check"
    /\ cur' = None
    /\ UNCHANGED <<callVars, writableArchives, rchunks, arVars, syncQueue, syncd,
                   moving, closed, acked, reported, torn>>

\* MoveThread: moveDeleteArchive takes the archive out of rchunks.
Move(a) ==
    /\ a \in moving
    /\ moving' = moving \ {a}
    /\ rchunks' = rchunks \ {a}
    /\ UNCHANGED <<callVars, writableArchives, arVars, syncQueue, sq, cur, syncd,
                   closed, acked, reported, torn>>

\* sync(), without allow-sync: the index is told about every archive that has
\* not been through the queue, be it writable still.
SyncStatic(a) ==
    /\ "sync" \in Env
    /\ a \in rchunks
    /\ ~syncd[a]
    /\ reported' = reported \cup HashesOf(a)
    /\ UNCHANGED <<callVars, writableArchives, rchunks, arVars, syncVars, closed,
                   acked, torn>>

\* close(): set the flag, wait for rchunks to be empty.
Close ==
    /\ "close" \in Env
    /\ closed = "no"
    /\ closed' = "closing"
    /\ UNCHANGED <<callVars, writableArchives, rchunks, arVars, syncVars, acked,
                   reported, torn>>

CloseReturn ==
    /\ closed = "closing"
    /\ rchunks = {}
    /\ closed' = "closed"
    /\ UNCHANGED <<callVars, writableArchives, rchunks, arVars, syncVars, acked,
                   reported, torn>>

-----------------------------------------------------------------------------
WriteStep(w) ==
    \/ LockRead(w) \/ Insert(w) \/ Exists(w) \/ Miss(w)
    \/ Retry(w) \/ Create(w)
    \/ FileWrite(w) \/ CtorWrite(w) \/ Install(w)

UploadStep(a) == Mark(a) \/ Upload(a) \/ Enqueue(a)
SyncStep      == CheckClosed \/ Take \/ SyncArchive

Next ==
    \/ \E w \in Writer : \/ \E h \in Hash, u \in Uuid : Call(w, h, u)
                         \/ LockWrite(w)
                         \/ WriteStep(w)
                         \/ WriteFails(w)
    \/ \E a \in Archive : UploadStep(a) \/ UploadFails(a) \/ Move(a) \/ SyncStatic(a)
    \/ SyncStep \/ SyncFails
    \/ Close \/ CloseReturn

Spec == Init /\ [][Next]_vars

\* Every thread that can take a step takes one.  A writer that asks for the
\* write side of slock, again and again free in between, gets it: new readers
\* queue behind a waiting writer (ReentrantReadWriteLock).  The caller of
\* writeBlock and of close is free to do nothing.
Fairness ==
    /\ \A w \in Writer : WF_vars(WriteStep(w)) /\ SF_vars(LockWrite(w))
    /\ \A a \in Archive : WF_vars(UploadStep(a)) /\ WF_vars(Move(a))
    /\ WF_vars(SyncStep)
    /\ WF_vars(CloseReturn)

FairSpec == Spec /\ Fairness

-----------------------------------------------------------------------------
TypeOK ==
    /\ pc \in [Writer -> {"idle", "enter", "try", "relock", "write", "file", "ctor",
                          "run", "install"}]
    /\ lk \in [Writer -> {"none", "read", "write"}]
    /\ job \in [Writer -> [h : Hash, u : Uuid] \cup {None}]
    /\ at \in [Writer -> Archive \cup {None}]
    /\ writableArchives \in [Uuid -> Archive \cup {None}]
    /\ rchunks \subseteq Archive
    /\ writeable \in [Archive -> BOOLEAN]
    /\ owner \in [Archive -> Uuid]
    /\ wMap \in [Archive -> SUBSET Hash]
    /\ file \in [Archive -> SUBSET Hash]
    /\ store \in [Archive -> SUBSET Hash]
    /\ thread \in [Archive -> {"unused", "born", "wait", "drain", "uploaded",
                               "queued"}]
    /\ syncQueue \in Seq(Archive)
    /\ sq \in {"check", "take", "sync", "exit"}
    /\ cur \in Archive \cup {None}
    /\ syncd \in [Archive -> BOOLEAN]
    /\ moving \subseteq Archive
    /\ closed \in {"no", "closing", "closed"}
    /\ acked \subseteq Hash \X Archive
    /\ reported \subseteq Hash \X Archive
    /\ torn \subseteq Hash \X Archive

(***************************************************************************)
(* Safety.                                                                  *)
(***************************************************************************)

\* A chunk whose write was answered with an archive is in the file of that
\* archive, or a write of that very chunk into it has failed before: the map
\* entry the failed putChunk left behind is the only way to a false answer.
AckedInFile ==
    \A p \in acked : p[1] \in file[p[2]] \/ p \in torn

\* The same with no excuse: an answer means the data was written.  ("Data will not
\* be written if the hash already exists in the db.", HashStore.addHashChunk)
AckedIsWritten ==
    \A p \in acked : p[1] \in file[p[2]]

\* What the chunk store was given is the whole archive: no putChunk adds to an
\* archive after its upload, and none is half way through when it is uploaded.
UploadComplete ==
    \A a \in Archive :
        thread[a] \in {"uploaded", "queued"}
            => \A h \in wMap[a] : h \in store[a] \/ <<h, a>> \in torn

\* An archive leaves rchunks, the table readers look in first, only when the
\* store has it and the index has been told of every hash in it.
LeavesReported ==
    \A a \in Archive \ (Unused \cup rchunks) :
        thread[a] = "queued" /\ HashesOf(a) \subseteq reported

\* writeBlock checks again under the write lock: a writable archive of a file
\* is never displaced by a newly made one.
NeverDisplaced ==
    [][\A u \in Uuid :
         LET a == writableArchives[u]
         IN  a # None /\ writableArchives'[u] \notin {a, None} => ~writeable[a]]_vars

(***************************************************************************)
(* Why the safety properties hold: the inductive invariant, by its parts.   *)
(***************************************************************************)

\* A call has a job; no two calls have the same hash; a call past putChunk's map
\* entry has an archive with that entry, which has been made and, but for the
\* constructor, has an upload thread; constructors make different archives.
CallsInv ==
    /\ \A w \in Writer : pc[w] # "idle" => job[w] # None
    /\ \A v, w \in Active : v # w => job[v].h # job[w].h
    /\ \A w \in Writer :
         /\ pc[w] \in {"file", "ctor", "run", "install"} => at[w] # None
         /\ pc[w] \in {"file", "ctor"} => job[w].h \in wMap[at[w]]
         /\ pc[w] \in {"run", "install"} => job[w].h \in file[at[w]]
         /\ pc[w] = "ctor" => thread[at[w]] = "born"
         /\ pc[w] \in {"file", "run", "install"}
              => thread[at[w]] \notin {"unused", "born"}
    /\ \A v, w \in Writer : pc[v] = "ctor" /\ pc[w] = "ctor" /\ at[v] = at[w] => v = w
    /\ \A u \in Uuid : writableArchives[u] # None
         => thread[writableArchives[u]] \notin {"unused", "born"}

\* The write side of slock excludes all others; the constructor is entered with it
\* and only when the file has no writable archive, and that stays so.
LockInv ==
    /\ \A v, w \in Writer : lk[w] = "write" /\ v # w => lk[v] = "none"
    /\ \A w \in Writer :
         /\ pc[w] \in {"write", "ctor", "run", "install"} => lk[w] = "write"
         /\ pc[w] \in {"ctor", "run", "install"} => ~HasWritable(w)

\* A map entry without its data belongs to a write in progress or to a failed one;
\* an archive whose upload has begun takes no new entry; an uploaded one has no
\* write in progress and is what the store was given.
Content(a) ==
    /\ \A h \in wMap[a] \ file[a] :
          <<h, a>> \in torn \/ \E w \in InFlight(a) : job[w].h = h
    /\ thread[a] \in {"drain", "uploaded", "queued"} => ~writeable[a]
    /\ thread[a] \in {"uploaded", "queued"} => InFlight(a) = {} /\ store[a] = file[a]

ContentInv == \A a \in Archive : Content(a)

\* The SyncQueue thread and the MoveThreads work on uploaded archives, and an
\* archive is moved after it was reported.
QueueInv ==
    /\ \A i \in 1..Len(syncQueue) : thread[syncQueue[i]] = "queued"
    /\ sq = "sync" => cur # None /\ thread[cur] = "queued"
    /\ \A a \in moving : thread[a] = "queued" /\ HashesOf(a) \subseteq reported

ArchiveInv ==
    /\ TypeOK
    /\ CallsInv
    /\ LockInv
    /\ ContentInv
    /\ QueueInv
    /\ AckedInFile
    /\ LeavesReported

(***************************************************************************)
(* Liveness, when no I/O fails.                                             *)
(***************************************************************************)

\* close() returns.  ("Fixed java hangs on  umount", changes.txt)
CloseReturns == closed = "closing" ~> closed = "closed"
=============================================================================
