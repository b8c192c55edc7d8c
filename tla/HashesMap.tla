----------------------------- MODULE HashesMap -----------------------------
(***************************************************************************)
(* The persistent chunk index of SDFS, org.opendedup.collections.RocksDBMap *)
(* and the reference-counting garbage collector that runs over it.          *)
(*                                                                         *)
(* The index maps the hash of a chunk to the archive that stores it and to  *)
(* the number of places in the files of the volume that refer to it.  A new *)
(* entry is born in the volatile table tempHt and is moved to the RocksDB   *)
(* shards dbs when its archive is reported durable.  A key whose count      *)
(* falls to zero is written to the removal database rmdb with the time from *)
(* which it may be collected; claimRecords walks rmdb with an iterator,     *)
(* i.e. a snapshot, while writers keep changing all three tables.           *)
(*                                                                         *)
(* Every method of RocksDBMap works on one key under the lock of that key   *)
(* (getLock), so each method is one action; claimRecords and                *)
(* hashBlobArchiveSync take the lock once per key, so they are one action   *)
(* per key.                                                                 *)
(***************************************************************************)
EXTENDS Integers

CONSTANTS
    Hash,           \* chunk fingerprints
    Archive,        \* identifiers of the archives that hold chunks
    None,           \* "no entry": the null of the Java maps
    References,     \* values of ChunkData.references a writer passes to put
    rmthreashold,   \* grace period before a removal record may be acted upon
    MaxCt,          \* bound: references per hash
    MaxTime         \* bound: clock

Entry   == [pos : Archive, ct : Int]
RmEntry == [pos : Archive, tm : Nat]

ASSUME NoneAssumption == None \notin Entry \cup RmEntry \cup Archive
ASSUME TimeAssumption == rmthreashold \in Nat /\ MaxTime \in Nat
ASSUME CtAssumption   == MaxCt \in Nat /\ References \subseteq Int

VARIABLES
    tempHt,     \* hash -> entry not yet in RocksDB
    dbs,        \* hash -> entry in the RocksDB shards
    rmdb,       \* hash -> removal record
    now,        \* System.currentTimeMillis()
    gc,         \* "idle" or "scan": the synchronized claimRecords
    iter,       \* what is left of claimRecords' snapshot of rmdb
    held        \* hash -> archive -> references stored in the files' maps

tables  == <<tempHt, dbs, rmdb>>
gcVars  == <<gc, iter>>
vars    == <<tempHt, dbs, rmdb, now, gc, iter, held>>

-----------------------------------------------------------------------------
(* The lookups.  Every reader asks tempHt first and the shards second. *)

Found(h)  == IF tempHt[h] # None THEN tempHt[h] ELSE dbs[h]

\* get: the archive of a hash, or None (the -1 of the code).
Lookup(h) == IF Found(h) = None THEN None ELSE Found(h).pos

Count(h)  == IF Found(h) = None THEN 0 ELSE Found(h).ct

\* Mutant: a key without references counts as absent.
mightContainLiveKey(h, archive) == Lookup(h) = archive /\ Count(h) > 0

\* mightContainKey: the question compaction asks before it drops a chunk.
mightContainKey(h, archive) == Lookup(h) = archive

\* A count below one stands for a single reference.
Refs(n) == IF n <= 0 THEN 1 ELSE n

-----------------------------------------------------------------------------
Init ==
    /\ tempHt = [h \in Hash |-> None]
    /\ dbs    = [h \in Hash |-> None]
    /\ rmdb   = [h \in Hash |-> None]
    /\ now    = 0
    /\ gc     = "idle"
    /\ iter   = [h \in Hash |-> None]
    /\ held   = [h \in Hash |-> [p \in Archive |-> 0]]

(***************************************************************************)
(* put(cm).  In each case the caller is told the archive of the chunk and   *)
(* records that many references to it in the map of its file.              *)
(***************************************************************************)
Hold(h, p, n) == held' = [held EXCEPT ![h][p] = @ + n]

\* The key waits in tempHt: only its count changes, rmdb is left alone.
PutTemp(h, n) ==
    /\ tempHt[h] # None
    /\ tempHt' = [tempHt EXCEPT ![h].ct = @ + Refs(n)]
    /\ UNCHANGED <<dbs, rmdb>>
    /\ Hold(h, tempHt[h].pos, Refs(n))

\* The key is new: persistData stores the chunk in archive p (or reports the
\* archive that already has it), and tempHt gets the entry.
PutNew(h, n, p) ==
    /\ tempHt[h] = None
    /\ dbs[h] = None
    /\ tempHt' = [tempHt EXCEPT ![h] = [pos |-> p, ct |-> Refs(n)]]
    /\ UNCHANGED <<dbs, rmdb>>
    /\ Hold(h, p, Refs(n))

\* The key is in a shard: a count that is not positive restarts from zero and
\* the removal record goes.
PutDb(h, n) ==
    /\ tempHt[h] = None
    /\ dbs[h] # None
    /\ LET dead == dbs[h].ct <= 0
       IN  /\ dbs'  = [dbs EXCEPT ![h].ct = (IF dead THEN 0 ELSE @) + Refs(n)]
           /\ rmdb' = IF dead THEN [rmdb EXCEPT ![h] = None] ELSE rmdb
    /\ UNCHANGED tempHt
    /\ Hold(h, dbs[h].pos, Refs(n))

put(h, n, p) ==
    /\ Count(h) + Refs(n) <= MaxCt
    /\ PutTemp(h, n) \/ PutNew(h, n, p) \/ PutDb(h, n)
    /\ UNCHANGED <<now, gcVars>>

(***************************************************************************)
(* claimKey(hash, val, ct): add ct, which may be negative, to the count of  *)
(* a key, provided the index agrees with the caller on the archive.         *)
(***************************************************************************)
\* Mutant: the grace period is subtracted.
RmRecordEarly(p) == [pos |-> p, tm |-> now - rmthreashold]

RmRecord(p) == [pos |-> p, tm |-> now + rmthreashold]

ClaimTemp(h, ct) ==
    LET sum == ct + tempHt[h].ct
    IN  /\ tempHt' = [tempHt EXCEPT ![h].ct = sum]
        /\ rmdb' = [rmdb EXCEPT ![h] =
                      IF sum <= 0 THEN RmRecord(tempHt[h].pos) ELSE None]
        /\ UNCHANGED dbs

ClaimDb(h, ct) ==
    LET sum == ct + dbs[h].ct
    IN  /\ dbs' = [dbs EXCEPT ![h].ct = sum]
        /\ rmdb' = [rmdb EXCEPT ![h] =
                      IF sum <= 0 /\ ct < 0 THEN RmRecord(dbs[h].pos) ELSE None]
        /\ UNCHANGED tempHt

claimKey(h, val, ct) ==
    IF Lookup(h) # val THEN UNCHANGED tables
    ELSE IF tempHt[h] # None THEN ClaimTemp(h, ct)
    ELSE ClaimDb(h, ct)

\* DedupFileStore.addRef: a file that stores a reference is copied.  The
\* callers do not look at the result of claimKey.
addRef(h, p, n) ==
    /\ held[h][p] > 0
    /\ Count(h) + n <= MaxCt
    /\ claimKey(h, p, n)
    /\ Hold(h, p, n)
    /\ UNCHANGED <<now, gcVars>>

\* DedupFileStore.removeRef: references are overwritten or their file deleted.
removeRef(h, p, n) ==
    /\ held[h][p] >= n
    /\ claimKey(h, p, -n)
    /\ Hold(h, p, -n)
    /\ UNCHANGED <<now, gcVars>>

(***************************************************************************)
(* hashBlobArchiveSync, for one hash of the archive that became durable.    *)
(* When a shard has the key already the method throws and changes nothing.  *)
(***************************************************************************)
\* Mutant: the entry stays in tempHt.
SyncKeepsTemp(h) ==
    /\ tempHt[h] # None
    /\ dbs' = IF dbs[h] # None THEN dbs ELSE [dbs EXCEPT ![h] = tempHt[h]]
    /\ UNCHANGED <<tempHt, rmdb, now, gcVars, held>>

\* Mutant: the entry leaves tempHt and the write to the shard is lost.
SyncLosesWrite(h) ==
    /\ tempHt[h] # None
    /\ tempHt' = [tempHt EXCEPT ![h] = None]
    /\ UNCHANGED <<dbs, rmdb, now, gcVars, held>>

hashBlobArchiveSync(h) ==
    /\ tempHt[h] # None
    /\ IF dbs[h] # None
       THEN UNCHANGED <<tempHt, dbs>>
       ELSE /\ dbs'    = [dbs EXCEPT ![h] = tempHt[h]]
            /\ tempHt' = [tempHt EXCEPT ![h] = None]
    /\ UNCHANGED <<rmdb, now, gcVars, held>>

(***************************************************************************)
(* claimRecords.  The iterator sees rmdb as it was when the scan began; the *)
(* position and the time come from that snapshot, the test for presence and *)
(* the count from the live tables.                                          *)
(***************************************************************************)
StartScan ==
    /\ gc = "idle"
    /\ gc' = "scan"
    /\ iter' = rmdb
    /\ UNCHANGED <<tables, now, held>>

\* The record is still there and its grace period is over.
Due(h) == rmdb[h] # None /\ now > iter[h].tm

\* Mutant: the count is not looked at again.
DeadByRecord(h) == dbs[h] # None /\ dbs[h].pos = iter[h].pos

\* The shard has the key, unreferenced, in the archive of the record.
Dead(h) == dbs[h] # None /\ dbs[h].ct <= 0 /\ dbs[h].pos = iter[h].pos

\* setmDelete(true): the archives told to delete a chunk by the visit of h.
Deleted(h) == IF Due(h) /\ (dbs[h] = None \/ Dead(h)) THEN {iter[h].pos} ELSE {}

\* Mutant: the record of a collected key stays in rmdb.
VisitKeepsRecord(h) ==
    /\ gc = "scan"
    /\ iter[h] # None
    /\ iter' = [iter EXCEPT ![h] = None]
    /\ dbs'  = IF Due(h) /\ Dead(h) THEN [dbs EXCEPT ![h] = None] ELSE dbs
    /\ rmdb' = IF Due(h) /\ ~Dead(h) THEN [rmdb EXCEPT ![h] = None] ELSE rmdb
    /\ UNCHANGED <<tempHt, now, gc, held>>

VisitKey(h) ==
    /\ gc = "scan"
    /\ iter[h] # None
    /\ iter' = [iter EXCEPT ![h] = None]
    /\ dbs'  = IF Due(h) /\ Dead(h) THEN [dbs EXCEPT ![h] = None] ELSE dbs
    /\ rmdb' = IF Due(h) THEN [rmdb EXCEPT ![h] = None] ELSE rmdb
    /\ UNCHANGED <<tempHt, now, gc, held>>

\* The last record was visited, or an exception ended the scan before it.
EndScan ==
    /\ gc = "scan"
    /\ gc' = "idle"
    /\ iter' = [h \in Hash |-> None]
    /\ UNCHANGED <<tables, now, held>>

Tick ==
    /\ now < MaxTime
    /\ now' = now + 1
    /\ UNCHANGED <<tables, gcVars, held>>

-----------------------------------------------------------------------------
Next ==
    \/ \E h \in Hash, n \in References, p \in Archive : put(h, n, p)
    \/ \E h \in Hash, p \in Archive, n \in 1..MaxCt : addRef(h, p, n)
    \/ \E h \in Hash, p \in Archive, n \in 1..MaxCt : removeRef(h, p, n)
    \/ \E h \in Hash : hashBlobArchiveSync(h)
    \/ StartScan
    \/ \E h \in Hash : VisitKey(h)
    \/ EndScan
    \/ Tick

Spec == Init /\ [][Next]_vars

-----------------------------------------------------------------------------
TypeOK ==
    /\ tempHt \in [Hash -> Entry \cup {None}]
    /\ dbs    \in [Hash -> Entry \cup {None}]
    /\ rmdb   \in [Hash -> RmEntry \cup {None}]
    /\ now    \in Nat
    /\ gc     \in {"idle", "scan"}
    /\ iter   \in [Hash -> RmEntry \cup {None}]
    /\ held   \in [Hash -> [Archive -> Nat]]

(***************************************************************************)
(* Safety.                                                                  *)
(***************************************************************************)

\* A hash is never both in tempHt and in a shard: the situation that makes
\* hashBlobArchiveSync give up ("Persistent Hashtable already has an entry
\* that exists in the temp hashtable") and with it the rest of its list.
TempAndDbDisjoint == \A h \in Hash : tempHt[h] = None \/ dbs[h] = None

\* The count of a key is exactly the number of references the files hold to
\* the archive the index names, and no file refers to any other archive.  So
\* put, claimKey, the garbage collector with its stale iterator and the move
\* from tempHt to the shards never lose a key some file still needs.
RefCountExact ==
    \A h \in Hash, p \in Archive :
        held[h][p] = IF Lookup(h) = p THEN Count(h) ELSE 0

\* A removal record, and also every record left in the iterator's snapshot
\* however stale, names the archive the index has for that key.  So what
\* claimRecords deletes is the current copy and not an older or a newer one.
RemovalPositionCurrent ==
    \A h \in Hash :
        /\ rmdb[h] # None => Lookup(h) = rmdb[h].pos
        /\ iter[h] # None => Lookup(h) = iter[h].pos

\* Collecting is the only way out of the index: a step that makes a key
\* disappear finds no file that refers to it, and happens in a scan.
OnlyDeadKeysLeave ==
    [][\A h \in Hash :
         (Lookup(h) # None /\ Lookup(h)' = None)
            => gc = "scan" /\ \A p \in Archive : held[h][p] = 0]_vars

\* An unreferenced key in a shard has a removal record, so that a later scan
\* collects it.  ("orphaned data physically removed from underlying filesystem
\* after garbage collection", changes.txt)
OrphansAreScheduled ==
    \A h \in Hash :
        dbs[h] # None /\ dbs[h].ct <= 0 => rmdb[h] # None
=============================================================================
