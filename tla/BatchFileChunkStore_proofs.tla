--------------------- MODULE BatchFileChunkStore_proofs ---------------------
(***************************************************************************)
(* Proofs that no chunk a file refers to is lost to garbage collection and  *)
(* compaction, for any sets of hashes and archives.  The store is the index *)
(* of HashesMap with more state: each of its steps is a step of the index   *)
(* or leaves the index alone, so the invariant of HashesMap_proofs carries  *)
(* over, and StoreInv is inductive relative to it.                          *)
(***************************************************************************)
EXTENDS BatchFileChunkStore, HashesMap_proofs

-----------------------------------------------------------------------------
\* A step of the store is a step of the index or none at all.
LEMMA StepRefines == [StoreNext]_allVars => [Next]_vars
<1> SUFFICES ASSUME [StoreNext]_allVars PROVE [Next]_vars
  OBVIOUS
<1>1. CASE \E h \in Hash, n \in References, p \in Archive : StorePut(h, n, p)
  BY <1>1 DEF StorePut, Next
<1>2. CASE \E p \in Archive : Stored(p)
  BY <1>2 DEF Stored
<1>3. CASE \E h \in Hash : StoreVisit(h)
  BY <1>3 DEF StoreVisit, Next
<1>4. CASE IndexOnly
  BY <1>4 DEF IndexOnly, Next
<1>5. CASE CompactStep
  BY <1>5 DEF CompactStep, TakeDeletes, Skip, StartCompact, AskIndex, DeleteArchive,
              StartCopy, Replace, Finish
<1>6. CASE CopyFails
  BY <1>6 DEF CopyFails, Finish
<1>7. CASE UNCHANGED allVars
  BY <1>7 DEF allVars
<1>8. QED
  BY <1>1, <1>2, <1>3, <1>4, <1>5, <1>6, <1>7 DEF StoreNext

\* The store implements the index.
THEOREM StoreImplementsIndex == StoreSpec => Spec
<1>1. StoreInit => Init
  BY DEF StoreInit
<1>2. QED
  BY <1>1, StepRefines, PTL DEF StoreSpec, Spec

\* The invariant of the index is an invariant of the store.
LEMMA IndexInv == StoreSpec => []IndInv
  BY StoreImplementsIndex, Invariance, PTL

-----------------------------------------------------------------------------
(* What the operations of the index do to Lookup and tempHt. *)

\* Nothing a reader or a compaction sees of the index has changed, except that
\* entries may have left tempHt for the shards.
SameView ==
    \A k \in Hash :
        /\ Lookup(k)' = Lookup(k)
        /\ tempHt'[k] # None => tempHt[k] # None /\ tempHt'[k].pos = tempHt[k].pos

\* A step on the tables of one key keeps the view if it keeps that key's.
LEMMA OneKeyView ==
    ASSUME NEW h \in Hash, Lookup(h)' = Lookup(h),
           tempHt'[h] # None => tempHt[h] # None /\ tempHt'[h].pos = tempHt[h].pos,
           \A k \in Hash \ {h} : tempHt'[k] = tempHt[k] /\ dbs'[k] = dbs[k]
    PROVE  SameView
<1>1. \A k \in Hash \ {h} : Lookup(k)' = Lookup(k)
  BY DEF Lookup, Found
<1>2. QED
  BY <1>1 DEF SameView

\* claimKey moves no key.
LEMMA ClaimView ==
    ASSUME IndInv, NEW h \in Hash, NEW p \in Archive, NEW d \in Int, claimKey(h, p, d)
    PROVE  SameView
<1>1. Shape /\ TypeOK
  BY KeyByKey DEF IndInv
<1>2. CASE UNCHANGED tables
  BY <1>2 DEF SameView, Lookup, Found, tables
<1>3. CASE tempHt[h] # None /\ ClaimTemp(h, d)
  <2> DEFINE e == tempHt[h]
  <2>1. e \in Entry /\ e # None /\ Lookup(h) = e.pos
    BY <1>1, <1>3, LookupCases
  <2>2. tempHt'[h] = [e EXCEPT !.ct = d + e.ct]
    BY <1>1, <1>3 DEF ClaimTemp, Shape
  <2>3. tempHt'[h] \in Entry /\ tempHt'[h] # None /\ tempHt'[h].pos = e.pos
    BY <2>1, <2>2, NoneAssumption DEF Entry
  <2>4. Lookup(h)' = e.pos
    BY <2>3 DEF Lookup, Found
  <2>5. \A k \in Hash \ {h} : tempHt'[k] = tempHt[k] /\ dbs'[k] = dbs[k]
    BY <1>1, <1>3 DEF ClaimTemp, Shape
  <2>6. QED
    BY <2>1, <2>3, <2>4, <2>5, OneKeyView
<1>4. CASE tempHt[h] = None /\ Lookup(h) = p /\ ClaimDb(h, d)
  <2> DEFINE e == dbs[h]
  <2>1. e \in Entry /\ e # None /\ Lookup(h) = e.pos
    BY <1>1, <1>4, LookupCases, NoneAssumption
  <2>2. dbs'[h] = [e EXCEPT !.ct = d + e.ct] /\ tempHt' = tempHt
    BY <1>1, <1>4 DEF ClaimDb, Shape
  <2>3. dbs'[h] \in Entry /\ dbs'[h] # None /\ dbs'[h].pos = e.pos
    BY <2>1, <2>2, NoneAssumption DEF Entry
  <2>4. Lookup(h)' = e.pos
    BY <1>4, <2>2, <2>3 DEF Lookup, Found
  <2>5. \A k \in Hash \ {h} : tempHt'[k] = tempHt[k] /\ dbs'[k] = dbs[k]
    BY <1>1, <1>4 DEF ClaimDb, Shape
  <2>6. QED
    BY <1>4, <2>1, <2>2, <2>4, <2>5, OneKeyView
<1>5. QED
  BY <1>2, <1>3, <1>4 DEF claimKey

\* The steps the store takes no part in keep the view.
LEMMA IndexOnlyView == ASSUME IndInv, IndexOnly PROVE SameView
<1>1. Shape /\ TypeOK
  BY KeyByKey DEF IndInv
<1>2. ASSUME NEW h \in Hash, NEW p \in Archive, NEW n \in 1..MaxCt,
             addRef(h, p, n) \/ removeRef(h, p, n)
      PROVE  SameView
  <2>1. n \in Int /\ -n \in Int
    BY CtAssumption
  <2>2. QED
    BY <1>2, <2>1, ClaimView DEF addRef, removeRef
<1>3. ASSUME NEW h \in Hash, hashBlobArchiveSync(h)
      PROVE  SameView
  <2>1. Lookup(h)' = Lookup(h)
    BY <1>3, SyncKey
  <2>2. \A k \in Hash \ {h} : tempHt'[k] = tempHt[k] /\ dbs'[k] = dbs[k]
    BY <1>1, <1>3 DEF hashBlobArchiveSync, Shape
  <2>3. tempHt'[h] = None \/ tempHt'[h] = tempHt[h]
    BY <1>1, <1>3 DEF hashBlobArchiveSync, Shape
  <2>4. QED
    BY <2>1, <2>2, <2>3, OneKeyView
<1>4. CASE StartScan \/ EndScan \/ Tick
  BY <1>4 DEF StartScan, EndScan, Tick, tables, SameView, Lookup, Found
<1>5. QED
  BY <1>2, <1>3, <1>4 DEF IndexOnly

\* put of a known key keeps the view; put of a new one adds it, in tempHt, with
\* the archive that took the chunk.
LEMMA PutView ==
    ASSUME IndInv, NEW h \in Hash, NEW n \in References, NEW p \in Archive,
           put(h, n, p)
    PROVE  /\ ~IsNew(h) => SameView
           /\ IsNew(h) => /\ Lookup(h)' = p /\ tempHt'[h].pos = p
                          /\ \A k \in Hash \ {h} : Lookup(k)' = Lookup(k)
                                                   /\ tempHt'[k] = tempHt[k]
<1>1. Shape /\ TypeOK
  BY KeyByKey DEF IndInv
<1>2. \A k \in Hash \ {h} : tempHt'[k] = tempHt[k] /\ dbs'[k] = dbs[k]
  BY <1>1 DEF put, PutTemp, PutNew, PutDb, Shape
<1>3. \A k \in Hash \ {h} : Lookup(k)' = Lookup(k)
  BY <1>2 DEF Lookup, Found
<1>4. CASE PutTemp(h, n)
  <2> DEFINE e == tempHt[h]
  <2>1. e \in Entry /\ e # None /\ Lookup(h) = e.pos /\ e.pos \in Archive
    BY <1>1, <1>4, LookupCases DEF PutTemp
  <2>2. tempHt'[h] = [e EXCEPT !.ct = e.ct + Refs(n)]
    BY <1>1, <1>4 DEF PutTemp, Shape
  <2>3. Refs(n) \in Int
    BY RefsPositive
  <2>4. tempHt'[h] \in Entry /\ tempHt'[h] # None /\ tempHt'[h].pos = e.pos
    BY <2>1, <2>2, <2>3, NoneAssumption DEF Entry
  <2>5. Lookup(h)' = e.pos
    BY <2>4 DEF Lookup, Found
  <2>6. SameView
    BY <1>2, <2>1, <2>4, <2>5, OneKeyView
  <2>7. ~IsNew(h)
    BY <2>1, NoneAssumption DEF IsNew
  <2>8. QED
    BY <2>6, <2>7
<1>5. CASE PutNew(h, n, p)
  <2>1. tempHt'[h] = [pos |-> p, ct |-> Refs(n)] /\ IsNew(h)
    BY <1>1, <1>5, LookupCases DEF PutNew, Shape, IsNew
  <2>2. Refs(n) \in Int
    BY RefsPositive
  <2>3. tempHt'[h] \in Entry /\ tempHt'[h] # None /\ tempHt'[h].pos = p
    BY <2>1, <2>2, NoneAssumption DEF Entry
  <2>4. Lookup(h)' = p
    BY <2>3 DEF Lookup, Found
  <2>5. QED
    BY <1>2, <1>3, <2>1, <2>3, <2>4
<1>6. CASE PutDb(h, n)
  <2> DEFINE e == dbs[h]  c == (IF e.ct <= 0 THEN 0 ELSE e.ct) + Refs(n)
  <2>1. /\ e \in Entry /\ e # None /\ tempHt[h] = None
        /\ Lookup(h) = e.pos /\ e.pos \in Archive /\ e.ct \in Int
    BY <1>1, <1>6, LookupCases DEF PutDb
  <2>2. dbs'[h] = [e EXCEPT !.ct = c] /\ tempHt' = tempHt
    BY <1>1, <1>6 DEF PutDb, Shape
  <2>3. Refs(n) \in Int
    BY RefsPositive
  <2>4. c \in Int
    BY <2>1, <2>3
  <2> HIDE DEF c
  <2>5. dbs'[h] \in Entry /\ dbs'[h] # None /\ dbs'[h].pos = e.pos
    BY <2>1, <2>2, <2>4, NoneAssumption DEF Entry
  <2>6. Lookup(h)' = e.pos
    BY <2>1, <2>2, <2>5 DEF Lookup, Found
  <2>7. SameView
    BY <1>2, <2>1, <2>2, <2>6, OneKeyView
  <2>8. ~IsNew(h)
    BY <2>1, NoneAssumption DEF IsNew
  <2>9. QED
    BY <2>7, <2>8
<1>7. QED
  BY <1>4, <1>5, <1>6 DEF put

\* The collector can only make a key disappear, and what it asks the store to
\* delete from is an archive the index named.
LEMMA VisitView ==
    ASSUME IndInv, NEW h \in Hash, VisitKey(h)
    PROVE  /\ tempHt' = tempHt
           /\ \A k \in Hash : Lookup(k)' = Lookup(k) \/ Lookup(k)' = None
           /\ \A p \in Deleted(h) : p \in Archive /\ Lookup(h) = p
<1>1. Shape /\ TypeOK /\ Key(h)
  BY KeyByKey DEF IndInv
<1>2. tempHt' = tempHt /\ \A k \in Hash : dbs'[k] = dbs[k] \/ dbs'[k] = None
  BY <1>1 DEF VisitKey, Shape
<1>3. \A k \in Hash : Lookup(k)' = Lookup(k) \/ Lookup(k)' = None
  BY <1>2 DEF Lookup, Found
<1>4. iter[h] # None /\ iter[h] \in RmEntry /\ Lookup(h) = iter[h].pos
  BY <1>1 DEF VisitKey, Key
<1>5. \A p \in Deleted(h) : p \in Archive /\ Lookup(h) = p
  BY <1>4 DEF Deleted, RmEntry
<1>6. QED
  BY <1>2, <1>3, <1>5

-----------------------------------------------------------------------------
\* The empty store satisfies the invariant.
LEMMA StoreInitInv == StoreInit => StoreInv
  BY NoneAssumption
  DEF StoreInit, Init, StoreInv, StoreTypeOK, IndexedIsStored, TempIsOpen,
      CompactionKeeps, Lookup, Found

\* A step that keeps the view of the index and the store's own state.
LEMMA ViewStep ==
    ASSUME IndInv, StoreInv, SameView, UNCHANGED storeVars
    PROVE  StoreInv'
<1>1. StoreTypeOK'
  BY DEF StoreInv, StoreTypeOK, storeVars, compVars
<1>2. IndexedIsStored' /\ TempIsOpen'
  BY DEF StoreInv, IndexedIsStored, TempIsOpen, storeVars, SameView
<1>3. CompactionKeeps'
  BY DEF StoreInv, StoreTypeOK, CompactionKeeps, storeVars, compVars, SameView
<1>4. QED
  BY <1>1, <1>2, <1>3 DEF StoreInv

\* A step that leaves the index alone.
LEMMA SameIndex ==
    ASSUME UNCHANGED vars
    PROVE  \A k \in Hash : Lookup(k)' = Lookup(k) /\ tempHt'[k] = tempHt[k]
  BY DEF vars, Lookup, Found

\* put: a new chunk is stored where the index says, in an open archive.
LEMMA PutInv ==
    ASSUME IndInv, StoreInv, NEW h \in Hash, NEW n \in References, NEW p \in Archive,
           StorePut(h, n, p)
    PROVE  StoreInv'
<1>1. put(h, n, p)
  BY DEF StorePut
<1>2. CASE ~IsNew(h)
  <2>1. SameView
    BY <1>1, <1>2, PutView
  <2>2. UNCHANGED storeVars
    BY <1>2 DEF StorePut, storeVars
  <2>3. QED
    BY <2>1, <2>2, ViewStep
<1>3. CASE IsNew(h)
  <2>1. /\ Lookup(h)' = p /\ tempHt'[h].pos = p
        /\ \A k \in Hash \ {h} : Lookup(k)' = Lookup(k) /\ tempHt'[k] = tempHt[k]
    BY <1>1, <1>3, PutView
  <2>2. /\ p \notin stored /\ open' = open \cup {p}
        /\ blocks' = [blocks EXCEPT ![p] = @ \cup {h}]
        /\ UNCHANGED <<stored, deletes, odel, comp, target, todo, keep>>
    BY <1>3 DEF StorePut, compVars
  <2>3. StoreTypeOK'
    BY <2>2 DEF StoreInv, StoreTypeOK
  <2>4. \A q \in Archive : blocks[q] \subseteq blocks'[q] /\ h \in blocks'[p]
    BY <2>2 DEF StoreInv, StoreTypeOK
  <2>5. IndexedIsStored'
    <3> SUFFICES ASSUME NEW k \in Hash, Lookup(k)' # None
                 PROVE  Lookup(k)' \in open' \cup stored' /\ k \in blocks'[Lookup(k)']
      BY DEF IndexedIsStored
    <3>1. CASE k = h
      BY <2>1, <2>2, <2>4, <3>1
    <3>2. CASE k # h
      BY <2>1, <2>2, <2>4, <3>2 DEF StoreInv, StoreTypeOK, IndexedIsStored
    <3>3. QED
      BY <3>1, <3>2
  <2>6. TempIsOpen'
    BY <2>1, <2>2 DEF StoreInv, TempIsOpen
  <2>7. CompactionKeeps'
    <3>1. (deletes \cup odel)' \subseteq (open \cup stored)'
      BY <2>2 DEF StoreInv, CompactionKeeps
    <3>2. ASSUME comp # "idle"
          PROVE  /\ target \in stored
                 /\ \A k \in blocks'[target] : Lookup(k)' = target => k \in todo \cup keep
      <4>1. target \in stored /\ target # p /\ target \in Archive
        BY <2>2, <3>2 DEF StoreInv, StoreTypeOK, CompactionKeeps
      <4>2. blocks'[target] = blocks[target] /\ blocks[target] \subseteq Hash
        BY <2>2, <4>1 DEF StoreInv, StoreTypeOK
      <4>3. QED
        BY <2>1, <3>2, <4>1, <4>2 DEF StoreInv, CompactionKeeps
    <3>3. QED
      BY <2>2, <3>1, <3>2 DEF StoreInv, CompactionKeeps
  <2>8. QED
    BY <2>3, <2>5, <2>6, <2>7 DEF StoreInv
<1>4. QED
  BY <1>2, <1>3

\* The collector: keys disappear, delete requests are noted.
LEMMA VisitInv ==
    ASSUME IndInv, StoreInv, NEW h \in Hash, StoreVisit(h)
    PROVE  StoreInv'
<1>1. /\ tempHt' = tempHt
      /\ \A k \in Hash : Lookup(k)' = Lookup(k) \/ Lookup(k)' = None
      /\ \A p \in Deleted(h) : p \in Archive /\ Lookup(h) = p
  BY VisitView DEF StoreVisit
<1>2. /\ deletes' = deletes \cup Deleted(h)
      /\ UNCHANGED <<open, stored, blocks, odel, comp, target, todo, keep>>
  BY DEF StoreVisit, compVars
<1>3. Deleted(h) \subseteq Archive /\ Deleted(h) \subseteq open \cup stored
  BY <1>1, NoneAssumption DEF StoreInv, IndexedIsStored
<1>4. StoreTypeOK'
  BY <1>2, <1>3 DEF StoreInv, StoreTypeOK
<1>5. IndexedIsStored' /\ TempIsOpen'
  BY <1>1, <1>2 DEF StoreInv, IndexedIsStored, TempIsOpen
<1>6. CompactionKeeps'
  <2>1. (deletes \cup odel)' \subseteq (open \cup stored)'
    BY <1>2, <1>3 DEF StoreInv, CompactionKeeps
  <2>2. ASSUME comp # "idle", NEW k \in blocks[target], Lookup(k)' = target
        PROVE  k \in todo \cup keep
    <3>1. target \in Archive /\ target # None /\ k \in Hash
      BY <2>2, NoneAssumption DEF StoreInv, StoreTypeOK, CompactionKeeps
    <3>2. Lookup(k) = target
      BY <1>1, <2>2, <3>1
    <3>3. QED
      BY <2>2, <3>2 DEF StoreInv, CompactionKeeps
  <2>3. QED
    BY <1>2, <2>1, <2>2 DEF StoreInv, CompactionKeeps
<1>7. QED
  BY <1>4, <1>5, <1>6 DEF StoreInv

\* An archive that leaves rchunks has no entry in tempHt.
LEMMA StoredInv ==
    ASSUME IndInv, StoreInv, NEW p \in Archive, Stored(p)
    PROVE  StoreInv'
<1>1. \A k \in Hash : Lookup(k)' = Lookup(k) /\ tempHt'[k] = tempHt[k]
  BY SameIndex DEF Stored
<1>2. /\ p \in open /\ \A k \in Hash : tempHt[k] # None => tempHt[k].pos # p
      /\ open' = open \ {p} /\ stored' = stored \cup {p}
      /\ UNCHANGED <<blocks, deletes, odel, comp, target, todo, keep>>
  BY DEF Stored, compVars
<1>3. StoreTypeOK'
  BY <1>2 DEF StoreInv, StoreTypeOK
<1>4. IndexedIsStored' /\ TempIsOpen'
  BY <1>1, <1>2 DEF StoreInv, IndexedIsStored, TempIsOpen
<1>5. CompactionKeeps'
  BY <1>1, <1>2 DEF StoreInv, StoreTypeOK, CompactionKeeps
<1>6. QED
  BY <1>3, <1>4, <1>5 DEF StoreInv

\* The archive compact leaves behind has every chunk the index has there.
LEMMA FinishInv ==
    ASSUME IndInv, StoreInv, NEW left \in SUBSET Hash, comp # "idle", Finish(left),
           \A h \in blocks[target] : Lookup(h) = target => h \in left
    PROVE  StoreInv'
<1>1. \A k \in Hash : Lookup(k)' = Lookup(k) /\ tempHt'[k] = tempHt[k]
  BY SameIndex DEF Finish
<1>2. target \in stored /\ target \in Archive
  BY DEF StoreInv, StoreTypeOK, CompactionKeeps
<1>3. /\ blocks' = [blocks EXCEPT ![target] = left]
      /\ comp' = "idle" /\ target' = None /\ keep' = {}
      /\ UNCHANGED <<open, stored, deletes, odel, todo>>
  BY DEF Finish
<1>4. StoreTypeOK'
  BY <1>3 DEF StoreInv, StoreTypeOK
<1>5. IndexedIsStored'
  <2> SUFFICES ASSUME NEW k \in Hash, Lookup(k) # None
               PROVE  Lookup(k) \in open \cup stored /\ k \in blocks'[Lookup(k)]
    BY <1>1, <1>3 DEF IndexedIsStored
  <2>1. Lookup(k) \in open \cup stored /\ k \in blocks[Lookup(k)] /\ Lookup(k) \in Archive
    BY DEF StoreInv, StoreTypeOK, IndexedIsStored
  <2>2. QED
    BY <1>2, <1>3, <2>1 DEF StoreInv, StoreTypeOK
<1>6. TempIsOpen'
  BY <1>1, <1>3 DEF StoreInv, TempIsOpen
<1>7. CompactionKeeps'
  BY <1>3 DEF StoreInv, CompactionKeeps
<1>8. QED
  BY <1>4, <1>5, <1>6, <1>7 DEF StoreInv

\* The background thread.  compact asks the index once per key and the answer
\* no stays true: the archive is stored, so no put can bring the key back to it.
LEMMA CompactInv ==
    ASSUME IndInv, StoreInv, CompactStep \/ CopyFails
    PROVE  StoreInv'
<1>1. CASE TakeDeletes
  <2>1. \A k \in Hash : Lookup(k)' = Lookup(k) /\ tempHt'[k] = tempHt[k]
    BY <1>1, SameIndex DEF TakeDeletes
  <2>2. QED
    BY <1>1, <2>1 DEF TakeDeletes, compVars, StoreInv, StoreTypeOK, IndexedIsStored,
                      TempIsOpen, CompactionKeeps
<1>2. ASSUME NEW p \in Archive, Skip(p) PROVE StoreInv'
  <2>1. \A k \in Hash : Lookup(k)' = Lookup(k) /\ tempHt'[k] = tempHt[k]
    BY <1>2, SameIndex DEF Skip
  <2>2. QED
    BY <1>2, <2>1 DEF Skip, compVars, StoreInv, StoreTypeOK, IndexedIsStored,
                      TempIsOpen, CompactionKeeps
<1>3. ASSUME NEW p \in Archive, StartCompact(p) PROVE StoreInv'
  <2>1. \A k \in Hash : Lookup(k)' = Lookup(k) /\ tempHt'[k] = tempHt[k]
    BY <1>3, SameIndex DEF StartCompact
  <2>2. p \in stored
    BY <1>3 DEF StartCompact, StoreInv, CompactionKeeps
  <2>3. StoreTypeOK'
    BY <1>3 DEF StartCompact, StoreInv, StoreTypeOK
  <2>4. IndexedIsStored' /\ TempIsOpen'
    BY <1>3, <2>1 DEF StartCompact, StoreInv, IndexedIsStored, TempIsOpen
  <2>5. CompactionKeeps'
    BY <1>3, <2>2 DEF StartCompact, StoreInv, CompactionKeeps
  <2>6. QED
    BY <2>3, <2>4, <2>5 DEF StoreInv
<1>4. ASSUME NEW h \in Hash, AskIndex(h) PROVE StoreInv'
  <2>1. \A k \in Hash : Lookup(k)' = Lookup(k) /\ tempHt'[k] = tempHt[k]
    BY <1>4, SameIndex DEF AskIndex
  <2>2. StoreTypeOK'
    BY <1>4 DEF AskIndex, StoreInv, StoreTypeOK
  <2>3. IndexedIsStored' /\ TempIsOpen'
    BY <1>4, <2>1 DEF AskIndex, StoreInv, IndexedIsStored, TempIsOpen
  <2>4. CompactionKeeps'
    BY <1>4, <2>1 DEF AskIndex, mightContainKey, StoreInv, StoreTypeOK, CompactionKeeps
  <2>5. QED
    BY <2>2, <2>3, <2>4 DEF StoreInv
<1>5. CASE DeleteArchive
  BY <1>5, FinishInv DEF DeleteArchive, StoreInv, CompactionKeeps
<1>6. CASE StartCopy
  <2>1. \A k \in Hash : Lookup(k)' = Lookup(k) /\ tempHt'[k] = tempHt[k]
    BY <1>6, SameIndex DEF StartCopy
  <2>2. QED
    BY <1>6, <2>1 DEF StartCopy, StoreInv, StoreTypeOK, IndexedIsStored, TempIsOpen,
                      CompactionKeeps
<1>7. CASE Replace
  BY <1>7, FinishInv DEF Replace, StoreInv, StoreTypeOK, CompactionKeeps
<1>8. CASE CopyFails
  <2>1. target \in Archive /\ blocks[target] \in SUBSET Hash
    BY <1>8 DEF CopyFails, StoreInv, StoreTypeOK, CompactionKeeps
  <2>2. QED
    BY <1>8, <2>1, FinishInv DEF CopyFails
<1>9. QED
  BY <1>1, <1>2, <1>3, <1>4, <1>5, <1>6, <1>7, <1>8 DEF CompactStep

\* Every step of the store keeps StoreInv.
THEOREM StoreNextInv == IndInv /\ StoreInv /\ [StoreNext]_allVars => StoreInv'
<1> SUFFICES ASSUME IndInv, StoreInv, [StoreNext]_allVars PROVE StoreInv'
  OBVIOUS
<1>1. CASE IndexOnly /\ UNCHANGED storeVars
  BY <1>1, IndexOnlyView, ViewStep
<1>2. CASE UNCHANGED allVars
  <2>1. SameView /\ UNCHANGED storeVars
    BY <1>2, SameIndex DEF allVars, SameView
  <2>2. QED
    BY <2>1, ViewStep
<1>3. QED
  BY <1>1, <1>2, PutInv, VisitInv, StoredInv, CompactInv DEF StoreNext

-----------------------------------------------------------------------------
\* StoreInv is an invariant of the store.
THEOREM StoreInvariance == StoreSpec => []StoreInv
  BY StoreInitInv, StoreNextInv, IndexInv, PTL DEF StoreSpec

\* The store's state always has its type.
THEOREM StoreTypeCorrect == StoreSpec => []StoreTypeOK
<1>1. StoreInv => StoreTypeOK
  BY DEF StoreInv
<1>2. QED
  BY <1>1, StoreInvariance, PTL

\* No chunk that a file refers to is ever lost, whatever the interleaving of
\* writers, garbage collector and compaction.
THEOREM ChunksSurvive == StoreSpec => []NoLoss
<1>1. IndInv /\ StoreInv => NoLoss
  <2> SUFFICES ASSUME IndInv, StoreInv, NEW h \in Hash, NEW p \in Archive,
                      held[h][p] > 0
               PROVE  h \in blocks[p]
    BY DEF NoLoss
  <2>1. Lookup(h) = p
    BY DEF IndInv, RefCountExact
  <2>2. QED
    BY <2>1, NoneAssumption DEF StoreInv, IndexedIsStored
<1>2. QED
  BY <1>1, StoreInvariance, IndexInv, PTL

\* What DropsOnlyUnindexed says of a step.
StepDrops ==
    \A h \in Hash, p \in Archive : h \in blocks[p] \ blocks'[p] => Lookup(h) # p

\* The end of a compaction that leaves what the index needs.
LEMMA FinishDrops ==
    ASSUME StoreInv, NEW left, comp # "idle", Finish(left),
           \A h \in blocks[target] : Lookup(h) = target => h \in left
    PROVE  StepDrops
<1>1. target \in Archive /\ blocks' = [blocks EXCEPT ![target] = left]
  BY DEF Finish, StoreInv, StoreTypeOK, CompactionKeeps
<1>2. \A p \in Archive : blocks'[p] = IF p = target THEN left ELSE blocks[p]
  BY <1>1 DEF StoreInv, StoreTypeOK
<1>3. QED
  BY <1>2 DEF StepDrops

\* A chunk compact drops is not in the index at the moment it is dropped, though
\* the index was asked before.
THEOREM CompactDropsUnindexed == StoreSpec => DropsOnlyUnindexed
<1>1. ASSUME StoreInv, [StoreNext]_allVars
      PROVE  StepDrops
  <2>1. CASE DeleteArchive
    BY <1>1, <2>1, FinishDrops DEF DeleteArchive, StoreInv, CompactionKeeps
  <2>2. CASE Replace
    BY <1>1, <2>2, FinishDrops DEF Replace, StoreInv, CompactionKeeps
  <2>3. CASE CopyFails
    BY <1>1, <2>3, FinishDrops DEF CopyFails
  <2>4. ASSUME NEW h \in Hash, NEW n \in References, NEW p \in Archive, StorePut(h, n, p)
        PROVE  StepDrops
    <3>1. \A q \in Archive : blocks[q] \subseteq blocks'[q]
      BY <1>1, <2>4 DEF StorePut, StoreInv, StoreTypeOK
    <3>2. QED
      BY <3>1 DEF StepDrops
  <2>5. CASE UNCHANGED blocks
    BY <2>5 DEF StepDrops
  <2>6. CASE CompactStep /\ ~DeleteArchive /\ ~Replace
    <3>1. UNCHANGED blocks
      BY <2>6 DEF CompactStep, TakeDeletes, Skip, StartCompact, AskIndex, StartCopy
    <3>2. QED
      BY <2>5, <3>1
  <2>7. CASE \/ \E p \in Archive : Stored(p)
             \/ \E h \in Hash : StoreVisit(h)
             \/ IndexOnly /\ UNCHANGED storeVars
             \/ UNCHANGED allVars
    <3>1. UNCHANGED blocks
      BY <2>7 DEF Stored, StoreVisit, storeVars, allVars
    <3>2. QED
      BY <2>5, <3>1
  <2>8. QED
    BY <1>1, <2>1, <2>2, <2>3, <2>4, <2>6, <2>7 DEF StoreNext
<1>2. ASSUME StepDrops
      PROVE  [\A h \in Hash, p \in Archive :
                h \in blocks[p] \ blocks'[p] => Lookup(h) # p]_allVars
  BY <1>2 DEF StepDrops
<1>3. QED
  BY <1>1, <1>2, StoreInvariance, PTL DEF StoreSpec, DropsOnlyUnindexed
=============================================================================
