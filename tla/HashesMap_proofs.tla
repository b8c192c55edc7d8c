-------------------------- MODULE HashesMap_proofs --------------------------
(***************************************************************************)
(* Proofs that the chunk index keeps its invariants for any sets of hashes  *)
(* and archives, any grace period and any bounds.  The conjunction IndInv   *)
(* is inductive; none of its parts is inductive alone: RefCountExact needs  *)
(* TempAndDbDisjoint (an entry hidden behind one in tempHt would come back  *)
(* when that one moves), and RemovalPositionCurrent needs RefCountExact to  *)
(* know that a collected key has no references left.                        *)
(***************************************************************************)
EXTENDS HashesMap, TLAPS

IndInv ==
    /\ TypeOK
    /\ TempAndDbDisjoint
    /\ RefCountExact
    /\ RemovalPositionCurrent

-----------------------------------------------------------------------------
(* What the lookups return. *)

\* Lookup and Count of a key, by the table that has it.
LEMMA LookupCases ==
    ASSUME TypeOK, NEW h \in Hash
    PROVE  /\ Lookup(h) \in Archive \cup {None}
           /\ Count(h) \in Int
           /\ tempHt[h] # None => Lookup(h) = tempHt[h].pos /\ Count(h) = tempHt[h].ct
           /\ tempHt[h] = None /\ dbs[h] # None
                => Lookup(h) = dbs[h].pos /\ Count(h) = dbs[h].ct
           /\ tempHt[h] = None /\ dbs[h] = None => Lookup(h) = None /\ Count(h) = 0
           /\ tempHt[h] # None =>
                /\ tempHt[h] \in Entry
                /\ tempHt[h].pos \in Archive
                /\ tempHt[h].ct \in Int
           /\ dbs[h] # None =>
                /\ dbs[h] \in Entry
                /\ dbs[h].pos \in Archive
                /\ dbs[h].ct \in Int
<1>1. tempHt[h] \in Entry \cup {None} /\ dbs[h] \in Entry \cup {None}
  BY DEF TypeOK
<1>2. QED
  BY <1>1, NoneAssumption DEF Lookup, Count, Found, Entry

\* The number of references put adds is a positive integer.
LEMMA RefsPositive == ASSUME NEW n \in References PROVE Refs(n) \in Nat /\ Refs(n) > 0
  BY CtAssumption DEF Refs

-----------------------------------------------------------------------------
\* The empty index satisfies the invariant.
THEOREM InitInv == Init => IndInv
  BY NoneAssumption
  DEF Init, IndInv, TypeOK, TempAndDbDisjoint, RefCountExact, RemovalPositionCurrent,
      Lookup, Count, Found

-----------------------------------------------------------------------------
(***************************************************************************)
(* A step that rewrites the tables of one key only.  It is enough to know   *)
(* what becomes of that key: Key(h) is IndInv for a single hash.            *)
(***************************************************************************)
Key(h) ==
    /\ tempHt[h] \in Entry \cup {None}
    /\ dbs[h] \in Entry \cup {None}
    /\ rmdb[h] \in RmEntry \cup {None}
    /\ iter[h] \in RmEntry \cup {None}
    /\ held[h] \in [Archive -> Nat]
    /\ tempHt[h] = None \/ dbs[h] = None
    /\ \A p \in Archive : held[h][p] = IF Lookup(h) = p THEN Count(h) ELSE 0
    /\ rmdb[h] # None => Lookup(h) = rmdb[h].pos
    /\ iter[h] # None => Lookup(h) = iter[h].pos

\* The tables are functions on Hash; the rest of IndInv is said key by key.
Shape ==
    /\ tempHt = [h \in Hash |-> tempHt[h]]
    /\ dbs    = [h \in Hash |-> dbs[h]]
    /\ rmdb   = [h \in Hash |-> rmdb[h]]
    /\ iter   = [h \in Hash |-> iter[h]]
    /\ held   = [h \in Hash |-> held[h]]
    /\ now \in Nat
    /\ gc \in {"idle", "scan"}

\* IndInv, key by key.
LEMMA KeyByKey == IndInv <=> Shape /\ \A h \in Hash : Key(h)
<1>1. IndInv => Shape /\ \A h \in Hash : Key(h)
  BY DEF IndInv, TypeOK, TempAndDbDisjoint, RefCountExact, RemovalPositionCurrent,
         Key, Shape
<1>2. Shape /\ (\A h \in Hash : Key(h)) => TypeOK
  BY DEF TypeOK, Key, Shape
<1>3. Shape /\ (\A h \in Hash : Key(h)) => IndInv
  BY <1>2 DEF IndInv, TempAndDbDisjoint, RefCountExact, RemovalPositionCurrent, Key
<1>4. QED
  BY <1>1, <1>3

\* A key none of whose tables changes keeps its part of the invariant.
LEMMA OtherKeys ==
    ASSUME NEW k, Key(k),
           tempHt'[k] = tempHt[k], dbs'[k] = dbs[k], rmdb'[k] = rmdb[k],
           iter'[k] = iter[k], held'[k] = held[k]
    PROVE  Key(k)'
  BY DEF Key, Lookup, Count, Found

-----------------------------------------------------------------------------
(* put keeps the invariant of its key, in each of its three cases. *)
\* put of a key that waits in tempHt.
LEMMA PutTempKey ==
    ASSUME IndInv, NEW h \in Hash, NEW n \in References, PutTemp(h, n), UNCHANGED iter
    PROVE  Key(h)' /\ Lookup(h)' # None
<1>1. Key(h) /\ Shape /\ TypeOK
  BY KeyByKey DEF IndInv
<1> DEFINE r == Refs(n)  e == tempHt[h]
<1>2. r \in Nat /\ r > 0
  BY RefsPositive
<1>3. e \in Entry /\ e # None /\ dbs[h] = None /\ Lookup(h) = e.pos /\ Count(h) = e.ct
  BY <1>1, LookupCases DEF PutTemp, Key
<1>4. /\ tempHt'[h] = [e EXCEPT !.ct = e.ct + r]
      /\ dbs'[h] = dbs[h] /\ rmdb'[h] = rmdb[h] /\ iter'[h] = iter[h]
      /\ held'[h] = [held[h] EXCEPT ![e.pos] = held[h][e.pos] + r]
  BY <1>1 DEF PutTemp, Shape, Hold
<1>5. /\ tempHt'[h] \in Entry /\ tempHt'[h] # None
      /\ tempHt'[h].pos = e.pos /\ tempHt'[h].ct = e.ct + r
  BY <1>2, <1>3, <1>4, NoneAssumption DEF Entry
<1>6. Lookup(h)' = e.pos /\ Count(h)' = e.ct + r
  BY <1>5 DEF Lookup, Count, Found
<1>7. QED
  BY <1>1, <1>2, <1>3, <1>4, <1>5, <1>6, NoneAssumption DEF Key, Entry

\* put of a key no table has: no file refers to it and no removal record names it.
LEMMA PutNewKey ==
    ASSUME IndInv, NEW h \in Hash, NEW n \in References, NEW p \in Archive,
           PutNew(h, n, p), UNCHANGED iter
    PROVE  Key(h)' /\ Lookup(h)' # None
<1>1. Key(h) /\ Shape /\ TypeOK
  BY KeyByKey DEF IndInv
<1> DEFINE r == Refs(n)
<1>2. r \in Nat /\ r > 0
  BY RefsPositive
<1>3. Lookup(h) = None /\ \A q \in Archive : held[h][q] = 0
  BY <1>1, LookupCases, NoneAssumption DEF PutNew, Key
<1>4. rmdb[h] = None /\ iter[h] = None
  BY <1>1, <1>3, NoneAssumption DEF Key, RmEntry
<1>5. /\ tempHt'[h] = [pos |-> p, ct |-> r]
      /\ dbs'[h] = None /\ rmdb'[h] = None /\ iter'[h] = None
      /\ held'[h] = [held[h] EXCEPT ![p] = held[h][p] + r]
  BY <1>1, <1>4 DEF PutNew, Shape, Hold
<1>6. tempHt'[h] \in Entry /\ tempHt'[h] # None
  BY <1>2, <1>5, NoneAssumption DEF Entry
<1>7. Lookup(h)' = p /\ Count(h)' = r
  BY <1>5, <1>6 DEF Lookup, Count, Found
<1>8. QED
  BY <1>1, <1>2, <1>3, <1>5, <1>6, <1>7, NoneAssumption DEF Key

\* put of a key in a shard, dead or alive.
LEMMA PutDbKey ==
    ASSUME IndInv, NEW h \in Hash, NEW n \in References, PutDb(h, n), UNCHANGED iter
    PROVE  Key(h)' /\ Lookup(h)' # None
<1>1. Key(h) /\ Shape /\ TypeOK
  BY KeyByKey DEF IndInv
<1> DEFINE r == Refs(n)  e == dbs[h]  sum == (IF e.ct <= 0 THEN 0 ELSE e.ct) + r
<1>2. r \in Nat /\ r > 0
  BY RefsPositive
<1>3. /\ e \in Entry /\ e # None /\ e.pos \in Archive /\ e.ct \in Int
      /\ tempHt[h] = None /\ Lookup(h) = e.pos /\ Count(h) = e.ct
  BY <1>1, LookupCases DEF PutDb
\* The count is a number of references, so it is never negative.
<1>4. e.ct = held[h][e.pos] /\ e.ct \in Nat /\ sum = e.ct + r
  BY <1>1, <1>2, <1>3 DEF Key
<1>5. /\ dbs'[h] = [e EXCEPT !.ct = sum]
      /\ tempHt'[h] = None /\ iter'[h] = iter[h]
      /\ rmdb'[h] = rmdb[h] \/ rmdb'[h] = None
      /\ held'[h] = [held[h] EXCEPT ![e.pos] = held[h][e.pos] + r]
  BY <1>1, <1>3 DEF PutDb, Shape, Hold
<1> HIDE DEF sum
<1>6. /\ dbs'[h] \in Entry /\ dbs'[h] # None
      /\ dbs'[h].pos = e.pos /\ dbs'[h].ct = sum
  BY <1>2, <1>3, <1>4, <1>5, NoneAssumption DEF Entry
<1>7. Lookup(h)' = e.pos /\ Count(h)' = sum
  BY <1>5, <1>6 DEF Lookup, Count, Found
<1>8. QED
  BY <1>1, <1>2, <1>3, <1>4, <1>5, <1>6, <1>7, NoneAssumption DEF Key

-----------------------------------------------------------------------------
\* claimKey by a holder of a reference, in either direction.  Because the
\* caller holds a reference the index agrees with it on the archive, so the
\* claim is never refused.
LEMMA ClaimKeyKey ==
    ASSUME IndInv, NEW h \in Hash, NEW p \in Archive, NEW d \in Int,
           held[h][p] > 0, held[h][p] + d >= 0,
           claimKey(h, p, d), Hold(h, p, d), UNCHANGED iter
    PROVE  Key(h)' /\ Lookup(h)' = p
<1>1. Key(h) /\ Shape /\ TypeOK
  BY KeyByKey DEF IndInv
<1>2. Lookup(h) = p /\ Count(h) = held[h][p] /\ held[h][p] \in Nat
  BY <1>1 DEF Key
<1>3. /\ held'[h] = [held[h] EXCEPT ![p] = held[h][p] + d]
      /\ iter'[h] = iter[h]
  BY <1>1 DEF Shape, Hold
<1> DEFINE rm == RmRecord(p)
<1>4. rm \in RmEntry /\ rm.pos = p /\ rm # None
  BY <1>1, TimeAssumption, NoneAssumption DEF RmRecord, RmEntry, Shape
<1> HIDE DEF rm
<1>5. CASE tempHt[h] # None
  <2> DEFINE e == tempHt[h]
  <2>1. e \in Entry /\ e.pos = p /\ e.ct = Count(h) /\ dbs[h] = None
    BY <1>1, <1>2, <1>5, LookupCases DEF Key
  <2>2. /\ tempHt'[h] = [e EXCEPT !.ct = d + e.ct]
        /\ dbs'[h] = None
        /\ rmdb'[h] = rm \/ rmdb'[h] = None
    BY <1>1, <1>2, <1>5, <2>1 DEF claimKey, ClaimTemp, Shape, rm
  <2>3. /\ tempHt'[h] \in Entry /\ tempHt'[h] # None
        /\ tempHt'[h].pos = p /\ tempHt'[h].ct = d + e.ct
    BY <1>2, <2>1, <2>2, NoneAssumption DEF Entry
  <2>4. Lookup(h)' = p /\ Count(h)' = d + e.ct
    BY <2>3 DEF Lookup, Count, Found
  <2>5. QED
    BY <1>1, <1>2, <1>3, <1>4, <2>1, <2>2, <2>3, <2>4 DEF Key
<1>6. CASE tempHt[h] = None
  <2> DEFINE e == dbs[h]
  <2>1. e # None /\ e \in Entry /\ e.pos = p /\ e.ct = Count(h)
    BY <1>1, <1>2, <1>6, LookupCases, NoneAssumption
  <2>2. /\ dbs'[h] = [e EXCEPT !.ct = d + e.ct]
        /\ tempHt'[h] = None
        /\ rmdb'[h] = rm \/ rmdb'[h] = None
    BY <1>1, <1>2, <1>6, <2>1 DEF claimKey, ClaimDb, Shape, rm
  <2>3. /\ dbs'[h] \in Entry /\ dbs'[h] # None
        /\ dbs'[h].pos = p /\ dbs'[h].ct = d + e.ct
    BY <1>2, <2>1, <2>2, NoneAssumption DEF Entry
  <2>4. Lookup(h)' = p /\ Count(h)' = d + e.ct
    BY <2>2, <2>3 DEF Lookup, Count, Found
  <2>5. QED
    BY <1>1, <1>2, <1>3, <1>4, <2>1, <2>2, <2>3, <2>4 DEF Key
<1>7. QED
  BY <1>5, <1>6

\* Moving an entry from tempHt to its shard changes nothing a reader sees.
LEMMA SyncKey ==
    ASSUME IndInv, NEW h \in Hash, hashBlobArchiveSync(h)
    PROVE  Key(h)' /\ Lookup(h)' = Lookup(h)
<1>1. Key(h) /\ Shape /\ TypeOK
  BY KeyByKey DEF IndInv
<1>2. tempHt[h] \in Entry /\ tempHt[h] # None /\ dbs[h] = None
  BY <1>1, LookupCases DEF hashBlobArchiveSync, Key
<1>3. /\ tempHt'[h] = None /\ dbs'[h] = tempHt[h]
      /\ rmdb'[h] = rmdb[h] /\ iter'[h] = iter[h] /\ held'[h] = held[h]
  BY <1>1, <1>2 DEF hashBlobArchiveSync, Shape, gcVars
<1>4. Lookup(h)' = Lookup(h) /\ Count(h)' = Count(h)
  BY <1>2, <1>3 DEF Lookup, Count, Found
<1>5. QED
  BY <1>1, <1>2, <1>3, <1>4 DEF Key

\* The visit of a key by the collector: the entry goes only with a count of
\* zero, and the removal record goes with it.
LEMMA VisitKeyKey ==
    ASSUME IndInv, NEW h \in Hash, VisitKey(h)
    PROVE  /\ Key(h)'
           /\ Lookup(h)' # Lookup(h) => \A p \in Archive : held[h][p] = 0
<1>1. Key(h) /\ Shape /\ TypeOK
  BY KeyByKey DEF IndInv
<1>2. tempHt'[h] = tempHt[h] /\ iter'[h] = None /\ held'[h] = held[h]
  BY <1>1 DEF VisitKey, Shape
<1>3. CASE Due(h) /\ Dead(h)
  <2>1. dbs[h] # None /\ dbs[h].ct <= 0 /\ tempHt[h] = None
    BY <1>1, <1>3 DEF Dead, Key
  <2>2. /\ Lookup(h) = dbs[h].pos /\ Count(h) = dbs[h].ct
        /\ dbs[h].pos \in Archive /\ dbs[h].ct \in Int
    BY <1>1, <2>1, LookupCases
  <2>3. held[h][dbs[h].pos] = dbs[h].ct /\ held[h][dbs[h].pos] \in Nat
    BY <1>1, <2>2 DEF Key
  <2>4. \A p \in Archive : held[h][p] = 0
    BY <1>1, <2>1, <2>2, <2>3 DEF Key
  <2>5. dbs'[h] = None /\ rmdb'[h] = None
    BY <1>1, <1>3 DEF VisitKey, Shape
  <2>6. Lookup(h)' = None /\ Count(h)' = 0
    BY <1>2, <2>1, <2>5 DEF Lookup, Count, Found
  <2>7. QED
    BY <1>1, <1>2, <2>1, <2>4, <2>5, <2>6, NoneAssumption DEF Key
<1>4. CASE ~(Due(h) /\ Dead(h))
  <2>1. dbs'[h] = dbs[h] /\ (rmdb'[h] = rmdb[h] \/ rmdb'[h] = None)
    BY <1>1, <1>4 DEF VisitKey, Shape
  <2>2. Lookup(h)' = Lookup(h) /\ Count(h)' = Count(h)
    BY <1>2, <2>1 DEF Lookup, Count, Found
  <2>3. QED
    BY <1>1, <1>2, <2>1, <2>2 DEF Key
<1>5. QED
  BY <1>3, <1>4

-----------------------------------------------------------------------------
\* A step on the tables of h leaves the other keys as they are.
LEMMA OneKey ==
    ASSUME IndInv, NEW h \in Hash, Key(h)', Shape',
           \A k \in Hash \ {h} :
              /\ tempHt'[k] = tempHt[k] /\ dbs'[k] = dbs[k] /\ rmdb'[k] = rmdb[k]
              /\ iter'[k] = iter[k] /\ held'[k] = held[k]
    PROVE  IndInv'
<1>1. \A k \in Hash : Key(k)
  BY KeyByKey
<1>2. \A k \in Hash \ {h} : Key(k)'
  BY <1>1, OtherKeys
<1>3. \A k \in Hash : Key(k)'
  BY <1>2
<1>4. TypeOK'
  BY <1>3 DEF TypeOK, Key, Shape
<1>5. QED
  BY <1>3, <1>4 DEF IndInv, TempAndDbDisjoint, RefCountExact, RemovalPositionCurrent, Key

\* Every step of the index keeps IndInv.
THEOREM NextInv == IndInv /\ [Next]_vars => IndInv'
<1> SUFFICES ASSUME IndInv, [Next]_vars PROVE IndInv'
  OBVIOUS
<1>0. Shape /\ TypeOK /\ \A h \in Hash : Key(h)
  BY KeyByKey DEF IndInv
<1>1. ASSUME NEW h \in Hash, NEW n \in References, NEW p \in Archive, put(h, n, p)
      PROVE  IndInv'
  <2>1. Key(h)'
    BY <1>1, PutTempKey, PutNewKey, PutDbKey DEF put, gcVars
  <2>2. Shape'
    BY <1>0, <1>1 DEF put, PutTemp, PutNew, PutDb, Hold, Shape, gcVars
  <2>3. \A k \in Hash \ {h} :
           /\ tempHt'[k] = tempHt[k] /\ dbs'[k] = dbs[k] /\ rmdb'[k] = rmdb[k]
           /\ iter'[k] = iter[k] /\ held'[k] = held[k]
    BY <1>0, <1>1 DEF put, PutTemp, PutNew, PutDb, Hold, Shape, gcVars
  <2>4. QED
    BY <2>1, <2>2, <2>3, OneKey
<1>2. ASSUME NEW h \in Hash, NEW p \in Archive, NEW d \in Int,
             held[h][p] > 0, held[h][p] + d >= 0,
             claimKey(h, p, d), Hold(h, p, d), UNCHANGED <<now, gcVars>>
      PROVE  IndInv'
  <2>1. Key(h)'
    BY <1>2, ClaimKeyKey DEF gcVars
  <2>2. Shape'
    BY <1>0, <1>2 DEF claimKey, ClaimTemp, ClaimDb, Hold, Shape, gcVars, tables
  <2>3. \A k \in Hash \ {h} :
           /\ tempHt'[k] = tempHt[k] /\ dbs'[k] = dbs[k] /\ rmdb'[k] = rmdb[k]
           /\ iter'[k] = iter[k] /\ held'[k] = held[k]
    BY <1>0, <1>2 DEF claimKey, ClaimTemp, ClaimDb, Hold, Shape, gcVars, tables
  <2>4. QED
    BY <2>1, <2>2, <2>3, OneKey
<1>3. ASSUME NEW h \in Hash, NEW p \in Archive, NEW n \in 1..MaxCt, addRef(h, p, n)
      PROVE  IndInv'
  <2>1. held[h][p] \in Nat /\ n \in Int /\ n > 0
    BY <1>0, CtAssumption DEF Key
  <2>2. held[h][p] + n >= 0 /\ held[h][p] > 0
    BY <1>3, <2>1 DEF addRef
  <2>3. QED
    BY <1>2, <1>3, <2>1, <2>2 DEF addRef
<1>4. ASSUME NEW h \in Hash, NEW p \in Archive, NEW n \in 1..MaxCt, removeRef(h, p, n)
      PROVE  IndInv'
  <2>1. held[h][p] \in Nat /\ n \in Int /\ n > 0 /\ -n \in Int
    BY <1>0, CtAssumption DEF Key
  <2>2. held[h][p] + (-n) >= 0 /\ held[h][p] > 0
    BY <1>4, <2>1 DEF removeRef
  <2>3. QED
    BY <1>2, <1>4, <2>1, <2>2 DEF removeRef
<1>5. ASSUME NEW h \in Hash, hashBlobArchiveSync(h)
      PROVE  IndInv'
  <2>1. Key(h)'
    BY <1>5, SyncKey
  <2>2. Shape'
    BY <1>0, <1>5 DEF hashBlobArchiveSync, Shape, gcVars
  <2>3. \A k \in Hash \ {h} :
           /\ tempHt'[k] = tempHt[k] /\ dbs'[k] = dbs[k] /\ rmdb'[k] = rmdb[k]
           /\ iter'[k] = iter[k] /\ held'[k] = held[k]
    BY <1>0, <1>5 DEF hashBlobArchiveSync, Shape, gcVars
  <2>4. QED
    BY <2>1, <2>2, <2>3, OneKey
<1>6. CASE StartScan
  <2>1. TypeOK'
    BY <1>0, <1>6 DEF StartScan, TypeOK, tables
  <2>2. \A h \in Hash : Lookup(h)' = Lookup(h) /\ Count(h)' = Count(h)
    BY <1>6 DEF StartScan, Lookup, Count, Found, tables
  <2>3. QED
    BY <1>6, <2>1, <2>2
    DEF StartScan, IndInv, TempAndDbDisjoint, RefCountExact, RemovalPositionCurrent, tables
<1>7. ASSUME NEW h \in Hash, VisitKey(h)
      PROVE  IndInv'
  <2>1. Key(h)'
    BY <1>7, VisitKeyKey
  <2>2. Shape'
    BY <1>0, <1>7 DEF VisitKey, Shape
  <2>3. \A k \in Hash \ {h} :
           /\ tempHt'[k] = tempHt[k] /\ dbs'[k] = dbs[k] /\ rmdb'[k] = rmdb[k]
           /\ iter'[k] = iter[k] /\ held'[k] = held[k]
    BY <1>0, <1>7 DEF VisitKey, Shape
  <2>4. QED
    BY <2>1, <2>2, <2>3, OneKey
<1>8. CASE EndScan \/ Tick \/ UNCHANGED vars
  <2>1. TypeOK'
    BY <1>0, <1>8 DEF EndScan, Tick, TypeOK, tables, gcVars, vars
  <2>2. UNCHANGED <<tempHt, dbs, rmdb, held>> /\ \A h \in Hash : iter'[h] \in {iter[h], None}
    BY <1>8 DEF EndScan, Tick, tables, gcVars, vars
  <2>3. \A h \in Hash : Lookup(h)' = Lookup(h) /\ Count(h)' = Count(h)
    BY <2>2 DEF Lookup, Count, Found
  <2>4. QED
    BY <2>1, <2>2, <2>3 DEF IndInv, TempAndDbDisjoint, RefCountExact, RemovalPositionCurrent
<1>9. QED
  BY <1>1, <1>3, <1>4, <1>5, <1>6, <1>7, <1>8 DEF Next

-----------------------------------------------------------------------------
(* The theorems about behaviours. *)

\* IndInv is an invariant of the index.
THEOREM Invariance == Spec => []IndInv
  BY InitInv, NextInv, PTL DEF Spec

\* The tables always have the types that the code gives them.
THEOREM TypeCorrect == Spec => []TypeOK
<1>1. IndInv => TypeOK
  BY DEF IndInv
<1>2. QED
  BY <1>1, Invariance, PTL

\* hashBlobArchiveSync never meets a key that is in both tables.
THEOREM TablesDisjoint == Spec => []TempAndDbDisjoint
<1>1. IndInv => TempAndDbDisjoint
  BY DEF IndInv
<1>2. QED
  BY <1>1, Invariance, PTL

\* Counts are exact: no key a file needs is lost and none is miscounted, for
\* any number of files, hashes and archives.
THEOREM CountsExact == Spec => []RefCountExact
<1>1. IndInv => RefCountExact
  BY DEF IndInv
<1>2. QED
  BY <1>1, Invariance, PTL

\* The collector's stale iterator never names another copy of a chunk.
THEOREM RemovalPositions == Spec => []RemovalPositionCurrent
<1>1. IndInv => RemovalPositionCurrent
  BY DEF IndInv
<1>2. QED
  BY <1>1, Invariance, PTL

\* Only the collector removes a key, and only one without references.
THEOREM DeadKeysLeave == Spec => OnlyDeadKeysLeave
<1> DEFINE Leave == \A h \in Hash :
                      (Lookup(h) # None /\ Lookup(h)' = None)
                         => gc = "scan" /\ \A p \in Archive : held[h][p] = 0
<1>1. IndInv /\ IndInv' /\ [Next]_vars => [Leave]_vars
  <2> SUFFICES ASSUME IndInv, IndInv', Next, NEW h \in Hash,
                      Lookup(h) # None, Lookup(h)' = None
               PROVE  gc = "scan" /\ \A p \in Archive : held[h][p] = 0
    OBVIOUS
  <2>0. Shape /\ TypeOK /\ Shape' /\ TypeOK'
    BY KeyByKey DEF IndInv, Shape, TypeOK
  <2>1. (tempHt[h] # None \/ dbs[h] # None) /\ tempHt'[h] = None /\ dbs'[h] = None
    <3>1. tempHt'[h] \in Entry \cup {None} /\ dbs'[h] \in Entry \cup {None}
      BY <2>0 DEF TypeOK
    <3>2. QED
      BY <3>1, NoneAssumption DEF Lookup, Found, Entry
  <2>2. CASE \E k \in Hash : VisitKey(k)
    <3>1. PICK k \in Hash : VisitKey(k)
      BY <2>2
    <3>2. k = h
      BY <2>0, <2>1, <3>1 DEF VisitKey, Shape
    <3>3. QED
      BY <3>1, <3>2, VisitKeyKey DEF VisitKey
  <2>3. CASE \E k \in Hash, n \in References, p \in Archive : put(k, n, p)
    <3>1. PICK k \in Hash, n \in References, p \in Archive : put(k, n, p)
      BY <2>3
    <3>2. Lookup(k)' # None
      BY <3>1, PutTempKey, PutNewKey, PutDbKey DEF put, gcVars
    <3>3. k # h
      BY <3>2
    <3>4. tempHt'[h] = tempHt[h] /\ dbs'[h] = dbs[h]
      BY <2>0, <3>1, <3>3 DEF put, PutTemp, PutNew, PutDb, Shape
    <3>5. QED
      BY <2>1, <3>4
  <2>4. CASE \E k \in Hash : hashBlobArchiveSync(k)
    <3>1. PICK k \in Hash : hashBlobArchiveSync(k)
      BY <2>4
    <3>2. QED
      BY <2>0, <2>1, <3>1 DEF hashBlobArchiveSync, Shape
  <2>5. ASSUME NEW k \in Hash, NEW p \in Archive, NEW d \in Int,
               held[k][p] > 0, held[k][p] + d >= 0,
               claimKey(k, p, d), Hold(k, p, d), UNCHANGED iter
        PROVE  FALSE
    <3>1. Lookup(k)' = p
      BY <2>5, ClaimKeyKey
    <3>2. k # h
      BY <3>1, NoneAssumption
    <3>3. tempHt'[h] = tempHt[h] /\ dbs'[h] = dbs[h]
      BY <2>0, <2>5, <3>2 DEF claimKey, ClaimTemp, ClaimDb, Shape, tables
    <3>4. QED
      BY <2>1, <3>3
  <2>6. CASE StartScan \/ EndScan \/ Tick
    BY <2>1, <2>6 DEF StartScan, EndScan, Tick, tables
  <2>7. CASE \E k \in Hash, p \in Archive, n \in 1..MaxCt : addRef(k, p, n)
    <3>1. PICK k \in Hash, p \in Archive, n \in 1..MaxCt : addRef(k, p, n)
      BY <2>7
    <3>2. held[k][p] \in Nat /\ n \in Int /\ n > 0
      BY <2>0, CtAssumption DEF TypeOK
    <3>3. held[k][p] > 0 /\ held[k][p] + n >= 0
      BY <3>1, <3>2 DEF addRef
    <3>4. QED
      BY <2>5, <3>1, <3>2, <3>3 DEF addRef, gcVars
  <2>8. CASE \E k \in Hash, p \in Archive, n \in 1..MaxCt : removeRef(k, p, n)
    <3>1. PICK k \in Hash, p \in Archive, n \in 1..MaxCt : removeRef(k, p, n)
      BY <2>8
    <3>2. held[k][p] \in Nat /\ n \in Int /\ n > 0 /\ -n \in Int
      BY <2>0, CtAssumption DEF TypeOK
    <3>3. held[k][p] > 0 /\ held[k][p] + (-n) >= 0
      BY <3>1, <3>2 DEF removeRef
    <3>4. QED
      BY <2>5, <3>1, <3>2, <3>3 DEF removeRef, gcVars
  <2>9. QED
    BY <2>2, <2>3, <2>4, <2>6, <2>7, <2>8 DEF Next
<1>2. Spec => [][Leave]_vars
  BY <1>1, Invariance, PTL DEF Spec
<1>3. QED
  BY <1>2 DEF OnlyDeadKeysLeave
=============================================================================
