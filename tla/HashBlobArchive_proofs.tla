----------------------- MODULE HashBlobArchive_proofs -----------------------
(***************************************************************************)
(* Proofs about the life of an archive, for any sets of writers, hashes,    *)
(* files and archives, any archive size and pool size, and with every fault *)
(* and every call of sync() and close() allowed: ArchiveInv is inductive.   *)
(***************************************************************************)
EXTENDS HashBlobArchive, SequenceTheorems, TLAPS

-----------------------------------------------------------------------------
(* Types. *)

\* The value of a call.
LEMMA CallJob ==
    ASSUME TypeOK, CallsInv, NEW w \in Writer, pc[w] # "idle"
    PROVE  job[w] \in [h : Hash, u : Uuid] /\ job[w].h \in Hash /\ job[w].u \in Uuid
  BY DEF TypeOK, CallsInv

\* An identifier that is handed out was not in use.
LEMMA NewArchive ==
    ASSUME Unused # {}
    PROVE  getNewArchiveID \in Archive /\ thread[getNewArchiveID] = "unused"
  BY DEF Unused, getNewArchiveID

\* The steps of a writer keep the types.
LEMMA WriterType ==
    ASSUME TypeOK, CallsInv, NEW w \in Writer,
           \/ \E h \in Hash, u \in Uuid : Call(w, h, u)
           \/ LockWrite(w) \/ WriteStep(w) \/ WriteFails(w)
    PROVE  TypeOK'
<1>0. pc[w] # "idle" => job[w].h \in Hash /\ job[w].u \in Uuid
  BY CallJob
<1>00. pc[w] \in {"file", "ctor", "run", "install"} => at[w] \in Archive
  BY DEF TypeOK, CallsInv
<1>1. ASSUME NEW h \in Hash, NEW u \in Uuid, Call(w, h, u) PROVE TypeOK'
  BY <1>1 DEF Call, Goto, TypeOK, arVars, syncVars
<1>2. CASE LockRead(w)
  BY <1>2 DEF LockRead, Goto, TypeOK, arVars, syncVars
<1>3. CASE LockWrite(w)
  BY <1>3 DEF LockWrite, Goto, TypeOK, arVars, syncVars
<1>4. CASE Insert(w)
  BY <1>0, <1>4 DEF Insert, Target, Goto, TypeOK, syncVars
<1>5. CASE Exists(w)
  BY <1>0, <1>5 DEF Exists, Target, Ack, Return, Goto, TypeOK, arVars, syncVars
<1>6. CASE Miss(w) \/ Retry(w)
  <2>1. writeable' \in [Archive -> BOOLEAN]
    BY <1>0, <1>6 DEF Miss, Retry, CloseIfFull, Target, TypeOK
  <2>2. QED
    BY <1>6, <2>1 DEF Miss, Retry, Goto, TypeOK, syncVars
<1>7. CASE Create(w)
  <2>1. getNewArchiveID \in Archive
    BY <1>7, NewArchive DEF Create
  <2>2. QED
    BY <1>0, <1>7, <2>1 DEF Create, Goto, TypeOK, syncVars
<1>8. CASE FileWrite(w)
  BY <1>0, <1>00, <1>8 DEF FileWrite, Ack, Return, Goto, TypeOK, syncVars
<1>9. CASE CtorWrite(w)
  BY <1>0, <1>00, <1>9 DEF CtorWrite, Goto, TypeOK, syncVars
<1>10. CASE Install(w)
  BY <1>0, <1>00, <1>10 DEF Install, Ack, Return, Goto, TypeOK, syncVars
<1>11. CASE WriteFails(w)
  <2>1. torn' \subseteq Hash \X Archive
    BY <1>0, <1>00, <1>11 DEF WriteFails, TypeOK
  <2>2. /\ pc' \in [Writer -> {"idle", "enter", "try", "relock", "write", "file", "ctor",
                              "run", "install"}]
        /\ lk' \in [Writer -> {"none", "read", "write"}]
        /\ job' \in [Writer -> [h : Hash, u : Uuid] \cup {None}]
        /\ at' \in [Writer -> Archive \cup {None}]
    BY <1>11 DEF WriteFails, Return, Goto, TypeOK
  <2>3. QED
    BY <1>11, <2>1, <2>2 DEF WriteFails, TypeOK, arVars, syncVars
<1>12. QED
  BY <1>1, <1>2, <1>3, <1>4, <1>5, <1>6, <1>7, <1>8, <1>9, <1>10, <1>11 DEF WriteStep

\* Every other step keeps the types.
LEMMA ThreadType ==
    ASSUME TypeOK, QueueInv,
           \/ \E a \in Archive : UploadStep(a) \/ UploadFails(a) \/ Move(a) \/ SyncStatic(a)
           \/ SyncStep \/ SyncFails \/ Close \/ CloseReturn
    PROVE  TypeOK'
<1>1. ASSUME NEW a \in Archive, UploadStep(a) \/ UploadFails(a) PROVE TypeOK'
  <2>1. CASE Mark(a)
    BY <2>1 DEF Mark, TypeOK, callVars, syncVars
  <2>2. CASE Upload(a)
    BY <2>2 DEF Upload, TypeOK, callVars, syncVars
  <2>3. CASE Enqueue(a)
    BY <2>3 DEF Enqueue, TypeOK, callVars
  <2>4. CASE UploadFails(a)
    BY <2>4 DEF UploadFails, TypeOK, callVars, syncVars
  <2>5. QED
    BY <1>1, <2>1, <2>2, <2>3, <2>4 DEF UploadStep
<1>2. ASSUME NEW a \in Archive, Move(a) \/ SyncStatic(a) PROVE TypeOK'
  <2>1. HashesOf(a) \subseteq Hash \X Archive
    BY DEF TypeOK, HashesOf
  <2>2. QED
    BY <1>2, <2>1 DEF Move, SyncStatic, TypeOK, callVars, arVars, syncVars
<1>3. CASE CheckClosed
  BY <1>3 DEF CheckClosed, TypeOK, callVars, arVars
<1>4. CASE Take
  <2>1. Head(syncQueue) \in Archive /\ Tail(syncQueue) \in Seq(Archive)
    BY <1>4, HeadTailProperties DEF Take, TypeOK
  <2>2. QED
    BY <1>4, <2>1 DEF Take, TypeOK, callVars, arVars
<1>5. CASE SyncArchive
  <2>1. cur \in Archive /\ HashesOf(cur) \subseteq Hash \X Archive
    BY <1>5 DEF SyncArchive, QueueInv, TypeOK, HashesOf
  <2>2. QED
    BY <1>5, <2>1 DEF SyncArchive, TypeOK, callVars, arVars
<1>6. CASE SyncFails \/ Close \/ CloseReturn
  BY <1>6 DEF SyncFails, Close, CloseReturn, TypeOK, callVars, arVars, syncVars
<1>7. QED
  BY <1>1, <1>2, <1>3, <1>4, <1>5, <1>6 DEF SyncStep

-----------------------------------------------------------------------------
(* Calls. *)

\* The steps of a writer keep CallsInv.
LEMMA WriterCalls ==
    ASSUME TypeOK, CallsInv, ContentInv, NEW w \in Writer,
           \/ \E h \in Hash, u \in Uuid : Call(w, h, u)
           \/ LockWrite(w) \/ WriteStep(w) \/ WriteFails(w)
    PROVE  CallsInv'
<1>0. pc[w] # "idle" => job[w] \in [h : Hash, u : Uuid] /\ job[w].h \in Hash /\ job[w].u \in Uuid
  BY CallJob
<1>00. pc[w] \in {"file", "ctor", "run", "install"} => at[w] \in Archive
  BY DEF TypeOK, CallsInv
<1>1. ASSUME NEW h \in Hash, NEW u \in Uuid, Call(w, h, u) PROVE CallsInv'
  BY <1>1, NoneAssumption DEF Call, Goto, TypeOK, CallsInv, Active, arVars, syncVars
<1>2. CASE LockRead(w)
  BY <1>2 DEF LockRead, Goto, TypeOK, CallsInv, Active, arVars, syncVars
<1>3. CASE LockWrite(w)
  BY <1>3 DEF LockWrite, Goto, TypeOK, CallsInv, Active, arVars, syncVars
<1>4. CASE Insert(w)
  BY <1>0, <1>4 DEF Insert, Target, Goto, TypeOK, CallsInv, Active, syncVars
<1>5. CASE Exists(w)
  BY <1>0, <1>5 DEF Exists, Target, Ack, Return, Goto, TypeOK, CallsInv, Active, arVars, syncVars
<1>6. CASE Miss(w) \/ Retry(w)
  <2>1. PICK x \in {"relock", "try"} : pc' = [pc EXCEPT ![w] = x]
    BY <1>6 DEF Miss, Retry, Goto
  <2>2. pc[w] # "idle" /\ UNCHANGED <<job, at, wMap, file, thread, writableArchives>>
    BY <1>6 DEF Miss, Retry
  <2>3. QED
    BY <2>1, <2>2 DEF TypeOK, CallsInv, Active
<1>7. CASE Create(w)
  <2>1. getNewArchiveID \in Archive /\ thread[getNewArchiveID] = "unused"
    BY <1>7, NewArchive DEF Create
  <2>2. QED
    BY <1>0, <1>7, <2>1, NoneAssumption DEF Create, Goto, TypeOK, CallsInv, Active, syncVars
<1>8. CASE FileWrite(w)
  BY <1>0, <1>00, <1>8 DEF FileWrite, Ack, Return, Goto, TypeOK, CallsInv, Active, syncVars
<1>9. CASE CtorWrite(w)
  <2>1. /\ pc[w] = "ctor" /\ UNCHANGED <<job, at, wMap, writableArchives>>
        /\ file' = [file EXCEPT ![at[w]] = @ \cup {job[w].h}]
        /\ thread' = [thread EXCEPT ![at[w]] = "wait"]
    BY <1>9 DEF CtorWrite
  <2>2. PICK x \in {"run", "install"} : pc' = [pc EXCEPT ![w] = x]
    BY <1>9 DEF CtorWrite, Goto
  <2>3. \A v \in Writer \ {w} : pc[v] = "ctor" => at[v] # at[w]
    BY <2>1 DEF CallsInv
  <2>4. QED
    BY <1>0, <1>00, <2>1, <2>2, <2>3 DEF TypeOK, CallsInv, Active
<1>10. CASE Install(w)
  BY <1>0, <1>00, <1>10 DEF Install, Ack, Return, Goto, TypeOK, CallsInv, Active, syncVars
<1>11. CASE WriteFails(w)
  <2>1. /\ UNCHANGED <<wMap, file, thread, writableArchives>>
        /\ at' = [at EXCEPT ![w] = None]
        /\ pc[w] # "idle"
    BY <1>11 DEF WriteFails, Return, Goto, arVars
  <2>2. CASE pc' = [pc EXCEPT ![w] = "try"] /\ job' = job
    BY <1>0, <1>00, <2>1, <2>2 DEF TypeOK, CallsInv, Active
  <2>3. CASE pc' = [pc EXCEPT ![w] = "idle"] /\ job' = [job EXCEPT ![w] = None]
    BY <1>0, <1>00, <2>1, <2>3 DEF TypeOK, CallsInv, Active
  <2>4. QED
    BY <1>11, <2>2, <2>3 DEF WriteFails, Return, Goto
<1>12. QED
  BY <1>1, <1>2, <1>3, <1>4, <1>5, <1>6, <1>7, <1>8, <1>9, <1>10, <1>11 DEF WriteStep

\* The other threads change nothing of a call.
LEMMA ThreadCalls ==
    ASSUME TypeOK, CallsInv,
           \/ \E a \in Archive : UploadStep(a) \/ UploadFails(a) \/ Move(a) \/ SyncStatic(a)
           \/ SyncStep \/ SyncFails \/ Close \/ CloseReturn
    PROVE  CallsInv'
<1>1. /\ UNCHANGED <<pc, lk, job, at, wMap, file>>
      /\ \A u \in Uuid : writableArchives'[u] \in {writableArchives[u], None}
      /\ \A a \in Archive : thread'[a] \in {"unused", "born"} => thread'[a] = thread[a]
      /\ \A a \in Archive : thread[a] = "born" => thread'[a] = "born"
  BY DEF UploadStep, Mark, Upload, Enqueue, UploadFails, Move, SyncStatic, SyncStep,
         CheckClosed, Take, SyncArchive, SyncFails, Close, CloseReturn, TypeOK,
         callVars, arVars, syncVars
<1>2. QED
  BY <1>1 DEF CallsInv, Active, TypeOK

-----------------------------------------------------------------------------
(* Contents. *)

\* A step that leaves an archive, and the writes in progress to it, alone.
LEMMA ContentSame ==
    ASSUME NEW a \in Archive, Content(a), torn \subseteq torn',
           wMap'[a] = wMap[a], file'[a] = file[a], store'[a] = store[a],
           thread'[a] = thread[a], writeable'[a] => writeable[a],
           InFlight(a)' = InFlight(a), \A v \in InFlight(a) : job'[v] = job[v]
    PROVE  Content(a)'
  BY DEF Content

\* A step by which no writer enters or leaves a file write.
LEMMA SameFlight ==
    ASSUME ContentInv, UNCHANGED <<wMap, file, thread, store, torn>>,
           \A a \in Archive : writeable'[a] => writeable[a],
           \A v \in Writer : pc'[v] # pc[v] => /\ pc[v] \notin {"file", "ctor"}
                                               /\ pc'[v] \notin {"file", "ctor"},
           \A v \in Writer : pc[v] \in {"file", "ctor"} => at'[v] = at[v] /\ job'[v] = job[v]
    PROVE  ContentInv'
<1> SUFFICES ASSUME NEW a \in Archive PROVE Content(a)'
  BY DEF ContentInv
<1>1. InFlight(a)' = InFlight(a)
  BY DEF InFlight
<1>2. \A v \in InFlight(a) : job'[v] = job[v]
  BY DEF InFlight
<1>3. Content(a)
  BY DEF ContentInv
<1>4. QED
  BY <1>1, <1>2, <1>3, ContentSame

\* Only w's step: what becomes of the writes in progress.
LEMMA OneFlight ==
    ASSUME NEW w \in Writer, NEW a \in Archive,
           \A v \in Writer \ {w} : pc'[v] = pc[v] /\ at'[v] = at[v]
    PROVE  /\ w \notin InFlight(a) /\ w \notin InFlight(a)' => InFlight(a)' = InFlight(a)
           /\ w \notin InFlight(a)' => InFlight(a)' = InFlight(a) \ {w}
           /\ w \in InFlight(a)' => InFlight(a)' = InFlight(a) \cup {w}
  BY DEF InFlight

\* The steps of a writer keep ContentInv.
LEMMA WriterContent ==
    ASSUME TypeOK, TypeOK', CallsInv, ContentInv, NEW w \in Writer,
           \/ \E h \in Hash, u \in Uuid : Call(w, h, u)
           \/ LockWrite(w) \/ WriteStep(w) \/ WriteFails(w)
    PROVE  ContentInv'
<1>0. pc[w] # "idle" => job[w].h \in Hash /\ job[w].u \in Uuid
  BY CallJob
<1>00. pc[w] \in {"file", "ctor", "run", "install"} => at[w] \in Archive
  BY DEF TypeOK, CallsInv
<1>1. ASSUME NEW h \in Hash, NEW u \in Uuid, Call(w, h, u) PROVE ContentInv'
  BY <1>1, SameFlight DEF Call, Goto, TypeOK, arVars
<1>2. CASE LockRead(w) \/ LockWrite(w)
  BY <1>2, SameFlight DEF LockRead, LockWrite, Goto, TypeOK, arVars
<1>5. CASE Exists(w) \/ Install(w)
  BY <1>5, SameFlight DEF Exists, Install, Ack, Return, Goto, TypeOK, arVars
<1>6. CASE Miss(w) \/ Retry(w)
  <2>1. \A a \in Archive : writeable'[a] => writeable[a]
    BY <1>6 DEF Miss, Retry, CloseIfFull, TypeOK
  <2>2. QED
    BY <1>6, <2>1, SameFlight DEF Miss, Retry, Goto, TypeOK
<1>4. CASE Insert(w)
  <2>0. PICK t \in Archive, k \in Hash : t = Target(w) /\ k = job[w].h
    BY <1>0, <1>4 DEF Insert, Target, TypeOK
  <2>1. /\ writeable[t] /\ pc[w] \notin {"file", "ctor"}
        /\ UNCHANGED <<file, thread, store, torn, writeable, job>>
        /\ wMap' = [wMap EXCEPT ![t] = @ \cup {k}]
        /\ at'[w] = t /\ pc'[w] = "file"
        /\ \A v \in Writer \ {w} : pc'[v] = pc[v] /\ at'[v] = at[v]
    BY <1>4, <2>0 DEF Insert, PutResult, Goto, TypeOK
  <2>2. ASSUME NEW a \in Archive, a # t PROVE Content(a)'
    <3>1. w \notin InFlight(a) /\ w \notin InFlight(a)'
      BY <2>1, <2>2 DEF InFlight
    <3>2. InFlight(a)' = InFlight(a)
      BY <2>1, <3>1, OneFlight
    <3>3. QED
      BY <2>1, <2>2, <3>2, ContentSame DEF ContentInv, TypeOK
  <2>3. Content(t)'
    <3>1. w \in InFlight(t)'
      BY <2>1 DEF InFlight
    <3>2. InFlight(t)' = InFlight(t) \cup {w}
      BY <2>1, <3>1, OneFlight
    <3>3. Content(t) /\ wMap'[t] = wMap[t] \cup {k} /\ job'[w].h = k
      BY <2>0, <2>1 DEF ContentInv, TypeOK
    <3>4. QED
      BY <2>1, <3>2, <3>3 DEF Content
  <2>4. QED
    BY <2>2, <2>3 DEF ContentInv
<1>7. CASE Create(w)
  <2>0. PICK t \in Archive, k \in Hash :
            t = getNewArchiveID /\ k = job[w].h /\ thread[t] = "unused"
    BY <1>0, <1>7, NewArchive DEF Create
  <2>1. /\ pc[w] = "write"
        /\ UNCHANGED <<file, store, torn, job>>
        /\ thread' = [thread EXCEPT ![t] = "born"]
        /\ writeable' = [writeable EXCEPT ![t] = TRUE]
        /\ wMap' = [wMap EXCEPT ![t] = {k}]
        /\ at'[w] = t /\ pc'[w] = "ctor"
        /\ \A v \in Writer \ {w} : pc'[v] = pc[v] /\ at'[v] = at[v]
    BY <1>7, <2>0 DEF Create, Goto, TypeOK
  <2>2. ASSUME NEW a \in Archive, a # t PROVE Content(a)'
    <3>1. w \notin InFlight(a) /\ w \notin InFlight(a)'
      BY <2>1, <2>2 DEF InFlight
    <3>2. InFlight(a)' = InFlight(a)
      BY <2>1, <3>1, OneFlight
    <3>3. QED
      BY <2>1, <2>2, <3>2, ContentSame DEF ContentInv, TypeOK
  <2>3. Content(t)'
    <3>1. w \in InFlight(t)'
      BY <2>1 DEF InFlight
    <3>2. wMap'[t] = {k} /\ thread'[t] = "born" /\ job'[w].h = k
      BY <2>0, <2>1 DEF TypeOK
    <3>3. QED
      BY <3>1, <3>2 DEF Content
  <2>4. QED
    BY <2>2, <2>3 DEF ContentInv
<1>8. CASE FileWrite(w) \/ CtorWrite(w) \/ WriteFails(w)
  <2>0. PICK t \in Archive, k \in Hash : t = at[w] /\ k = job[w].h
    BY <1>0, <1>00, <1>8 DEF FileWrite, CtorWrite, WriteFails
  <2>1. /\ w \in InFlight(t)
        /\ pc'[w] \notin {"file", "ctor"}
        /\ \A v \in Writer \ {w} : pc'[v] = pc[v] /\ at'[v] = at[v] /\ job'[v] = job[v]
    <3>1. CASE FileWrite(w)
      BY <2>0, <3>1 DEF FileWrite, Return, Goto, TypeOK, InFlight
    <3>2. CASE CtorWrite(w)
      BY <2>0, <3>2 DEF CtorWrite, Goto, TypeOK, InFlight
    <3>3. CASE WriteFails(w)
      BY <2>0, <3>3 DEF WriteFails, Return, Goto, TypeOK, InFlight
    <3>4. QED
      BY <1>8, <3>1, <3>2, <3>3
  <2>2. /\ UNCHANGED <<wMap, store, writeable>> /\ torn \subseteq torn'
        /\ file \in [Archive -> SUBSET Hash] /\ file' \in [Archive -> SUBSET Hash]
        /\ \A a \in Archive \ {t} : file'[a] = file[a]
        /\ file[t] \subseteq file'[t]
        /\ k \in file'[t] \/ <<k, t>> \in torn'
    BY <1>8, <2>0 DEF FileWrite, CtorWrite, WriteFails, TypeOK, arVars
  <2>3. /\ \A a \in Archive \ {t} : thread'[a] = thread[a]
        /\ thread'[t] \in {thread[t], "wait"}
    BY <1>8, <2>0 DEF FileWrite, CtorWrite, WriteFails, TypeOK, arVars
  <2>4. ASSUME NEW a \in Archive, a # t PROVE Content(a)'
    <3>1. w \notin InFlight(a) /\ w \notin InFlight(a)'
      BY <2>0, <2>1, <2>4 DEF InFlight
    <3>2. InFlight(a)' = InFlight(a)
      BY <2>1, <3>1, OneFlight
    <3>3. \A v \in InFlight(a) : job'[v] = job[v]
      BY <2>1, <3>1 DEF InFlight
    <3>4. QED
      BY <2>1, <2>2, <2>3, <2>4, <3>2, <3>3, ContentSame DEF ContentInv
  <2>5. Content(t)'
    <3>1. InFlight(t)' = InFlight(t) \ {w}
      BY <2>0, <2>1, OneFlight DEF InFlight
    <3>2. \A v \in InFlight(t) \ {w} : job'[v] = job[v]
      BY <2>1 DEF InFlight
    <3>3. Content(t) /\ thread[t] \notin {"uploaded", "queued"}
      BY <2>1 DEF ContentInv, Content
    <3>4. thread'[t] \notin {"uploaded", "queued"}
      BY <2>3, <3>3
    <3>5. \A h \in wMap'[t] \ file'[t] :
             <<h, t>> \in torn' \/ \E v \in InFlight(t)' : job'[v].h = h
      BY <2>0, <2>2, <3>1, <3>2, <3>3 DEF Content
    <3>6. thread'[t] = "drain" => ~writeable'[t]
      BY <2>2, <2>3, <3>3 DEF Content
    <3>7. QED
      BY <3>4, <3>5, <3>6 DEF Content
  <2>6. QED
    BY <2>4, <2>5 DEF ContentInv
<1>10. QED
  BY <1>1, <1>2, <1>4, <1>5, <1>6, <1>7, <1>8 DEF WriteStep

\* The other threads add nothing to an archive.
LEMMA ThreadContent ==
    ASSUME TypeOK, TypeOK', ContentInv,
           \/ \E a \in Archive : UploadStep(a) \/ UploadFails(a) \/ Move(a) \/ SyncStatic(a)
           \/ SyncStep \/ SyncFails \/ Close \/ CloseReturn
    PROVE  ContentInv'
<1>1. UNCHANGED <<pc, job, at, wMap, file, torn>>
  BY DEF UploadStep, Mark, Upload, Enqueue, UploadFails, Move, SyncStatic, SyncStep,
         CheckClosed, Take, SyncArchive, SyncFails, Close, CloseReturn, callVars, arVars
<1>2. \A a \in Archive : InFlight(a)' = InFlight(a)
  BY <1>1 DEF InFlight
<1>3. ASSUME NEW a \in Archive, UploadStep(a) \/ UploadFails(a) PROVE ContentInv'
  BY <1>1, <1>2, <1>3 DEF UploadStep, Mark, Upload, Enqueue, UploadFails, ContentInv,
     Content, TypeOK
<1>4. ASSUME UNCHANGED arVars PROVE ContentInv'
  BY <1>1, <1>2, <1>4 DEF ContentInv, Content, arVars
<1>5. QED
  BY <1>3, <1>4 DEF Move, SyncStatic, SyncStep, CheckClosed, Take, SyncArchive, SyncFails,
                    Close, CloseReturn

-----------------------------------------------------------------------------
(* Locks. *)

\* The steps of a writer keep LockInv.
LEMMA WriterLock ==
    ASSUME TypeOK, CallsInv, LockInv, NEW w \in Writer,
           \/ \E h \in Hash, u \in Uuid : Call(w, h, u)
           \/ LockWrite(w) \/ WriteStep(w) \/ WriteFails(w)
    PROVE  LockInv'
<1>0. \A v \in Writer : pc[v] # "idle" => job[v].u \in Uuid
  BY CallJob
<1>1. ASSUME NEW h \in Hash, NEW u \in Uuid, Call(w, h, u) PROVE LockInv'
  BY <1>1 DEF Call, Goto, TypeOK, LockInv, HasWritable, Target, arVars
<1>2. CASE LockRead(w)
  BY <1>2 DEF LockRead, Goto, TypeOK, LockInv, HasWritable, Target, arVars
<1>3. CASE LockWrite(w)
  BY <1>3 DEF LockWrite, Goto, TypeOK, LockInv, HasWritable, Target, arVars
<1>4. CASE Insert(w)
  BY <1>4 DEF Insert, Goto, TypeOK, LockInv, HasWritable, Target
<1>5. CASE Exists(w)
  BY <1>5 DEF Exists, Return, Goto, TypeOK, LockInv, HasWritable, Target, arVars
<1>6. CASE Miss(w) \/ Retry(w)
  <2>1. \A a \in Archive : writeable'[a] => writeable[a]
    BY <1>6 DEF Miss, Retry, CloseIfFull, TypeOK
  <2>2. PICK x \in {"relock", "try"} : pc' = [pc EXCEPT ![w] = x]
    BY <1>6 DEF Miss, Retry, Goto
  <2>3. lk' = [lk EXCEPT ![w] = "none"] /\ UNCHANGED <<job, writableArchives>>
    BY <1>6 DEF Miss, Retry, Goto
  <2>4. \A v \in Writer : pc[v] # "idle" /\ HasWritable(v)' => HasWritable(v)
    BY <1>0, <2>1, <2>3 DEF HasWritable, Target, TypeOK
  <2>5. QED
    BY <2>2, <2>3, <2>4 DEF LockInv, TypeOK
<1>7. CASE Create(w)
  <2>1. getNewArchiveID \in Archive /\ thread[getNewArchiveID] = "unused"
    BY <1>7, NewArchive DEF Create
  <2>2. \A u \in Uuid : writableArchives[u] # getNewArchiveID
    BY <2>1, NoneAssumption DEF CallsInv
  <2>3. QED
    BY <1>0, <1>7, <2>1, <2>2 DEF Create, Goto, TypeOK, LockInv, HasWritable, Target
<1>8. CASE FileWrite(w)
  BY <1>8 DEF FileWrite, Return, Goto, TypeOK, LockInv, HasWritable, Target
<1>9. CASE CtorWrite(w)
  BY <1>9 DEF CtorWrite, Goto, TypeOK, LockInv, HasWritable, Target
<1>10. CASE Install(w)
  <2>1. \A v \in Writer \ {w} : lk[v] = "none"
    BY <1>10 DEF Install, LockInv
  <2>2. QED
    BY <1>10, <2>1 DEF Install, Return, Goto, TypeOK, LockInv
<1>11. CASE WriteFails(w)
  <2>1. PICK x \in {"try", "idle"} : pc' = [pc EXCEPT ![w] = x]
    BY <1>11 DEF WriteFails, Return, Goto
  <2>2. /\ lk' = [lk EXCEPT ![w] = "none"] /\ UNCHANGED <<writableArchives, writeable>>
        /\ \A v \in Writer \ {w} : job'[v] = job[v]
    BY <1>11 DEF WriteFails, Return, Goto, TypeOK, arVars
  <2>3. \A v \in Writer \ {w} : HasWritable(v)' = HasWritable(v)
    BY <2>2 DEF HasWritable, Target
  <2>4. QED
    BY <2>1, <2>2, <2>3 DEF LockInv, TypeOK
<1>12. QED
  BY <1>1, <1>2, <1>3, <1>4, <1>5, <1>6, <1>7, <1>8, <1>9, <1>10, <1>11 DEF WriteStep

\* The other threads take no slock and make no archive writable.
LEMMA ThreadLock ==
    ASSUME TypeOK, CallsInv, LockInv,
           \/ \E a \in Archive : UploadStep(a) \/ UploadFails(a) \/ Move(a) \/ SyncStatic(a)
           \/ SyncStep \/ SyncFails \/ Close \/ CloseReturn
    PROVE  LockInv'
<1>1. /\ UNCHANGED <<pc, lk, job>>
      /\ \A u \in Uuid : writableArchives'[u] \in {writableArchives[u], None}
      /\ \A a \in Archive : writeable'[a] => writeable[a]
  BY DEF UploadStep, Mark, Upload, Enqueue, UploadFails, Move, SyncStatic, SyncStep,
         CheckClosed, Take, SyncArchive, SyncFails, Close, CloseReturn, TypeOK,
         callVars, arVars, syncVars
<1>2. \A v \in Writer : pc[v] # "idle" => job[v].u \in Uuid
  BY CallJob
<1>3. QED
  BY <1>1, <1>2 DEF LockInv, HasWritable, Target, TypeOK

-----------------------------------------------------------------------------
(* The queue, the answers and the archives that have left rchunks. *)

\* What a writer's step can do to the state of the queue and of an archive: an
\* archive that is queued is not touched.
LEMMA WriterEffect ==
    ASSUME TypeOK, CallsInv, ContentInv, NEW w \in Writer,
           \/ \E h \in Hash, u \in Uuid : Call(w, h, u)
           \/ LockWrite(w) \/ WriteStep(w) \/ WriteFails(w)
    PROVE  /\ UNCHANGED <<syncQueue, sq, cur, moving, reported>>
           /\ rchunks \subseteq rchunks'
           /\ \A a \in Archive :
                 /\ thread[a] = "queued" => thread'[a] = "queued" /\ wMap'[a] = wMap[a]
                 /\ thread'[a] # "unused" => thread[a] # "unused" \/ a \in rchunks'
<1>00. pc[w] \in {"file", "ctor", "run", "install"} => at[w] \in Archive
  BY DEF TypeOK, CallsInv
<1>1. CASE \E h \in Hash, u \in Uuid : Call(w, h, u)
  BY <1>1 DEF Call, arVars, syncVars
<1>2. CASE LockRead(w) \/ LockWrite(w)
  BY <1>2 DEF LockRead, LockWrite, arVars, syncVars
<1>3. CASE Insert(w)
  <2>1. thread[Target(w)] # "queued"
    <3>1. Target(w) \in Archive /\ writeable[Target(w)]
      BY <1>3, CallJob DEF Insert, PutResult, Target, TypeOK
    <3>2. QED
      BY <3>1 DEF ContentInv, Content
  <2>2. QED
    BY <1>3, <2>1 DEF Insert, TypeOK, syncVars
<1>4. CASE Exists(w) \/ Miss(w) \/ Retry(w)
  BY <1>4 DEF Exists, Miss, Retry, arVars, syncVars
<1>5. CASE Create(w)
  BY <1>5, NewArchive DEF Create, TypeOK, syncVars
<1>6. CASE FileWrite(w) \/ Install(w)
  BY <1>6 DEF FileWrite, Install, syncVars
<1>7. CASE CtorWrite(w)
  <2>1. thread[at[w]] = "born"
    BY <1>7 DEF CtorWrite, CallsInv
  <2>2. QED
    BY <1>00, <1>7, <2>1 DEF CtorWrite, TypeOK, syncVars
<1>8. CASE WriteFails(w)
  BY <1>8 DEF WriteFails, arVars, syncVars
<1>9. QED
  BY <1>1, <1>2, <1>3, <1>4, <1>5, <1>6, <1>7, <1>8 DEF WriteStep

\* The steps of a writer keep QueueInv and LeavesReported.
LEMMA WriterQueue ==
    ASSUME TypeOK, CallsInv, ContentInv, QueueInv, LeavesReported, NEW w \in Writer,
           \/ \E h \in Hash, u \in Uuid : Call(w, h, u)
           \/ LockWrite(w) \/ WriteStep(w) \/ WriteFails(w)
    PROVE  QueueInv' /\ LeavesReported'
<1>1. /\ UNCHANGED <<syncQueue, sq, cur, moving, reported>>
      /\ rchunks \subseteq rchunks'
      /\ \A a \in Archive :
            /\ thread[a] = "queued" => thread'[a] = "queued" /\ wMap'[a] = wMap[a]
            /\ thread'[a] # "unused" => thread[a] # "unused" \/ a \in rchunks'
  BY WriterEffect
<1>2. \A a \in Archive : thread[a] = "queued" => HashesOf(a)' = HashesOf(a)
  BY <1>1 DEF HashesOf
<1>3. QueueInv'
  <2>1. \A i \in 1..Len(syncQueue) : syncQueue[i] \in Archive
    BY DEF TypeOK
  <2>2. QED
    BY <1>1, <1>2, <2>1 DEF QueueInv, TypeOK
<1>4. LeavesReported'
  BY <1>1, <1>2 DEF LeavesReported, Unused
<1>5. QED
  BY <1>3, <1>4

\* So do the steps of the other threads.
LEMMA ThreadQueue ==
    ASSUME TypeOK, QueueInv, LeavesReported,
           \/ \E a \in Archive : UploadStep(a) \/ UploadFails(a) \/ Move(a) \/ SyncStatic(a)
           \/ SyncStep \/ SyncFails \/ Close \/ CloseReturn
    PROVE  QueueInv' /\ LeavesReported'
<1>1. \A i \in 1..Len(syncQueue) : syncQueue[i] \in Archive
  BY DEF TypeOK
<1>2. ASSUME NEW a \in Archive, Mark(a) \/ Upload(a) \/ UploadFails(a)
      PROVE  QueueInv' /\ LeavesReported'
  <2>1. /\ UNCHANGED <<syncQueue, sq, cur, moving, reported, rchunks, wMap>>
        /\ thread[a] # "queued" /\ thread[a] # "unused"
        /\ \A b \in Archive \ {a} : thread'[b] = thread[b]
    BY <1>2 DEF Mark, Upload, UploadFails, TypeOK, syncVars
  <2>2. QED
    BY <1>1, <2>1 DEF QueueInv, LeavesReported, Unused, HashesOf, TypeOK
<1>3. ASSUME NEW a \in Archive, Enqueue(a) PROVE QueueInv' /\ LeavesReported'
  <2>1. /\ UNCHANGED <<sq, cur, moving, reported, rchunks, wMap>>
        /\ thread[a] = "uploaded" /\ thread' = [thread EXCEPT ![a] = "queued"]
        /\ syncQueue' = Append(syncQueue, a)
    BY <1>3 DEF Enqueue
  <2>2. \A i \in 1..Len(syncQueue') : syncQueue'[i] = a \/ \E j \in 1..Len(syncQueue) :
                                                            syncQueue'[i] = syncQueue[j]
    BY <2>1, AppendProperties DEF TypeOK
  <2>3. \A i \in 1..Len(syncQueue') : thread'[syncQueue'[i]] = "queued"
    BY <1>1, <2>1, <2>2 DEF QueueInv, TypeOK
  <2>4. QED
    BY <2>1, <2>3 DEF QueueInv, LeavesReported, Unused, HashesOf, TypeOK
<1>4. ASSUME NEW a \in Archive, Move(a) PROVE QueueInv' /\ LeavesReported'
  BY <1>4 DEF Move, QueueInv, LeavesReported, Unused, HashesOf, TypeOK, arVars
<1>5. ASSUME NEW a \in Archive, SyncStatic(a) PROVE QueueInv' /\ LeavesReported'
  BY <1>5 DEF SyncStatic, QueueInv, LeavesReported, Unused, HashesOf, arVars, syncVars
<1>6. CASE CheckClosed \/ SyncFails \/ Close \/ CloseReturn
  BY <1>6 DEF CheckClosed, SyncFails, Close, CloseReturn, QueueInv, LeavesReported, Unused,
              HashesOf, arVars, syncVars
<1>7. CASE Take
  <2>1. /\ cur' = syncQueue[1] /\ 1 \in 1..Len(syncQueue)
        /\ \A i \in 1..Len(syncQueue') : i + 1 \in 1..Len(syncQueue)
                                         /\ syncQueue'[i] = syncQueue[i + 1]
    BY <1>7, HeadTailProperties DEF Take, TypeOK
  <2>2. UNCHANGED <<moving, reported, rchunks, wMap, thread>>
    BY <1>7 DEF Take, arVars
  <2>3. cur' # None
    BY <1>1, <2>1, NoneAssumption
  <2>4. QED
    BY <2>1, <2>2, <2>3 DEF QueueInv, LeavesReported, Unused, HashesOf
<1>8. CASE SyncArchive
  BY <1>8 DEF SyncArchive, QueueInv, LeavesReported, Unused, HashesOf, arVars
<1>9. QED
  BY <1>2, <1>3, <1>4, <1>5, <1>6, <1>7, <1>8 DEF UploadStep, SyncStep

\* An answer names an archive that has the data, or in which a write of it failed.
LEMMA Answers ==
    ASSUME TypeOK, CallsInv, ContentInv, AckedInFile, Next
    PROVE  AckedInFile'
<1>1. \A a \in Archive : file[a] \subseteq file'[a]
  <2>1. ASSUME NEW w \in Writer, FileWrite(w) \/ CtorWrite(w)
        PROVE  \A a \in Archive : file[a] \subseteq file'[a]
    BY <2>1 DEF FileWrite, CtorWrite, TypeOK
  <2>2. CASE UNCHANGED file
    BY <2>2
  <2>3. QED
    BY <2>1, <2>2 DEF Next, WriteStep, Call, LockRead, LockWrite, Insert, Exists, Miss, Retry,
       Create, Install, WriteFails, UploadStep, Mark, Upload, Enqueue, UploadFails, Move,
       SyncStatic, SyncStep, CheckClosed, Take, SyncArchive, SyncFails, Close, CloseReturn, arVars
<1>2. torn \subseteq torn'
  BY DEF Next, WriteStep, Call, LockRead, LockWrite, Insert, Exists, Miss, Retry, Create,
     FileWrite, CtorWrite, Install, WriteFails, UploadStep, Mark, Upload, Enqueue, UploadFails,
     Move, SyncStatic, SyncStep, CheckClosed, Take, SyncArchive, SyncFails, Close, CloseReturn
<1>3. CASE UNCHANGED acked
  BY <1>1, <1>2, <1>3 DEF AckedInFile, TypeOK
<1>4. ASSUME NEW k \in Hash, NEW a \in Archive, acked' = acked \cup {<<k, a>>},
             k \in file'[a] \/ <<k, a>> \in torn'
      PROVE  AckedInFile'
  <2> SUFFICES ASSUME NEW p \in acked' PROVE p[1] \in file'[p[2]] \/ p \in torn'
    BY DEF AckedInFile
  <2>1. CASE p \in acked
    BY <1>1, <1>2, <2>1 DEF AckedInFile, TypeOK
  <2>2. CASE p = <<k, a>>
    BY <1>4, <2>2
  <2>3. QED
    BY <1>4, <2>1, <2>2
<1>5. ASSUME NEW w \in Writer, Exists(w) PROVE AckedInFile'
  <2>0. PICK t \in Archive, k \in Hash : t = Target(w) /\ k = job[w].h
    BY <1>5, CallJob DEF Exists, Target, TypeOK
  <2>1. pc[w] = "try" /\ k \in wMap[t] /\ UNCHANGED <<file, torn>>
    BY <1>5, <2>0 DEF Exists, PutResult, arVars
  <2>2. \A v \in InFlight(t) : job[v].h # k
    BY <2>0, <2>1 DEF InFlight, CallsInv, Active
  <2>3. k \in file[t] \/ <<k, t>> \in torn
    BY <2>1, <2>2 DEF ContentInv, Content
  <2>4. QED
    BY <1>4, <1>5, <2>0, <2>1, <2>3 DEF Exists, Ack
<1>6. ASSUME NEW w \in Writer, FileWrite(w) \/ Install(w) PROVE AckedInFile'
  <2>0. PICK t \in Archive, k \in Hash : t = at[w] /\ k = job[w].h
    BY <1>6, CallJob DEF FileWrite, Install, CallsInv, TypeOK
  <2>1. k \in file'[t]
    BY <1>6, <2>0 DEF FileWrite, Install, CallsInv, TypeOK
  <2>2. QED
    BY <1>4, <1>6, <2>0, <2>1 DEF FileWrite, Install, Ack
<1>7. QED
  BY <1>3, <1>5, <1>6 DEF Next, WriteStep, Call, LockRead, LockWrite, Insert, Miss, Retry, Create,
     CtorWrite, WriteFails, UploadStep, Mark, Upload, Enqueue, UploadFails,
     Move, SyncStatic, SyncStep, CheckClosed, Take, SyncArchive, SyncFails, Close, CloseReturn

-----------------------------------------------------------------------------
(* The inductive invariant. *)

\* ArchiveInv holds before any write.
THEOREM ArchiveInitInv == Init => ArchiveInv
<1> SUFFICES ASSUME Init PROVE ArchiveInv
  OBVIOUS
<1>1. TypeOK
  BY DefaultAssumption DEF Init, TypeOK
<1>2. CallsInv /\ LockInv
  BY DEF Init, CallsInv, LockInv, Active
<1>3. ContentInv
  BY DEF Init, ContentInv, Content, InFlight
<1>4. QueueInv /\ AckedInFile /\ LeavesReported
  BY DEF Init, QueueInv, AckedInFile, LeavesReported, Unused
<1>5. QED
  BY <1>1, <1>2, <1>3, <1>4 DEF ArchiveInv

\* Every step of a writer, an upload thread, the SyncQueue thread, a MoveThread or a
\* caller of sync and close keeps it.
THEOREM ArchiveNextInv == ArchiveInv /\ [Next]_vars => ArchiveInv'
<1> SUFFICES ASSUME ArchiveInv, [Next]_vars PROVE ArchiveInv'
  OBVIOUS
<1>0. TypeOK /\ CallsInv /\ LockInv /\ ContentInv /\ QueueInv /\ AckedInFile /\ LeavesReported
  BY DEF ArchiveInv
<1>1. ASSUME NEW w \in Writer,
             \/ \E h \in Hash, u \in Uuid : Call(w, h, u)
             \/ LockWrite(w) \/ WriteStep(w) \/ WriteFails(w)
      PROVE  ArchiveInv'
  <2>1. Next
    BY <1>1 DEF Next
  <2>2. TypeOK'
    BY <1>0, <1>1, WriterType
  <2>3. QED
    BY <1>0, <1>1, <2>1, <2>2, WriterCalls, WriterLock, WriterContent, WriterQueue, Answers
       DEF ArchiveInv
<1>2. ASSUME \/ \E a \in Archive : UploadStep(a) \/ UploadFails(a) \/ Move(a) \/ SyncStatic(a)
             \/ SyncStep \/ SyncFails \/ Close \/ CloseReturn
      PROVE  ArchiveInv'
  <2>1. Next
    BY <1>2 DEF Next
  <2>2. TypeOK'
    BY <1>0, <1>2, ThreadType
  <2>3. QED
    BY <1>0, <1>2, <2>1, <2>2, ThreadCalls, ThreadLock, ThreadContent, ThreadQueue, Answers
       DEF ArchiveInv
<1>3. CASE UNCHANGED vars
  BY <1>0, <1>3 DEF ArchiveInv, TypeOK, CallsInv, LockInv, ContentInv, Content, QueueInv,
     AckedInFile, LeavesReported, Active, HasWritable, Target, InFlight, Unused, HashesOf,
     vars, callVars, arVars, syncVars
<1>4. QED
  BY <1>1, <1>2, <1>3 DEF Next

\* ArchiveInv is an invariant of the archives.
THEOREM ArchiveInvariance == Spec => []ArchiveInv
  BY ArchiveInitInv, ArchiveNextInv, PTL DEF Spec

\* The state of the archives and of their threads always has its type.
THEOREM ArchiveTypeCorrect == Spec => []TypeOK
<1>1. ArchiveInv => TypeOK
  BY DEF ArchiveInv
<1>2. QED
  BY <1>1, ArchiveInvariance, PTL

\* An answered chunk is in the file of the archive that was named, unless a write of
\* that chunk to it has failed.
THEOREM AnswersTrue == Spec => []AckedInFile
<1>1. ArchiveInv => AckedInFile
  BY DEF ArchiveInv
<1>2. QED
  BY <1>1, ArchiveInvariance, PTL

\* What the chunk store is given is the whole archive, whoever writes to it while it is
\* closed and uploaded.
THEOREM UploadsComplete == Spec => []UploadComplete
<1>1. ArchiveInv => UploadComplete
  BY DEF ArchiveInv, ContentInv, Content, UploadComplete
<1>2. QED
  BY <1>1, ArchiveInvariance, PTL

\* An archive that has left rchunks is stored and all its hashes have been reported.
THEOREM ReportedFirst == Spec => []LeavesReported
<1>1. ArchiveInv => LeavesReported
  BY DEF ArchiveInv
<1>2. QED
  BY <1>1, ArchiveInvariance, PTL

\* A writable archive of a file is never displaced by a newly made one.
THEOREM NoDisplacement == Spec => NeverDisplaced
<1> DEFINE Keep == \A u \in Uuid :
                     LET a == writableArchives[u]
                     IN  a # None /\ writableArchives'[u] \notin {a, None} => ~writeable[a]
<1>1. ArchiveInv /\ [Next]_vars => [Keep]_vars
  <2> SUFFICES ASSUME ArchiveInv, Next, NEW u \in Uuid, writableArchives[u] # None,
                      writableArchives'[u] \notin {writableArchives[u], None}
               PROVE  ~writeable[writableArchives[u]]
    OBVIOUS
  <2>1. PICK w \in Writer : Install(w)
    BY DEF ArchiveInv, TypeOK, Next, WriteStep, Call, LockRead, LockWrite, Insert, Exists, Miss,
       Retry, Create, FileWrite, CtorWrite, WriteFails, UploadStep, Mark, Upload, Enqueue,
       UploadFails, Move, SyncStatic, SyncStep, CheckClosed, Take, SyncArchive, SyncFails,
       Close, CloseReturn
  <2>2. job[w].u = u
    BY <2>1 DEF ArchiveInv, TypeOK, Install
  <2>3. QED
    BY <2>1, <2>2 DEF ArchiveInv, LockInv, HasWritable, Target, Install
<1>2. Spec => [][Keep]_vars
  BY <1>1, ArchiveInvariance, PTL DEF Spec
<1>3. QED
  BY <1>2 DEF NeverDisplaced
=============================================================================
