---------------------------- MODULE ArchiveReuse ----------------------------
(***************************************************************************)
(* HashBlobArchive with an endless supply of identifiers.                   *)
(*                                                                         *)
(* getNewArchiveID draws a random 64-bit number, so the program never runs  *)
(* out of archives, and the loop of writeBlock may meet a new one in every  *)
(* round.  Here the finitely many identifiers are handed out again: one     *)
(* that nothing in this module's state names any more, its archive stored,  *)
(* reported and out of rchunks, becomes unused.  Behaviours without an end  *)
(* exist, which liveness is about; the safety properties,                   *)
(* which remember what became of every archive, are checked without reuse.  *)
(***************************************************************************)
EXTENDS HashBlobArchive

\* No thread, queue or table names the archive a.
Forgotten(a) ==
    /\ thread[a] = "queued"
    /\ a \notin rchunks \cup moving \cup {cur}
    /\ \A i \in DOMAIN syncQueue : syncQueue[i] # a
    /\ \A u \in Uuid : writableArchives[u] # a
    /\ \A w \in Writer : at[w] # a

\* The identifier a stands for one that has never been drawn.
Fresh(a) ==
    /\ Forgotten(a)
    /\ writeable' = [writeable EXCEPT ![a] = FALSE]
    /\ owner'  = [owner EXCEPT ![a] = Default]
    /\ wMap'   = [wMap EXCEPT ![a] = {}]
    /\ file'   = [file EXCEPT ![a] = {}]
    /\ thread' = [thread EXCEPT ![a] = "unused"]
    /\ store'  = [store EXCEPT ![a] = {}]
    /\ syncd'  = [syncd EXCEPT ![a] = FALSE]
    /\ acked'    = acked \ (Hash \X {a})
    /\ reported' = reported \ (Hash \X {a})
    /\ torn'     = torn \ (Hash \X {a})
    /\ UNCHANGED <<callVars, writableArchives, rchunks, syncQueue, sq, cur, moving,
                   closed>>

ReuseNext == Next \/ \E a \in Archive : Fresh(a)

\* As in FairSpec, and a call that waits for the read side of slock, again and
\* again free, gets it: the threads that wait for a lock wait in a queue.
ReuseSpec ==
    /\ Init
    /\ [][ReuseNext]_vars
    /\ Fairness
    /\ \A w \in Writer : SF_vars(LockRead(w))

-----------------------------------------------------------------------------
\* A call of writeBlock returns, with one exception: it goes round its loop for
\* ever while others make archive after archive and fill each before it gets the
\* write lock.  No lock is held for ever, no full archive is tried for ever, and
\* the upload a writer runs itself under the write lock (CallerRunsPolicy) ends.
WriteReturns ==
    \A w \in Writer :
        \/ []<>(pc[w] = "idle")
        \/ /\ []<><<Retry(w)>>_vars
           /\ \E v \in Writer \ {w} : []<><<Create(v)>>_vars

\* Every archive is stored and leaves rchunks, however many are made after it,
\* unless the program is closed: setReadSpeed, setWriteSpeed and setCacheSize
\* wait for it.
ArchiveDrains ==
    \A a \in Archive : a \in rchunks ~> a \notin rchunks \/ closed # "no"
=============================================================================
