--------------------------- MODULE LocalityAttack ---------------------------
(***************************************************************************)
(* single_stream/locality_attack.cc: iterated frequency analysis over the   *)
(* tables of an auxiliary trace (origin) and of a target trace, both made   *)
(* by locality_count.cc.  The traces hold plaintext fingerprints: a pair is *)
(* correct when its two fingerprints are equal.                             *)
(*                                                                         *)
(* The counts of the nodes are only used to rank them, so the queues hold   *)
(* fingerprints; uniq, a database whose values are never read, is a set.    *)
(* The heap that ranks the chunks of a trace is TopK step by step; those of  *)
(* the rows of neighbours work alike and are used through their lists.       *)
(***************************************************************************)
EXTENDS TopK, RowTables, SequencesExt

CONSTANTS
    Leaking,        \* which of LEAK_RATE = 0 (FALSE) and > 0 (TRUE) to explore
    TH_K,           \* v: neighbours taken from a row
    QUEUE_LIMIT,    \* w: bound of the inferred set
    Leftover        \* contents an existing ./inference-db may have

ASSUME ParameterAssumption ==
    /\ TH_K \in Nat \ {0} /\ QUEUE_LIMIT \in Nat
    /\ Leaking \subseteq BOOLEAN
    /\ Leftover \subseteq SUBSET Fp

VARIABLES
    origin, target,     \* tables F, L and R of the two traces
    leaking,            \* LEAK_RATE # 0
    q_o, q_t,           \* the inferred set G, as two queues
    uniq,               \* inferred target chunks
    work,               \* omp and tmp: pairs of neighbours still to be tried
    ansq,               \* the correctly inferred chunks
    total, common, leak,\* counters of stat_db
    seeds,              \* the ranked auxiliary chunks the analysis starts from
    pc,                 \* where main is
    pairs,              \* history: the pairs that entered the queues together
    tried               \* history: target chunks that left the queue

tables  == <<origin, target, leaking>>
queues  == <<q_o, q_t, uniq, pairs>>
stats   == <<total, common, leak>>
ranking == <<heapVars, seeds>>
rest    == <<tables, queues, stats, work, ansq, tried>>
vars    == <<rest, ranking, pc>>

correct == Len(ansq)

-----------------------------------------------------------------------------
(* stat_db and the start of main_loop *)

Init ==
    /\ origin = TablesOf(<<>>) /\ target = TablesOf(<<>>)
    /\ leaking = FALSE /\ uniq = {}
    /\ q_o = <<>> /\ q_t = <<>> /\ work = <<>> /\ ansq = <<>>
    /\ total = 0 /\ common = 0 /\ leak = 0
    /\ HeapInit /\ seeds = <<>>
    /\ pc = "idle"
    /\ pairs = {} /\ tried = {}

\* The program is started on the databases o and t of two snapshots.
Begin(o, t) ==
    /\ pc = "idle"
    /\ origin' = o /\ target' = t
    /\ leaking' \in Leaking
    /\ uniq' \in Leftover
    /\ pc' = "stat"
    /\ UNCHANGED <<q_o, q_t, pairs, stats, work, ansq, tried, ranking>>

\* Enqueue a list of plaintext and a list of target chunks.
Start(os, ts) ==
    /\ q_o' = os
    /\ q_t' = ts
    /\ uniq' = uniq \cup Range(ts)
    /\ pairs' = {<<os[i], ts[i]>> : i \in DOMAIN os \cap DOMAIN ts}

\* Without leakage stat_db only counts the target chunks, and main_loop starts
\* from the INIT most frequent chunks: of the auxiliary trace first.
RankOrigin ==
    /\ pc = "stat" /\ ~leaking
    /\ total' = Cardinality(Present(target.F))
    /\ SeekToFirst(origin.F)
    /\ pc' = "rank_o"
    /\ UNCHANGED <<tables, queues, common, leak, work, ansq, tried, seeds>>

Ranks == pc \in {"rank_o", "rank_t"} /\ HeapNext /\ UNCHANGED <<rest, seeds, pc>>

RankTarget ==
    /\ pc = "rank_o" /\ Drained
    /\ seeds' = List
    /\ SeekToFirst(target.F)
    /\ pc' = "rank_t"
    /\ UNCHANGED rest

StartFromRanks ==
    /\ pc = "rank_t" /\ Drained
    /\ Start(seeds, List)
    /\ seeds' = <<>>
    /\ SeekToFirst(NoTable)
    /\ pc' = "loop"
    /\ UNCHANGED <<tables, stats, work, ansq, tried>>

\* Mutant: the leaked chunks that can be inferred are not counted.
StartFromLeakTwice ==
    /\ pc = "stat" /\ leaking
    /\ total' = Cardinality(Present(target.F))
    /\ \E leaked \in SUBSET Present(target.F) :
          LET known == SetToSeq(leaked \cap Present(origin.F))
          IN  /\ common' = Cardinality(leaked)
              /\ leak' = 0
              /\ Start(known, known)
    /\ pc' = "loop"
    /\ UNCHANGED <<tables, work, ansq, tried, ranking>>

\* With leakage every target chunk is leaked or not (rand), and a leaked chunk
\* that the auxiliary trace has is enqueued paired with itself.
StartFromLeak ==
    /\ pc = "stat" /\ leaking
    /\ total' = Cardinality(Present(target.F))
    /\ \E leaked \in SUBSET Present(target.F) :
          LET known == SetToSeq(leaked \cap Present(origin.F))
          IN  /\ common' = Cardinality(leaked)
              /\ leak' = Len(known)
              /\ Start(known, known)
    /\ pc' = "loop"
    /\ UNCHANGED <<tables, work, ansq, tried, ranking>>

-----------------------------------------------------------------------------
(* The main loop *)

\* Both heaps are popped together, smallest node first, until one is empty,
\* and the stacks then yield the pairs from the last one back: the shorter
\* list is paired with the end of the longer one.
Paired(os, ts) ==
    LET m == Least(Len(os), Len(ts))
    IN  [i \in 1..m |-> <<os[Len(os) - m + i], ts[Len(ts) - m + i]>>]

\* The pairs of neighbours of the two fronts, most frequent first.
Neighbours(row_o, row_t) ==
    {Paired(os, ts) : os \in Ranked(row_o, TH_K), ts \in Ranked(row_t, TH_K)}

\* The fronts are compared, and their left neighbours are ranked.
Left ==
    /\ pc = "loop" /\ q_o # <<>> /\ q_t # <<>>
    /\ ansq' = IF Head(q_o) = Head(q_t) THEN Append(ansq, Head(q_o)) ELSE ansq
    /\ work' \in Neighbours(origin.L[Head(q_o)], target.L[Head(q_t)])
    /\ pc' = "left"
    /\ UNCHANGED <<tables, queues, stats, tried, ranking>>

\* Mutant of Skip: the pair stays on the stacks.
SkipStays ==
    /\ pc \in {"left", "right"} /\ work # <<>>
    /\ Head(work)[2] \in uniq
    /\ UNCHANGED vars

\* The target chunk of the next pair has been inferred before.
Skip ==
    /\ pc \in {"left", "right"} /\ work # <<>>
    /\ Head(work)[2] \in uniq
    /\ work' = Tail(work)
    /\ UNCHANGED <<tables, queues, stats, ansq, pc, tried, ranking>>

Full == Len(q_o) + 1 > QUEUE_LIMIT

\* Mutant of Infer: the target chunk is not recorded.
InferUnrecorded ==
    /\ pc \in {"left", "right"} /\ work # <<>>
    /\ Head(work)[2] \notin uniq
    /\ ~Full
    /\ q_o' = Append(q_o, Head(work)[1])
    /\ q_t' = Append(q_t, Head(work)[2])
    /\ pairs' = pairs \cup {Head(work)}
    /\ work' = Tail(work)
    /\ UNCHANGED <<tables, uniq, stats, ansq, pc, tried, ranking>>

\* Mutant of Infer: the auxiliary chunk is put in front.
InferSwapped ==
    /\ pc \in {"left", "right"} /\ work # <<>>
    /\ Head(work)[2] \notin uniq
    /\ ~Full
    /\ uniq' = uniq \cup {Head(work)[2]}
    /\ q_o' = <<Head(work)[1]>> \o q_o
    /\ q_t' = Append(q_t, Head(work)[2])
    /\ pairs' = pairs \cup {Head(work)}
    /\ work' = Tail(work)
    /\ UNCHANGED <<tables, stats, ansq, pc, tried, ranking>>

\* A new pair enters the inferred set.
Infer ==
    /\ pc \in {"left", "right"} /\ work # <<>>
    /\ Head(work)[2] \notin uniq
    /\ ~Full
    /\ uniq' = uniq \cup {Head(work)[2]}
    /\ q_o' = Append(q_o, Head(work)[1])
    /\ q_t' = Append(q_t, Head(work)[2])
    /\ pairs' = pairs \cup {Head(work)}
    /\ work' = Tail(work)
    /\ UNCHANGED <<tables, stats, ansq, pc, tried, ranking>>

\* The inferred set is full: break, the other pairs are dropped.
Break ==
    /\ pc \in {"left", "right"} /\ work # <<>>
    /\ Head(work)[2] \notin uniq
    /\ Full
    /\ work' = <<>>
    /\ UNCHANGED <<tables, queues, stats, ansq, pc, tried, ranking>>

\* The same for the right neighbours.
Right ==
    /\ pc = "left" /\ work = <<>>
    /\ work' \in Neighbours(origin.R[Head(q_o)], target.R[Head(q_t)])
    /\ pc' = "right"
    /\ UNCHANGED <<tables, queues, stats, ansq, tried, ranking>>

Pop ==
    /\ pc = "right" /\ work = <<>>
    /\ q_o' = Tail(q_o)
    /\ q_t' = Tail(q_t)
    /\ tried' = tried \cup {Head(q_t)}
    /\ pc' = "loop"
    /\ UNCHANGED <<tables, uniq, pairs, stats, work, ansq, ranking>>

End ==
    /\ pc = "loop" /\ (q_o = <<>> \/ q_t = <<>>)
    /\ pc' = "done"
    /\ UNCHANGED <<tables, queues, stats, work, ansq, tried, ranking>>

Next == RankOrigin \/ Ranks \/ RankTarget \/ StartFromRanks \/ StartFromLeak
          \/ Left \/ Skip \/ Infer \/ Break \/ Right \/ Pop \/ End

-----------------------------------------------------------------------------
(* Properties *)

\* The queues, the work list and the counters.
TypeOK ==
    /\ HeapTypeOK
    /\ leaking \in BOOLEAN
    /\ q_o \in Seq(Fp) /\ q_t \in Seq(Fp) /\ seeds \in Seq(Fp)
    /\ work \in Seq(Fp \X Fp)
    /\ uniq \subseteq Fp /\ tried \subseteq Fp
    /\ pairs \subseteq Fp \X Fp
    /\ ansq \in Seq(Fp)
    /\ total \in Nat /\ common \in Nat /\ leak \in Nat

\* A target chunk is inferred at most once, also when an older inference-db
\* marked it: it is not queued twice and not queued after it was tried.
InferredOnce ==
    /\ IsInjective(q_t)
    /\ pc = "loop" => Range(q_t) \cap tried = {}

Chunks(t) == Cardinality(Present(t.F))

EqualStart == leaking \/ Least(INIT_U, Chunks(origin)) = Least(INIT_U, Chunks(target))

QueuesPaired ==
    /\ Len(q_o) = Len(q_t)
    /\ \A i \in DOMAIN q_o : <<q_o[i], q_t[i]>> \in pairs

Clean(t) == \A x \in Present(t.F) : name[x] = x

\* The printed number of inferred chunks, correct + common - leak, is at most
\* the number of target chunks, when no fingerprint has a zero byte: leaked
\* chunks are not counted a second time when they are inferred, and no chunk
\* is answered twice.
RateAtMostOne ==
    pc = "done" /\ Clean(origin) /\ Clean(target) => correct + common - leak <= total

\* The analysis ends: every pair that is queued costs a target chunk.
Terminates == <>(pc = "done")

=============================================================================
