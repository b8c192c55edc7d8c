---------------------------- MODULE BucketInfer -----------------------------
(***************************************************************************)
(* Bucket/src/inferChunks.cc and inferChunksType.cc: within each bucket of  *)
(* chunks of one size, the chunks of the target trace are paired with those *)
(* of the auxiliary trace by frequency rank.  The second program looks at   *)
(* the chunks of one file type.                                             *)
(*                                                                         *)
(* CFCdb and CSFdb are the databases of the target trace; those of the      *)
(* auxiliary trace, MFCdb and MSFdb, are FCdb and SFdb as the reader left   *)
(* them.  Buckets are one-digit numbers: for them the order of the keys is  *)
(* the numeric one.  MD5 cut to six bytes is the injective function enc.    *)
(***************************************************************************)
EXTENDS BucketCount

CONSTANTS
    Plain,      \* plaintext fingerprints
    enc,        \* plaintext fingerprint -> fingerprint of the encrypted chunk
    Type,       \* the type that inferChunksType is asked for
    THRESHOLD   \* pairs per bucket of inferChunks

ASSUME InferAssumption ==
    /\ Plain \subseteq Fp /\ enc \in [Plain -> Fp] /\ IsInjective(enc)
    /\ \A x \in Plain : size[enc[x]] = size[x]
    /\ Type \in Types /\ THRESHOLD \in Nat

VARIABLES
    CFCdb, CSFdb,
    todo,           \* buckets the iterator has still to visit
    mQue, cQue,     \* priority queues: fingerprint -> entries of it
    rounds,         \* rounds left of the inference loop
    uniqueInfer, correctInfer, rawInfer,    \* the three counters
    OUTdb,          \* correctly inferred plaintext -> ciphertext
    loop,           \* "idle", "bucket" or "infer"
    made            \* history: the pairs inferred

queues    == <<mQue, cQue, rounds>>
result    == <<uniqueInfer, correctInfer, rawInfer, OUTdb, made>>
inferVars == <<CFCdb, CSFdb, todo, queues, result, loop>>

\* outPutChunks of encryptFSL: fingerprints are encrypted, sizes are kept.
Encrypt(tr) ==
    [i \in DOMAIN tr |-> [type |-> tr[i].type,
                          chunks |-> [j \in DOMAIN tr[i].chunks |-> enc[tr[i].chunks[j]]]]]

Empty == [x \in Fp |-> 0]

\* The count of x that the program reads.
FC(db, x) == db[<<x, IF study = "type" THEN Type ELSE "any">>]

\* Buckets that the database has.
Filled(db) == {b \in DOMAIN db : db[b] # <<>>}

InferInit ==
    /\ CFCdb = NoCounts /\ CSFdb = <<>>
    /\ todo = {} /\ mQue = Empty /\ cQue = Empty /\ rounds = 0
    /\ uniqueInfer = 0 /\ correctInfer = 0 /\ rawInfer = 0
    /\ OUTdb = <<>> /\ made = {}
    /\ loop = "idle"

\* inferTest: SeekToFirst.
StartInfer ==
    /\ loop = "idle"
    /\ todo' = Filled(CSFdb)
    /\ loop' = "bucket"
    /\ UNCHANGED <<CFCdb, CSFdb, queues, result>>

Current(b) == loop = "bucket" /\ b \in todo /\ \A a \in todo : b <= a

\* Mutant: the iterator does not move on.
NoBucketStays(b) ==
    /\ Current(b) /\ b \notin Filled(SFdb)
    /\ UNCHANGED inferVars

\* No chunk of the auxiliary trace has this size.
NoBucket(b) ==
    /\ Current(b) /\ b \notin Filled(SFdb)
    /\ todo' = todo \ {b}
    /\ UNCHANGED <<CFCdb, CSFdb, queues, result, loop>>

\* inferChunks asserts that every chunk of the bucket has a count;
\* inferChunksType leaves those without one out.
Asserted(counts, list) == study = "type" \/ \A x \in Range(list) : FC(counts, x) > 0

\* The chunks of the bucket that have a count are pushed.
Push(q, counts, list) ==
    [x \in Fp |-> q[x] + IF FC(counts, x) > 0 THEN Entries(list, x) ELSE 0]

Least(m, n) == IF m < n THEN m ELSE n

\* inferChunks stops at THRESHOLD pairs.
Rounds(n) == IF study = "type" THEN n ELSE Least(n, THRESHOLD)

\* Both queues are filled.
Load(b) ==
    /\ Current(b) /\ b \in Filled(SFdb)
    /\ Asserted(CFCdb, CSFdb[b]) /\ Asserted(FCdb, SFdb[b])
    /\ mQue' = Push(mQue, FCdb, SFdb[b])
    /\ cQue' = Push(cQue, CFCdb, CSFdb[b])
    /\ rounds' = Rounds(Least(SumFunction(mQue'), SumFunction(cQue')))
    /\ todo' = todo \ {b}
    /\ loop' = "infer"
    /\ UNCHANGED <<CFCdb, CSFdb, result>>

\* What top() may return.
Top(q, counts) ==
    {x \in Fp : q[x] > 0 /\ \A y \in Fp : q[y] > 0 => FC(counts, y) <= FC(counts, x)}

\* Mutant: wrong pairs are counted too.
CorrectAll(m, c) ==
    /\ rawInfer' = rawInfer + FC(CFCdb, c)
    /\ correctInfer' = correctInfer + 1
    /\ OUTdb' = IF enc[m] = c
                  THEN [x \in DOMAIN OUTdb \cup {m} |-> IF x = m THEN c ELSE OUTdb[x]]
                  ELSE OUTdb

\* The pair is right if the one encrypts to the other.
Correct(m, c) ==
    IF enc[m] = c
      THEN /\ rawInfer' = rawInfer + FC(CFCdb, c)
           /\ correctInfer' = correctInfer + 1
           /\ OUTdb' = [x \in DOMAIN OUTdb \cup {m} |-> IF x = m THEN c ELSE OUTdb[x]]
      ELSE UNCHANGED <<rawInfer, correctInfer, OUTdb>>

\* Mutant of Pop: the auxiliary queue is not popped.
PopTarget(m, c) ==
    /\ mQue' = mQue
    /\ cQue' = [cQue EXCEPT ![c] = @ - 1]

Pop(m, c) ==
    /\ mQue' = [mQue EXCEPT ![m] = @ - 1]
    /\ cQue' = [cQue EXCEPT ![c] = @ - 1]

\* The two tops are paired.
InferPair(m, c) ==
    /\ loop = "infer" /\ rounds > 0
    /\ m \in Top(mQue, FCdb) /\ c \in Top(cQue, CFCdb)
    /\ uniqueInfer' = uniqueInfer + 1
    /\ Correct(m, c)
    /\ made' = made \cup {<<m, c>>}
    /\ Pop(m, c)
    /\ rounds' = rounds - 1
    /\ UNCHANGED <<CFCdb, CSFdb, todo, loop>>

\* Mutant of EndBucket: what is left in the queues stays there.
EndBucketKeeps ==
    /\ loop = "infer" /\ rounds = 0
    /\ loop' = "bucket"
    /\ UNCHANGED <<CFCdb, CSFdb, todo, queues, result>>

\* inferChunks empties both queues, inferChunksType does not.
EndBucket ==
    /\ loop = "infer" /\ rounds = 0
    /\ IF study = "type" THEN UNCHANGED <<mQue, cQue>> ELSE mQue' = Empty /\ cQue' = Empty
    /\ loop' = "bucket"
    /\ UNCHANGED <<CFCdb, CSFdb, todo, rounds, result>>

InferNext ==
    \/ StartInfer \/ EndBucket
    \/ \E b \in Buckets : NoBucket(b) \/ Load(b)
    \/ \E m \in Plain, c \in Range(enc) : InferPair(m, c)

InferDone == loop = "bucket" /\ todo = {}

-----------------------------------------------------------------------------
(* Properties *)

\* The thesis pairs only chunks with the same number of blocks (R3).
\* inferChunks keeps to it: nothing of one bucket is paired with anything of
\* another, whatever earlier buckets left over.
SameBucket == study = "base" => \A p \in made : BucketOf(p[1]) = BucketOf(p[2])

\* Every chunk occurs with at most one type in both databases.
OneTypeEach ==
    \A x \in Fp : \A db \in {FCdb, CFCdb} :
        Cardinality({t \in Types \cup {"any"} : db[<<x, t>>] > 0}) <= 1

\* If chunks have one type, a chunk of either trace is in at most one pair,
\* also across the buckets between which inferChunksType keeps its queues, and
\* the number printed as uniqueinferchunknumber is the number of pairs.
PairedOnce ==
    loop # "idle" /\ OneTypeEach =>
        /\ uniqueInfer = Cardinality(made)
        /\ \A p, q \in made : p[1] = q[1] <=> p[2] = q[2]

\* The counters agree with the output database that the second case study
\* reads, and no more occurrences are inferred than the database of the
\* target trace counts.
OutputCounted ==
    loop # "idle" /\ OneTypeEach =>
        /\ correctInfer = Cardinality(DOMAIN OUTdb)
        /\ rawInfer <= SumFunction(CFCdb)

=============================================================================
