--------------------------- MODULE EntropyAttack ---------------------------
(***************************************************************************)
(* single_stream/entropy_attack.cc: the analysis of LocalityAttack with a   *)
(* filter.  Ranks no longer decide alone: a target chunk is paired with the *)
(* auxiliary chunk of a nearby rank whose neighbour distributions have the  *)
(* closest entropies, when they are close enough (peakToPair).              *)
(*                                                                         *)
(* Tables, queues, counters, stat_db and the heaps are the same code as in  *)
(* locality_attack.cc and are taken from LocalityAttack.  An entropy is a   *)
(* number of thousandths of a bit; its terms are tabulated by plog.         *)
(***************************************************************************)
EXTENDS LocalityAttack

CONSTANTS
    plog,       \* <<n, s>> -> -(n/s) * log2(n/s), in thousandths
    RADIUS,     \* ranks looked at on either side
    THRESHOLD   \* ENTROPY_THESHOLD, in thousandths

ASSUME RadiusAssumption == RADIUS \in Nat \ {0} /\ THRESHOLD \in Nat

VARIABLE
    batch       \* the arguments of the running peakToPair: the two lists, the
                \* target position i, the radius r to the left, and the
                \* positions of os that are used up (entropy MAX_INT)

evars == <<vars, batch>>

NoBatch == [os |-> <<>>, ts |-> <<>>, i |-> 1, r |-> 0, used |-> {}]

-----------------------------------------------------------------------------
(* Entropies and distances *)

\* entropy: 0 for an empty row.
Entropy(row) ==
    LET sum == SumFunction(row)
    IN  SumFunctionOnSet([x \in Present(row) |-> plog[<<row[x], sum>>]], Present(row))

Square(n) == n * n

\* dist, squared.
Dist2(o, t) ==
    Square(Entropy(origin.L[o]) - Entropy(target.L[t]))
      + Square(Entropy(origin.R[o]) - Entropy(target.R[t]))

-----------------------------------------------------------------------------
(* peakToPair *)

\* Positions of the auxiliary list the loop looks at: from i - r, inclusive,
\* to i + RADIUS, exclusive.
Window(b) == {j \in DOMAIN b.os : b.i - b.r <= j /\ j < b.i + RADIUS}

Candidates(b) ==
    {j \in Window(b) \ b.used : Dist2(b.os[j], b.ts[b.i]) < Square(THRESHOLD)}

\* The closest candidate, the first one of several.
IsMinpos(b, j) ==
    /\ j \in Candidates(b)
    /\ \A k \in Candidates(b) :
          LET dj == Dist2(b.os[j], b.ts[b.i])
              dk == Dist2(b.os[k], b.ts[b.i])
          IN  dj < dk \/ (dj = dk /\ j <= k)

Peaking == pc \in {"peak", "left", "right"} /\ batch.i <= Len(batch.ts)

Peaked  == batch.i > Len(batch.ts)

\* No chunk in reach, or the target chunk has an entry in uniq.
PeakSkip ==
    /\ Peaking
    /\ Candidates(batch) = {} \/ batch.ts[batch.i] \in uniq
    /\ batch' = [batch EXCEPT !.i = @ + 1]
    /\ UNCHANGED vars

PeakBreak ==
    /\ Peaking
    /\ Candidates(batch) # {} /\ batch.ts[batch.i] \notin uniq
    /\ Full
    /\ batch' = NoBatch
    /\ UNCHANGED vars

\* A pair enters the inferred set.  Both fingerprints become keys of uniq, and
\* the auxiliary chunk is out of reach for the rest of the call.
PeakPair ==
    /\ Peaking
    /\ batch.ts[batch.i] \notin uniq
    /\ ~Full
    /\ \E j \in DOMAIN batch.os :
          /\ IsMinpos(batch, j)
          /\ q_o' = Append(q_o, batch.os[j])
          /\ q_t' = Append(q_t, batch.ts[batch.i])
          /\ uniq' = uniq \cup {batch.ts[batch.i], batch.os[j]}
          /\ pairs' = pairs \cup {<<batch.os[j], batch.ts[batch.i]>>}
          /\ batch' = [batch EXCEPT !.i = @ + 1, !.used = @ \cup {j}]
    /\ UNCHANGED <<tables, stats, work, ansq, pc, tried, ranking>>

-----------------------------------------------------------------------------
(* main_loop *)

\* The INIT most frequent chunks of both sides, with a window on both sides.
EStart ==
    /\ pc = "rank_t" /\ Drained
    /\ batch' = [NoBatch EXCEPT !.os = seeds, !.ts = List, !.r = 2]
    /\ seeds' = <<>>
    /\ SeekToFirst(NoTable)
    /\ pc' = "peak"
    /\ UNCHANGED rest

ERank == (RankOrigin \/ Ranks \/ RankTarget) /\ UNCHANGED batch

EStartFromLeak == StartFromLeak /\ UNCHANGED batch

ELoop ==
    /\ pc = "peak" /\ Peaked
    /\ pc' = "loop"
    /\ UNCHANGED <<tables, queues, stats, work, ansq, tried, batch, ranking>>

\* Neighbours of the fronts, paired as in LocalityAttack, are handed over as
\* two lists of the same length with a window to the right only.
Hand(row_o, row_t) ==
    \E ps \in Neighbours(row_o, row_t) :
        batch' = [NoBatch EXCEPT !.os = [i \in DOMAIN ps |-> ps[i][1]],
                                 !.ts = [i \in DOMAIN ps |-> ps[i][2]]]

ELeft ==
    /\ pc = "loop" /\ q_o # <<>> /\ q_t # <<>>
    /\ ansq' = IF Head(q_o) = Head(q_t) THEN Append(ansq, Head(q_o)) ELSE ansq
    /\ Hand(origin.L[Head(q_o)], target.L[Head(q_t)])
    /\ pc' = "left"
    /\ UNCHANGED <<tables, queues, stats, work, tried, ranking>>

ERight ==
    /\ pc = "left" /\ Peaked
    /\ Hand(origin.R[Head(q_o)], target.R[Head(q_t)])
    /\ pc' = "right"
    /\ UNCHANGED <<tables, queues, stats, work, ansq, tried, ranking>>

EPop == Peaked /\ Pop /\ batch' = NoBatch

EEnd == End /\ UNCHANGED batch

ENext == ERank \/ EStart \/ EStartFromLeak \/ ELoop \/ ELeft \/ ERight \/ EPop \/ EEnd
           \/ PeakSkip \/ PeakBreak \/ PeakPair

-----------------------------------------------------------------------------
(* Properties: those of LocalityAttack, for which the queues are only filled   *)
(* by pairs, and the type of the running call.                                 *)

ETypeOK ==
    /\ TypeOK
    /\ batch.os \in Seq(Fp) /\ batch.ts \in Seq(Fp)
    /\ batch.i \in Nat /\ batch.r \in Nat
    /\ batch.used \subseteq DOMAIN batch.os
=============================================================================
