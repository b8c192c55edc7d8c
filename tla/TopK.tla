-------------------------------- MODULE TopK --------------------------------
(***************************************************************************)
(* The bounded min-heap of locality_attack.cc and entropy_attack.cc:        *)
(* db_insert, left_insert and right_insert stream a table or a row through  *)
(* a priority queue of at most k nodes, the smallest on top, and the main   *)
(* loop then drains it.  Which of several nodes with the least count        *)
(* std::priority_queue holds on top is left open.                           *)
(***************************************************************************)
EXTENDS ChunkTables, Ranking

CONSTANT INIT_U     \* INIT, u: the k of db_insert

ASSUME KAssumption == INIT_U \in Nat \ {0}

VARIABLES
    tbl,        \* fingerprint -> count, 0 when absent
    todo,       \* entries the iterator has still to visit
    pq,         \* the heap
    stack       \* the drained nodes, in the order they were popped

heapVars == <<tbl, todo, pq, stack>>

NoTable == [x \in Fp |-> 0]

HeapInit == tbl = NoTable /\ todo = {} /\ pq = {} /\ stack = <<>>

Seen == Present(tbl) \ todo

\* The nodes that top() may return.
Top(heap) == {x \in heap : \A y \in heap : tbl[x] <= tbl[y]}

\* The iterator is placed before the first entry of the table.
SeekToFirst(t) ==
    /\ tbl' = t
    /\ todo' = Present(t)
    /\ pq' = {}
    /\ stack' = <<>>

\* Mutant: a node replaces the smallest one without being larger.
InsertAlways(x) ==
    /\ x \in todo /\ \A y \in todo : x <= y
    /\ todo' = todo \ {x}
    /\ IF Cardinality(pq) < INIT_U THEN pq' = pq \cup {x}
       ELSE \E min \in Top(pq) : pq' = (pq \ {min}) \cup {x}
    /\ UNCHANGED <<tbl, stack>>

\* The next entry of the iterator, in the order of the keys: pushed while there
\* is room, later only in place of a strictly smaller top.
Insert(x) ==
    /\ x \in todo /\ \A y \in todo : x <= y
    /\ todo' = todo \ {x}
    /\ IF Cardinality(pq) < INIT_U THEN pq' = pq \cup {x}
       ELSE \E min \in Top(pq) :
                pq' = IF tbl[x] > tbl[min] THEN (pq \ {min}) \cup {x} ELSE pq
    /\ UNCHANGED <<tbl, stack>>

\* The loop that empties the heap into a stack.
Drain(x) ==
    /\ todo = {}
    /\ x \in Top(pq)
    /\ pq' = pq \ {x}
    /\ stack' = Append(stack, x)
    /\ UNCHANGED <<tbl, todo>>

Drained == todo = {} /\ pq = {}

\* The stack as it is read: most frequent first.
List == [i \in DOMAIN stack |-> stack[Len(stack) + 1 - i]]

HeapNext == \E x \in Fp : Insert(x) \/ Drain(x)

-----------------------------------------------------------------------------
(* Properties *)

HeapTypeOK ==
    /\ tbl \in [Fp -> Nat]
    /\ todo \subseteq Present(tbl)
    /\ pq \subseteq Present(tbl)
    /\ stack \in Seq(Present(tbl))

\* After every entry the heap, with what has been drained from it, holds INIT
\* of the most frequent entries seen so far, and what has been drained came out
\* by increasing count: the list that the analysis pairs by position is the
\* ranking of the table.
HeapIsTop ==
    /\ IsTop(pq \cup Range(stack), Seen, tbl, INIT_U)
    /\ \A i, j \in DOMAIN stack : i < j => tbl[stack[i]] <= tbl[stack[j]]
    /\ Drained => List \in Ranked(tbl, INIT_U)

=============================================================================
