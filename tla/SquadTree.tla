------------------------------ MODULE SquadTree ------------------------------
(*****************************************************************************)
(* The tree along which a thread squad hands out and collects work.          *)
(*                                                                           *)
(* A squad of n threads is laid out once, by thread_squad_impl::init: each   *)
(* thread i gets a block of NumSubthreads(n, i) consecutive threads that     *)
(* starts with i itself.  A task that runs on c threads walks that block     *)
(* twice: to_subthreads (wake, broadcast) from the widest stride down,       *)
(* from_subthreads (await, merge, join, collect) from the narrowest up.      *)
(* Both walks are given here as the sequence of threads they visit.          *)
(*****************************************************************************)
EXTENDS Naturals, Sequences

CONSTANT TreeBreadth    \* thread_squad_impl::treeBreadth, 8 in the code

ASSUME TreeBreadthAssumption == TreeBreadth \in Nat /\ TreeBreadth >= 2

LesserOf(a, b) == IF a <= b THEN a ELSE b

NextSubstride(stride) == (stride + (TreeBreadth - 1)) \div TreeBreadth

\* Definitions whose comment begins with "Fault" are not the code but mistakes it
\* does not make; the checks put them in place of the definition that follows.

\* Fault: init assigns numSubthreads_ before its loop, so that the innermost
\* call is the last to do so.
InnermostSubthreads(n, i) == 1

(*****************************************************************************)
(* init(0, n, n) overwrites numSubthreads_ of a block's first thread from    *)
(* the inside out, so the stride that stays is that of the widest block      *)
(* the thread comes first in: descend from the whole squad into the          *)
(* sub-block that holds i until i is its first thread.                       *)
(*****************************************************************************)
NumSubthreads(n, i) ==
    LET widest[stride \in 1..n] ==
            [first \in 0..i |->
                IF first = i
                  THEN stride
                  ELSE LET sub == NextSubstride(stride)
                       IN  widest[sub][first + ((i - first) \div sub) * sub]]
    IN  widest[n][0]

\* for (int i = first; i < last; i += stride)
Steps(first, last, stride) ==
    [k \in 1 .. (IF first < last THEN (last - first + stride - 1) \div stride ELSE 0)
        |-> first + (k - 1) * stride]

\* Fault: the loop does not narrow last.
ToSubthreadsAgain(n, t, c) ==
    LET walk[stride \in 1..n] ==
            [last \in 0..n |->
                IF stride = 1
                  THEN << >>
                  ELSE LET sub == NextSubstride(stride)
                       IN  Steps(t + sub, last, sub) \o walk[sub][last]]
        own == NumSubthreads(n, t)
    IN  walk[own][LesserOf(t + own, c)]

\* The threads that thread t wakes, in order, for a task on c of n threads.
ToSubthreads(n, t, c) ==
    LET walk[stride \in 1..n] ==
            [last \in 0..n |->
                IF stride = 1
                  THEN << >>
                  ELSE LET sub == NextSubstride(stride)
                       IN  Steps(t + sub, last, sub)
                           \o walk[sub][LesserOf(t + sub, last)]]
        own == NumSubthreads(n, t)
    IN  walk[own][LesserOf(t + own, c)]

\* Fault: the widest stride comes first in both directions.
FromSubthreadsWidestFirst(n, t, c) == ToSubthreads(n, t, c)

\* The threads that thread t awaits, in order, for a task on c of n threads.
FromSubthreads(n, t, c) ==
    LET walk[stride \in 1..n] ==
            [last \in 0..n |->
                LET sub == NextSubstride(stride)
                IN  (IF stride = 1 THEN << >>
                                   ELSE walk[sub][LesserOf(t + sub, last)])
                    \o Steps(t + sub, last, sub)]
        own == NumSubthreads(n, t)
    IN  walk[own][LesserOf(t + own, c)]

-----------------------------------------------------------------------------
(*****************************************************************************)
(* What the squad relies on, for a task that runs on c of n threads.         *)
(*****************************************************************************)

Visited(seq) == {seq[k] : k \in 1 .. Len(seq)}

\* All threads that thread t may ever wake.
Subthreads(n, t) == Visited(ToSubthreads(n, t, n))

\* No thread is visited twice in a walk.
VisitsOnce(seq) ==
    \A k, l \in 1 .. Len(seq) : seq[k] = seq[l] => k = l

\* The same threads are awaited as are woken, and c only cuts the walk off.
WalksAgree(n, c) ==
    \A t \in 0 .. n - 1 :
        /\ ToSubthreads(n, t, c) \in Seq(0 .. n - 1)
        /\ FromSubthreads(n, t, c) \in Seq(0 .. n - 1)
        /\ Visited(ToSubthreads(n, t, c)) = {j \in Subthreads(n, t) : j < c}
        /\ Visited(FromSubthreads(n, t, c)) = {j \in Subthreads(n, t) : j < c}
        /\ VisitsOnce(ToSubthreads(n, t, c))
        /\ VisitsOnce(FromSubthreads(n, t, c))

\* Every thread but the first has exactly one superordinate, before it.
UniqueSuperordinate(n) ==
    /\ \A t \in 0 .. n - 1 : \A j \in Subthreads(n, t) : t < j /\ j < n
    /\ \A t, u \in 0 .. n - 1 : Subthreads(n, t) \cap Subthreads(n, u) # {} => t = u
    /\ \A j \in 1 .. n - 1 : \E t \in 0 .. n - 1 : j \in Subthreads(n, t)

\* The end of the block of thread t in a task on c threads.
BlockEnd(n, t, c) == LesserOf(t + NumSubthreads(n, t), c)

\* Thread 0's block is the whole squad.  The awaited threads' blocks follow one
\* another without gap or overlap, so that merging in the order of the walk keeps
\* the order of the thread indices.
BlocksInOrder(n, c) ==
    /\ c > 0 => BlockEnd(n, 0, c) = c
    /\ \A t \in 0 .. c - 1 :
          LET from == FromSubthreads(n, t, c)
              bounds == <<t + 1>> \o [k \in 1 .. Len(from) |-> BlockEnd(n, from[k], c)]
          IN  /\ \A k \in 1 .. Len(from) : from[k] = bounds[k]
              /\ bounds[Len(bounds)] = BlockEnd(n, t, c)
              /\ BlockEnd(n, t, c) \in t + 1 .. c

=============================================================================
