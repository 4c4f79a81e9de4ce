----------------------------- MODULE SquadLayout -----------------------------
(*****************************************************************************)
(* A thread squad of NumThreads threads and the walks of its threads, laid   *)
(* out once.                                                                 *)
(*****************************************************************************)
EXTENDS SquadTree

CONSTANT NumThreads     \* thread_squad_impl_base::numThreads

ASSUME NumThreadsAssumption == NumThreads \in Nat /\ NumThreads >= 1

Threads == 0 .. NumThreads - 1

\* The walks of every thread for every number of threads.
ToWalk ==
    [t \in Threads |-> [c \in 0 .. NumThreads |-> ToSubthreads(NumThreads, t, c)]]
FromWalk ==
    [t \in Threads |-> [c \in 0 .. NumThreads |-> FromSubthreads(NumThreads, t, c)]]

\* What SquadSetup shows of the layouts that the squad's constructor makes.
ASSUME TreeAssumption ==
    /\ \A c \in 0 .. NumThreads :
          WalksAgree(NumThreads, c) /\ BlocksInOrder(NumThreads, c)
    /\ UniqueSuperordinate(NumThreads)

\* The threads that thread t wakes and awaits.
Kids(t) == Visited(ToWalk[t][NumThreads])

=============================================================================
