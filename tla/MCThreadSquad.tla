---------------------------- MODULE MCThreadSquad ----------------------------
(*****************************************************************************)
(* Clients of the thread squad for model checking.                           *)
(*****************************************************************************)
EXTENDS ThreadSquad

Run(c, join) == [concurrency |-> c, join_requested |-> join, op |-> "run"]
Reduce(c, join) == [concurrency |-> c, join_requested |-> join, op |-> "reduce"]

Sizes == 0 .. NumThreads

Runs(sizes, join) == {Run(c, join) : c \in sizes}
Reduces(sizes, join) == {Reduce(c, join) : c \in sizes}

\* The threads that have subordinates at all.
InnerThreads == {t \in Threads : ToWalk[t][NumThreads] # << >>}

\* Numbers of threads that reach every inner thread.
ReachingSizes == {c \in Sizes : \A t \in InnerThreads : t < c}

\* A client that reaches every inner thread first and joins only later.
CarefulFirstCalls == Runs(ReachingSizes, FALSE) \cup Reduces(ReachingSizes, FALSE)

CarefulLaterCalls ==
    Runs(Sizes, FALSE) \cup Runs(Sizes, TRUE)
    \cup Reduces(Sizes, FALSE) \cup Reduces({NumThreads}, TRUE)

\* The same without reductions.
CarefulFirstRuns == Runs(ReachingSizes, FALSE)

\* Calls that the interface allows just as well.
RunOnOne == {Run(1, FALSE)}
RunOnFour == {Run(4, FALSE)}
NoCalls == {}
JoiningRuns == Runs(Sizes, TRUE)
AnyJoiningReduces == Reduces(Sizes, TRUE)

=============================================================================
