----------------------------- MODULE MCPageMemory -----------------------------
(*****************************************************************************)
(* Machines for model checking the allocation of pages.                      *)
(*****************************************************************************)
EXTENDS PageMemory, TLC

CONSTANTS t1, t2, b1, b2

Machine(large, page, line) == [large |-> large, page |-> page, line |-> line]

\* A machine with large pages, one without, and two that the library refuses.
AnyMachine ==
    {Machine(32, 16, 8), Machine(0, 16, 8), Machine(24, 16, 8), Machine(32, 16, 12)}

AnyOrder == Permutations(Threads) \cup Permutations(Blocks)

=============================================================================
