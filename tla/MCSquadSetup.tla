----------------------------- MODULE MCSquadSetup -----------------------------
(*****************************************************************************)
(* Parameters for model checking: squads of every size that are not pinned,  *)
(* and small ones that are, on every hardware of HardwareCounts.             *)
(*****************************************************************************)
EXTENDS SquadSetup

CONSTANT MaxThreads     \* the largest squad that is laid out

Parameters(n, pin, max, mapping) ==
    [num_threads |-> n, pin_to_hardware_threads |-> pin,
     max_num_hardware_threads |-> max, hardware_thread_mappings |-> mapping]

AnyParams ==
    {Parameters(n, FALSE, 0, << >>) : n \in 0 .. MaxThreads}
    \cup {Parameters(n, TRUE, max, mapping) :
             n \in {0, 2, 4, 5}, max \in {0, 2, 3, 5},
             mapping \in {<< >>, <<1, 0>>, <<2, 0, 1>>, <<2, 0, 1, 7>>, <<1, 1, 0, 2>>}}

=============================================================================
