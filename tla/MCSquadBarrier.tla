---------------------------- MODULE MCSquadBarrier ----------------------------
(*****************************************************************************)
(* Tasks for model checking the synchronization points.                      *)
(*****************************************************************************)
EXTENDS SquadBarrier

\* Points of either kind, alone and before a point of either kind.
ShortPlans == {<<"reduce">>, <<"reduce", "reduce">>, <<"synchronize", "reduce">>,
               <<"reduce", "synchronize">>}

=============================================================================
