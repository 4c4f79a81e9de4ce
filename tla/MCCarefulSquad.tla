---------------------------- MODULE MCCarefulSquad ----------------------------
(*****************************************************************************)
(* The careful clients, on squads that meet CarefulSquad's assumptions.      *)
(*****************************************************************************)
EXTENDS CarefulSquad, MCThreadSquad

=============================================================================
