------------------------------ MODULE TurnTaking ------------------------------
(*****************************************************************************)
(* What wait_and_load and toggle_and_notify of src/thread_squad.cpp promise  *)
(* two threads that use them on a pair of atomics: the threads work in turn, *)
(* the superordinate first.                                                  *)
(*****************************************************************************)

VARIABLES
    turn,       \* the thread whose turn it is
    working     \* whether it has begun to work

vars == <<turn, working>>

Threads == {"super", "sub"}

Init == turn = "super" /\ working = TRUE

EndTurn(t) ==
    /\ turn = t
    /\ working = TRUE
    /\ turn' \in Threads \ {t}
    /\ working' = FALSE

BeginTurn ==
    /\ working = FALSE
    /\ working' = TRUE
    /\ UNCHANGED turn

Next == BeginTurn \/ \E t \in Threads : EndTurn(t)

\* Nobody misses the beginning of its turn, and a subordinate answers; a
\* superordinate need not call again.
Spec == Init /\ [][Next]_vars /\ WF_vars(BeginTurn) /\ WF_vars(EndTurn("sub"))

=============================================================================
