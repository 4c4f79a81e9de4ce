----------------------------- MODULE SenseSignals -----------------------------
(*****************************************************************************)
(* Signals between threads, as thread_squad.cpp uses them: an atomic whose   *)
(* value means nothing by itself.  A sender flips it; a receiver waits until *)
(* it differs from a value that both sides knew before.                      *)
(*****************************************************************************)
EXTENDS Naturals

\* Definitions whose comment begins with "Fault" are not the code but mistakes it
\* does not make; the checks put them in place of the definition that follows.

\* Fault: signals are counted.
Counted(signal, t) == [signal EXCEPT ![t] = @ + 1]

\* Fault: a signal raises a flag that nobody lowers.
Raised(signal, t) == [signal EXCEPT ![t] = 1]

\* toggle_and_notify
Toggled(signal, t) == [signal EXCEPT ![t] = 1 - @]

=============================================================================
