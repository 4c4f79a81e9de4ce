------------------------------ MODULE AtomicWait ------------------------------
(*****************************************************************************)
(* wait_and_load and toggle_and_notify of src/thread_squad.cpp, step by      *)
(* step, as a superordinate and a subordinate use them: incoming_ belongs to *)
(* the superordinate and outgoing_ to the subordinate (downward_ and upward_ *)
(* at synchronization points, with the roles exchanged).                     *)
(*                                                                           *)
(* What the threads exchange (task_, results, values) is ordinary memory.    *)
(* A thread may use it only if the release store that follows the other's    *)
(* writes was read by an acquire load.  std::atomic's wait and notify_one    *)
(* are external: wait compares and goes to sleep in one step with regard to  *)
(* notifications, compares again when it wakes, and may wake for no reason.  *)
(*****************************************************************************)
EXTENDS SenseSignals

CONSTANT WaitModes      \* the wait modes that a squad may be created with

ASSUME WaitModesAssumption == WaitModes \subseteq {"wait", "spin_wait"}

\* Definitions whose comment begins with "Fault" are not the code but mistakes it
\* does not make; the checks put them in place of the definition that follows.

VARIABLES
    waitMode,   \* waitMode_
    sense,      \* the atomic of each thread
    carries,    \* whether its last store released the thread's last writes
    sees,       \* whether each thread may use the last writes of the other
    at          \* where each thread is

waitVars == <<waitMode, sense, carries, sees, at>>

Pair == {"super", "sub"}

Other(t) == CHOOSE u \in Pair : u # t

-----------------------------------------------------------------------------

\* Fault: the superordinate waits for the sense that the subordinate has already.
OldValueSame(t) == sense[t]

\* The value of the other's atomic that a thread waits to be gone: the two agree
\* when it is the superordinate's turn.
OldValue(t) == IF t = "super" THEN 1 - sense["super"] ELSE sense["sub"]

HasToggled(t) == sense[Other(t)] # OldValue(t)

MoveTo(t, label) == at' = [at EXCEPT ![t] = label]

BeginWait == IF waitMode = "spin_wait" THEN "spin" ELSE "compare"

WaitInit ==
    /\ waitMode \in WaitModes
    /\ sense = [t \in Pair |-> 0]
    /\ carries = [t \in Pair |-> TRUE]
    /\ sees = [t \in Pair |-> TRUE]
    /\ at = [t \in Pair |-> IF t = "super" THEN "work" ELSE BeginWait]

\* The thread reads what the other has written, and writes.
Work(t) ==
    /\ at[t] = "work"
    /\ carries' = [carries EXCEPT ![t] = FALSE]
    /\ sees' = [sees EXCEPT ![Other(t)] = FALSE]
    /\ MoveTo(t, "toggle")
    /\ UNCHANGED <<waitMode, sense>>

\* toggle_and_notify: the store; nobody else writes this atomic ...
Toggle(t) ==
    /\ at[t] = "toggle"
    /\ sense' = Toggled(sense, t)
    /\ carries' = [carries EXCEPT ![t] = TRUE]
    /\ MoveTo(t, "notify")
    /\ UNCHANGED <<waitMode, sees>>

\* ... and the notification, which may come when the other has long gone on.
NotifyOne(t) ==
    /\ at[t] = "notify"
    /\ at' = [at EXCEPT ![t] = BeginWait,
                        ![Other(t)] = IF @ = "asleep" THEN "compare" ELSE @]
    /\ UNCHANGED <<waitMode, sense, carries, sees>>

\* wait_equal_exponential_backoff returns true ...
SpinSees(t) ==
    /\ at[t] = "spin"
    /\ HasToggled(t)
    /\ MoveTo(t, "load")
    /\ UNCHANGED <<waitMode, sense, carries, sees>>

\* ... or gives up; its loads are relaxed, so that it may have missed the store.
SpinGivesUp(t) ==
    /\ at[t] = "spin"
    /\ MoveTo(t, "compare")
    /\ UNCHANGED <<waitMode, sense, carries, sees>>

\* Fault: wait() goes to sleep without looking.
SleepBlindly(t) ==
    /\ at[t] = "compare"
    /\ MoveTo(t, "asleep")
    /\ UNCHANGED <<waitMode, sense, carries, sees>>

\* std::atomic::wait finds the old value and goes to sleep.
Sleep(t) ==
    /\ at[t] = "compare"
    /\ ~HasToggled(t)
    /\ MoveTo(t, "asleep")
    /\ UNCHANGED <<waitMode, sense, carries, sees>>

\* It finds another value and returns.
StopWaiting(t) ==
    /\ at[t] = "compare"
    /\ HasToggled(t)
    /\ MoveTo(t, "load")
    /\ UNCHANGED <<waitMode, sense, carries, sees>>

\* A sleeping thread may wake for no reason.
WakeSpuriously(t) ==
    /\ at[t] = "asleep"
    /\ MoveTo(t, "compare")
    /\ UNCHANGED <<waitMode, sense, carries, sees>>

\* Fault: the last load is relaxed, as all the others.
LoadRelaxed(t) ==
    /\ at[t] = "load"
    /\ MoveTo(t, "work")
    /\ UNCHANGED <<waitMode, sense, carries, sees>>

\* The acquire load at the end of wait_and_load.
LoadAcquire(t) ==
    /\ at[t] = "load"
    /\ sees' = [sees EXCEPT ![t] = @ \/ carries[Other(t)]]
    /\ MoveTo(t, "work")
    /\ UNCHANGED <<waitMode, sense, carries>>

\* What a thread does by itself.
StepAlone(t) ==
    \/ Toggle(t) \/ NotifyOne(t) \/ SpinSees(t) \/ SpinGivesUp(t)
    \/ Sleep(t) \/ StopWaiting(t) \/ LoadAcquire(t)

WaitNext == \E t \in Pair : StepAlone(t) \/ Work(t) \/ WakeSpuriously(t)

\* Every thread that can run does, a spin phase ends, a subordinate's work ends; the
\* superordinate may keep its turn for ever, and nothing need wake spuriously.
Fairness == (\A t \in Pair : WF_waitVars(StepAlone(t))) /\ WF_waitVars(Work("sub"))

WaitSpec == WaitInit /\ [][WaitNext]_waitVars

FairSpec == WaitSpec /\ Fairness

-----------------------------------------------------------------------------

(* A thread whose wait is over is not asleep for long: if it sleeps although *)
(* the other has toggled its atomic, the notification is still to come.      *)
NoLostWakeUp ==
    \A t \in Pair :
        at[t] = "asleep" /\ HasToggled(t) => at[Other(t)] = "notify"

(* A thread that works sees everything the other has written, in the memory  *)
(* order the code asks for: task_ is read, results are merged and values of  *)
(* other threads' stacks are overwritten only after such a wait.             *)
WritesVisible == \A t \in Pair : at[t] \in {"work", "toggle"} => sees[t]

\* The thread whose turn it is: the atomics agree if it is the superordinate's.
Turn == IF sense["super"] = sense["sub"] THEN "super" ELSE "sub"

Places == {"work", "toggle", "notify", "spin", "compare", "asleep", "load"}

WaitTypeOK ==
    /\ waitMode \in WaitModes
    /\ sense \in [Pair -> {0, 1}]
    /\ {carries, sees} \subseteq [Pair -> BOOLEAN]
    /\ at \in [Pair -> Places]

\* A thread is past its wait only in its turn.
InTurn == \A t \in Pair : at[t] \in {"load", "work", "toggle"} => Turn = t

\* The writes of a thread are released unless it is still writing.
Released == \A t \in Pair : at[t] # "toggle" => carries[t]

WaitInv == WaitTypeOK /\ InTurn /\ Released /\ NoLostWakeUp /\ WritesVisible

-----------------------------------------------------------------------------
(* The waits and notifications implement the turns of TurnTaking.            *)

Turns == INSTANCE TurnTaking WITH
    turn <- Turn,
    working <- at[Turn] \in {"work", "toggle"}

(* The two threads work in turn, and a subordinate that was told of a task   *)
(* wakes up, works and answers, and its superordinate learns of it.          *)
ImplementsTurnTaking == Turns!Spec

=============================================================================
