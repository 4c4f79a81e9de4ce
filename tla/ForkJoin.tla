------------------------------- MODULE ForkJoin -------------------------------
(*****************************************************************************)
(* What a thread squad promises its client, without threads, trees and       *)
(* signals: a call runs its task once for every index below the requested    *)
(* concurrency, in any order, and returns when all of them are done; a       *)
(* call that requests a join is the last one.                                *)
(*****************************************************************************)
EXTENDS Naturals, Sequences

CONSTANTS
    NumThreads,
    FirstCalls,     \* tasks that may be submitted to a new squad
    LaterCalls,     \* tasks that may be submitted to a squad that was used
    Destroy,        \* the destructor's task
    NoTask

Indices == 0 .. NumThreads - 1

VARIABLES
    phase,      \* "new", "running", "used", "freed" or "terminated"
    last,       \* the last task that was submitted
    ran,        \* how often each index was executed for it
    result      \* what the last call returned

vars == <<phase, last, ran, result>>

Init ==
    /\ phase = "new"
    /\ last = NoTask
    /\ ran = [i \in Indices |-> 0]
    /\ result = << >>

Begin(calls) ==
    \E task \in calls :
        /\ last' = task
        /\ ran' = [i \in Indices |-> 0]
        /\ result' = << >>
        /\ phase' = IF phase = "new" /\ task.concurrency = 0
                      THEN "freed" ELSE "running"

\* A task for no index is submitted only to end the squad or to a used one.
BeginFirst ==
    /\ phase = "new"
    /\ Begin({task \in FirstCalls \cup {Destroy} :
                task.concurrency # 0 \/ (task.join_requested /\ task.op # "reduce")})

BeginLater ==
    /\ phase = "used"
    /\ Begin({task \in LaterCalls \cup {Destroy} :
                task.concurrency # 0 \/ (task.join_requested /\ task.op # "reduce")})

Execute(i) ==
    /\ phase = "running"
    /\ i < last.concurrency
    /\ ran[i] = 0
    /\ ran' = [ran EXCEPT ![i] = 1]
    /\ UNCHANGED <<phase, last, result>>

Finish ==
    /\ phase = "running"
    /\ \A i \in Indices : i < last.concurrency => ran[i] = 1
    /\ phase' = IF last.join_requested THEN "freed" ELSE "used"
    /\ result' = IF last.op = "reduce"
                   THEN [k \in 1 .. last.concurrency |-> k - 1] ELSE << >>
    /\ UNCHANGED <<last, ran>>

\* The system may fail to provide a thread.
Terminate ==
    /\ phase = "running"
    /\ phase' = "terminated"
    /\ UNCHANGED <<last, ran, result>>

Next ==
    \/ BeginFirst \/ BeginLater \/ Finish \/ Terminate
    \/ \E i \in Indices : Execute(i)

Fairness == WF_vars(Finish) /\ \A i \in Indices : WF_vars(Execute(i))

Spec == Init /\ [][Next]_vars /\ Fairness

=============================================================================
