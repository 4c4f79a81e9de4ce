------------------------------ MODULE Rendezvous ------------------------------
(*****************************************************************************)
(* What the synchronization points of a task promise: the participants pass  *)
(* them one after another, none of them leaves a point before all have       *)
(* entered it, and at a reducing point each of them gets the values of all,  *)
(* combined in the order of the thread indices.                              *)
(*****************************************************************************)
EXTENDS Naturals, Sequences

CONSTANTS
    NumThreads,
    Plans           \* the sequences of points that a task may consist of

Indices == 0 .. NumThreads - 1

VARIABLES
    size,           \* number of participants of the current task
    plan,           \* the points of the current task
    round,          \* the number of points that each participant has passed
    inside,         \* the participants that are within a point
    got             \* what each participant got at the last point it left

vars == <<size, plan, round, inside, got>>

Participants == 0 .. size - 1

Init ==
    /\ size = 0
    /\ plan = << >>
    /\ round = [i \in Indices |-> 0]
    /\ inside = {}
    /\ got = [i \in Indices |-> << >>]

\* A task begins when everyone has completed the one before.
Begin ==
    /\ \A i \in Participants : round[i] = Len(plan)
    /\ size' \in 1 .. NumThreads
    /\ plan' \in Plans
    /\ round' = [i \in Indices |-> 0]
    /\ got' = [i \in Indices |-> << >>]
    /\ UNCHANGED inside

Enter(i) ==
    /\ i \in Participants \ inside
    /\ round[i] < Len(plan)
    /\ inside' = inside \cup {i}
    /\ UNCHANGED <<size, plan, round, got>>

\* Whether participant j has entered the point at which i is.
HasEntered(j, i) == round[j] > round[i] \/ (round[j] = round[i] /\ j \in inside)

Leave(i) ==
    /\ i \in inside
    /\ \A j \in Participants : HasEntered(j, i)
    /\ inside' = inside \ {i}
    /\ round' = [round EXCEPT ![i] = @ + 1]
    /\ got' = [got EXCEPT ![i] =
                 IF plan[round[i] + 1] = "reduce"
                   THEN [k \in 1 .. size |-> [thread |-> k - 1, round |-> round[i]]]
                   ELSE << >>]
    /\ UNCHANGED <<size, plan>>

Next == Begin \/ \E i \in Indices : Enter(i) \/ Leave(i)

\* Tasks go on to their next point, and everyone gets out of every point.
Fairness == \A i \in Indices : WF_vars(Enter(i)) /\ WF_vars(Leave(i))

Spec == Init /\ [][Next]_vars /\ Fairness

=============================================================================
