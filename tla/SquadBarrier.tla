----------------------------- MODULE SquadBarrier -----------------------------
(*****************************************************************************)
(* The synchronization points of src/thread_squad.cpp: within a task the     *)
(* participating threads call synchronize() or reduce(), all of them in the  *)
(* same order.  Values are collected up the squad's tree and the result is   *)
(* broadcast down.  A waiting thread exposes its value, which lives on its   *)
(* stack, through syncData_; its superordinate reads and then overwrites it. *)
(*                                                                           *)
(* The two senses of a thread survive from point to point and from task to   *)
(* task.  A step is what one thread does between two accesses to state that  *)
(* another thread uses.                                                      *)
(*****************************************************************************)
EXTENDS SquadLayout, SenseSignals

CONSTANT Plans      \* the sequences of synchronization points of the tasks

Operations == {"synchronize", "reduce"}

ASSUME PlansAssumption == Plans \subseteq Seq(Operations)

\* Definitions whose comment begins with "Fault" are not the code but mistakes it
\* does not make; the checks put them in place of the definition that follows.

VARIABLES
    size,           \* concurrency of the current task
    plan,           \* the points of the current task
    round,          \* number of points each thread has passed
    pc,             \* where each thread is in collect() or broadcast()
    pos,            \* position in its current walk
    upward,         \* thread_data::upward_, by thread
    downward,       \* thread_data::downward_, by thread
    oldValue,       \* what toggling upward_ returned
    syncData,       \* whether thread_data::syncData_ points to the thread's data
    value,          \* synchronizer.data.value: merged contributions
    got             \* what the last operation of each thread returned

task == <<size, plan>>
senses == <<upward, downward, oldValue>>
vars == <<task, round, pc, pos, senses, syncData, value, got>>

-----------------------------------------------------------------------------

Participants == 0 .. size - 1

To(t) == ToWalk[t][size]
From(t) == FromWalk[t][size]

\* The operation that thread t is in.
Operation(t) == plan[round[t] + 1]

Contribution(t) == <<[thread |-> t, round |-> round[t]]>>

Goto(t, label) == pc' = [pc EXCEPT ![t] = label]

\* Fault: a raised sense always means arrival.
ArrivedOnce(j) == upward[j] = 1

\* What collect_from_thread waits for.
Arrived(j) == upward[j] # downward[j]

\* Fault: a raised sense always means release.
ReleasedOnce(t) == downward[t] = 1

\* What synchronize_collect waits for in the end.
Released(t) == downward[t] # oldValue[t]

Init ==
    /\ size = 0
    /\ plan = << >>
    /\ round = [t \in Threads |-> 0]
    /\ pc = [t \in Threads |-> "compute"]
    /\ pos = [t \in Threads |-> 1]
    /\ upward = [t \in Threads |-> 0]
    /\ downward = [t \in Threads |-> 0]
    /\ oldValue = [t \in Threads |-> 0]
    /\ syncData = [t \in Threads |-> FALSE]
    /\ value = [t \in Threads |-> << >>]
    /\ got = [t \in Threads |-> << >>]

\* The squad runs the next task when all threads have completed the last one.
BeginTask ==
    /\ \A t \in Participants : round[t] = Len(plan)
    /\ size' \in 1 .. NumThreads
    /\ plan' \in Plans
    /\ round' = [t \in Threads |-> 0]
    /\ got' = [t \in Threads |-> << >>]
    /\ UNCHANGED <<pc, pos, senses, syncData, value>>

\* The task body reaches its next synchronization point.
Enter(t) ==
    /\ t \in Participants
    /\ pc[t] = "compute"
    /\ round[t] < Len(plan)
    /\ value' = [value EXCEPT ![t] = IF Operation(t) = "reduce"
                                       THEN Contribution(t) ELSE << >>]
    /\ pos' = [pos EXCEPT ![t] = 1]
    /\ Goto(t, "collect")
    /\ UNCHANGED <<task, round, senses, syncData, got>>

\* collect_from_thread, for the next subordinate
CollectFromThread(t) ==
    /\ pc[t] = "collect"
    /\ pos[t] <= Len(From(t))
    /\ LET j == From(t)[pos[t]]
       IN  /\ Arrived(j)
           /\ value' = IF Operation(t) = "reduce"
                         THEN [value EXCEPT ![t] = @ \o value[j]] ELSE value
    /\ pos' = [pos EXCEPT ![t] = @ + 1]
    /\ UNCHANGED <<task, round, pc, senses, syncData, got>>

\* The value, if there is one, is made accessible to the superordinate ...
Publish(t) ==
    /\ pc[t] = "collect"
    /\ pos[t] > Len(From(t))
    /\ t > 0
    /\ syncData' = [syncData EXCEPT ![t] = Operation(t) = "reduce"]
    /\ Goto(t, "publish")
    /\ UNCHANGED <<task, round, pos, senses, value, got>>

\* ... which is then told.
SignalUpward(t) ==
    /\ pc[t] = "publish"
    /\ oldValue' = [oldValue EXCEPT ![t] = upward[t]]
    /\ upward' = Toggled(upward, t)
    /\ Goto(t, "await")
    /\ UNCHANGED <<task, round, pos, downward, syncData, value, got>>

\* Fault: syncData_ is not reset.
AwaitOnly(t) ==
    /\ pc[t] = "await"
    /\ Released(t)
    /\ pos' = [pos EXCEPT ![t] = 1]
    /\ Goto(t, "broadcast")
    /\ UNCHANGED <<task, round, senses, syncData, value, got>>

\* The end of the wait in synchronize_collect; the value is withdrawn.
AwaitDownward(t) ==
    /\ pc[t] = "await"
    /\ Released(t)
    /\ syncData' = [syncData EXCEPT ![t] = FALSE]
    /\ pos' = [pos EXCEPT ![t] = 1]
    /\ Goto(t, "broadcast")
    /\ UNCHANGED <<task, round, senses, value, got>>

\* Thread 0 has no superordinate.
TurnAround(t) ==
    /\ pc[t] = "collect"
    /\ pos[t] > Len(From(t))
    /\ t = 0
    /\ pos' = [pos EXCEPT ![t] = 1]
    /\ Goto(t, "broadcast")
    /\ UNCHANGED <<task, round, senses, syncData, value, got>>

\* broadcast_to_thread, for the next subordinate: hand over the result ...
BroadcastToThread(t) ==
    /\ pc[t] = "broadcast"
    /\ pos[t] <= Len(To(t))
    /\ value' = IF Operation(t) = "reduce"
                  THEN [value EXCEPT ![To(t)[pos[t]]] = value[t]] ELSE value
    /\ Goto(t, "release")
    /\ UNCHANGED <<task, round, pos, senses, syncData, got>>

\* ... and release it.
SignalDownward(t) ==
    /\ pc[t] = "release"
    /\ downward' = Toggled(downward, To(t)[pos[t]])
    /\ pos' = [pos EXCEPT ![t] = @ + 1]
    /\ Goto(t, "broadcast")
    /\ UNCHANGED <<task, round, upward, oldValue, syncData, value, got>>

\* The operation returns; the synchronizer with its value is gone.
Leave(t) ==
    /\ pc[t] = "broadcast"
    /\ pos[t] > Len(To(t))
    /\ got' = [got EXCEPT ![t] = value[t]]
    /\ value' = [value EXCEPT ![t] = << >>]
    /\ round' = [round EXCEPT ![t] = @ + 1]
    /\ Goto(t, "compute")
    /\ UNCHANGED <<task, pos, senses, syncData>>

Step(t) ==
    \/ Enter(t) \/ CollectFromThread(t) \/ Publish(t) \/ SignalUpward(t)
    \/ AwaitDownward(t) \/ TurnAround(t) \/ BroadcastToThread(t)
    \/ SignalDownward(t) \/ Leave(t)

Next == BeginTask \/ \E t \in Threads : Step(t)

\* Every thread that can run does, and a task body reaches its next point.
Fairness == \A t \in Threads : WF_vars(Step(t))

Spec == Init /\ [][Next]_vars

FairSpec == Spec /\ Fairness

-----------------------------------------------------------------------------

Labels == {"compute", "collect", "publish", "await", "broadcast", "release"}

Values == Seq([thread : Threads, round : Nat])

TypeOK ==
    /\ size \in 0 .. NumThreads
    /\ plan \in Plans \cup {<< >>}
    /\ round \in [Threads -> Nat]
    /\ pc \in [Threads -> Labels]
    /\ pos \in [Threads -> Nat \ {0}]
    /\ upward \in [Threads -> {0, 1}]
    /\ downward \in [Threads -> {0, 1}]
    /\ oldValue \in [Threads -> {0, 1}]
    /\ syncData \in [Threads -> BOOLEAN]
    /\ value \in [Threads -> Values]
    /\ got \in [Threads -> Values]

-----------------------------------------------------------------------------
(* The inductive invariant                                                   *)

\* Thread t has released its subordinate j from the point at which t is.
ReleasedBy(t, j) ==
    /\ pc[t] \in {"broadcast", "release"}
    /\ \E k \in 1 .. Len(To(t)) : k < pos[t] /\ To(t)[k] = j

\* Thread t has collected the value of its subordinate j, which now waits.
CollectedBy(t, j) ==
    \/ /\ pc[t] = "collect"
       /\ \E k \in 1 .. Len(From(t)) : k < pos[t] /\ From(t)[k] = j
    \/ pc[t] \in {"publish", "await"}
    \/ pc[t] \in {"broadcast", "release"} /\ ~ReleasedBy(t, j)

\* The number of points that thread j has been released from.
ReleasedFrom(j) ==
    IF pc[j] \in {"broadcast", "release"} \/ (pc[j] = "await" /\ Released(j))
      THEN round[j] + 1 ELSE round[j]

\* Where the threads may be.
PointInv ==
    \A t \in Threads :
        /\ pc[t] # "compute" => t < size /\ round[t] < Len(plan)
        /\ t < size => round[t] <= Len(plan)
        /\ pc[t] = "collect" => pos[t] <= Len(From(t)) + 1
        /\ pc[t] = "release" => pos[t] <= Len(To(t))
        /\ pc[t] \in {"publish", "await"} => t > 0

\* The senses of a thread agree, except while it waits.
SenseInv ==
    \A t \in Threads :
        IF pc[t] = "await" THEN oldValue[t] = 1 - upward[t]
                           ELSE upward[t] = downward[t]

\* A value can be reached only during a reduction.
ExposedInv ==
    \A t \in Threads :
        syncData[t] <=> pc[t] \in {"publish", "await"} /\ Operation(t) = "reduce"

\* A subordinate waits from being collected until it is released, and it is
\* released at every point at which its superordinate has been.
TreeAt(t, j) ==
    /\ ReleasedFrom(j) = IF ReleasedBy(t, j) THEN round[t] + 1 ELSE round[t]
    /\ CollectedBy(t, j) => Arrived(j)

TreeInv == \A t \in Threads : \A j \in Kids(t) : j < size => TreeAt(t, j)

\* The values that threads first to last - 1 contribute to the r-th point.
Merged(first, last, r) ==
    [k \in 1 .. last - first |-> [thread |-> first + k - 1, round |-> r]]

End(t) == BlockEnd(NumThreads, t, size)

\* The first thread whose value thread t has yet to collect.
NextOf(t) == IF pos[t] = 1 THEN t + 1 ELSE End(From(t)[pos[t] - 1])

\* The superordinate of thread t has handed it the result.
Handed(t) ==
    \E u \in Threads : t \in Kids(u) /\ pc[u] = "release" /\ To(u)[pos[u]] = t

HasResult(t) ==
    \/ pc[t] \in {"broadcast", "release"}
    \/ pc[t] = "await" /\ (Released(t) \/ Handed(t))

\* A value grows along the thread's block, and is then replaced by the result.
ValueAt(t) ==
    value[t] =
        IF Operation(t) # "reduce" THEN << >>
        ELSE IF pc[t] = "collect" THEN Merged(t, NextOf(t), round[t])
        ELSE IF HasResult(t) THEN Merged(0, size, round[t])
        ELSE Merged(t, End(t), round[t])

ValueInv == \A t \in Threads : pc[t] # "compute" => ValueAt(t)

IInv ==
    /\ TypeOK
    /\ PointInv
    /\ SenseInv
    /\ ExposedInv
    /\ TreeInv
    /\ ValueInv

-----------------------------------------------------------------------------
(* Properties                                                                *)

\* Thread t is about to read or write the value of thread j.
Touches(t, j) ==
    \/ /\ pc[t] = "collect"
       /\ pos[t] <= Len(From(t))
       /\ j = From(t)[pos[t]]
       /\ Arrived(j)
    \/ /\ pc[t] = "broadcast"
       /\ pos[t] <= Len(To(t))
       /\ j = To(t)[pos[t]]

(* A thread touches the value of another only while that thread exposes it   *)
(* and waits in the same operation: syncData_ is not null, it does not point *)
(* to a frame that is gone or to that of an earlier or later operation, and  *)
(* the owner of the value is not using it.                                   *)
PeerHoldsStill ==
    \A t, j \in Threads :
        Touches(t, j) =>
            /\ pc[j] = "await" /\ ~Released(j)
            /\ Operation(t) = "reduce" => syncData[j]
            /\ round[j] = round[t]

(* Between tasks nothing of a synchronization point is left: both senses of  *)
(* each thread agree, whatever their value, and syncData_ is null.  The next *)
(* task may have other participants and the same thread another number of    *)
(* subordinates.                                                             *)
CleanBetweenTasks ==
    (\A t \in Participants : round[t] = Len(plan)) =>
        \A t \in Threads : upward[t] = downward[t] /\ ~syncData[t]

-----------------------------------------------------------------------------
(* The synchronization points implement the rendezvous of Rendezvous.        *)

Service == INSTANCE Rendezvous WITH inside <- {t \in Threads : pc[t] # "compute"}

(* No thread leaves a point before all participants have entered it, each    *)
(* gets the reduction of all values of this very round in index order, and   *)
(* everyone gets out in the end.                                             *)
ImplementsRendezvous == Service!Spec

=============================================================================
