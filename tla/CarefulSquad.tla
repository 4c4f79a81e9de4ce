----------------------------- MODULE CarefulSquad -----------------------------
(*****************************************************************************)
(* The squad used by a client that avoids the calls the squad does not get   *)
(* right, and the inductive invariant from which ThreadSquadProofs derives   *)
(* that such a client gets what it asks for.                                 *)
(*****************************************************************************)
EXTENDS ThreadSquad

(*****************************************************************************)
(* The first task reaches every thread that has subordinates.  It requests   *)
(* a join only if there is nobody to join but thread 0.  A reduction that    *)
(* requests a join uses all threads.                                         *)
(*****************************************************************************)
Reaches(task) ==
    \A t \in Threads : Kids(t) # {} => t < NumThreadsForTask(task)

ASSUME ClientAssumption ==
    /\ \A task \in FirstCalls :
          task.concurrency # 0 =>
              Reaches(task) /\ (task.join_requested => NumThreads = 1)
    /\ \A task \in FirstCalls \cup LaterCalls :
          task.op = "reduce" /\ task.join_requested /\ task.concurrency # 0
              => task.concurrency = NumThreads

-----------------------------------------------------------------------------
(* Where a thread is with respect to the current task                        *)

Lim == NumThreadsForTask(task_)

\* How often thread t executes the current task.
Share(t) == IF t < task_.concurrency THEN 1 ELSE 0

AtRest(t) == pc[t] \in {"none", "task_wait"} /\ ran[t] = 0 /\ ~joinRequested[t]

\* not yet told of the task
Pending(t) == Answered(t) /\ AtRest(t)

\* told, but not yet awake
Notified(t) == ~Answered(t) /\ AtRest(t)

Busy(t) ==
    /\ ~Answered(t)
    /\ joinRequested[t] <=> task_.join_requested
    /\ \/ pc[t] \in {"notify", "execute"} /\ ran[t] = 0
       \/ pc[t] = "wait" /\ ran[t] = Share(t)

\* has reported completion
Done(t) ==
    /\ Answered(t)
    /\ joinRequested[t] <=> task_.join_requested
    /\ ran[t] = Share(t)
    /\ pc[t] \in (IF task_.join_requested THEN {"begin_join", "join", "exited"}
                                          ELSE {"task_wait"})

-----------------------------------------------------------------------------
(* The inductive invariant                                                   *)

\* Main's progress, and the task it is working on.
MainInv ==
    /\ task_ = NoTask <=> mainPc \in {"idle", "freed"}
    /\ mainPc \in {"create", "store_handle"} => forked < NumThreads
    /\ mainPc = "wake" => forked = 0
    /\ mainPc \in {"notify", "await", "join", "release"} => forked = NumThreads
    /\ mainPc \in {"idle", "freed"} => forked \in {0, NumThreads}
    /\ mainPc = "join" => task_.join_requested
    /\ task_ # NoTask =>
          /\ last = task_
          /\ Lim > 0
          /\ forked < NumThreads => Reaches(task_)
          /\ forked < NumThreads /\ task_.join_requested => NumThreads = 1
          /\ task_.op = "reduce" => Lim = task_.concurrency

\* Which threads exist, and which handles are stored.
CreatedInv ==
    /\ \A t \in Threads :
          pc[t] = "none" <=>
              (t > forked \/ (t = forked /\ mainPc # "store_handle"))
    /\ \A t \in Threads : pc[t] = "none" => pass[t] = 0
    /\ \A t \in Threads : handle[t] => t < forked
    /\ \/ forked = 0
       \/ mainPc = "freed"
       \/ mainPc = "release" /\ task_.join_requested
       \/ handle[0]

\* A subordinate has its handle until its superordinate has joined it.
HandleAt(t) ==
    /\ pc[t] \notin {"join", "exited"} =>
          \A j \in Kids(t) : j < forked => handle[j]
    /\ pc[t] = "join" =>
          \A k \in 1 .. Len(From(t)) :
              k >= pos[t] /\ From(t)[k] < forked => handle[From(t)[k]]
    /\ pc[t] \in {"begin_join", "join"} => forked = NumThreads \/ NumThreads = 1

HandleInv == \A t \in Threads : HandleAt(t)

\* Threads that have subordinates rely on main to wake these in their first pass.
PassInv ==
    /\ forked = NumThreads /\ mainPc \in {"idle", "notify"} =>
          \A t \in Threads : Kids(t) # {} => pass[t] = 1
    /\ task_ # NoTask =>
          \A t \in Threads :
              /\ t >= Lim /\ Kids(t) # {} => pass[t] = 1
              /\ t < Lim /\ Done(t) => pass[t] = 1

\* Between calls.
QuietInv ==
    /\ mainPc = "idle" =>
          \A t \in Threads : /\ Answered(t)
                             /\ pc[t] \in {"none", "task_wait"}
                             /\ ~joinRequested[t]
    /\ mainPc = "freed" =>
          \A t \in Threads : Answered(t) /\ pc[t] \in {"none", "exited"}

\* During a call.
PhaseInv ==
    task_ # NoTask =>
        /\ \A t \in Threads :
              IF t < Lim
                THEN Pending(t) \/ Notified(t) \/ Busy(t) \/ Done(t)
                ELSE Pending(t)
        /\ mainPc \in {"wake", "notify"} => \A t \in Threads : Pending(t)
        /\ mainPc \in {"create", "store_handle", "await"} => ~Pending(0)
        /\ mainPc \in {"join", "release"} => Done(0)

\* The walks that wake and await subordinates.
WalkAt(t) ==
    /\ pc[t] = "execute" => pass[t] = 0
    /\ pc[t] = "notify" =>
          /\ pass[t] = 1
          /\ limit[t] = Lim
          /\ \A k \in 1 .. Len(To(t)) :
                IF k < pos[t] THEN ~Pending(To(t)[k]) ELSE Pending(To(t)[k])
    /\ pc[t] = "wait" =>
          /\ limit[t] = Lim
          /\ \A k \in 1 .. Len(From(t)) : k < pos[t] => Done(From(t)[k])

WalkInv == \A t \in Threads : WalkAt(t)

\* A thread is told of the task after its superordinate, and done before it.
TreeAt(t) ==
    \A j \in Kids(t) :
        t < Lim /\ j < Lim =>
            /\ pass[t] = 0 => ~Pending(j)
            /\ pass[t] = 1 /\ AtRest(t) => Pending(j)
            /\ pc[t] = "wait" => ~Pending(j)
            /\ Done(t) => Done(j)

TreeInv ==
    task_ # NoTask /\ mainPc # "wake" => \A t \in Threads : TreeAt(t)

\* A thread leaves after its subordinates have left.
LeaveAt(t) ==
    /\ pc[t] = "join" =>
          /\ limit[t] = NumThreads
          /\ \A k \in 1 .. Len(From(t)) : k < pos[t] => pc[From(t)[k]] = "exited"
    /\ pc[t] = "exited" => \A j \in Kids(t) : pc[j] = "exited"

ExitInv ==
    /\ \A t \in Threads : LeaveAt(t)
    /\ mainPc = "release" /\ task_.join_requested => pc[0] = "exited"

\* In a reduction, thread t's value is there from its execution until its
\* superordinate has merged it.
Holds(t) == pc[t] = "wait" \/ Done(t)

DataInv ==
    task_.op = "reduce" =>
        /\ \A t \in Threads : ran[t] = 0 => data[t] = << >>
        /\ \A t \in Threads : t < Lim /\ pc[t] = "wait" => data[t] # << >>
        /\ Holds(0) => data[0] # << >>
        /\ \A t \in Threads : \A j \in Kids(t) :
              j < Lim /\ ~Holds(t) /\ Holds(j) => data[j] # << >>
        /\ \A t \in Threads :
              pc[t] = "wait" =>
                  \A k \in 1 .. Len(From(t)) :
                      k >= pos[t] /\ Holds(From(t)[k]) => data[From(t)[k]] # << >>

IInv ==
    /\ TypeOK
    /\ MainInv
    /\ CreatedInv
    /\ HandleInv
    /\ PassInv
    /\ QuietInv
    /\ PhaseInv
    /\ WalkInv
    /\ TreeInv
    /\ ExitInv
    /\ DataInv
    /\ CompleteOnReturn
    /\ NoContractViolation

-----------------------------------------------------------------------------
(* What becomes of the results, given IInv                                   *)

\* The indices from a to b - 1, in order.
Stretch(a, b) == [k \in 1 .. b - a |-> a + k - 1]

End(t) == BlockEnd(NumThreads, t, Lim)

\* The first thread whose result thread t has yet to merge.
NextOf(t) == IF pos[t] = 1 THEN t + 1 ELSE End(From(t)[pos[t] - 1])

\* A result grows along the thread's block until it covers it; then the
\* superordinate takes it.
OrderAt(t) ==
    /\ pc[t] = "wait" =>
          pos[t] <= Len(From(t)) + 1 /\ data[t] = Stretch(t, NextOf(t))
    /\ Done(t) /\ data[t] # << >> => data[t] = Stretch(t, End(t))

OrderInv ==
    /\ task_ # NoTask =>
          IF task_.op = "reduce"
            THEN \A t \in Threads : t < Lim => OrderAt(t)
            ELSE \A t \in Threads : data[t] = << >>
    /\ Returned =>
          result = IF last.op = "reduce" THEN Stretch(0, last.concurrency) ELSE << >>
    /\ failed # "none" => mainPc = "create"

MergingInv == IInv /\ OrderInv

=============================================================================
