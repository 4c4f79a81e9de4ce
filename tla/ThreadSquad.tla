----------------------------- MODULE ThreadSquad -----------------------------
(*****************************************************************************)
(* The thread squad of src/thread_squad.cpp: a main thread that submits      *)
(* tasks, and NumThreads threads that are woken along a tree, execute        *)
(* their share of the task, merge the results of their subordinates and      *)
(* report completion up the tree, until a task that requests a join ends     *)
(* them.                                                                     *)
(*                                                                           *)
(* A step is what one thread does between two accesses to state which        *)
(* another thread may be writing: one turn of a notify, wait or join loop,   *)
(* one task body, one store.                                                 *)
(*****************************************************************************)
EXTENDS SquadLayout, SenseSignals

CONSTANTS
    FirstCalls,     \* calls the client may make before any thread was created
    LaterCalls      \* calls the client may make afterwards

(*****************************************************************************)
(* One use of the squad: thread_squad_task_params and which operation it     *)
(* is.  "run" is thread_squad::run, "reduce" is transform_reduce, "destroy"  *)
(* is the no-op task of the squad's destructor.                              *)
(*****************************************************************************)
Task == [concurrency : 0 .. NumThreads, join_requested : BOOLEAN,
         op : {"run", "reduce", "destroy"}]

Destroy == [concurrency |-> 0, join_requested |-> TRUE, op |-> "destroy"]

NoTask == [concurrency |-> 0, join_requested |-> FALSE, op |-> "none"]   \* nullptr

ASSUME CallsAssumption == FirstCalls \subseteq Task /\ LaterCalls \subseteq Task

VARIABLES
    mainPc,         \* where the main thread is in run()
    forked,         \* main: number of threads it has created
    task_,          \* the squad's current task
    last,           \* the last task submitted (history)
    incoming,       \* thread_data::incoming_, by thread
    outgoing,       \* thread_data::outgoing_, by thread
    handle,         \* whether os_thread::handle_ holds a thread, by thread
    pc,             \* where each thread is in run_thread()
    pass,           \* whether a thread has completed a task: pass > 0
    joinRequested,  \* the local joinRequested of each thread
    limit,          \* the number of threads a walk was begun with, by thread
    pos,            \* position in the current walk, by thread
    ran,            \* how often each thread executed the last task (history)
    data,           \* subthreadData_[i].value: merged indices, << >> for nullopt
    result,         \* what the last transform_reduce returned
    failed          \* the contract that was violated, or "none"

mainVars == <<mainPc, forked, task_, last, result>>
signals == <<incoming, outgoing>>
locals == <<pass, joinRequested, limit, pos>>
vars == <<mainVars, signals, handle, pc, locals, ran, data, failed>>

-----------------------------------------------------------------------------
(* Helpers                                                                   *)

\* Definitions whose comment begins with "Fault" are not the code but mistakes it
\* does not make; the checks put them in place of the definition that follows.

\* Fault: a task that requests a join ends only the threads it ran on.
NumThreadsRunning(task) ==
    IF task = NoTask THEN NumThreads ELSE task.concurrency

\* num_threads_for_task()
NumThreadsForTask(task) ==
    IF task = NoTask \/ task.join_requested THEN NumThreads ELSE task.concurrency

\* thread_squad_impl::is_running()
IsRunning == handle[0]

To(t) == ToWalk[t][limit[t]]
From(t) == FromWalk[t][limit[t]]

\* wait_for_thread's condition: the target has answered its last notification.
Answered(t) == outgoing[t] = incoming[t]

Fail(what) ==
    /\ failed' = what
    /\ UNCHANGED <<mainVars, signals, handle, pc, locals, ran, data>>

-----------------------------------------------------------------------------
(* The main thread: run(thread_squad_impl&, thread_squad_task&)              *)

Init ==
    /\ mainPc = "idle"
    /\ forked = 0
    /\ task_ = NoTask
    /\ last = NoTask
    /\ result = << >>
    /\ incoming = [t \in Threads |-> 0]
    /\ outgoing = [t \in Threads |-> 0]
    /\ handle = [t \in Threads |-> FALSE]
    /\ pc = [t \in Threads |-> "none"]
    /\ pass = [t \in Threads |-> 0]
    /\ joinRequested = [t \in Threads |-> FALSE]
    /\ limit = [t \in Threads |-> 0]
    /\ pos = [t \in Threads |-> 1]
    /\ ran = [t \in Threads |-> 0]
    /\ data = [t \in Threads |-> << >>]
    /\ failed = "none"

HaveWork(task) == task.concurrency # 0 \/ (task.join_requested /\ IsRunning)

\* A transform_reduce on no threads returns its init without submitting a task.
Submits(task) == task.op = "reduce" => task.concurrency # 0

\* The client calls an operation; the task is stored if there is work to do.
Submit(task) ==
    /\ mainPc = "idle"
    /\ Submits(task)
    /\ HaveWork(task)
    /\ task_' = task
    /\ last' = task
    /\ result' = << >>
    /\ ran' = [t \in Threads |-> 0]
    /\ data' = [t \in Threads |-> << >>]
    /\ mainPc' = IF IsRunning THEN "notify" ELSE "wake"
    /\ UNCHANGED <<forked, signals, handle, pc, locals, failed>>

\* A task that needs no thread; one that requests a join frees the squad.
SubmitNothing(task) ==
    /\ mainPc = "idle"
    /\ Submits(task)
    /\ ~HaveWork(task)
    /\ task.join_requested
    /\ mainPc' = "freed"
    /\ last' = task
    /\ result' = << >>
    /\ ran' = [t \in Threads |-> 0]
    /\ UNCHANGED <<forked, task_, signals, handle, pc, locals, data, failed>>

Call ==
    \E task \in (IF IsRunning THEN LaterCalls ELSE FirstCalls) \cup {Destroy} :
        Submit(task) \/ SubmitNothing(task)

\* fork_all_threads, first loop: nobody is there yet to see it happen.
WakeAll ==
    /\ mainPc = "wake"
    /\ incoming' = [t \in Threads |-> IF t < NumThreadsForTask(task_)
                                        THEN 1 - incoming[t] ELSE incoming[t]]
    /\ mainPc' = "create"
    /\ UNCHANGED <<forked, task_, last, result, outgoing, handle, pc, locals,
                   ran, data, failed>>

\* pthread_create: from here on the thread runs.
CreateThread ==
    /\ mainPc = "create"
    /\ pc' = [pc EXCEPT ![forked] = "task_wait"]
    /\ mainPc' = "store_handle"
    /\ UNCHANGED <<forked, task_, last, result, signals, handle, locals, ran,
                   data, failed>>

\* pthread_create fails; the exception leaves a noexcept function.
CreateFails ==
    /\ mainPc = "create"
    /\ Fail("pthread_create")

\* os_thread::fork stores the handle only after pthread_create has returned.
StoreHandle ==
    /\ mainPc = "store_handle"
    /\ handle' = [handle EXCEPT ![forked] = TRUE]
    /\ forked' = forked + 1
    /\ mainPc' = IF forked + 1 < NumThreads THEN "create" ELSE "await"
    /\ UNCHANGED <<task_, last, result, signals, pc, locals, ran, data, failed>>

\* notify_thread(-1, 0)
NotifyRoot ==
    /\ mainPc = "notify"
    /\ incoming' = Toggled(incoming, 0)
    /\ mainPc' = "await"
    /\ UNCHANGED <<forked, task_, last, result, outgoing, handle, pc, locals,
                   ran, data, failed>>

\* Fault: run() returns without waiting for thread 0.
PassRoot ==
    /\ mainPc = "await"
    /\ mainPc' = IF task_.join_requested THEN "join" ELSE "release"
    /\ UNCHANGED <<forked, task_, last, result, signals, handle, pc, locals,
                   ran, data, failed>>

\* wait_for_thread(-1, 0), which does not merge
AwaitRoot ==
    /\ mainPc = "await"
    /\ Answered(0)
    /\ mainPc' = IF task_.join_requested THEN "join" ELSE "release"
    /\ UNCHANGED <<forked, task_, last, result, signals, handle, pc, locals,
                   ran, data, failed>>

\* join_thread(-1, 0)
JoinRoot ==
    /\ mainPc = "join"
    /\ handle[0]
    /\ pc[0] = "exited"
    /\ handle' = [handle EXCEPT ![0] = FALSE]
    /\ mainPc' = "release"
    /\ UNCHANGED <<forked, task_, last, result, signals, pc, locals, ran, data,
                   failed>>

\* release_task and return; a squad that was joined is deleted; transform_reduce
\* takes data[0].
Return ==
    /\ mainPc = "release"
    /\ \/ task_.op # "reduce"
       \/ data[0] # << >>
    /\ task_' = NoTask
    /\ mainPc' = IF task_.join_requested THEN "freed" ELSE "idle"
    /\ result' = data[0]
    /\ data' = [t \in Threads |-> << >>]
    /\ UNCHANGED <<forked, last, signals, handle, pc, locals, ran, failed>>

\* What ends the program in the main thread instead.
MainFails ==
    \/ CreateFails
    \/ /\ mainPc = "join"
       /\ ~handle[0]
       /\ Fail("join of a thread without handle")
    \/ /\ mainPc = "release"
       /\ task_.op = "reduce" /\ data[0] = << >>
       /\ Fail("no result")

-----------------------------------------------------------------------------
(* A thread of the squad: run_thread()                                       *)

Goto(t, label) == pc' = [pc EXCEPT ![t] = label]

\* Fault: every walk visits all subordinates, whatever the task.
BeginWalkOverAll(t) ==
    /\ limit' = [limit EXCEPT ![t] = NumThreads]
    /\ pos' = [pos EXCEPT ![t] = 1]

\* Begins a walk for the number of threads the current task calls for.
BeginWalk(t) ==
    /\ limit' = [limit EXCEPT ![t] = NumThreadsForTask(task_)]
    /\ pos' = [pos EXCEPT ![t] = 1]

\* Fault: a thread wakes its subordinates in its first pass, too.
AlwaysWakes(t) == pass[t] >= 0

\* In its first pass a thread leaves waking the others to main.
WakesSubthreads(t) == pass[t] > 0

\* task_wait, and the beginning of notify_subthreads if it is called.
TaskWait(t) ==
    /\ pc[t] = "task_wait"
    /\ incoming[t] # outgoing[t]
    /\ task_ # NoTask
    /\ joinRequested' = [joinRequested EXCEPT ![t] = task_.join_requested]
    /\ IF WakesSubthreads(t)
         THEN BeginWalk(t) /\ Goto(t, "notify")
         ELSE UNCHANGED <<limit, pos>> /\ Goto(t, "execute")
    /\ UNCHANGED <<mainVars, signals, handle, pass, ran, data, failed>>

\* One turn of notify_subthreads.
NotifySubthread(t) ==
    /\ pc[t] = "notify"
    /\ pos[t] <= Len(To(t))
    /\ incoming' = Toggled(incoming, To(t)[pos[t]])
    /\ pos' = [pos EXCEPT ![t] = @ + 1]
    /\ UNCHANGED <<mainVars, outgoing, handle, pc, pass, joinRequested, limit,
                   ran, data, failed>>

ReadyToExecute(t) ==
    \/ pc[t] = "execute"
    \/ pc[t] = "notify" /\ pos[t] > Len(To(t))

\* Fault: one thread too many.
ParticipatesToo(t) == t <= task_.concurrency

Participates(t) == t < task_.concurrency

\* task_run, the end of the task body, then the beginning of wait_for_subthreads.
Execute(t) ==
    /\ ReadyToExecute(t)
    /\ task_ # NoTask
    /\ IF Participates(t)
         THEN /\ task_.op = "reduce" => data[t] = << >>
              /\ ran' = [ran EXCEPT ![t] = @ + 1]
              /\ data' = IF task_.op = "reduce"
                           THEN [data EXCEPT ![t] = <<t>>] ELSE data
         ELSE UNCHANGED <<ran, data>>
    /\ BeginWalk(t)
    /\ Goto(t, "wait")
    /\ UNCHANGED <<mainVars, signals, handle, pass, joinRequested, failed>>

\* Fault: the operands of the reduction are swapped.
MergedFromLeft(dst, src) ==
    [data EXCEPT ![dst] = data[src] \o @, ![src] = << >>]

\* merge()
Merged(dst, src) == [data EXCEPT ![dst] = @ \o data[src], ![src] = << >>]

\* One turn of wait_for_subthreads: await the subordinate and merge its result.
WaitForSubthread(t) ==
    /\ pc[t] = "wait"
    /\ pos[t] <= Len(From(t))
    /\ LET j == From(t)[pos[t]]
       IN  /\ Answered(j)
           /\ task_ # NoTask
           /\ IF task_.op = "reduce"
                THEN /\ data[t] # << >> /\ data[j] # << >>
                     /\ data' = Merged(t, j)
                ELSE UNCHANGED data
    /\ pos' = [pos EXCEPT ![t] = @ + 1]
    /\ UNCHANGED <<mainVars, signals, handle, pc, pass, joinRequested, limit,
                   ran, failed>>

\* Fault: the completed pass is not counted.
SignalUncounted(t) ==
    /\ pc[t] = "wait"
    /\ pos[t] > Len(From(t))
    /\ outgoing' = Toggled(outgoing, t)
    /\ Goto(t, IF joinRequested[t] THEN "begin_join" ELSE "task_wait")
    /\ UNCHANGED <<mainVars, incoming, handle, locals, ran, data, failed>>

\* task_signal_completion; joinRequested is the copy made before.
Signal(t) ==
    /\ pc[t] = "wait"
    /\ pos[t] > Len(From(t))
    /\ outgoing' = Toggled(outgoing, t)
    /\ pass' = [pass EXCEPT ![t] = 1]
    /\ Goto(t, IF joinRequested[t] THEN "begin_join" ELSE "task_wait")
    /\ UNCHANGED <<mainVars, incoming, handle, joinRequested, limit, pos, ran,
                   data, failed>>

\* join_subthreads reads task_ once more, after completion was signalled.
BeginJoin(t) ==
    /\ pc[t] = "begin_join"
    /\ BeginWalk(t)
    /\ Goto(t, "join")
    /\ UNCHANGED <<mainVars, signals, handle, pass, joinRequested, ran, data,
                   failed>>

\* One turn of join_subthreads.
JoinSubthread(t) ==
    /\ pc[t] = "join"
    /\ pos[t] <= Len(From(t))
    /\ LET j == From(t)[pos[t]]
       IN  /\ handle[j]
           /\ pc[j] = "exited"
           /\ handle' = [handle EXCEPT ![j] = FALSE]
    /\ pos' = [pos EXCEPT ![t] = @ + 1]
    /\ UNCHANGED <<mainVars, signals, pc, pass, joinRequested, limit, ran, data,
                   failed>>

Exit(t) ==
    /\ pc[t] = "join"
    /\ pos[t] > Len(From(t))
    /\ Goto(t, "exited")
    /\ UNCHANGED <<mainVars, signals, handle, locals, ran, data, failed>>

\* What ends the program in a thread instead.
ThreadFails(t) ==
    \/ /\ \/ pc[t] = "task_wait" /\ incoming[t] # outgoing[t]
          \/ ReadyToExecute(t)
          \/ pc[t] = "wait" /\ pos[t] <= Len(From(t)) /\ Answered(From(t)[pos[t]])
       /\ task_ = NoTask
       /\ Fail("access to a released task")
    \/ /\ ReadyToExecute(t)
       /\ task_.op = "reduce" /\ Participates(t)
       /\ data[t] # << >>
       /\ Fail("result already present")
    \/ /\ pc[t] = "wait" /\ pos[t] <= Len(From(t))
       /\ task_.op = "reduce"
       /\ LET j == From(t)[pos[t]]
          IN  Answered(j) /\ (data[t] = << >> \/ data[j] = << >>)
       /\ Fail("merge of a missing result")
    \/ /\ pc[t] = "join" /\ pos[t] <= Len(From(t))
       /\ ~handle[From(t)[pos[t]]]
       /\ Fail("join of a thread without handle")

-----------------------------------------------------------------------------

MainStep ==
    \/ WakeAll \/ CreateThread \/ StoreHandle \/ NotifyRoot \/ AwaitRoot
    \/ JoinRoot \/ Return \/ MainFails

ThreadStep(t) ==
    \/ TaskWait(t) \/ NotifySubthread(t) \/ Execute(t) \/ WaitForSubthread(t)
    \/ Signal(t) \/ BeginJoin(t) \/ JoinSubthread(t) \/ Exit(t)
    \/ ThreadFails(t)

\* The squad is gone, or the program was terminated.
Stopped ==
    /\ mainPc = "freed" \/ failed # "none"
    /\ UNCHANGED vars

Next ==
    \/ /\ failed = "none"
       /\ Call \/ MainStep \/ \E t \in Threads : ThreadStep(t)
    \/ Stopped

(*****************************************************************************)
(* The operating system runs every thread that can run, and task bodies      *)
(* terminate; nobody makes the client call again.                            *)
(*****************************************************************************)
Fairness ==
    /\ WF_vars(failed = "none" /\ MainStep)
    /\ \A t \in Threads : WF_vars(failed = "none" /\ ThreadStep(t))

Spec == Init /\ [][Next]_vars

FairSpec == Spec /\ Fairness

-----------------------------------------------------------------------------
(* What the squad promises                                                   *)

MainLabels == {"idle", "wake", "create", "store_handle", "notify", "await",
               "join", "release", "freed"}

Labels == {"none", "task_wait", "notify", "execute", "wait", "begin_join",
           "join", "exited"}

Outcomes == {"none", "pthread_create", "access to a released task",
             "result already present", "merge of a missing result",
             "join of a thread without handle", "no result"}

TypeOK ==
    /\ mainPc \in MainLabels
    /\ forked \in 0 .. NumThreads
    /\ task_ \in Task \cup {NoTask}
    /\ last \in Task \cup {NoTask}
    /\ incoming \in [Threads -> {0, 1}]
    /\ outgoing \in [Threads -> {0, 1}]
    /\ handle \in [Threads -> BOOLEAN]
    /\ pc \in [Threads -> Labels]
    /\ pass \in [Threads -> {0, 1}]
    /\ joinRequested \in [Threads -> BOOLEAN]
    /\ limit \in [Threads -> 0 .. NumThreads]
    /\ pos \in [Threads -> Nat \ {0}]
    /\ ran \in [Threads -> Nat]
    /\ data \in [Threads -> Seq(Threads)]
    /\ result \in Seq(Threads)
    /\ failed \in Outcomes

Returned == mainPc \in {"idle", "freed"} /\ last # NoTask

(* thread_squad.hpp: "Runs the given action on `concurrency` threads and     *)
(* waits until all tasks have run to completion."  When run() returns,       *)
(* each of these threads has executed the task exactly once, no other has.   *)
CompleteOnReturn ==
    Returned =>
        \A t \in Threads : ran[t] = IF t < last.concurrency THEN 1 ELSE 0

(* transform_reduce returns the values of all participating threads,         *)
(* combined in the order of the thread indices although the threads finish   *)
(* in any order: the reduction need not be commutative.                      *)
ResultInOrder ==
    Returned /\ last.op = "reduce" =>
        result = [k \in 1 .. last.concurrency |-> k - 1]

(* No gsl_Expects/gsl_Assert of the squad fails, no task is used after it    *)
(* was released and no result is missing when it is merged or returned.      *)
NoContractViolation == failed \in {"none", "pthread_create"}

(* Between calls no thread has anything left to do with the last task: the   *)
(* task object is on the caller's stack and is gone by then.                 *)
QuietBetweenCalls ==
    task_ = NoTask =>
        \A t \in Threads : /\ pc[t] \in {"none", "task_wait", "exited"}
                           /\ Answered(t)

(* The squad's memory is freed only after every thread that was created      *)
(* has left run_thread().                                                    *)
FreedAfterExit ==
    mainPc = "freed" => \A t \in Threads : pc[t] \in {"none", "exited"}

(* A thread is notified again only after it has answered: a second toggle    *)
(* of incoming_ would cancel the first one.                                  *)
NotifiedWhenAnswered ==
    [][\A t \in Threads : incoming'[t] # incoming[t] => Answered(t)]_vars

(* Every call returns, the destructor's included ("no deadlocks" in the      *)
(* tests), unless the system cannot create a thread.                         *)
EveryCallReturns ==
    mainPc \notin {"idle", "freed"} ~>
        mainPc \in {"idle", "freed"} \/ failed = "pthread_create"

-----------------------------------------------------------------------------
(* The thread squad implements the fork-join service of ForkJoin.  A squad   *)
(* is "used" once thread 0 has a handle.                                     *)

AbstractPhase ==
    CASE failed = "pthread_create" -> "terminated"
      [] failed \notin {"none", "pthread_create"} -> "broken"
      [] mainPc = "freed" -> "freed"
      [] mainPc = "idle" -> IF IsRunning THEN "used" ELSE "new"
      [] OTHER -> "running"

Service == INSTANCE ForkJoin WITH phase <- AbstractPhase

(* Every step of the squad is a step of the service or invisible to the      *)
(* client, and the squad makes the progress the service promises.            *)
ImplementsForkJoin == Service!Spec

=============================================================================
