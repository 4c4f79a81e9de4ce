--------------------------- MODULE ThreadSquadProofs ---------------------------
(*****************************************************************************)
(* Proofs about the thread squad, for every number of threads and every      *)
(* tree that CarefulSquad's assumptions admit.                               *)
(*****************************************************************************)
EXTENDS CarefulSquad, SquadLayoutProofs

-----------------------------------------------------------------------------
(* Types                                                                     *)

LEMMA TaskFacts ==
    ASSUME NEW task \in Task \cup {NoTask}
    PROVE  /\ NumThreadsForTask(task) \in 0 .. NumThreads
           /\ NumThreadsForTask(NoTask) = NumThreads
           /\ task # NoTask => task \in Task
           /\ task.join_requested \in BOOLEAN
           /\ task.concurrency \in 0 .. NumThreads
           /\ NoTask \notin Task /\ Destroy \in Task
<1>1. task.concurrency \in 0 .. NumThreads
  BY NumThreadsAssumption DEF Task, NoTask
<1>2. task.join_requested \in BOOLEAN
  <2>1. CASE task = NoTask
    BY <2>1 DEF NoTask
  <2>2. CASE task \in Task
    BY <2>2 DEF Task
  <2>3. QED
    BY <2>1, <2>2
<1>3. NumThreads \in 0 .. NumThreads
  BY NumThreadsAssumption
<1>4. NumThreadsForTask(task) \in 0 .. NumThreads
  BY <1>1, <1>3 DEF NumThreadsForTask
<1>5. NumThreadsForTask(NoTask) = NumThreads
  BY DEF NumThreadsForTask
<1>6. Destroy \in Task
  BY NumThreadsAssumption DEF Destroy, Task
<1>7. NoTask \notin Task
  BY DEF NoTask, Task
<1>8. QED
  BY <1>1, <1>2, <1>4, <1>5, <1>6, <1>7

\* All calls of the client are tasks.
LEMMA CallFacts ==
    (IF IsRunning THEN LaterCalls ELSE FirstCalls) \cup {Destroy} \subseteq Task
  BY CallsAssumption, TaskFacts

LEMMA InitTypeOK == Init => TypeOK
  BY NumThreadsAssumption DEF Init, TypeOK, MainLabels, Labels, Outcomes

\* A failing step leaves everything alone but the outcome.
LEMMA FailTypeOK ==
    ASSUME TypeOK, MainFails \/ \E t \in Threads : ThreadFails(t)
    PROVE  TypeOK'
<1>1. PICK what \in Outcomes : Fail(what)
  BY DEF MainFails, CreateFails, ThreadFails, Outcomes
<1>2. QED
  BY <1>1 DEF TypeOK, Fail, mainVars, signals, locals

LEMMA MainTypeOK ==
    ASSUME TypeOK, mainPc \in {"create", "store_handle"} => forked < NumThreads,
           Call \/ MainStep
    PROVE  TypeOK'
<1> USE ThreadZero DEF TypeOK, mainVars, signals, locals
<1>1. CASE Call
  <2> PICK task \in (IF IsRunning THEN LaterCalls ELSE FirstCalls) \cup {Destroy} :
          Submit(task) \/ SubmitNothing(task)
    BY <1>1 DEF Call
  <2>1. task \in Task
    BY CallFacts
  <2>2. CASE Submit(task)
    BY <2>1, <2>2 DEF Submit, MainLabels
  <2>3. CASE SubmitNothing(task)
    <3>1. /\ mainPc' = "freed" /\ last' = task /\ result' = << >>
          /\ ran' = [u \in Threads |-> 0]
          /\ UNCHANGED <<forked, task_, signals, handle, pc, locals, data, failed>>
      BY <2>3 DEF SubmitNothing
    <3>2. mainPc' \in MainLabels
      BY <3>1 DEF MainLabels
    <3>3. QED
      BY <2>1, <3>1, <3>2
  <2>4. QED
    BY <2>2, <2>3
<1>2. CASE WakeAll
  BY <1>2 DEF WakeAll, MainLabels
<1>3. CASE CreateThread
  BY <1>3 DEF CreateThread, MainLabels, Labels
<1>4. CASE StoreHandle
  <2>1. forked' \in 0 .. NumThreads
    BY <1>4, NumThreadsAssumption DEF StoreHandle
  <2>2. handle' \in [Threads -> BOOLEAN]
    BY <1>4 DEF StoreHandle
  <2>3. QED
    BY <1>4, <2>1, <2>2 DEF StoreHandle, MainLabels
<1>5. CASE NotifyRoot
  BY <1>5, ToggledFacts DEF NotifyRoot, MainLabels
<1>6. CASE AwaitRoot
  BY <1>6 DEF AwaitRoot, MainLabels
<1>7. CASE JoinRoot
  BY <1>7 DEF JoinRoot, MainLabels
<1>8. CASE Return
  <2>1. /\ task_' = NoTask /\ result' = data[0] /\ data' = [u \in Threads |-> << >>]
        /\ UNCHANGED <<forked, last, signals, handle, pc, locals, ran, failed>>
    BY <1>8 DEF Return
  <2>2. mainPc' \in MainLabels
    BY <1>8 DEF Return, MainLabels
  <2>3. QED
    BY <2>1, <2>2
<1>9. CASE MainFails
  BY <1>9, FailTypeOK
<1>10. QED
  BY <1>1, <1>2, <1>3, <1>4, <1>5, <1>6, <1>7, <1>8, <1>9 DEF MainStep

LEMMA ThreadTypeOK ==
    ASSUME TypeOK, NEW t \in Threads, ThreadStep(t)
    PROVE  TypeOK'
<1> USE DEF TypeOK, mainVars, signals, locals
<1>1. NumThreadsForTask(task_) \in 0 .. NumThreads
  BY TaskFacts
<1>2. /\ To(t) \in Seq(Threads)
      /\ From(t) \in Seq(Threads)
  BY WalkFacts DEF To, From
<1>3. CASE TaskWait(t)
  <2>1. task_.join_requested \in BOOLEAN
    BY TaskFacts
  <2>2. joinRequested' \in [Threads -> BOOLEAN]
    BY <1>3, <2>1 DEF TaskWait
  <2>3. limit' \in [Threads -> 0 .. NumThreads] /\ pos' \in [Threads -> Nat \ {0}]
    <3>1. \/ BeginWalk(t)
          \/ UNCHANGED <<limit, pos>>
      BY <1>3 DEF TaskWait
    <3>2. CASE BeginWalk(t)
      BY <1>1, <3>2 DEF BeginWalk
    <3>3. CASE UNCHANGED <<limit, pos>>
      BY <3>3
    <3>4. QED
      BY <3>1, <3>2, <3>3
  <2>4. pc' \in [Threads -> Labels]
    <3>1. PICK label \in Labels : pc' = [pc EXCEPT ![t] = label]
      BY <1>3 DEF TaskWait, Goto, Labels
    <3>2. QED
      BY <3>1
  <2>5. QED
    BY <1>3, <2>2, <2>3, <2>4 DEF TaskWait
<1>4. CASE NotifySubthread(t)
  <2>1. To(t)[pos[t]] \in Threads
    BY <1>2, <1>4 DEF NotifySubthread
  <2>2. pos' \in [Threads -> Nat \ {0}]
    BY <1>4 DEF NotifySubthread
  <2>3. QED
    BY <1>4, <2>1, <2>2, ToggledFacts DEF NotifySubthread
<1>5. CASE Execute(t)
  <2>1. limit' \in [Threads -> 0 .. NumThreads] /\ pos' \in [Threads -> Nat \ {0}]
    BY <1>1, <1>5 DEF Execute, BeginWalk
  <2>2. pc' \in [Threads -> Labels]
    BY <1>5 DEF Execute, Goto, Labels
  <2>3. ran' \in [Threads -> Nat]
    <3>1. ran' = [ran EXCEPT ![t] = @ + 1] \/ ran' = ran
      BY <1>5 DEF Execute
    <3>2. CASE ran' = [ran EXCEPT ![t] = @ + 1]
      BY <3>2
    <3>3. CASE ran' = ran
      BY <3>3
    <3>4. QED
      BY <3>1, <3>2, <3>3
  <2>4. data' \in [Threads -> Seq(Threads)]
    <3>1. data' = [data EXCEPT ![t] = <<t>>] \/ data' = data
      BY <1>5 DEF Execute
    <3>2. <<t>> \in Seq(Threads)
      OBVIOUS
    <3>3. QED
      BY <3>1, <3>2
  <2>5. QED
    BY <1>5, <2>1, <2>2, <2>3, <2>4 DEF Execute
<1>6. CASE WaitForSubthread(t)
  <2> DEFINE j == From(t)[pos[t]]
  <2>1. pos[t] \in 1 .. Len(From(t))
    BY <1>6 DEF WaitForSubthread
  <2>2. j \in Threads
    BY <1>2, <2>1
  <2>3. data[t] \o data[j] \in Seq(Threads)
    BY <2>2
  <2>4. data' \in [Threads -> Seq(Threads)]
    <3>1. \/ data' = [data EXCEPT ![t] = @ \o data[j], ![j] = << >>]
          \/ data' = data
      BY <1>6 DEF WaitForSubthread, Merged
    <3>2. << >> \in Seq(Threads)
      OBVIOUS
    <3> HIDE DEF j
    <3>3. QED
      BY <2>2, <2>3, <3>1, <3>2
  <2>5. pos' \in [Threads -> Nat \ {0}]
    <3>1. pos' = [pos EXCEPT ![t] = @ + 1]
      BY <1>6 DEF WaitForSubthread
    <3>2. QED
      BY <3>1
  <2>6. QED
    BY <1>6, <2>4, <2>5 DEF WaitForSubthread
<1>7. CASE Signal(t)
  <2>1. pc' \in [Threads -> Labels]
    BY <1>7 DEF Signal, Goto, Labels
  <2>2. pass' \in [Threads -> {0, 1}]
    BY <1>7 DEF Signal
  <2>3. QED
    BY <1>7, <2>1, <2>2, ToggledFacts DEF Signal
<1>8. CASE BeginJoin(t)
  BY <1>1, <1>8 DEF BeginJoin, BeginWalk, Goto, Labels
<1>9. CASE JoinSubthread(t)
  <2>1. pos' \in [Threads -> Nat \ {0}]
    BY <1>9 DEF JoinSubthread
  <2>2. handle' \in [Threads -> BOOLEAN]
    BY <1>9 DEF JoinSubthread
  <2>3. QED
    BY <1>9, <2>1, <2>2 DEF JoinSubthread
<1>10. CASE Exit(t)
  BY <1>10 DEF Exit, Goto, Labels
<1>11. CASE ThreadFails(t)
  BY <1>11, FailTypeOK
<1>12. QED
  BY <1>3, <1>4, <1>5, <1>6, <1>7, <1>8, <1>9, <1>10, <1>11 DEF ThreadStep

-----------------------------------------------------------------------------
(* What the invariant says of single threads                                 *)

\* The local state of thread u is left alone.
SameLocals(u) ==
    /\ pc'[u] = pc[u]
    /\ pass'[u] = pass[u]
    /\ joinRequested'[u] = joinRequested[u]
    /\ limit'[u] = limit[u]
    /\ pos'[u] = pos[u]
    /\ ran'[u] = ran[u]
    /\ outgoing'[u] = outgoing[u]

LEMMA SameFacts ==
    ASSUME NEW u \in Threads, SameLocals(u), incoming'[u] = incoming[u],
           task_' = task_
    PROVE  /\ Answered(u)' <=> Answered(u)
           /\ AtRest(u)' <=> AtRest(u)
           /\ Pending(u)' <=> Pending(u)
           /\ Notified(u)' <=> Notified(u)
           /\ Busy(u)' <=> Busy(u)
           /\ Done(u)' <=> Done(u)
           /\ Holds(u)' <=> Holds(u)
           /\ To(u)' = To(u)
           /\ From(u)' = From(u)
<1>1. Answered(u)' <=> Answered(u)
  BY DEF Answered, SameLocals
<1>2. AtRest(u)' <=> AtRest(u)
  BY DEF AtRest, SameLocals
<1>3. Share(u)' = Share(u)
  BY DEF Share
<1>4. Busy(u)' <=> Busy(u)
  BY <1>1, <1>3 DEF Busy, SameLocals
<1>5. Done(u)' <=> Done(u)
  BY <1>1, <1>3 DEF Done, SameLocals
<1>6. Holds(u)' <=> Holds(u)
  BY <1>5 DEF Holds, SameLocals
<1>7. To(u)' = To(u) /\ From(u)' = From(u)
  BY DEF To, From, ToWalk, FromWalk, SameLocals
<1>8. QED
  BY <1>1, <1>2, <1>4, <1>5, <1>6, <1>7 DEF Pending, Notified

\* The phases exclude one another where it matters.
LEMMA PhaseFacts ==
    ASSUME TypeOK, NEW t \in Threads, task_ # NoTask, t < Lim
    PROVE  /\ Done(t) => ~AtRest(t) /\ ~Pending(t) /\ ~Busy(t) /\ ~Notified(t)
           /\ Busy(t) => ~AtRest(t) /\ ~Pending(t) /\ ~Notified(t)
<1>1. task_ \in Task
  BY DEF TypeOK
<1>2. ~task_.join_requested => Share(t) = 1
  BY <1>1 DEF Share, Lim, NumThreadsForTask
<1>3. Done(t) => ~AtRest(t)
  BY <1>2 DEF Done, AtRest
<1>4. Busy(t) => ~AtRest(t)
  BY DEF Busy, AtRest
<1>5. QED
  BY <1>3, <1>4 DEF Done, Pending, Notified, Busy

\* A thread that is working on a task.
LEMMA BusyFacts ==
    ASSUME IInv, NEW t \in Threads, pc[t] \in {"notify", "execute", "wait"}
    PROVE  /\ task_ # NoTask
           /\ t < Lim
           /\ Busy(t)
           /\ ~Pending(t)
           /\ ~Done(t)
           /\ mainPc \notin {"idle", "freed", "wake", "notify"}
           /\ mainPc \in {"join", "release"} => t # 0
<1>1. mainPc \notin {"idle", "freed"}
  BY DEF IInv, QuietInv
<1>2. task_ # NoTask
  BY <1>1 DEF IInv, MainInv
<1>3. ~Pending(t) /\ ~Notified(t) /\ ~Done(t)
  BY DEF Pending, Notified, Done, AtRest
<1>4. t < Lim /\ Busy(t)
  BY <1>2, <1>3 DEF IInv, PhaseInv
<1>5. mainPc \notin {"wake", "notify"}
  BY <1>2, <1>3 DEF IInv, PhaseInv
<1>6. mainPc \in {"join", "release"} => t # 0
  BY <1>2, <1>3 DEF IInv, PhaseInv
<1>7. QED
  BY <1>1, <1>2, <1>3, <1>4, <1>5, <1>6

\* The walks of a thread that is in one.
LEMMA InWalkFacts ==
    ASSUME TypeOK, NEW t \in Threads
    PROVE  /\ To(t) \in Seq(Threads)
           /\ From(t) \in Seq(Threads)
           /\ \A k \in 1 .. Len(To(t)) :
                 To(t)[k] \in Kids(t) /\ To(t)[k] < limit[t]
           /\ \A k \in 1 .. Len(From(t)) :
                 From(t)[k] \in Kids(t) /\ From(t)[k] < limit[t]
           /\ \A j \in Kids(t) : j < limit[t] =>
                 /\ \E k \in 1 .. Len(To(t)) : To(t)[k] = j
                 /\ \E k \in 1 .. Len(From(t)) : From(t)[k] = j
           /\ \A k, l \in 1 .. Len(To(t)) : To(t)[k] = To(t)[l] => k = l
           /\ \A k, l \in 1 .. Len(From(t)) : From(t)[k] = From(t)[l] => k = l
<1>1. limit[t] \in 0 .. NumThreads
  BY DEF TypeOK
<1>2. QED
  BY <1>1, WalkFacts DEF To, From

-----------------------------------------------------------------------------
(* The invariant is preserved by every step of a thread                      *)

\* The part of the invariant that concerns who has been told of the task, who
\* is done, and who has left.
ProgressInv ==
    /\ MainInv
    /\ PassInv
    /\ QuietInv
    /\ PhaseInv
    /\ WalkInv
    /\ TreeInv
    /\ ExitInv
    /\ CompleteOnReturn
    /\ NoContractViolation

\* A step of thread t that touches only its own state and tells nobody of the
\* task preserves ProgressInv if it does so for t itself.
LEMMA OwnStep ==
    ASSUME IInv, NEW t \in Threads, UNCHANGED <<mainVars, incoming, failed>>,
           \A u \in Threads : u # t => SameLocals(u),
           mainPc \notin {"idle", "freed", "wake", "notify"},
           t < Lim, ~Pending(t), ~Pending(t)',
           Busy(t)' \/ Done(t)', Done(t) => Done(t)',
           pc[t] # "exited",
           pass[t] = 1 => pass'[t] = 1,
           Done(t)' => pass'[t] = 1,
           WalkAt(t)', TreeAt(t)', LeaveAt(t)'
    PROVE  ProgressInv'
<1>1. /\ TypeOK
      /\ UNCHANGED <<mainPc, forked, task_, last, result, incoming, failed>>
  BY DEF IInv, mainVars
<1>2. task_ # NoTask
  BY DEF IInv, MainInv
<1>3. Lim' = Lim
  BY <1>1 DEF Lim
<1>4. \A u \in Threads : u # t =>
          /\ Pending(u)' <=> Pending(u)
          /\ Notified(u)' <=> Notified(u)
          /\ Busy(u)' <=> Busy(u)
          /\ Done(u)' <=> Done(u)
          /\ AtRest(u)' <=> AtRest(u)
          /\ To(u)' = To(u)
          /\ From(u)' = From(u)
  BY <1>1, SameFacts
<1>5. \A u \in Threads : /\ Pending(u)' <=> Pending(u)
                         /\ Done(u) => Done(u)'
                         /\ pc[u] = "exited" => pc'[u] = "exited"
  BY <1>4 DEF SameLocals
<1>6. \A u \in Threads : /\ \A k \in 1 .. Len(To(u)) : To(u)[k] \in Threads
                         /\ \A k \in 1 .. Len(From(u)) : From(u)[k] \in Threads
  <2>1. ASSUME NEW u \in Threads
        PROVE  /\ \A k \in 1 .. Len(To(u)) : To(u)[k] \in Threads
               /\ \A k \in 1 .. Len(From(u)) : From(u)[k] \in Threads
    BY <1>1, InWalkFacts
  <2>2. QED
    BY <2>1
<1>7. MainInv'
  BY <1>1, <1>3 DEF IInv, MainInv, Reaches, Kids, ToWalk
<1>8. PassInv'
  BY <1>1, <1>2, <1>3, <1>4 DEF IInv, PassInv, SameLocals, Kids, ToWalk
<1>9. QuietInv'
  BY <1>1 DEF QuietInv
<1>10. PhaseInv'
  <2>1. ASSUME NEW u \in Threads
        PROVE  IF u < Lim THEN Pending(u)' \/ Notified(u)' \/ Busy(u)' \/ Done(u)'
                          ELSE Pending(u)'
    BY <1>2, <1>4 DEF IInv, PhaseInv
  <2>2. mainPc \in {"create", "store_handle", "await"} => ~Pending(0)'
    BY <1>2, <1>5, ThreadZero DEF IInv, PhaseInv
  <2>3. mainPc \in {"join", "release"} => Done(0)'
    BY <1>2, <1>5, ThreadZero DEF IInv, PhaseInv
  <2>4. QED
    BY <1>1, <1>2, <1>3, <2>1, <2>2, <2>3 DEF PhaseInv
<1>11. WalkInv'
  <2>1. ASSUME NEW u \in Threads, u # t
        PROVE  WalkAt(u)'
    <3>1. /\ pc'[u] = pc[u] /\ pos'[u] = pos[u] /\ pass'[u] = pass[u]
          /\ limit'[u] = limit[u] /\ To(u)' = To(u) /\ From(u)' = From(u)
      BY <1>4, <2>1 DEF SameLocals
    <3>2. WalkAt(u)
      BY DEF IInv, WalkInv
    <3>3. QED
      BY <1>3, <1>5, <1>6, <3>1, <3>2 DEF WalkAt
  <2>2. QED
    BY <2>1 DEF WalkInv
<1>12. TreeInv'
  <2>1. ASSUME NEW u \in Threads, u # t
        PROVE  TreeAt(u)'
    <3>1. TreeAt(u)
      BY <1>2 DEF IInv, TreeInv
    <3>2. Kids(u)' = Kids(u) /\ \A j \in Kids(u) : j \in Threads
      BY KidFacts DEF Kids, ToWalk
    <3>3. QED
      BY <1>3, <1>4, <1>5, <2>1, <3>1, <3>2 DEF TreeAt, SameLocals
  <2>2. QED
    BY <2>1 DEF TreeInv
<1>13. ExitInv'
  <2>1. ASSUME NEW u \in Threads, u # t
        PROVE  LeaveAt(u)'
    <3>1. /\ LeaveAt(u)
          /\ pc'[u] = pc[u] /\ pos'[u] = pos[u]
          /\ limit'[u] = limit[u] /\ From(u)' = From(u)
      BY <1>4, <2>1 DEF SameLocals, IInv, ExitInv
    <3>2. Kids(u)' = Kids(u) /\ \A j \in Kids(u) : j \in Threads
      BY KidFacts DEF Kids, ToWalk
    <3>3. QED
      BY <1>5, <1>6, <3>1, <3>2 DEF LeaveAt
  <2>2. QED
    BY <1>1, <1>5, <2>1, ThreadZero DEF IInv, ExitInv
<1>14. CompleteOnReturn' /\ NoContractViolation'
  BY <1>1 DEF IInv, CompleteOnReturn, Returned, NoContractViolation
<1>15. QED
  BY <1>7, <1>8, <1>9, <1>10, <1>11, <1>12, <1>13, <1>14 DEF ProgressInv

\* The same for the handles, and for the values of a reduction.
LEMMA OwnHandles ==
    ASSUME IInv, NEW t \in Threads, UNCHANGED <<mainVars, handle>>,
           \A u \in Threads : u # t => SameLocals(u),
           pc[t] # "none", pc'[t] # "none", HandleAt(t)'
    PROVE  CreatedInv' /\ HandleInv'
<1>1. UNCHANGED <<mainPc, forked, task_, handle>>
  BY DEF mainVars
<1>2. CreatedInv'
  BY <1>1 DEF IInv, CreatedInv, SameLocals
<1>3. ASSUME NEW u \in Threads, u # t
      PROVE  HandleAt(u)'
  <2>1. /\ HandleAt(u)
        /\ pc'[u] = pc[u] /\ pos'[u] = pos[u] /\ From(u)' = From(u)
    BY <1>3 DEF IInv, HandleInv, SameLocals, From, FromWalk
  <2>2. QED
    BY <1>1, <2>1 DEF HandleAt, Kids, ToWalk
<1>4. QED
  BY <1>2, <1>3 DEF HandleInv

LEMMA OwnData ==
    ASSUME IInv, UNCHANGED <<task_, data, ran>>,
           \A u \in Threads :
               /\ Holds(u)' <=> Holds(u)
               /\ pc'[u] = "wait" =>
                     pc[u] = "wait" /\ pos'[u] = pos[u] /\ limit'[u] = limit[u]
    PROVE  DataInv'
<1>1. TypeOK /\ DataInv /\ Lim' = Lim
  BY DEF IInv, Lim
<1>2. SUFFICES ASSUME task_.op = "reduce"
               PROVE  DataInv'
  BY DEF DataInv
<1>3. Holds(0)' => data'[0] # << >>
  BY <1>1, <1>2, ThreadZero DEF DataInv
<1>4. ASSUME NEW u \in Threads, NEW j \in Kids(u), j < Lim, ~Holds(u)', Holds(j)'
      PROVE  data'[j] # << >>
  BY <1>1, <1>2, <1>4, KidFacts DEF DataInv
<1>5. ASSUME NEW u \in Threads, pc'[u] = "wait"
      PROVE  /\ From(u)' = From(u)
             /\ \A k \in 1 .. Len(From(u)) :
                   k >= pos'[u] /\ Holds(From(u)[k])' => data'[From(u)[k]] # << >>
  <2>1. \A k \in 1 .. Len(From(u)) : From(u)[k] \in Threads
    BY <1>1, InWalkFacts
  <2>2. From(u)' = From(u) /\ pc[u] = "wait" /\ pos'[u] = pos[u]
    BY <1>5 DEF From, FromWalk
  <2>3. QED
    BY <1>1, <1>2, <2>1, <2>2 DEF DataInv
<1>6. QED
  BY <1>1, <1>2, <1>3, <1>4, <1>5 DEF DataInv, Kids, ToWalk

\* A thread that wakes up does so for the current task.
LEMMA WakeFacts ==
    ASSUME IInv, NEW t \in Threads, pc[t] = "task_wait", ~Answered(t)
    PROVE  /\ task_ # NoTask
           /\ t < Lim
           /\ Notified(t)
           /\ ~Pending(t)
           /\ ~Done(t)
           /\ mainPc \notin {"idle", "freed", "wake", "notify"}
<1>1. mainPc \notin {"idle", "freed"}
  BY DEF IInv, QuietInv
<1>2. task_ # NoTask
  BY <1>1 DEF IInv, MainInv
<1>3. ~Pending(t) /\ ~Busy(t) /\ ~Done(t)
  BY DEF Pending, Busy, Done
<1>4. t < Lim /\ Notified(t)
  BY <1>2, <1>3 DEF IInv, PhaseInv
<1>5. mainPc \notin {"wake", "notify"}
  BY <1>2, <1>3 DEF IInv, PhaseInv
<1>6. QED
  BY <1>1, <1>2, <1>3, <1>4, <1>5

\* A thread that is about to leave is done with a task that requests it.
LEMMA LeaverFacts ==
    ASSUME IInv, NEW t \in Threads, pc[t] \in {"begin_join", "join"}
    PROVE  /\ task_ # NoTask
           /\ task_.join_requested
           /\ Lim = NumThreads
           /\ t < Lim
           /\ Done(t)
           /\ ~Pending(t)
           /\ mainPc \notin {"idle", "freed", "wake", "notify"}
<1>1. mainPc \notin {"idle", "freed"}
  BY DEF IInv, QuietInv
<1>2. task_ # NoTask
  BY <1>1 DEF IInv, MainInv
<1>3. ~Pending(t) /\ ~Notified(t) /\ ~Busy(t)
  BY DEF Pending, Notified, Busy, AtRest
<1>4. t < Lim /\ Done(t)
  BY <1>2, <1>3 DEF IInv, PhaseInv
<1>5. task_.join_requested
  BY <1>4 DEF Done
<1>6. Lim = NumThreads
  BY <1>5 DEF Lim, NumThreadsForTask
<1>7. mainPc \notin {"wake", "notify"}
  BY <1>2, <1>3 DEF IInv, PhaseInv
<1>8. QED
  BY <1>1, <1>2, <1>3, <1>4, <1>5, <1>6, <1>7

LEMMA TaskWaitPreserves ==
    ASSUME IInv, NEW t \in Threads, TaskWait(t), TypeOK'
    PROVE  IInv'
<1>1. /\ TypeOK
      /\ UNCHANGED <<mainVars, task_, incoming, outgoing, handle, pass, ran, data, failed>>
      /\ pc[t] = "task_wait" /\ ~Answered(t)
      /\ joinRequested' = [joinRequested EXCEPT ![t] = task_.join_requested]
  BY DEF IInv, TaskWait, Answered, signals, mainVars
<1>2. /\ task_ # NoTask /\ t < Lim /\ Notified(t) /\ ~Pending(t) /\ ~Done(t)
      /\ mainPc \notin {"idle", "freed", "wake", "notify"}
  BY <1>1, WakeFacts
<1>3. \/ /\ pass[t] = 1 /\ pc'[t] = "notify" /\ limit'[t] = Lim /\ pos'[t] = 1
      \/ pass[t] = 0 /\ pc'[t] = "execute"
  BY <1>1 DEF TypeOK, TaskWait, WakesSubthreads, BeginWalk, Goto, Lim
<1>4. \A u \in Threads : u # t => SameLocals(u)
  <2>1. \A u \in Threads : u # t => pc'[u] = pc[u]
    <3>1. PICK label : pc' = [pc EXCEPT ![t] = label]
      BY DEF TaskWait, Goto
    <3>2. QED
      BY <1>1, <3>1 DEF TypeOK
  <2>2. \A u \in Threads : u # t => limit'[u] = limit[u] /\ pos'[u] = pos[u]
    <3>1. \/ limit' = [limit EXCEPT ![t] = Lim] /\ pos' = [pos EXCEPT ![t] = 1]
          \/ limit' = limit /\ pos' = pos
      BY DEF TaskWait, BeginWalk, Lim
    <3>2. QED
      BY <1>1, <3>1 DEF TypeOK
  <2>3. QED
    BY <1>1, <2>1, <2>2 DEF TypeOK, SameLocals
<1>5. Busy(t)' /\ ~Pending(t)' /\ ~AtRest(t)' /\ ~Done(t)'
  BY <1>1, <1>2, <1>3 DEF TypeOK, Busy, Pending, AtRest, Done, Notified, Answered
<1>6. \A u \in Threads : u # t => (Pending(u)' <=> Pending(u))
  BY <1>1, <1>4, SameFacts
<1>7. TreeAt(t)
  BY <1>2 DEF IInv, TreeInv
<1>8. WalkAt(t)'
  <2>1. CASE pass[t] = 0 /\ pc'[t] = "execute"
    BY <1>1, <2>1 DEF WalkAt
  <2>2. CASE pass[t] = 1 /\ pc'[t] = "notify" /\ limit'[t] = Lim /\ pos'[t] = 1
    <3>1. To(t)' = ToWalk[t][Lim] /\ Lim \in 0 .. NumThreads
      BY <1>1, <2>2, TaskFacts DEF To, ToWalk, Lim, TypeOK
    <3>2. \A k \in 1 .. Len(To(t)') : To(t)'[k] \in Kids(t) /\ To(t)'[k] < Lim
      BY <3>1, WalkFacts
    <3>3. \A j \in Kids(t) : j < Lim => Pending(j)'
      BY <1>2, <1>6, <1>7, <2>2, KidFacts DEF TreeAt, Notified
    <3>4. Lim' = Lim
      BY <1>1 DEF Lim
    <3>5. QED
      BY <1>1, <2>2, <3>2, <3>3, <3>4 DEF WalkAt
  <2>3. QED
    BY <1>3, <2>1, <2>2
<1>9. TreeAt(t)'
  <2>1. Lim' = Lim /\ Kids(t)' = Kids(t)
    BY <1>1 DEF Lim, Kids, ToWalk
  <2>2. \A j \in Kids(t) : Pending(j)' <=> Pending(j)
    BY <1>6, KidFacts
  <2>3. QED
    BY <1>1, <1>3, <1>5, <1>7, <2>1, <2>2 DEF TreeAt
<1>10. LeaveAt(t)'
  BY <1>3 DEF LeaveAt
<1>11. ProgressInv'
  BY <1>1, <1>2, <1>4, <1>5, <1>8, <1>9, <1>10, OwnStep
<1>12. CreatedInv' /\ HandleInv'
  <2>1. HandleAt(t)'
    BY <1>1, <1>3 DEF IInv, HandleInv, HandleAt, Kids, ToWalk, mainVars
  <2>2. QED
    BY <1>1, <1>3, <1>4, <2>1, OwnHandles
<1>13. DataInv'
  <2>1. \A u \in Threads : u # t => (Holds(u)' <=> Holds(u))
    BY <1>1, <1>4, SameFacts
  <2>2. \A u \in Threads : Holds(u)' <=> Holds(u)
    BY <1>1, <1>2, <1>3, <1>5, <2>1 DEF Holds
  <2>3. QED
    BY <1>1, <1>3, <1>4, <2>2, OwnData DEF SameLocals
<1>14. QED
  BY <1>11, <1>12, <1>13 DEF IInv, ProgressInv

LEMMA ExecutePreserves ==
    ASSUME IInv, NEW t \in Threads, Execute(t), TypeOK'
    PROVE  IInv'
<1>1. /\ TypeOK
      /\ UNCHANGED <<mainVars, task_, incoming, outgoing, handle, pass,
                     joinRequested, failed>>
      /\ ReadyToExecute(t)
      /\ pc[t] \in {"notify", "execute"}
  BY DEF IInv, Execute, ReadyToExecute, signals, mainVars
<1>2. /\ task_ # NoTask /\ t < Lim /\ Busy(t) /\ ~Pending(t) /\ ~Done(t)
      /\ mainPc \notin {"idle", "freed", "wake", "notify"}
  BY <1>1, BusyFacts
<1>3. pc'[t] = "wait" /\ limit'[t] = Lim /\ pos'[t] = 1
  BY <1>1 DEF TypeOK, Execute, BeginWalk, Goto, Lim
<1>4. ran[t] = 0 /\ ran'[t] = Share(t)
  <2>1. ran[t] = 0
    BY <1>1, <1>2 DEF Busy
  <2>2. CASE t < task_.concurrency
    <3>1. ran' = [ran EXCEPT ![t] = @ + 1]
      BY <2>2 DEF Execute, Participates
    <3>2. QED
      BY <1>1, <2>1, <2>2, <3>1 DEF TypeOK, Share
  <2>3. CASE ~(t < task_.concurrency)
    BY <2>1, <2>3 DEF Execute, Participates, Share
  <2>4. QED
    BY <2>1, <2>2, <2>3
<1>5. \A u \in Threads : u # t => SameLocals(u)
  <2>1. \A u \in Threads : u # t =>
            pc'[u] = pc[u] /\ limit'[u] = limit[u] /\ pos'[u] = pos[u]
    BY <1>1 DEF TypeOK, Execute, BeginWalk, Goto
  <2>2. \A u \in Threads : u # t => ran'[u] = ran[u]
    <3>1. ran' = [ran EXCEPT ![t] = @ + 1] \/ ran' = ran
      BY DEF Execute
    <3>2. QED
      BY <1>1, <3>1 DEF TypeOK
  <2>3. QED
    BY <1>1, <2>1, <2>2 DEF SameLocals
<1>6. Busy(t)' /\ ~Pending(t)' /\ ~Done(t)' /\ ~AtRest(t)'
  BY <1>1, <1>2, <1>3, <1>4 DEF Busy, Pending, Done, AtRest, Answered, Share
<1>7. \A u \in Threads : u # t =>
          (Pending(u)' <=> Pending(u)) /\ (Holds(u)' <=> Holds(u))
  BY <1>1, <1>5, SameFacts
<1>8. Lim' = Lim /\ Kids(t)' = Kids(t)
  BY <1>1 DEF Lim, Kids, ToWalk
<1>9. ASSUME NEW j \in Kids(t), j < Lim
      PROVE  ~Pending(j)
  <2>1. CASE pc[t] = "execute"
    BY <1>2, <1>9, <2>1 DEF IInv, WalkInv, WalkAt, TreeInv, TreeAt
  <2>2. CASE pc[t] = "notify" /\ pos[t] > Len(To(t))
    <3>1. limit[t] = Lim
      BY <2>2 DEF IInv, WalkInv, WalkAt
    <3>2. PICK k \in 1 .. Len(To(t)) : To(t)[k] = j
      BY <1>1, <1>9, <3>1, InWalkFacts
    <3>3. k < pos[t]
      BY <1>1, <2>2, InWalkFacts DEF TypeOK
    <3>4. QED
      BY <2>2, <3>2, <3>3 DEF IInv, WalkInv, WalkAt
  <2>3. QED
    BY <1>1, <2>1, <2>2 DEF ReadyToExecute
<1>10. WalkAt(t)'
  <2>1. From(t)' = FromWalk[t][Lim] /\ Lim \in 0 .. NumThreads
    BY <1>1, <1>3, TaskFacts DEF From, FromWalk, Lim, TypeOK
  <2>2. Len(From(t)') \in Nat
    BY <2>1, WalkFacts
  <2>3. QED
    BY <1>3, <1>8, <2>2 DEF WalkAt
<1>11. TreeAt(t)'
  <2>1. \A j \in Kids(t) : j < Lim => ~Pending(j)'
    BY <1>7, <1>9, KidFacts
  <2>2. QED
    BY <1>6, <1>8, <2>1 DEF TreeAt
<1>12. LeaveAt(t)'
  BY <1>3 DEF LeaveAt
<1>13. ProgressInv'
  BY <1>1, <1>2, <1>5, <1>6, <1>10, <1>11, <1>12, OwnStep
<1>14. CreatedInv' /\ HandleInv'
  <2>1. HandleAt(t)'
    BY <1>1, <1>3 DEF IInv, HandleInv, HandleAt, Kids, ToWalk, mainVars
  <2>2. QED
    BY <1>1, <1>3, <1>5, <2>1, OwnHandles
<1>15. DataInv'
  <2>1. SUFFICES ASSUME task_.op = "reduce"
                 PROVE  DataInv'
    BY <1>1 DEF DataInv
  <2>2. DataInv /\ t < task_.concurrency
    BY <1>2, <2>1 DEF IInv, MainInv
  <2>3. data' = [data EXCEPT ![t] = <<t>>] /\ ran'[t] # 0
    BY <1>4, <2>1, <2>2 DEF Execute, Participates, Share
  <2>4. data'[t] # << >> /\ \A u \in Threads : u # t => data'[u] = data[u]
    BY <1>1, <2>3 DEF TypeOK
  <2>5. Holds(t)'
    BY <1>3 DEF Holds
  <2>6. \A u \in Threads : ran'[u] = 0 => data'[u] = << >>
    BY <1>1, <1>5, <2>1, <2>2, <2>3, <2>4 DEF DataInv, SameLocals
  <2>7. \A u \in Threads : u < Lim /\ pc'[u] = "wait" => data'[u] # << >>
    BY <1>1, <1>5, <2>1, <2>2, <2>4 DEF DataInv, SameLocals
  <2>8. Holds(0)' => data'[0] # << >>
    BY <1>7, <2>1, <2>2, <2>4, ThreadZero DEF DataInv
  <2>9. ASSUME NEW u \in Threads, NEW j \in Kids(u), j < Lim, ~Holds(u)', Holds(j)'
        PROVE  data'[j] # << >>
    BY <1>7, <2>1, <2>2, <2>4, <2>5, <2>9, KidFacts DEF DataInv
  <2>10. ASSUME NEW u \in Threads, pc'[u] = "wait",
                NEW k \in 1 .. Len(From(u)'), k >= pos'[u]
         PROVE  /\ From(u)'[k] \in Threads
                /\ \A j \in Threads :
                      j = From(u)'[k] /\ Holds(j)' => data'[j] # << >>
    <3>1. CASE u # t
      <4>1. From(u)' = From(u) /\ pc[u] = "wait" /\ pos'[u] = pos[u]
        BY <1>1, <1>5, <2>10, <3>1, SameFacts DEF SameLocals
      <4>2. From(u)[k] \in Threads
        BY <1>1, <2>10, <4>1, InWalkFacts, KidFacts
      <4>3. QED
        BY <1>7, <2>1, <2>2, <2>4, <2>10, <4>1, <4>2 DEF DataInv
    <3>2. CASE u = t
      <4>1. From(t)' = FromWalk[t][Lim] /\ Lim \in 0 .. NumThreads
        BY <1>1, <1>3, TaskFacts DEF From, FromWalk, Lim, TypeOK
      <4>2. From(u)'[k] \in Kids(t) /\ From(u)'[k] < Lim
        BY <2>10, <3>2, <4>1, WalkFacts
      <4>3. ~Holds(t)
        BY <1>1, <1>2 DEF Holds
      <4>4. QED
        BY <1>7, <2>1, <2>2, <2>4, <2>10, <4>2, <4>3, KidFacts DEF DataInv
    <3>3. QED
      BY <3>1, <3>2
  <2>11. QED
    BY <1>1, <1>8, <2>1, <2>6, <2>7, <2>8, <2>9, <2>10 DEF DataInv, Kids, ToWalk
<1>16. QED
  BY <1>13, <1>14, <1>15 DEF IInv, ProgressInv

LEMMA SignalPreserves ==
    ASSUME IInv, NEW t \in Threads, Signal(t), TypeOK'
    PROVE  IInv'
<1>1. /\ TypeOK
      /\ UNCHANGED <<mainVars, task_, incoming, handle, joinRequested, limit, pos,
                     ran, data, failed>>
      /\ pc[t] = "wait" /\ pos[t] > Len(From(t))
      /\ outgoing' = Toggled(outgoing, t)
  BY DEF IInv, Signal, mainVars
<1>2. /\ task_ # NoTask /\ t < Lim /\ Busy(t) /\ ~Pending(t) /\ ~Done(t)
      /\ mainPc \notin {"idle", "freed", "wake", "notify"}
  BY <1>1, BusyFacts
<1>3. /\ outgoing'[t] # outgoing[t]
      /\ \A u \in Threads : u # t => outgoing'[u] = outgoing[u]
  <2>1. outgoing \in [Threads -> {0, 1}]
    BY <1>1 DEF TypeOK
  <2>2. QED
    BY <1>1, <2>1, ToggledFacts
<1>4. /\ pass'[t] = 1
      /\ pc'[t] = IF joinRequested[t] THEN "begin_join" ELSE "task_wait"
  BY <1>1 DEF TypeOK, Signal, Goto
<1>5. \A u \in Threads : u # t => SameLocals(u)
  <2>1. \A u \in Threads : u # t => pc'[u] = pc[u] /\ pass'[u] = pass[u]
    BY <1>1 DEF TypeOK, Signal, Goto
  <2>2. QED
    BY <1>1, <1>3, <2>1 DEF SameLocals
<1>6. (joinRequested[t] <=> task_.join_requested) /\ ran[t] = Share(t)
  BY <1>1, <1>2 DEF Busy
<1>7. Done(t)'
  <2>1. Answered(t)'
    <3>1. {outgoing[t], outgoing'[t], incoming[t]} \subseteq {0, 1}
      BY <1>1 DEF TypeOK
    <3>2. QED
      BY <1>1, <1>2, <1>3, <3>1 DEF Busy, Answered
  <2>2. (joinRequested'[t] <=> task_'.join_requested) /\ ran'[t] = Share(t)'
    BY <1>1, <1>6 DEF Share
  <2>3. pc'[t] \in (IF task_'.join_requested THEN {"begin_join", "join", "exited"}
                                             ELSE {"task_wait"})
    BY <1>1, <1>4, <1>6
  <2>4. QED
    BY <2>1, <2>2, <2>3 DEF Done
<1>8. ~Pending(t)' /\ ~AtRest(t)'
  <2>1. task_ \in Task
    BY <1>1, <1>2 DEF TypeOK
  <2>2. ~task_.join_requested => ran[t] = 1
    BY <1>2, <1>6, <2>1 DEF Share, Lim, NumThreadsForTask
  <2>3. QED
    BY <1>1, <1>6, <2>2 DEF Pending, AtRest
<1>9. \A u \in Threads : u # t =>
          (Done(u)' <=> Done(u)) /\ (Holds(u)' <=> Holds(u))
  BY <1>1, <1>5, SameFacts
<1>10. WalkAt(t)'
  BY <1>4 DEF WalkAt
<1>11. TreeAt(t)'
  <2>1. ASSUME NEW j \in Kids(t), j < Lim
        PROVE  Done(j)'
    <3>1. limit[t] = Lim
      BY <1>1 DEF IInv, WalkInv, WalkAt
    <3>2. PICK k \in 1 .. Len(From(t)) : From(t)[k] = j
      BY <1>1, <2>1, <3>1, InWalkFacts
    <3>3. k < pos[t]
      BY <1>1, InWalkFacts DEF TypeOK
    <3>4. Done(j)
      BY <1>1, <3>2, <3>3 DEF IInv, WalkInv, WalkAt
    <3>5. QED
      BY <1>9, <2>1, <3>4, KidFacts
  <2>2. Lim' = Lim /\ Kids(t)' = Kids(t)
    BY <1>1 DEF Lim, Kids, ToWalk
  <2>3. QED
    BY <1>4, <1>8, <2>1, <2>2 DEF TreeAt
<1>12. LeaveAt(t)'
  BY <1>4 DEF LeaveAt
<1>13. ProgressInv'
  BY <1>1, <1>2, <1>4, <1>5, <1>7, <1>8, <1>10, <1>11, <1>12, OwnStep
<1>14. CreatedInv' /\ HandleInv'
  <2>1. pc'[t] = "begin_join" => forked = NumThreads \/ NumThreads = 1
    <3>1. forked < NumThreads /\ task_.join_requested => NumThreads = 1
      BY <1>2 DEF IInv, MainInv
    <3>2. forked \in 0 .. NumThreads
      BY <1>1 DEF TypeOK
    <3>3. QED
      BY <1>4, <1>6, <3>1, <3>2, NumThreadsAssumption
  <2>2. forked' = forked
    BY <1>1 DEF mainVars
  <2>3. HandleAt(t)'
    BY <1>1, <1>4, <2>1, <2>2 DEF IInv, HandleInv, HandleAt, Kids, ToWalk
  <2>4. QED
    BY <1>1, <1>4, <1>5, <2>3, OwnHandles
<1>15. DataInv'
  <2>1. \A u \in Threads : Holds(u)' <=> Holds(u)
    BY <1>1, <1>7, <1>9 DEF Holds
  <2>2. QED
    BY <1>1, <1>4, <1>5, <2>1, OwnData DEF SameLocals
<1>16. QED
  BY <1>13, <1>14, <1>15 DEF IInv, ProgressInv

LEMMA WaitForSubthreadPreserves ==
    ASSUME IInv, NEW t \in Threads, WaitForSubthread(t), TypeOK'
    PROVE  IInv'
<1> DEFINE j == From(t)[pos[t]]
<1>1. /\ TypeOK
      /\ UNCHANGED <<mainVars, task_, incoming, outgoing, handle, pc, pass,
                     joinRequested, limit, ran, failed>>
      /\ pc[t] = "wait" /\ pos[t] <= Len(From(t))
      /\ pos' = [pos EXCEPT ![t] = @ + 1]
      /\ Answered(j)
  BY DEF IInv, WaitForSubthread, signals, mainVars
<1>2. /\ task_ # NoTask /\ t < Lim /\ Busy(t) /\ ~Pending(t) /\ ~Done(t)
      /\ mainPc \notin {"idle", "freed", "wake", "notify"}
  BY <1>1, BusyFacts
<1>3. pos'[t] = pos[t] + 1 /\ pos[t] \in 1 .. Len(From(t))
  BY <1>1, InWalkFacts DEF TypeOK
<1>4. \A u \in Threads : u # t => SameLocals(u)
  BY <1>1 DEF TypeOK, SameLocals
<1>5. /\ j \in Kids(t) /\ j < Lim
      /\ \A k \in 1 .. Len(From(t)) : k # pos[t] => From(t)[k] # j
      /\ \A k \in 1 .. Len(From(t)) : From(t)[k] \in Threads /\ From(t)[k] # t
  <2>1. limit[t] = Lim
    BY <1>1 DEF IInv, WalkInv, WalkAt
  <2>2. QED
    BY <1>1, <1>3, <2>1, InWalkFacts, KidFacts
<1>6. j \in Threads /\ j # t /\ j # 0
  BY <1>5, KidFacts
<1> HIDE DEF j
<1>7. Done(j)
  <2>1. ~Pending(j)
    BY <1>1, <1>2, <1>5 DEF IInv, TreeInv, TreeAt
  <2>2. QED
    BY <1>1, <1>2, <1>5, <1>6, <2>1 DEF IInv, PhaseInv, Notified, Busy
<1>8. Lim' = Lim /\ Kids(t)' = Kids(t) /\ From(t)' = From(t)
  BY <1>1 DEF Lim, Kids, ToWalk, From, FromWalk
<1>9. \A u \in Threads : /\ Pending(u)' <=> Pending(u)
                         /\ AtRest(u)' <=> AtRest(u)
                         /\ Busy(u)' <=> Busy(u)
                         /\ Done(u)' <=> Done(u)
                         /\ Holds(u)' <=> Holds(u)
  BY <1>1 DEF Pending, AtRest, Busy, Done, Holds, Answered, Share
<1>10. WalkAt(t)'
  <2>1. ASSUME NEW k \in 1 .. Len(From(t)), k < pos'[t]
        PROVE  Done(From(t)[k])
    BY <1>1, <1>3, <1>7, <2>1 DEF IInv, WalkInv, WalkAt, j
  <2>2. limit'[t] = Lim
    BY <1>1 DEF IInv, WalkInv, WalkAt
  <2>3. QED
    BY <1>1, <1>5, <1>8, <1>9, <2>1, <2>2 DEF WalkAt
<1>11. TreeAt(t)'
  <2>1. TreeAt(t) /\ \A i \in Kids(t) : i \in Threads
    BY <1>2, KidFacts DEF IInv, TreeInv
  <2>2. QED
    BY <1>1, <1>8, <1>9, <2>1 DEF TreeAt
<1>12. LeaveAt(t)'
  BY <1>1 DEF LeaveAt
<1>13. ProgressInv'
  BY <1>1, <1>2, <1>4, <1>9, <1>10, <1>11, <1>12, OwnStep
<1>14. CreatedInv' /\ HandleInv'
  <2>1. HandleAt(t)'
    BY <1>1 DEF IInv, HandleInv, HandleAt, Kids, ToWalk, mainVars
  <2>2. QED
    BY <1>1, <1>4, <2>1, OwnHandles
<1>15. DataInv'
  <2>1. SUFFICES ASSUME task_.op = "reduce"
                 PROVE  DataInv'
    BY <1>1 DEF DataInv
  <2>2. DataInv
    BY DEF IInv
  <2>3. /\ data[t] # << >> /\ data[j] # << >>
        /\ data' = [data EXCEPT ![t] = @ \o data[j], ![j] = << >>]
    BY <2>1 DEF WaitForSubthread, Merged, j
  <2>4. /\ data'[t] = data[t] \o data[j]
        /\ data'[j] = << >>
        /\ \A u \in Threads : u \notin {t, j} => data'[u] = data[u]
    <3>1. t # j /\ data \in [Threads -> Seq(Threads)]
      BY <1>1, <1>6 DEF TypeOK
    <3>2. t \in DOMAIN data /\ j \in DOMAIN data
      BY <1>6, <3>1
    <3> HIDE DEF j
    <3>3. QED
      BY <2>3, <3>1, <3>2
  <2>5. data'[t] # << >>
    BY <1>1, <1>6, <2>3, <2>4 DEF TypeOK
  <2>6. Holds(t) /\ ran[t] # 0
    <3>1. t < task_.concurrency
      BY <1>2, <2>1 DEF IInv, MainInv
    <3>2. ran[t] = Share(t)
      BY <1>1, <1>2 DEF Busy
    <3>3. QED
      BY <1>1, <3>1, <3>2 DEF Share, Holds
  <2>7. \A u \in Threads : ran'[u] = 0 => data'[u] = << >>
    BY <1>1, <2>1, <2>2, <2>4, <2>6 DEF DataInv
  <2>8. pc[j] # "wait"
    BY <1>7 DEF Done
  <2>9. \A u \in Threads : u < Lim /\ pc'[u] = "wait" => data'[u] # << >>
    BY <1>1, <2>1, <2>2, <2>4, <2>5, <2>8 DEF DataInv
  <2>10. Holds(0)' => data'[0] # << >>
    BY <1>6, <1>9, <2>1, <2>2, <2>4, <2>5, ThreadZero DEF DataInv
  <2>11. ASSUME NEW u \in Threads, NEW i \in Kids(u), i < Lim, ~Holds(u)', Holds(i)'
         PROVE  data'[i] # << >>
    <3>1. i \in Threads /\ u # t
      BY <1>9, <2>6, <2>11, KidFacts
    <3>2. i # j
      BY <1>5, <1>6, <3>1, <2>11, KidFacts
    <3>3. QED
      BY <1>9, <2>1, <2>2, <2>4, <2>5, <2>11, <3>1, <3>2 DEF DataInv
  <2>12. ASSUME NEW u \in Threads, pc[u] = "wait",
                NEW k \in 1 .. Len(From(u)), k >= pos'[u],
                NEW i \in Threads, i = From(u)[k], Holds(i)'
         PROVE  data'[i] # << >>
    <3>1. k >= pos[u] /\ (u = t => k # pos[t])
      <4>1. pos[u] \in Nat /\ k \in Nat
        BY <1>1, <2>12, InWalkFacts DEF TypeOK
      <4>2. CASE u = t
        BY <1>3, <2>12, <4>1, <4>2
      <4>3. CASE u # t
        BY <1>4, <2>12, <4>1, <4>3 DEF SameLocals
      <4>4. QED
        BY <4>2, <4>3
    <3>2. data[i] # << >>
      BY <1>9, <2>1, <2>2, <2>12, <3>1 DEF DataInv
    <3>3. i \in Kids(u)
      BY <1>1, <2>12, InWalkFacts
    <3>4. i # j
      BY <1>5, <1>6, <2>12, <3>1, <3>3, KidFacts
    <3>5. QED
      BY <2>4, <2>5, <3>2, <3>4
  <2>13. \A u \in Threads : /\ From(u)' = From(u)
                            /\ \A k \in 1 .. Len(From(u)) : From(u)[k] \in Threads
    <3>1. ASSUME NEW u \in Threads
          PROVE  \A k \in 1 .. Len(From(u)) : From(u)[k] \in Threads
      BY <1>1, InWalkFacts
    <3>2. QED
      BY <1>1, <3>1 DEF From, FromWalk
  <2>14. QED
    BY <1>1, <1>8, <2>1, <2>7, <2>9, <2>10, <2>11, <2>12, <2>13
       DEF DataInv, Kids, ToWalk
<1>16. QED
  BY <1>13, <1>14, <1>15 DEF IInv, ProgressInv

LEMMA BeginJoinPreserves ==
    ASSUME IInv, NEW t \in Threads, BeginJoin(t), TypeOK'
    PROVE  IInv'
<1>1. /\ TypeOK
      /\ UNCHANGED <<mainVars, task_, incoming, outgoing, handle, pass,
                     joinRequested, ran, data, failed>>
      /\ pc[t] = "begin_join"
  BY DEF IInv, BeginJoin, signals, mainVars
<1>2. /\ task_ # NoTask /\ task_.join_requested /\ Lim = NumThreads /\ t < Lim
      /\ Done(t) /\ ~Pending(t)
      /\ mainPc \notin {"idle", "freed", "wake", "notify"}
  BY <1>1, LeaverFacts
<1>3. pc'[t] = "join" /\ limit'[t] = NumThreads /\ pos'[t] = 1
  BY <1>1, <1>2 DEF TypeOK, BeginJoin, BeginWalk, Goto, Lim
<1>4. \A u \in Threads : u # t => SameLocals(u)
  BY <1>1 DEF TypeOK, BeginJoin, BeginWalk, Goto, SameLocals
<1>5. \A u \in Threads : u # t =>
          /\ Pending(u)' <=> Pending(u)
          /\ Done(u)' <=> Done(u)
          /\ Holds(u)' <=> Holds(u)
  BY <1>1, <1>4, SameFacts
<1>6. Done(t)' /\ ~Pending(t)' /\ ~AtRest(t)'
  BY <1>1, <1>2, <1>3 DEF Done, Pending, AtRest, Answered, Share
<1>7. Lim' = Lim /\ Kids(t)' = Kids(t)
  BY <1>1 DEF Lim, Kids, ToWalk
<1>8. pass[t] = 1
  BY <1>2 DEF IInv, PassInv
<1>9. From(t)' = FromWalk[t][NumThreads] /\ NumThreads \in 0 .. NumThreads
  BY <1>3, NumThreadsAssumption DEF From, FromWalk
<1>10. /\ Len(From(t)') \in Nat
       /\ \A k \in 1 .. Len(From(t)') : From(t)'[k] \in Kids(t)
  <2>1. /\ FromWalk[t][NumThreads] \in Seq(Threads)
        /\ \A k \in 1 .. Len(FromWalk[t][NumThreads]) :
              FromWalk[t][NumThreads][k] \in Kids(t)
    BY <1>9, WalkFacts
  <2>2. Len(FromWalk[t][NumThreads]) \in Nat
    BY <2>1
  <2>3. QED
    BY <1>9, <2>1, <2>2
<1>11. WalkAt(t)'
  BY <1>3 DEF WalkAt
<1>12. TreeAt(t)'
  <2>1. TreeAt(t) /\ \A j \in Kids(t) : j \in Threads /\ j # t
    BY <1>2, KidFacts DEF IInv, TreeInv
  <2>2. QED
    BY <1>1, <1>2, <1>3, <1>5, <1>6, <1>7, <1>8, <2>1 DEF TreeAt
<1>13. LeaveAt(t)'
  BY <1>3, <1>10 DEF LeaveAt
<1>14. ProgressInv'
  BY <1>1, <1>2, <1>4, <1>6, <1>8, <1>11, <1>12, <1>13, OwnStep
<1>15. CreatedInv' /\ HandleInv'
  <2>1. HandleAt(t)'
    BY <1>1, <1>3, <1>10 DEF IInv, HandleInv, HandleAt, mainVars
  <2>2. QED
    BY <1>1, <1>3, <1>4, <2>1, OwnHandles
<1>16. DataInv'
  <2>1. \A u \in Threads : Holds(u)' <=> Holds(u)
    BY <1>2, <1>5, <1>6 DEF Holds
  <2>2. QED
    BY <1>1, <1>3, <1>4, <2>1, OwnData DEF SameLocals
<1>17. QED
  BY <1>14, <1>15, <1>16 DEF IInv, ProgressInv

LEMMA ExitPreserves ==
    ASSUME IInv, NEW t \in Threads, Exit(t), TypeOK'
    PROVE  IInv'
<1>1. /\ TypeOK
      /\ UNCHANGED <<mainVars, task_, incoming, outgoing, handle, pass,
                     joinRequested, limit, pos, ran, data, failed>>
      /\ pc[t] = "join" /\ pos[t] > Len(From(t))
  BY DEF IInv, Exit, signals, locals, mainVars
<1>2. /\ task_ # NoTask /\ task_.join_requested /\ Lim = NumThreads /\ t < Lim
      /\ Done(t) /\ ~Pending(t)
      /\ mainPc \notin {"idle", "freed", "wake", "notify"}
  BY <1>1, LeaverFacts
<1>3. pc'[t] = "exited"
  BY <1>1 DEF TypeOK, Exit, Goto
<1>4. \A u \in Threads : u # t => SameLocals(u)
  BY <1>1 DEF TypeOK, Exit, Goto, SameLocals
<1>5. \A u \in Threads : u # t =>
          /\ Pending(u)' <=> Pending(u)
          /\ Done(u)' <=> Done(u)
          /\ Holds(u)' <=> Holds(u)
  BY <1>1, <1>4, SameFacts
<1>6. Done(t)' /\ ~Pending(t)' /\ ~AtRest(t)'
  BY <1>1, <1>2, <1>3 DEF Done, Pending, AtRest, Answered, Share
<1>7. Lim' = Lim /\ Kids(t)' = Kids(t)
  BY <1>1 DEF Lim, Kids, ToWalk
<1>8. pass[t] = 1
  BY <1>2 DEF IInv, PassInv
<1>9. WalkAt(t)'
  BY <1>3 DEF WalkAt
<1>10. TreeAt(t)'
  <2>1. TreeAt(t) /\ \A j \in Kids(t) : j \in Threads /\ j # t
    BY <1>2, KidFacts DEF IInv, TreeInv
  <2>2. QED
    BY <1>1, <1>2, <1>3, <1>5, <1>6, <1>7, <1>8, <2>1 DEF TreeAt
<1>11. LeaveAt(t)'
  <2>1. ASSUME NEW j \in Kids(t)
        PROVE  pc[j] = "exited" /\ j \in Threads /\ j # t
    <3>1. limit[t] = NumThreads /\ LeaveAt(t)
      BY <1>1 DEF IInv, ExitInv, LeaveAt
    <3>2. j \in Threads /\ j # t /\ j < NumThreads
      BY <2>1, KidFacts, NumThreadsAssumption DEF Threads
    <3>3. PICK k \in 1 .. Len(From(t)) : From(t)[k] = j
      BY <1>1, <3>1, <3>2, InWalkFacts
    <3>4. k < pos[t]
      BY <1>1, InWalkFacts DEF TypeOK
    <3>5. QED
      BY <1>1, <3>1, <3>2, <3>3, <3>4 DEF LeaveAt
  <2>2. QED
    BY <1>3, <1>4, <1>7, <2>1 DEF LeaveAt, SameLocals
<1>12. ProgressInv'
  BY <1>1, <1>2, <1>4, <1>6, <1>8, <1>9, <1>10, <1>11, OwnStep
<1>13. CreatedInv' /\ HandleInv'
  <2>1. HandleAt(t)'
    BY <1>3 DEF HandleAt
  <2>2. QED
    BY <1>1, <1>3, <1>4, <2>1, OwnHandles
<1>14. DataInv'
  <2>1. \A u \in Threads : Holds(u)' <=> Holds(u)
    BY <1>2, <1>5, <1>6 DEF Holds
  <2>2. QED
    BY <1>1, <1>3, <1>4, <2>1, OwnData DEF SameLocals
<1>15. QED
  BY <1>12, <1>13, <1>14 DEF IInv, ProgressInv

LEMMA JoinSubthreadPreserves ==
    ASSUME IInv, NEW t \in Threads, JoinSubthread(t), TypeOK'
    PROVE  IInv'
<1> DEFINE j == From(t)[pos[t]]
<1>1. /\ TypeOK
      /\ UNCHANGED <<mainVars, task_, incoming, outgoing, pc, pass, joinRequested,
                     limit, ran, data, failed>>
      /\ pc[t] = "join" /\ pos[t] <= Len(From(t))
      /\ pos' = [pos EXCEPT ![t] = @ + 1]
      /\ pc[j] = "exited"
      /\ handle' = [handle EXCEPT ![j] = FALSE]
  BY DEF IInv, JoinSubthread, signals, mainVars
<1>2. /\ task_ # NoTask /\ task_.join_requested /\ Lim = NumThreads /\ t < Lim
      /\ Done(t) /\ ~Pending(t)
      /\ mainPc \notin {"idle", "freed", "wake", "notify"}
  BY <1>1, LeaverFacts
<1>3. pos'[t] = pos[t] + 1 /\ pos[t] \in 1 .. Len(From(t))
  BY <1>1, InWalkFacts DEF TypeOK
<1>4. \A u \in Threads : u # t => SameLocals(u)
  BY <1>1 DEF TypeOK, SameLocals
<1>5. /\ j \in Kids(t) /\ j \in Threads /\ j # 0
      /\ \A k \in 1 .. Len(From(t)) : k # pos[t] => From(t)[k] # j
  BY <1>1, <1>3, InWalkFacts, KidFacts
<1> HIDE DEF j
<1>6. Lim' = Lim /\ Kids(t)' = Kids(t) /\ From(t)' = From(t)
  BY <1>1 DEF Lim, Kids, ToWalk, From, FromWalk
<1>7. \A u \in Threads : /\ Pending(u)' <=> Pending(u)
                         /\ AtRest(u)' <=> AtRest(u)
                         /\ Done(u)' <=> Done(u)
                         /\ Holds(u)' <=> Holds(u)
  BY <1>1 DEF Pending, AtRest, Done, Holds, Answered, Share
<1>8. pass[t] = 1
  BY <1>2 DEF IInv, PassInv
<1>9. WalkAt(t)'
  BY <1>1 DEF WalkAt
<1>10. TreeAt(t)'
  <2>1. TreeAt(t) /\ \A i \in Kids(t) : i \in Threads
    BY <1>2, KidFacts DEF IInv, TreeInv
  <2>2. QED
    BY <1>1, <1>6, <1>7, <2>1 DEF TreeAt
<1>11. LeaveAt(t)'
  <2>1. LeaveAt(t)
    BY DEF IInv, ExitInv
  <2>2. ASSUME NEW k \in 1 .. Len(From(t)), k < pos'[t]
        PROVE  pc[From(t)[k]] = "exited"
    BY <1>1, <1>3, <2>1, <2>2 DEF LeaveAt, j
  <2>3. QED
    BY <1>1, <1>6, <2>1, <2>2 DEF LeaveAt
<1>12. ProgressInv'
  BY <1>1, <1>2, <1>4, <1>7, <1>8, <1>9, <1>10, <1>11, OwnStep
<1>13. /\ handle'[0] = handle[0]
       /\ \A u \in Threads : u # j => handle'[u] = handle[u]
       /\ ~handle'[j]
  BY <1>1, <1>5, ThreadZero DEF TypeOK
<1>14. CreatedInv'
  BY <1>1, <1>13 DEF IInv, CreatedInv, mainVars
<1>15. HandleInv'
  <2>1. ASSUME NEW u \in Threads, u # t
        PROVE  HandleAt(u)'
    <3>1. /\ HandleAt(u)
          /\ pc' = pc /\ pos'[u] = pos[u] /\ From(u)' = From(u) /\ forked' = forked
      BY <1>1, <2>1 DEF IInv, HandleInv, TypeOK, From, FromWalk, mainVars
    <3>2. \A i \in Kids(u) : i # j /\ i \in Threads
      BY <1>5, <2>1, KidFacts
    <3>3. \A k \in 1 .. Len(From(u)) : From(u)[k] \in Kids(u)
      BY <1>1, InWalkFacts
    <3>4. QED
      BY <1>13, <3>1, <3>2, <3>3 DEF HandleAt, Kids, ToWalk
  <2>2. HandleAt(t)'
    <3>1. HandleAt(t) /\ forked' = forked
      BY <1>1 DEF IInv, HandleInv, mainVars
    <3>2. ASSUME NEW k \in 1 .. Len(From(t)), k >= pos'[t], From(t)[k] < forked
          PROVE  handle'[From(t)[k]]
      <4>0. pos[t] \in Nat /\ k \in Nat
        BY <1>1 DEF TypeOK
      <4>1. k >= pos[t] /\ k # pos[t]
        BY <4>0, <1>3, <3>2
      <4>2. From(t)[k] \in Threads /\ From(t)[k] # j /\ handle[From(t)[k]]
        BY <1>1, <1>5, <3>1, <3>2, <4>1, InWalkFacts, KidFacts DEF HandleAt
      <4>3. QED
        BY <1>13, <4>2
    <3>3. QED
      BY <1>1, <1>6, <3>1, <3>2 DEF HandleAt
  <2>3. QED
    BY <2>1, <2>2 DEF HandleInv
<1>16. DataInv'
  BY <1>1, <1>4, <1>7, OwnData DEF SameLocals
<1>17. QED
  BY <1>12, <1>14, <1>15, <1>16 DEF IInv, ProgressInv

\* The thread that is notified next has not been told of the task.
LEMMA NotifyFacts ==
    ASSUME IInv, NEW t \in Threads, pc[t] = "notify", pos[t] <= Len(To(t))
    PROVE  /\ pos[t] \in 1 .. Len(To(t))
           /\ To(t)[pos[t]] \in Kids(t) /\ To(t)[pos[t]] \in Threads
           /\ To(t)[pos[t]] < Lim
           /\ Pending(To(t)[pos[t]]) /\ ~Done(To(t)[pos[t]])
<1>1. TypeOK /\ WalkAt(t)
  BY DEF IInv, WalkInv
<1>2. task_ # NoTask
  BY BusyFacts
<1>3. pos[t] \in 1 .. Len(To(t))
  BY <1>1, InWalkFacts DEF TypeOK
<1>4. limit[t] = Lim /\ Pending(To(t)[pos[t]])
  BY <1>1, <1>3 DEF WalkAt, TypeOK
<1>5. /\ To(t)[pos[t]] \in Kids(t) /\ To(t)[pos[t]] \in Threads
      /\ To(t)[pos[t]] < Lim
  BY <1>1, <1>3, <1>4, InWalkFacts, KidFacts
<1>6. ~Done(To(t)[pos[t]])
  BY <1>1, <1>2, <1>4, <1>5, PhaseFacts
<1>7. QED
  BY <1>3, <1>4, <1>5, <1>6

LEMMA NotifySubthreadPreserves ==
    ASSUME IInv, NEW t \in Threads, NotifySubthread(t), TypeOK'
    PROVE  IInv'
<1>0. PICK j \in Threads : j = To(t)[pos[t]]
  BY NotifyFacts DEF NotifySubthread
<1>1. /\ TypeOK
      /\ UNCHANGED <<mainVars, mainPc, forked, task_, last, outgoing, handle, pc,
                     pass, joinRequested, limit, ran, data, failed>>
      /\ pc[t] = "notify" /\ pos[t] <= Len(To(t))
      /\ pos' = [pos EXCEPT ![t] = @ + 1]
      /\ incoming' = Toggled(incoming, j)
  BY <1>0 DEF IInv, NotifySubthread, mainVars
<1>2. /\ task_ # NoTask /\ t < Lim /\ Busy(t) /\ ~Pending(t) /\ ~Done(t)
      /\ mainPc \notin {"idle", "freed", "wake", "notify"}
      /\ pass[t] = 1
  BY <1>1, BusyFacts DEF IInv, WalkInv, WalkAt
<1>3. /\ pos[t] \in 1 .. Len(To(t)) /\ j \in Kids(t) /\ j \in Threads /\ j < Lim
      /\ Pending(j) /\ ~Done(j)
  BY <1>0, <1>1, NotifyFacts
<1>4. /\ j # t /\ j # 0
      /\ \A k \in 1 .. Len(To(t)) : k # pos[t] => To(t)[k] # j
  BY <1>0, <1>1, <1>3, InWalkFacts, KidFacts
<1>5. /\ incoming'[j] # incoming[j]
      /\ \A u \in Threads : u # j => incoming'[u] = incoming[u]
  <2>1. incoming \in [Threads -> {0, 1}]
    BY <1>1 DEF TypeOK
  <2>2. QED
    BY <1>1, <1>3, <2>1, ToggledFacts
<1>6. \A u \in Threads : /\ AtRest(u)' <=> AtRest(u)
                         /\ u # j => (Answered(u)' <=> Answered(u))
  BY <1>1, <1>5 DEF AtRest, Answered
<1>7. ~Answered(j)' /\ AtRest(j)
  <2>1. /\ incoming[j] \in {0, 1} /\ incoming'[j] \in {0, 1}
        /\ outgoing[j] \in {0, 1} /\ outgoing' = outgoing
    BY <1>1, <1>3 DEF TypeOK
  <2>2. Answered(j) /\ AtRest(j)
    BY <1>3 DEF Pending
  <2>3. QED
    BY <1>5, <2>1, <2>2 DEF Answered
<1>8. \A u \in Threads : u # j => /\ Pending(u)' <=> Pending(u)
                                  /\ Notified(u)' <=> Notified(u)
                                  /\ Busy(u)' <=> Busy(u)
  BY <1>1, <1>6 DEF Pending, Notified, Busy, Share
<1>9. \A u \in Threads : Done(u)' <=> Done(u)
  <2>1. ~Done(j)'
    BY <1>7 DEF Done
  <2>2. \A u \in Threads : u # j => (Done(u)' <=> Done(u))
    BY <1>1, <1>6 DEF Done, Share
  <2>3. QED
    BY <1>3, <2>1, <2>2
<1>10. Notified(j)' /\ ~Pending(j)'
  <2>1. AtRest(j)'
    BY <1>3, <1>6, <1>7
  <2>2. QED
    BY <1>7, <2>1 DEF Notified, Pending
<1>11. Lim' = Lim /\ \A u \in Threads : Kids(u)' = Kids(u)
  BY <1>1 DEF Lim, Kids, ToWalk
<1>12. \A u \in Threads : To(u)' = To(u) /\ From(u)' = From(u)
  BY <1>1 DEF To, From, ToWalk, FromWalk
<1>13. \A u \in Threads : u # t => pos'[u] = pos[u]
  BY <1>1 DEF TypeOK
<1>14. MainInv' /\ CreatedInv' /\ QuietInv'
  BY <1>1, <1>2, <1>11 DEF IInv, MainInv, CreatedInv, QuietInv, Reaches
<1>15. HandleInv'
  <2>1. ASSUME NEW u \in Threads
        PROVE  HandleAt(u)'
    <3>1. HandleAt(u)
      BY DEF IInv, HandleInv
    <3>2. QED
      BY <1>1, <1>11, <1>12, <1>13, <3>1 DEF HandleAt
  <2>2. QED
    BY <2>1 DEF HandleInv
<1>16. PassInv'
  BY <1>1, <1>2, <1>9, <1>11 DEF IInv, PassInv
<1>17. PhaseInv'
  <2>1. ASSUME NEW u \in Threads
        PROVE  IF u < Lim THEN Pending(u)' \/ Notified(u)' \/ Busy(u)' \/ Done(u)'
                          ELSE Pending(u)'
    <3>1. CASE u = j
      BY <1>3, <1>10, <3>1
    <3>2. CASE u # j
      BY <1>2, <1>8, <1>9, <3>2 DEF IInv, PhaseInv
    <3>3. QED
      BY <3>1, <3>2
  <2>2. mainPc \in {"create", "store_handle", "await"} => ~Pending(0)'
    BY <1>2, <1>4, <1>8, ThreadZero DEF IInv, PhaseInv
  <2>3. mainPc \in {"join", "release"} => Done(0)'
    BY <1>2, <1>9, ThreadZero DEF IInv, PhaseInv
  <2>4. QED
    BY <1>1, <1>2, <1>11, <2>1, <2>2, <2>3 DEF PhaseInv
<1>18. WalkInv'
  <2>1. \A u \in Threads : /\ \A k \in 1 .. Len(To(u)) : To(u)[k] \in Kids(u)
                           /\ \A k \in 1 .. Len(From(u)) : From(u)[k] \in Threads
    <3>1. ASSUME NEW u \in Threads
          PROVE  /\ \A k \in 1 .. Len(To(u)) : To(u)[k] \in Kids(u)
                 /\ \A k \in 1 .. Len(From(u)) : From(u)[k] \in Threads
      BY <1>1, InWalkFacts, KidFacts
    <3>2. QED
      BY <3>1
  <2>2. ASSUME NEW u \in Threads, u # t
        PROVE  WalkAt(u)'
    <3>1. \A k \in 1 .. Len(To(u)) : To(u)[k] \in Threads /\ To(u)[k] # j
      BY <1>3, <2>1, <2>2, KidFacts
    <3>2. WalkAt(u)
      BY DEF IInv, WalkInv
    <3>3. QED
      BY <1>1, <1>8, <1>9, <1>11, <1>12, <1>13, <2>1, <2>2, <3>1, <3>2 DEF WalkAt
  <2>3. WalkAt(t)'
    <3>1. WalkAt(t)
      BY DEF IInv, WalkInv
    <3>2. ASSUME NEW k \in 1 .. Len(To(t)), NEW i \in Threads, i = To(t)[k]
          PROVE  IF k < pos'[t] THEN ~Pending(i)' ELSE Pending(i)'
      <4>1. pos'[t] = pos[t] + 1 /\ pos[t] \in Nat /\ k \in Nat
        BY <1>1, InWalkFacts DEF TypeOK
      <4>2. CASE k = pos[t]
        <5>1. i = j
          BY <1>0, <3>2, <4>2
        <5>2. QED
          BY <1>10, <4>1, <4>2, <5>1
      <4>3. CASE k # pos[t]
        <5>1. Pending(i)' <=> Pending(i)
          BY <1>4, <1>8, <3>2, <4>3
        <5>2. IF k < pos[t] THEN ~Pending(i) ELSE Pending(i)
          BY <1>1, <3>1, <3>2 DEF WalkAt
        <5>3. QED
          BY <4>1, <4>3, <5>1, <5>2
      <4>4. QED
        BY <4>2, <4>3
    <3>3. \A k \in 1 .. Len(To(t)) : To(t)[k] \in Threads
      BY <2>1, KidFacts
    <3>4. QED
      BY <1>1, <1>2, <1>11, <1>12, <3>1, <3>2, <3>3 DEF WalkAt
  <2>4. QED
    BY <2>2, <2>3 DEF WalkInv
<1>19. TreeInv'
  <2>1. ASSUME NEW u \in Threads
        PROVE  TreeAt(u)'
    <3>1. TreeAt(u) /\ \A i \in Kids(u) : i \in Threads /\ (i = j => u = t)
      BY <1>2, <1>3, KidFacts DEF IInv, TreeInv
    <3>2. ~AtRest(t)
      BY <1>1 DEF AtRest
    <3>3. QED
      BY <1>1, <1>2, <1>6, <1>8, <1>9, <1>11, <3>1, <3>2 DEF TreeAt
  <2>2. QED
    BY <2>1 DEF TreeInv
<1>20. ExitInv'
  <2>1. ASSUME NEW u \in Threads
        PROVE  LeaveAt(u)'
    <3>1. LeaveAt(u)
      BY DEF IInv, ExitInv
    <3>2. QED
      BY <1>1, <1>11, <1>12, <1>13, <3>1 DEF LeaveAt
  <2>2. QED
    BY <1>1, <2>1 DEF IInv, ExitInv
<1>21. DataInv'
  <2>1. \A u \in Threads : Holds(u)' <=> Holds(u)
    BY <1>1, <1>9 DEF Holds
  <2>2. QED
    BY <1>1, <1>13, <2>1, OwnData
<1>22. CompleteOnReturn' /\ NoContractViolation'
  BY <1>1 DEF IInv, CompleteOnReturn, Returned, NoContractViolation
<1>23. QED
  BY <1>14, <1>15, <1>16, <1>17, <1>18, <1>19, <1>20, <1>21, <1>22 DEF IInv

\* No contract is violated in a thread.
LEMMA ThreadNeverFails ==
    ASSUME IInv, NEW t \in Threads
    PROVE  ~ThreadFails(t)
<1>1. TypeOK
  BY DEF IInv
<1>2. ASSUME \/ pc[t] = "task_wait" /\ incoming[t] # outgoing[t]
             \/ ReadyToExecute(t)
             \/ pc[t] = "wait"
      PROVE  task_ # NoTask
  BY <1>2, BusyFacts, WakeFacts DEF Answered, ReadyToExecute
<1>3. ASSUME ReadyToExecute(t), task_.op = "reduce"
      PROVE  data[t] = << >>
  <2>1. pc[t] \in {"notify", "execute"} /\ Busy(t)
    BY <1>3, BusyFacts DEF ReadyToExecute
  <2>2. ran[t] = 0
    BY <2>1 DEF Busy
  <2>3. QED
    BY <1>3, <2>2 DEF IInv, DataInv
<1>4. ASSUME pc[t] = "wait", pos[t] <= Len(From(t)), task_.op = "reduce",
             Answered(From(t)[pos[t]])
      PROVE  data[t] # << >> /\ data[From(t)[pos[t]]] # << >>
  <2>1. pos[t] \in 1 .. Len(From(t)) /\ pos[t] >= pos[t]
    <3>1. From(t) \in Seq(Threads) /\ pos[t] \in Nat \ {0}
      BY <1>1, InWalkFacts DEF TypeOK
    <3>2. QED
      BY <1>4, <3>1
  <2>2. task_ # NoTask /\ t < Lim /\ mainPc # "wake" /\ limit[t] = Lim
    BY <1>4, BusyFacts DEF IInv, WalkInv, WalkAt
  <2>3. PICK j \in Threads : j = From(t)[pos[t]] /\ j \in Kids(t) /\ j < Lim
    <3>1. /\ From(t)[pos[t]] \in Kids(t)
          /\ From(t)[pos[t]] < limit[t]
      BY <1>1, <2>1, InWalkFacts
    <3>2. QED
      BY <2>2, <3>1, KidFacts
  <2>4. ~Pending(j)
    BY <1>4, <2>2, <2>3 DEF IInv, TreeInv, TreeAt
  <2>5. Done(j)
    BY <1>4, <2>2, <2>3, <2>4 DEF IInv, PhaseInv, Notified, Busy
  <2>6. QED
    BY <1>4, <2>1, <2>2, <2>3, <2>5 DEF IInv, DataInv, Holds
<1>5. ASSUME pc[t] = "join", pos[t] <= Len(From(t))
      PROVE  handle[From(t)[pos[t]]]
  <2>1. pos[t] \in 1 .. Len(From(t)) /\ pos[t] >= pos[t]
    <3>1. From(t) \in Seq(Threads) /\ pos[t] \in Nat \ {0}
      BY <1>1, InWalkFacts DEF TypeOK
    <3>2. QED
      BY <1>5, <3>1
  <2>2. PICK j \in Threads : j = From(t)[pos[t]] /\ j # 0
    BY <1>1, <2>1, InWalkFacts, KidFacts
  <2>3. HandleAt(t)
    BY DEF IInv, HandleInv
  <2>4. j < forked
    <3>1. forked = NumThreads \/ NumThreads = 1
      BY <1>5, <2>3 DEF HandleAt
    <3>2. NumThreads \in Nat /\ j \in 0 .. NumThreads - 1
      BY NumThreadsAssumption DEF Threads
    <3>3. QED
      BY <2>2, <3>1, <3>2
  <2>5. QED
    BY <1>5, <2>1, <2>2, <2>3, <2>4 DEF HandleAt
<1>6. QED
  BY <1>2, <1>3, <1>4, <1>5 DEF ThreadFails

LEMMA ThreadPreserves ==
    ASSUME IInv, NEW t \in Threads, ThreadStep(t)
    PROVE  IInv'
<1>1. TypeOK'
  BY ThreadTypeOK DEF IInv
<1>2. QED
  BY <1>1, TaskWaitPreserves, NotifySubthreadPreserves, ExecutePreserves,
     WaitForSubthreadPreserves, SignalPreserves, BeginJoinPreserves,
     JoinSubthreadPreserves, ExitPreserves, ThreadNeverFails DEF ThreadStep

-----------------------------------------------------------------------------
(* When thread 0 is done, everybody is                                       *)

LEMMA AllDone ==
    ASSUME IInv, task_ # NoTask, mainPc # "wake", Done(0)
    PROVE  \A t \in Threads : t < Lim => Done(t)
<1> DEFINE good == {t \in Threads : t < Lim => Done(t)}
<1>1. TreeInv
  BY DEF IInv
<1>2. ASSUME NEW t \in good, NEW j \in Kids(t)
      PROVE  j \in good
  <2>1. j \in Threads /\ t < j
    BY KidFacts
  <2>2. SUFFICES ASSUME j < Lim
                 PROVE  Done(j)
    BY <2>1
  <2>3. t < Lim
    <3>1. Lim \in Nat /\ t \in Nat /\ j \in Nat
      BY <2>1, TaskFacts, NumThreadsAssumption DEF IInv, TypeOK, Lim, Threads
    <3>2. QED
      BY <2>1, <2>2, <3>1
  <2>4. QED
    BY <1>1, <2>2, <2>3 DEF TreeInv, TreeAt
<1>3. 0 \in good
  BY ThreadZero
<1>4. good = Threads
  BY <1>2, <1>3, DownTheTree
<1>5. QED
  BY <1>4

LEMMA AllExited ==
    ASSUME IInv, pc[0] = "exited"
    PROVE  \A t \in Threads : pc[t] = "exited"
<1> DEFINE good == {t \in Threads : pc[t] = "exited"}
<1>1. ASSUME NEW t \in good, NEW j \in Kids(t)
      PROVE  j \in good
  BY KidFacts DEF IInv, ExitInv, LeaveAt
<1>2. 0 \in good
  BY ThreadZero
<1>3. good = Threads
  BY <1>1, <1>2, DownTheTree
<1>4. QED
  BY <1>3

-----------------------------------------------------------------------------
(* The invariant is preserved by every step of the main thread               *)

\* Before anyone has been told of a task, all threads are asleep.
LEMMA AsleepFacts ==
    ASSUME IInv, mainPc \in {"idle", "wake", "notify"}, NEW t \in Threads
    PROVE  /\ pc[t] \in {"none", "task_wait"}
           /\ Answered(t)
           /\ ~joinRequested[t]
<1>1. CASE mainPc = "idle"
  BY <1>1 DEF IInv, QuietInv
<1>2. CASE mainPc \in {"wake", "notify"}
  <2>1. task_ # NoTask
    BY <1>2 DEF IInv, MainInv
  <2>2. Pending(t)
    BY <1>2, <2>1 DEF IInv, PhaseInv
  <2>3. QED
    BY <2>2 DEF Pending, AtRest
<1>3. QED
  BY <1>1, <1>2

\* A thread that is told of a task now is not done with it.
LEMMA SleepersInv ==
    ASSUME TypeOK', task_' # NoTask, mainPc' # "release",
           \A u \in Threads : /\ pc'[u] \in {"none", "task_wait"}
                              /\ ran'[u] = 0
                              /\ ~joinRequested'[u],
           \A u \in Threads :
               IF u < Lim' THEN Pending(u)' \/ Notified(u)' ELSE Pending(u)'
    PROVE  /\ WalkInv'
           /\ ExitInv'
           /\ \A u \in Threads : u < Lim' => ~Done(u)' /\ ~Holds(u)'
<1>1. ASSUME NEW u \in Threads
      PROVE  WalkAt(u)' /\ LeaveAt(u)'
  BY DEF WalkAt, LeaveAt
<1>2. ASSUME NEW u \in Threads, u < Lim'
      PROVE  ~Done(u)' /\ ~Holds(u)'
  <2>1. task_' \in Task
    BY DEF TypeOK
  <2>2. task_'.join_requested => ~Done(u)'
    BY DEF Done
  <2>3. ~task_'.join_requested => Share(u)' = 1
    BY <1>2, <2>1 DEF Share, Lim, NumThreadsForTask
  <2>4. ~Done(u)'
    BY <2>2, <2>3 DEF Done
  <2>5. QED
    BY <2>4 DEF Holds
<1>3. WalkInv' /\ ExitInv'
  BY <1>1 DEF WalkInv, ExitInv
<1>4. QED
  BY <1>2, <1>3

LEMMA SubmitPreserves ==
    ASSUME IInv, mainPc = "idle", TypeOK',
           NEW task \in (IF IsRunning THEN LaterCalls ELSE FirstCalls) \cup {Destroy},
           Submit(task)
    PROVE  IInv'
<1>1. /\ TypeOK
      /\ UNCHANGED <<forked, incoming, outgoing, handle, pc, pass, joinRequested,
                     limit, pos, failed>>
      /\ task_' = task /\ last' = task
      /\ ran' = [t \in Threads |-> 0]
      /\ data' = [t \in Threads |-> << >>]
      /\ mainPc' = IF handle[0] THEN "notify" ELSE "wake"
      /\ task.op = "reduce" => task.concurrency # 0
      /\ task.concurrency # 0 \/ (task.join_requested /\ handle[0])
  BY DEF IInv, Submit, Submits, HaveWork, IsRunning, signals, locals
<1>2. /\ task \in Task /\ task # NoTask
      /\ Lim' = NumThreadsForTask(task) /\ Lim' \in 0 .. NumThreads
  BY <1>1, CallFacts, TaskFacts DEF Lim
<1>3. /\ handle[0] => forked = NumThreads
      /\ ~handle[0] => forked = 0
  <2>1. handle[0] => 0 < forked
    BY ThreadZero DEF IInv, CreatedInv
  <2>2. QED
    BY <2>1 DEF IInv, CreatedInv, MainInv
<1>4. \A u \in Threads : Kids(u)' = Kids(u)
  BY DEF Kids, ToWalk
<1>5. \A u \in Threads : /\ pc[u] \in {"none", "task_wait"}
                         /\ Answered(u)
                         /\ ~joinRequested[u]
                         /\ ran'[u] = 0
  BY <1>1, AsleepFacts
<1>6. \A u \in Threads : Pending(u)'
  BY <1>1, <1>5 DEF Pending, AtRest, Answered
<1>7. /\ WalkInv' /\ ExitInv'
      /\ \A u \in Threads : u < Lim' => ~Done(u)' /\ ~Holds(u)'
  BY <1>1, <1>2, <1>5, <1>6, SleepersInv
<1>8. /\ ~handle[0] => Reaches(task) /\ (task.join_requested => NumThreads = 1)
      /\ task.op = "reduce" => Lim' = task.concurrency
      /\ Lim' > 0
  <2>1. NumThreads > 0
    BY NumThreadsAssumption
  <2>2. task = Destroy => task.concurrency = 0 /\ task.op # "reduce"
    BY DEF Destroy
  <2>3. ~handle[0] => task \in FirstCalls
    BY <1>1, <2>2 DEF IsRunning
  <2>4. task.op = "reduce" => task \in FirstCalls \cup LaterCalls
    BY <2>2
  <2>5. task.op = "reduce" /\ task.join_requested => task.concurrency = NumThreads
    BY <1>1, <2>4, ClientAssumption
  <2>6. task.op = "reduce" => Lim' = task.concurrency
    BY <1>2, <2>5 DEF NumThreadsForTask
  <2>7. Lim' # 0
    BY <1>1, <1>2, <2>1 DEF NumThreadsForTask
  <2>8. ~handle[0] => Reaches(task) /\ (task.join_requested => NumThreads = 1)
    BY <1>1, <2>3, ClientAssumption
  <2>9. QED
    BY <1>2, <2>6, <2>7, <2>8
<1>9. MainInv'
  <2>1. Reaches(task)' <=> Reaches(task)
    BY <1>4 DEF Reaches
  <2>2. NumThreads \in Nat /\ NumThreads > 0
    BY NumThreadsAssumption
  <2>3. forked < NumThreads => ~handle[0]
    BY <1>3, <2>2
  <2>4. forked' < NumThreads =>
            Reaches(task_)' /\ (task_'.join_requested => NumThreads = 1)
    BY <1>1, <1>8, <2>1, <2>3
  <2>5. /\ mainPc' = "wake" => forked' = 0
        /\ mainPc' = "notify" => forked' = NumThreads
        /\ mainPc' \in {"wake", "notify"}
    BY <1>1, <1>3
  <2>6. QED
    BY <1>1, <1>2, <1>8, <2>4, <2>5 DEF MainInv
<1>10. CreatedInv'
  BY <1>1, <1>3 DEF IInv, CreatedInv
<1>11. HandleInv'
  <2>1. ASSUME NEW u \in Threads
        PROVE  HandleAt(u)'
    BY <1>1, <1>4, <1>5 DEF IInv, HandleInv, HandleAt
  <2>2. QED
    BY <2>1 DEF HandleInv
<1>12. \A u \in Threads : Kids(u) # {} =>
          /\ forked = NumThreads => pass[u] = 1
          /\ u >= Lim' => pass[u] = 1
  <2>1. \A u \in Threads : forked = NumThreads /\ Kids(u) # {} => pass[u] = 1
    BY DEF IInv, PassInv
  <2>2. \A u \in Threads : ~handle[0] /\ Kids(u) # {} => u < Lim'
    BY <1>2, <1>8 DEF Reaches
  <2>3. \A u \in Threads : u < Lim' => ~(u >= Lim')
    BY <1>2 DEF Threads
  <2>4. QED
    BY <1>3, <2>1, <2>2, <2>3
<1>13. PassInv'
  BY <1>1, <1>4, <1>7, <1>12 DEF PassInv
<1>14. QuietInv'
  BY <1>1 DEF QuietInv
<1>15. PhaseInv'
  BY <1>1, <1>6 DEF PhaseInv
<1>16. TreeInv'
  <2>1. ASSUME NEW u \in Threads, mainPc' # "wake"
        PROVE  TreeAt(u)'
    <3>1. Kids(u) # {} => pass'[u] = 1
      BY <1>1, <1>3, <1>12, <2>1
    <3>2. QED
      BY <1>1, <1>4, <1>5, <1>6, <1>7, <3>1, KidFacts DEF TreeAt
  <2>2. QED
    BY <2>1 DEF TreeInv
<1>17. DataInv'
  <2>1. \A u \in Threads : data'[u] = << >> /\ pc'[u] # "wait"
    BY <1>1, <1>5
  <2>2. 0 < Lim'
    BY <1>2, <1>8
  <2>3. \A u \in Threads : \A j \in Kids(u) : j \in Threads
    BY KidFacts
  <2>4. QED
    BY <1>4, <1>7, <2>1, <2>2, <2>3, ThreadZero DEF DataInv
<1>18. CompleteOnReturn' /\ NoContractViolation'
  BY <1>1 DEF IInv, CompleteOnReturn, Returned, NoContractViolation
<1>19. QED
  BY <1>7, <1>9, <1>10, <1>11, <1>13, <1>14, <1>15, <1>16, <1>17, <1>18 DEF IInv

LEMMA SubmitNothingPreserves ==
    ASSUME IInv, TypeOK',
           NEW task \in (IF IsRunning THEN LaterCalls ELSE FirstCalls) \cup {Destroy},
           SubmitNothing(task)
    PROVE  IInv'
<1>1. /\ TypeOK
      /\ UNCHANGED <<forked, task_, incoming, outgoing, handle, pc, pass,
                     joinRequested, limit, pos, data, failed>>
      /\ mainPc = "idle" /\ mainPc' = "freed"
      /\ last' = task
      /\ ran' = [t \in Threads |-> 0]
      /\ task.concurrency = 0 /\ ~handle[0]
  BY DEF IInv, SubmitNothing, HaveWork, IsRunning, signals, locals
<1>2. task_ = NoTask /\ forked = 0
  BY <1>1 DEF IInv, MainInv, CreatedInv
<1>3. \A u \in Threads : pc[u] = "none" /\ Answered(u)
  <2>1. \A u \in Threads : pc[u] \in {"none", "task_wait"} /\ Answered(u)
    BY <1>1, AsleepFacts
  <2>2. \A u \in Threads : u > 0 \/ u = 0
    BY DEF Threads
  <2>3. QED
    BY <1>1, <1>2, <2>1, <2>2 DEF IInv, CreatedInv
<1>4. \A u \in Threads : Kids(u)' = Kids(u) /\ From(u)' = From(u)
  BY <1>1 DEF Kids, ToWalk, From, FromWalk
<1>5. MainInv' /\ CreatedInv' /\ PassInv' /\ PhaseInv' /\ TreeInv'
  BY <1>1, <1>2 DEF IInv, MainInv, CreatedInv, PassInv, PhaseInv, TreeInv
<1>6. HandleInv'
  BY <1>1, <1>3, <1>4 DEF IInv, HandleInv, HandleAt
<1>7. QuietInv'
  BY <1>1, <1>3 DEF QuietInv, Answered
<1>8. WalkInv' /\ ExitInv'
  BY <1>1, <1>3 DEF WalkInv, WalkAt, ExitInv, LeaveAt
<1>9. DataInv'
  BY <1>1, <1>2 DEF DataInv, NoTask
<1>10. CompleteOnReturn' /\ NoContractViolation'
  <2>1. \A u \in Threads : ~(u < 0)
    BY DEF Threads
  <2>2. QED
    BY <1>1, <2>1 DEF IInv, CompleteOnReturn, NoContractViolation
<1>11. QED
  BY <1>5, <1>6, <1>7, <1>8, <1>9, <1>10 DEF IInv

LEMMA WakeAllPreserves ==
    ASSUME IInv, WakeAll, TypeOK'
    PROVE  IInv'
<1>1. /\ TypeOK
      /\ UNCHANGED <<forked, task_, last, outgoing, handle, pc, pass,
                     joinRequested, limit, pos, ran, data, failed>>
      /\ mainPc = "wake" /\ mainPc' = "create"
      /\ \A u \in Threads : incoming'[u] = IF u < Lim THEN 1 - incoming[u]
                                                      ELSE incoming[u]
  BY DEF IInv, WakeAll, Lim, locals
<1>2. task_ # NoTask /\ forked = 0 /\ 0 < Lim
  BY <1>1, TaskFacts DEF IInv, MainInv, Lim, TypeOK
<1>3. /\ Lim' = Lim
      /\ \A u \in Threads : Kids(u)' = Kids(u) /\ From(u)' = From(u)
  BY <1>1 DEF Lim, Kids, ToWalk, From, FromWalk
<1>4. \A u \in Threads : Pending(u) /\ AtRest(u)
  BY <1>1, <1>2 DEF IInv, PhaseInv, Pending
<1>5. \A u \in Threads : pc[u] = "none" /\ pass[u] = 0
  <2>1. \A u \in Threads : u > 0 \/ u = 0
    BY DEF Threads
  <2>2. QED
    BY <1>1, <1>2, <2>1 DEF IInv, CreatedInv
<1>6. \A u \in Threads : AtRest(u)' /\ ran'[u] = 0 /\ ~joinRequested'[u]
  BY <1>1, <1>4 DEF AtRest
<1>7. \A u \in Threads : IF u < Lim THEN Notified(u)' /\ ~Pending(u)' ELSE Pending(u)'
  <2>1. ASSUME NEW u \in Threads
        PROVE  Answered(u)' <=> ~(u < Lim)
    <3>1. incoming[u] \in {0, 1} /\ Answered(u)
      BY <1>1, <1>4 DEF TypeOK, Pending
    <3>2. QED
      BY <1>1, <3>1 DEF Answered
  <2>2. QED
    BY <1>6, <2>1 DEF Notified, Pending
<1>8. /\ WalkInv' /\ ExitInv'
      /\ \A u \in Threads : u < Lim' => ~Done(u)' /\ ~Holds(u)'
  BY <1>1, <1>2, <1>3, <1>5, <1>6, <1>7, SleepersInv
<1>9. MainInv' /\ CreatedInv'
  <2>1. Reaches(task_)' <=> Reaches(task_)
    BY <1>1, <1>3 DEF Reaches
  <2>2. forked < NumThreads
    BY <1>2, NumThreadsAssumption
  <2>3. QED
    BY <1>1, <1>2, <1>3, <2>1, <2>2 DEF IInv, MainInv, CreatedInv
<1>10. HandleInv'
  BY <1>1, <1>3, <1>5 DEF IInv, HandleInv, HandleAt
<1>11. PassInv'
  BY <1>1, <1>2, <1>3, <1>8 DEF IInv, PassInv
<1>12. QuietInv'
  BY <1>1 DEF QuietInv
<1>13. PhaseInv'
  BY <1>1, <1>2, <1>3, <1>7, ThreadZero DEF PhaseInv
<1>14. TreeInv'
  <2>1. ASSUME NEW u \in Threads
        PROVE  TreeAt(u)'
    BY <1>1, <1>3, <1>5, <1>7, <1>8, KidFacts DEF TreeAt
  <2>2. QED
    BY <2>1 DEF TreeInv
<1>15. DataInv'
  BY <1>1, <1>2, <1>3, <1>5, <1>8, ThreadZero, KidFacts DEF IInv, DataInv
<1>16. CompleteOnReturn' /\ NoContractViolation'
  BY <1>1 DEF IInv, CompleteOnReturn, Returned, NoContractViolation
<1>17. QED
  BY <1>8, <1>9, <1>10, <1>11, <1>12, <1>13, <1>14, <1>15, <1>16 DEF IInv

\* A step of main that leaves the threads and the task alone.
LEMMA MainOnly ==
    ASSUME IInv, task_ # NoTask, mainPc # "wake", mainPc' \notin {"idle", "freed"},
           UNCHANGED <<task_, last, signals, locals, pc, ran, data, failed>>
    PROVE  /\ Lim' = Lim
           /\ \A u \in Threads : /\ Kids(u)' = Kids(u) /\ From(u)' = From(u)
                                 /\ Pending(u)' <=> Pending(u)
                                 /\ Done(u)' <=> Done(u)
           /\ QuietInv' /\ WalkInv' /\ TreeInv' /\ DataInv'
           /\ \A u \in Threads : LeaveAt(u)'
           /\ CompleteOnReturn' /\ NoContractViolation'
<1>1. /\ TypeOK
      /\ UNCHANGED <<task_, last, incoming, outgoing, pc, pass, joinRequested,
                     limit, pos, ran, data, failed>>
  BY DEF IInv, signals, locals
<1>2. /\ Lim' = Lim
      /\ \A u \in Threads : /\ Kids(u)' = Kids(u)
                            /\ From(u)' = From(u)
                            /\ To(u)' = To(u)
  BY <1>1 DEF Lim, Kids, ToWalk, From, FromWalk, To
<1>3. \A u \in Threads : /\ Pending(u)' <=> Pending(u)
                         /\ AtRest(u)' <=> AtRest(u)
                         /\ Done(u)' <=> Done(u)
                         /\ Holds(u)' <=> Holds(u)
  BY <1>1 DEF Pending, AtRest, Done, Holds, Answered, Share
<1>4. \A u \in Threads : /\ \A k \in 1 .. Len(To(u)) : To(u)[k] \in Threads
                         /\ \A k \in 1 .. Len(From(u)) : From(u)[k] \in Threads
                         /\ \A j \in Kids(u) : j \in Threads
  <2>1. ASSUME NEW u \in Threads
        PROVE  /\ \A k \in 1 .. Len(To(u)) : To(u)[k] \in Threads
               /\ \A k \in 1 .. Len(From(u)) : From(u)[k] \in Threads
               /\ \A j \in Kids(u) : j \in Threads
    BY <1>1, InWalkFacts, KidFacts
  <2>2. QED
    BY <2>1
<1>5. QuietInv'
  BY DEF QuietInv
<1>6. WalkInv'
  <2>1. ASSUME NEW u \in Threads
        PROVE  WalkAt(u)'
    BY <1>1, <1>2, <1>3, <1>4 DEF IInv, WalkInv, WalkAt
  <2>2. QED
    BY <2>1 DEF WalkInv
<1>7. TreeInv'
  <2>1. ASSUME NEW u \in Threads
        PROVE  TreeAt(u)'
    <3>1. TreeAt(u)
      BY DEF IInv, TreeInv
    <3>2. QED
      BY <1>1, <1>2, <1>3, <1>4, <3>1 DEF TreeAt
  <2>2. QED
    BY <2>1 DEF TreeInv
<1>8. DataInv'
  BY <1>1, <1>3, OwnData
<1>9. ASSUME NEW u \in Threads
      PROVE  LeaveAt(u)'
  BY <1>1, <1>2, <1>4 DEF IInv, ExitInv, LeaveAt
<1>10. CompleteOnReturn' /\ NoContractViolation'
  BY <1>1 DEF IInv, CompleteOnReturn, Returned, NoContractViolation
<1>11. QED
  BY <1>2, <1>3, <1>5, <1>6, <1>7, <1>8, <1>9, <1>10

LEMMA CreateThreadPreserves ==
    ASSUME IInv, CreateThread, TypeOK'
    PROVE  IInv'
<1>1. /\ TypeOK
      /\ UNCHANGED <<forked, task_, last, incoming, outgoing, handle, pass,
                     joinRequested, limit, pos, ran, data, failed>>
      /\ mainPc = "create" /\ mainPc' = "store_handle"
      /\ pc' = [pc EXCEPT ![forked] = "task_wait"]
  BY DEF IInv, CreateThread, signals, locals
<1>2. PICK f \in Threads : f = forked
  BY <1>1, NumThreadsAssumption DEF IInv, MainInv, TypeOK, Threads
<1>3. /\ task_ # NoTask
      /\ pc[f] = "none" /\ pc'[f] = "task_wait"
      /\ \A u \in Threads : u # f => pc'[u] = pc[u]
  BY <1>1, <1>2 DEF IInv, MainInv, CreatedInv, TypeOK
<1>4. /\ Lim' = Lim
      /\ \A u \in Threads : /\ Kids(u)' = Kids(u)
                            /\ From(u)' = From(u)
                            /\ To(u)' = To(u)
  BY <1>1 DEF Lim, Kids, ToWalk, From, FromWalk, To
<1>5. \A u \in Threads : u # f => SameLocals(u)
  BY <1>1, <1>3 DEF SameLocals
<1>6. \A u \in Threads : /\ AtRest(u)' <=> AtRest(u)
                         /\ Pending(u)' <=> Pending(u)
                         /\ Notified(u)' <=> Notified(u)
                         /\ Busy(u)' <=> Busy(u)
  <2>1. \A u \in Threads : AtRest(u)' <=> AtRest(u)
    BY <1>1, <1>3 DEF AtRest
  <2>2. \A u \in Threads : Answered(u)' <=> Answered(u)
    BY <1>1 DEF Answered
  <2>3. \A u \in Threads : Busy(u)' <=> Busy(u)
    BY <1>1, <1>3, <2>2 DEF Busy, Share
  <2>4. QED
    BY <2>1, <2>2, <2>3 DEF Pending, Notified
<1>7. \A u \in Threads : u < Lim => /\ Done(u)' <=> Done(u)
                                    /\ Holds(u)' <=> Holds(u)
  <2>1. f < Lim => ~Done(f)'
    <3>1. SUFFICES ASSUME f < Lim
                   PROVE  ~Done(f)'
      OBVIOUS
    <3>2. Pending(f) \/ Notified(f)
      BY <1>3, <3>1 DEF IInv, PhaseInv, Busy, Done
    <3>3. ran'[f] = 0
      BY <1>1, <3>2 DEF Pending, Notified, AtRest
    <3>4. ~task_.join_requested => Share(f)' = 1
      BY <1>1, <1>3, <3>1 DEF Share, Lim, NumThreadsForTask
    <3>5. QED
      BY <1>1, <1>3, <3>3, <3>4 DEF Done
  <2>2. ~Done(f) /\ pc[f] # "wait" /\ pc'[f] # "wait"
    BY <1>3 DEF Done
  <2>3. \A u \in Threads : u # f => (Done(u)' <=> Done(u))
    BY <1>1, <1>5, SameFacts
  <2>4. QED
    BY <1>3, <2>1, <2>2, <2>3 DEF Holds
<1>8. \A u \in Threads : /\ \A k \in 1 .. Len(To(u)) : To(u)[k] \in Threads
                         /\ \A k \in 1 .. Len(From(u)) :
                               From(u)[k] \in Threads /\ From(u)[k] < limit[u]
                         /\ \A j \in Kids(u) : j \in Threads
  <2>1. ASSUME NEW u \in Threads
        PROVE  /\ \A k \in 1 .. Len(To(u)) : To(u)[k] \in Threads
               /\ \A k \in 1 .. Len(From(u)) :
                     From(u)[k] \in Threads /\ From(u)[k] < limit[u]
               /\ \A j \in Kids(u) : j \in Threads
    BY <1>1, InWalkFacts, KidFacts
  <2>2. QED
    BY <2>1
<1>9. MainInv'
  BY <1>1, <1>4 DEF IInv, MainInv, Reaches
<1>10. CreatedInv'
  <2>1. \A u \in Threads : pc'[u] = "none" => pass[u] = 0
    BY <1>3 DEF IInv, CreatedInv
  <2>2. \A u \in Threads : pc'[u] = "none" <=> u > forked
    <3>1. \A u \in Threads : pc[u] = "none" <=> u > forked \/ u = forked
      BY <1>1 DEF IInv, CreatedInv
    <3>2. ~(f > f)
      BY DEF Threads
    <3>3. QED
      BY <1>2, <1>3, <3>1, <3>2
  <2>3. QED
    BY <1>1, <2>1, <2>2 DEF IInv, CreatedInv
<1>11. HandleInv'
  <2>1. ASSUME NEW u \in Threads
        PROVE  HandleAt(u)'
    BY <1>1, <1>3, <1>4 DEF IInv, HandleInv, HandleAt
  <2>2. QED
    BY <2>1 DEF HandleInv
<1>12. PassInv'
  BY <1>1, <1>4, <1>7 DEF IInv, PassInv
<1>13. QuietInv'
  BY <1>1 DEF QuietInv
<1>14. PhaseInv'
  BY <1>1, <1>3, <1>4, <1>6, <1>7, ThreadZero DEF IInv, PhaseInv
<1>15. WalkInv'
  <2>1. ASSUME NEW u \in Threads
        PROVE  WalkAt(u)'
    <3>1. WalkAt(u)
      BY DEF IInv, WalkInv
    <3>2. CASE u = f
      BY <1>3, <3>2 DEF WalkAt
    <3>3. CASE u # f
      BY <1>1, <1>3, <1>4, <1>6, <1>7, <1>8, <3>1, <3>3 DEF WalkAt
    <3>4. QED
      BY <3>2, <3>3
  <2>2. QED
    BY <2>1 DEF WalkInv
<1>16. TreeInv'
  <2>1. ASSUME NEW u \in Threads
        PROVE  TreeAt(u)'
    <3>1. TreeAt(u)
      BY <1>1, <1>3 DEF IInv, TreeInv
    <3>2. pc'[u] = "wait" <=> pc[u] = "wait"
      BY <1>3
    <3>3. QED
      BY <1>1, <1>4, <1>6, <1>7, <1>8, <3>1, <3>2 DEF TreeAt
  <2>2. QED
    BY <2>1 DEF TreeInv
<1>17. ExitInv'
  <2>1. ASSUME NEW u \in Threads
        PROVE  LeaveAt(u)'
    <3>1. LeaveAt(u)
      BY DEF IInv, ExitInv
    <3>2. \A v \in Threads : pc'[v] = "exited" <=> pc[v] = "exited"
      BY <1>3
    <3>3. pc'[u] = "join" <=> pc[u] = "join"
      BY <1>3
    <3>4. QED
      BY <1>1, <1>4, <1>8, <3>1, <3>2, <3>3 DEF LeaveAt
  <2>2. QED
    BY <1>1, <2>1 DEF ExitInv
<1>18. DataInv'
  <2>1. SUFFICES ASSUME task_.op = "reduce"
                 PROVE  DataInv'
    BY <1>1 DEF DataInv
  <2>2. DataInv /\ 0 < Lim
    BY <1>3 DEF IInv, MainInv
  <2>3. ASSUME NEW u \in Threads, pc'[u] = "wait"
        PROVE  /\ pc[u] = "wait" /\ limit[u] = Lim
               /\ \A k \in 1 .. Len(From(u)) :
                     Holds(From(u)[k])' <=> Holds(From(u)[k])
    <3>1. pc[u] = "wait" /\ limit[u] = Lim
      BY <1>3, <2>3 DEF IInv, WalkInv, WalkAt
    <3>2. \A i \in Threads : i < Lim => (Holds(i)' <=> Holds(i))
      BY <1>7
    <3>3. From(u)' = From(u)
      BY <1>4
    <3>4. \A k \in 1 .. Len(From(u)) : From(u)[k] \in Threads /\ From(u)[k] < Lim
      BY <1>8, <3>1
    <3>5. QED
      BY <3>1, <3>2, <3>3, <3>4
  <2>4. \A u \in Threads : Holds(u) => Holds(u)'
    <3>1. \A u \in Threads : u # f => (Holds(u)' <=> Holds(u))
      BY <1>1, <1>5, SameFacts
    <3>2. ~Holds(f)
      BY <1>3 DEF Holds, Done
    <3>3. QED
      BY <3>1, <3>2
  <2>5. ASSUME NEW u \in Threads, NEW j \in Kids(u), j < Lim, ~Holds(u)', Holds(j)'
        PROVE  data[j] # << >>
    <3>1. ~Holds(u) /\ Holds(j)
      BY <1>7, <1>8, <2>4, <2>5
    <3>2. QED
      BY <2>1, <2>2, <2>5, <3>1 DEF DataInv
  <2>6. Holds(0)' => data[0] # << >>
    BY <1>7, <2>1, <2>2, ThreadZero DEF DataInv
  <2>7. ASSUME NEW u \in Threads, pc'[u] = "wait"
        PROVE  \A k \in 1 .. Len(From(u)) :
                  k >= pos[u] /\ Holds(From(u)[k])' => data[From(u)[k]] # << >>
    BY <2>1, <2>2, <2>3, <2>7 DEF DataInv
  <2>8. \A u \in Threads : /\ ran[u] = 0 => data[u] = << >>
                           /\ u < Lim /\ pc'[u] = "wait" => data[u] # << >>
    BY <2>1, <2>2, <2>3 DEF DataInv
  <2>9. QED
    BY <1>1, <1>4, <2>5, <2>6, <2>7, <2>8 DEF DataInv
<1>19. CompleteOnReturn' /\ NoContractViolation'
  BY <1>1 DEF IInv, CompleteOnReturn, Returned, NoContractViolation
<1>20. QED
  BY <1>9, <1>10, <1>11, <1>12, <1>13, <1>14, <1>15, <1>16, <1>17, <1>18, <1>19
     DEF IInv

LEMMA StoreHandlePreserves ==
    ASSUME IInv, StoreHandle, TypeOK'
    PROVE  IInv'
<1>1. /\ TypeOK
      /\ UNCHANGED <<task_, last, signals, locals, pc, ran, data, failed>>
      /\ mainPc = "store_handle"
      /\ forked' = forked + 1
      /\ handle' = [handle EXCEPT ![forked] = TRUE]
      /\ mainPc' = IF forked + 1 < NumThreads THEN "create" ELSE "await"
      /\ UNCHANGED <<pass, limit, pos>>
  BY DEF IInv, StoreHandle, locals
<1>2. task_ # NoTask
  BY <1>1 DEF IInv, MainInv
<1>3. PICK f \in Threads : f = forked
  BY <1>1, NumThreadsAssumption DEF IInv, MainInv, TypeOK, Threads
<1>4. handle'[f] /\ \A u \in Threads : u # f => handle'[u] = handle[u]
  BY <1>1, <1>3 DEF TypeOK
<1>5. /\ Lim' = Lim
      /\ \A u \in Threads : /\ Kids(u)' = Kids(u) /\ From(u)' = From(u)
                            /\ Pending(u)' <=> Pending(u)
                            /\ Done(u)' <=> Done(u)
      /\ QuietInv' /\ WalkInv' /\ TreeInv' /\ DataInv'
      /\ \A u \in Threads : LeaveAt(u)'
      /\ CompleteOnReturn' /\ NoContractViolation'
  BY <1>1, <1>2, MainOnly
<1>6. \A u \in Threads : /\ u < f + 1 <=> u < f \/ u = f
                         /\ u > f <=> u > f + 1 \/ u = f + 1
                         /\ ~(u < f /\ u = f)
  BY DEF Threads
<1>7. f + 1 \in Nat /\ f < f + 1 /\ NumThreads \in Nat
  BY NumThreadsAssumption DEF Threads
<1>8. MainInv'
  <2>1. ~(f + 1 < NumThreads) => f + 1 = NumThreads
    BY <1>3, NumThreadsAssumption DEF Threads
  <2>2. f < NumThreads
    BY NumThreadsAssumption DEF Threads
  <2>3. Reaches(task_)' <=> Reaches(task_)
    BY <1>1, <1>5 DEF Reaches
  <2>4. QED
    BY <1>1, <1>2, <1>3, <1>5, <2>1, <2>2, <2>3 DEF IInv, MainInv
<1>9. CreatedInv'
  <2>1. \A u \in Threads :
            pc'[u] = "none" <=>
                (u > forked' \/ (u = forked' /\ mainPc' # "store_handle"))
    BY <1>1, <1>3, <1>6 DEF IInv, CreatedInv
  <2>2. \A u \in Threads : pc'[u] = "none" => pass'[u] = 0
    BY <1>1 DEF IInv, CreatedInv
  <2>3. \A u \in Threads : handle'[u] => u < forked'
    BY <1>1, <1>3, <1>4, <1>6 DEF IInv, CreatedInv
  <2>4. handle'[0]
    <3>1. CASE f = 0
      BY <1>4, <3>1
    <3>2. CASE f # 0
      BY <1>1, <1>3, <1>4, <3>2, ThreadZero DEF IInv, CreatedInv
    <3>3. QED
      BY <3>1, <3>2
  <2>5. QED
    BY <2>1, <2>2, <2>3, <2>4 DEF CreatedInv
<1>10. HandleInv'
  <2>1. ASSUME NEW u \in Threads
        PROVE  HandleAt(u)'
    <3>1. HandleAt(u)
      BY DEF IInv, HandleInv
    <3>2. pc'[u] \in {"begin_join", "join"} => NumThreads = 1
      <4>1. f # NumThreads
        BY NumThreadsAssumption DEF Threads
      <4>2. QED
        BY <1>1, <1>3, <3>1, <4>1 DEF HandleAt
    <3>3. ASSUME NEW i \in Threads, i < forked => handle[i]
          PROVE  i < forked' => handle'[i]
      BY <1>1, <1>3, <1>4, <1>6, <3>3
    <3>4. /\ \A i \in Kids(u) : i \in Threads
          /\ \A k \in 1 .. Len(From(u)) : From(u)[k] \in Threads
      BY <1>1, InWalkFacts, KidFacts
    <3>5. pc'[u] \notin {"join", "exited"} =>
              \A i \in Kids(u) : i < forked' => handle'[i]
      BY <1>1, <3>1, <3>3, <3>4 DEF HandleAt
    <3>6. pc'[u] = "join" =>
              \A k \in 1 .. Len(From(u)) :
                  k >= pos[u] /\ From(u)[k] < forked' => handle'[From(u)[k]]
      BY <1>1, <3>1, <3>3, <3>4 DEF HandleAt
    <3>7. QED
      BY <1>1, <1>5, <3>2, <3>5, <3>6 DEF HandleAt
  <2>2. QED
    BY <2>1 DEF HandleInv
<1>11. PassInv'
  BY <1>1, <1>2, <1>5 DEF IInv, PassInv
<1>12. PhaseInv'
  <2>1. \A u \in Threads : /\ Notified(u)' <=> Notified(u)
                           /\ Busy(u)' <=> Busy(u)
    BY <1>1 DEF Notified, Busy, AtRest, Answered, Share, signals, locals
  <2>2. QED
    BY <1>1, <1>2, <1>5, <2>1, ThreadZero DEF IInv, PhaseInv
<1>13. ExitInv'
  BY <1>1, <1>5 DEF ExitInv
<1>14. QED
  BY <1>5, <1>8, <1>9, <1>10, <1>11, <1>12, <1>13 DEF IInv

LEMMA NotifyRootPreserves ==
    ASSUME IInv, NotifyRoot, TypeOK'
    PROVE  IInv'
<1>1. /\ TypeOK
      /\ UNCHANGED <<forked, task_, last, outgoing, handle, pc, pass,
                     joinRequested, limit, pos, ran, data, failed>>
      /\ mainPc = "notify" /\ mainPc' = "await"
      /\ incoming' = Toggled(incoming, 0)
  BY DEF IInv, NotifyRoot, locals
<1>2. /\ task_ # NoTask /\ 0 < Lim /\ forked = NumThreads
      /\ \A u \in Threads : Pending(u)
  BY <1>1 DEF IInv, MainInv, PhaseInv
<1>3. /\ incoming'[0] # incoming[0]
      /\ \A u \in Threads : u # 0 => incoming'[u] = incoming[u]
  <2>1. incoming \in [Threads -> {0, 1}]
    BY <1>1 DEF TypeOK
  <2>2. QED
    BY <1>1, <2>1, ToggledFacts, ThreadZero
<1>4. /\ Lim' = Lim
      /\ \A u \in Threads : Kids(u)' = Kids(u) /\ From(u)' = From(u)
  BY <1>1 DEF Lim, Kids, ToWalk, From, FromWalk
<1>5. \A u \in Threads : /\ pc[u] \in {"none", "task_wait"}
                         /\ ran[u] = 0
                         /\ ~joinRequested[u]
                         /\ AtRest(u)'
  BY <1>1, <1>2 DEF Pending, AtRest
<1>6. Notified(0)' /\ ~Pending(0)'
  <2>1. ~Answered(0)'
    <3>1. outgoing[0] = incoming[0]
      BY <1>2, ThreadZero DEF Pending, Answered
    <3>2. QED
      BY <1>1, <1>3, <3>1 DEF Answered
  <2>2. QED
    BY <1>5, <2>1, ThreadZero DEF Notified, Pending
<1>7. \A u \in Threads : u # 0 => Pending(u)'
  <2>1. \A u \in Threads : u # 0 => Answered(u)'
    BY <1>1, <1>2, <1>3 DEF Pending, Answered
  <2>2. QED
    BY <1>5, <2>1 DEF Pending
<1>8. /\ WalkInv' /\ ExitInv'
      /\ \A u \in Threads : u < Lim' => ~Done(u)' /\ ~Holds(u)'
  <2>1. \A u \in Threads : IF u < Lim' THEN Pending(u)' \/ Notified(u)'
                                       ELSE Pending(u)'
    BY <1>2, <1>4, <1>6, <1>7
  <2>2. QED
    BY <1>1, <1>2, <1>5, <2>1, SleepersInv
<1>9. MainInv' /\ CreatedInv'
  <2>1. Reaches(task_)' <=> Reaches(task_)
    BY <1>1, <1>4 DEF Reaches
  <2>2. QED
    BY <1>1, <1>2, <1>4, <2>1 DEF IInv, MainInv, CreatedInv
<1>10. HandleInv'
  <2>1. ASSUME NEW u \in Threads
        PROVE  HandleAt(u)'
    BY <1>1, <1>4, <1>5 DEF IInv, HandleInv, HandleAt
  <2>2. QED
    BY <2>1 DEF HandleInv
<1>11. PassInv'
  BY <1>1, <1>2, <1>4, <1>8 DEF IInv, PassInv
<1>12. QuietInv'
  BY <1>1 DEF QuietInv
<1>13. PhaseInv'
  BY <1>1, <1>2, <1>4, <1>6, <1>7, ThreadZero DEF PhaseInv
<1>14. TreeInv'
  <2>1. ASSUME NEW u \in Threads
        PROVE  TreeAt(u)'
    <3>1. \A j \in Kids(u) : j \in Threads /\ Pending(j)'
      BY <1>7, KidFacts
    <3>2. Kids(u) # {} => pass'[u] = 1
      BY <1>1, <1>2 DEF IInv, PassInv
    <3>3. QED
      BY <1>1, <1>4, <1>5, <1>8, <3>1, <3>2 DEF TreeAt
  <2>2. QED
    BY <2>1 DEF TreeInv
<1>15. DataInv'
  BY <1>1, <1>2, <1>4, <1>5, <1>8, ThreadZero, KidFacts DEF IInv, DataInv
<1>16. CompleteOnReturn' /\ NoContractViolation'
  BY <1>1 DEF IInv, CompleteOnReturn, Returned, NoContractViolation
<1>17. QED
  BY <1>8, <1>9, <1>10, <1>11, <1>12, <1>13, <1>14, <1>15, <1>16 DEF IInv

\* The steps after which thread 0 is known to be done.
LEMMA AwaitRootPreserves ==
    ASSUME IInv, AwaitRoot, TypeOK'
    PROVE  IInv'
<1>1. /\ TypeOK
      /\ UNCHANGED <<forked, task_, last, signals, handle, pc, locals, pos,
                     limit, pass, ran, data, failed>>
      /\ mainPc = "await" /\ Answered(0)
      /\ mainPc' = IF task_.join_requested THEN "join" ELSE "release"
  BY DEF IInv, AwaitRoot, locals
<1>2. task_ # NoTask /\ 0 < Lim /\ forked = NumThreads
  BY <1>1 DEF IInv, MainInv
<1>3. Done(0)
  BY <1>1, <1>2, ThreadZero DEF IInv, PhaseInv, Notified, Busy
<1>4. /\ Lim' = Lim
      /\ \A u \in Threads : /\ Kids(u)' = Kids(u) /\ From(u)' = From(u)
                            /\ Pending(u)' <=> Pending(u)
                            /\ Done(u)' <=> Done(u)
      /\ QuietInv' /\ WalkInv' /\ TreeInv' /\ DataInv'
      /\ \A u \in Threads : LeaveAt(u)'
      /\ CompleteOnReturn' /\ NoContractViolation'
  BY <1>1, <1>2, MainOnly
<1>5. MainInv' /\ CreatedInv'
  <2>1. Reaches(task_)' <=> Reaches(task_)
    BY <1>1, <1>4 DEF Reaches
  <2>2. handle[0]
    BY <1>1, <1>2, NumThreadsAssumption DEF IInv, CreatedInv
  <2>3. QED
    BY <1>1, <1>2, <1>4, <2>1, <2>2 DEF IInv, MainInv, CreatedInv
<1>6. HandleInv'
  <2>1. ASSUME NEW u \in Threads
        PROVE  HandleAt(u)'
    BY <1>1, <1>4 DEF IInv, HandleInv, HandleAt
  <2>2. QED
    BY <2>1 DEF HandleInv
<1>7. PassInv'
  BY <1>1, <1>2, <1>4 DEF IInv, PassInv
<1>8. PhaseInv'
  <2>1. \A u \in Threads : /\ Notified(u)' <=> Notified(u)
                           /\ Busy(u)' <=> Busy(u)
    BY <1>1 DEF Notified, Busy, AtRest, Answered, Share, signals, locals
  <2>2. QED
    BY <1>1, <1>2, <1>3, <1>4, <2>1, ThreadZero DEF IInv, PhaseInv
<1>9. ExitInv'
  BY <1>1, <1>4 DEF ExitInv
<1>10. QED
  BY <1>4, <1>5, <1>6, <1>7, <1>8, <1>9 DEF IInv

LEMMA JoinRootPreserves ==
    ASSUME IInv, JoinRoot, TypeOK'
    PROVE  IInv'
<1>1. /\ TypeOK
      /\ UNCHANGED <<forked, task_, last, signals, pc, locals, pos, limit, pass,
                     ran, data, failed>>
      /\ mainPc = "join" /\ mainPc' = "release"
      /\ pc[0] = "exited"
      /\ handle' = [handle EXCEPT ![0] = FALSE]
  BY DEF IInv, JoinRoot, locals
<1>2. task_ # NoTask /\ 0 < Lim /\ forked = NumThreads /\ task_.join_requested
  BY <1>1 DEF IInv, MainInv
<1>3. /\ Lim' = Lim
      /\ \A u \in Threads : /\ Kids(u)' = Kids(u) /\ From(u)' = From(u)
                            /\ Pending(u)' <=> Pending(u)
                            /\ Done(u)' <=> Done(u)
      /\ QuietInv' /\ WalkInv' /\ TreeInv' /\ DataInv'
      /\ \A u \in Threads : LeaveAt(u)'
      /\ CompleteOnReturn' /\ NoContractViolation'
  BY <1>1, <1>2, MainOnly
<1>4. ~handle'[0] /\ \A u \in Threads : u # 0 => handle'[u] = handle[u]
  BY <1>1, ThreadZero DEF TypeOK
<1>5. MainInv' /\ CreatedInv'
  <2>1. Reaches(task_)' <=> Reaches(task_)
    BY <1>1, <1>3 DEF Reaches
  <2>2. QED
    BY <1>1, <1>2, <1>3, <1>4, <2>1 DEF IInv, MainInv, CreatedInv
<1>6. HandleInv'
  <2>1. ASSUME NEW u \in Threads
        PROVE  HandleAt(u)'
    <3>1. /\ \A i \in Kids(u) : i \in Threads /\ i # 0
          /\ \A k \in 1 .. Len(From(u)) : From(u)[k] \in Threads /\ From(u)[k] # 0
      BY <1>1, InWalkFacts, KidFacts
    <3>2. QED
      BY <1>1, <1>3, <1>4, <3>1 DEF IInv, HandleInv, HandleAt
  <2>2. QED
    BY <2>1 DEF HandleInv
<1>7. PassInv'
  BY <1>1, <1>2, <1>3 DEF IInv, PassInv
<1>8. PhaseInv'
  <2>1. \A u \in Threads : /\ Notified(u)' <=> Notified(u)
                           /\ Busy(u)' <=> Busy(u)
    BY <1>1 DEF Notified, Busy, AtRest, Answered, Share, signals, locals
  <2>2. QED
    BY <1>1, <1>2, <1>3, <2>1, ThreadZero DEF IInv, PhaseInv
<1>9. ExitInv'
  BY <1>1, <1>3 DEF ExitInv
<1>10. QED
  BY <1>3, <1>5, <1>6, <1>7, <1>8, <1>9 DEF IInv

LEMMA ReturnPreserves ==
    ASSUME IInv, Return, TypeOK'
    PROVE  IInv'
<1>1. /\ TypeOK
      /\ UNCHANGED <<forked, last, incoming, outgoing, handle, pc, pass,
                     joinRequested, limit, pos, ran, failed>>
      /\ mainPc = "release" /\ task_' = NoTask
      /\ mainPc' = IF task_.join_requested THEN "freed" ELSE "idle"
  BY DEF IInv, Return, signals, locals
<1>2. task_ # NoTask /\ forked = NumThreads /\ last = task_ /\ task_ \in Task
  BY <1>1 DEF IInv, MainInv, TypeOK
<1>3. /\ \A u \in Threads : u < Lim => Done(u)
      /\ \A u \in Threads : ~(u < Lim) => Pending(u)
  <2>1. Done(0)
    BY <1>1, <1>2 DEF IInv, PhaseInv
  <2>2. QED
    BY <1>1, <1>2, <2>1, AllDone DEF IInv, PhaseInv
<1>4. \A u \in Threads : Kids(u)' = Kids(u) /\ From(u)' = From(u)
  BY <1>1 DEF Kids, ToWalk, From, FromWalk
<1>5. \A u \in Threads : Answered(u)
  BY <1>3 DEF Done, Pending
<1>6. ASSUME task_.join_requested
      PROVE  MainInv' /\ CreatedInv' /\ PassInv' /\ QuietInv' /\ WalkInv'
  <2>1. \A u \in Threads : pc[u] = "exited"
    BY <1>1, <1>6, AllExited DEF IInv, ExitInv
  <2>2. QuietInv'
    BY <1>1, <1>5, <1>6, <2>1 DEF QuietInv, Answered
  <2>3. MainInv' /\ CreatedInv' /\ PassInv'
    BY <1>1, <1>2, <1>6 DEF IInv, MainInv, CreatedInv, PassInv
  <2>4. WalkInv'
    BY <1>1, <2>1 DEF WalkInv, WalkAt
  <2>5. QED
    BY <2>2, <2>3, <2>4
<1>7. ASSUME ~task_.join_requested
      PROVE  MainInv' /\ CreatedInv' /\ PassInv' /\ QuietInv' /\ WalkInv'
  <2>1. \A u \in Threads : pc[u] \in {"none", "task_wait"} /\ ~joinRequested[u]
    BY <1>3, <1>7 DEF Done, Pending, AtRest
  <2>2. QuietInv'
    BY <1>1, <1>5, <1>7, <2>1 DEF QuietInv, Answered
  <2>3. MainInv' /\ CreatedInv'
    BY <1>1, <1>2, <1>7 DEF IInv, MainInv, CreatedInv
  <2>4. \A u \in Threads : Kids(u) # {} => pass[u] = 1
    <3>1. \A u \in Threads : u < Lim \/ u >= Lim
      BY <1>2, TaskFacts DEF Lim, Threads
    <3>2. QED
      BY <1>2, <1>3, <3>1 DEF IInv, PassInv
  <2>5. PassInv'
    BY <1>1, <1>4, <2>4 DEF PassInv
  <2>6. WalkInv'
    BY <1>1, <2>1 DEF WalkInv, WalkAt
  <2>7. QED
    BY <2>2, <2>3, <2>5, <2>6
<1>8. HandleInv'
  <2>1. ASSUME NEW u \in Threads
        PROVE  HandleAt(u)'
    BY <1>1, <1>4 DEF IInv, HandleInv, HandleAt
  <2>2. QED
    BY <2>1 DEF HandleInv
<1>9. PhaseInv' /\ TreeInv' /\ DataInv'
  BY <1>1 DEF PhaseInv, TreeInv, DataInv, NoTask
<1>10. ExitInv'
  <2>1. ASSUME NEW u \in Threads
        PROVE  LeaveAt(u)'
    BY <1>1, <1>4 DEF IInv, ExitInv, LeaveAt
  <2>2. QED
    BY <1>1, <2>1 DEF ExitInv
<1>11. CompleteOnReturn' /\ NoContractViolation'
  <2>1. ASSUME NEW u \in Threads
        PROVE  ran[u] = Share(u)
    <3>1. CASE u < Lim
      BY <1>3, <3>1 DEF Done
    <3>2. CASE ~(u < Lim)
      <4>1. ran[u] = 0
        BY <1>3, <3>2 DEF Pending, AtRest
      <4>2. ~(u < task_.concurrency)
        BY <1>2, <3>2, NumThreadsAssumption
           DEF Lim, NumThreadsForTask, Threads
      <4>3. QED
        BY <4>1, <4>2 DEF Share
    <3>3. QED
      BY <3>1, <3>2
  <2>2. QED
    BY <1>1, <1>2, <2>1 DEF IInv, CompleteOnReturn, NoContractViolation, Share
<1>12. QED
  BY <1>6, <1>7, <1>8, <1>9, <1>10, <1>11 DEF IInv

\* No contract is violated in the main thread, unless the system cannot create
\* a thread.
LEMMA MainNeverFails ==
    ASSUME IInv, MainFails
    PROVE  CreateFails
<1>1. mainPc = "join" => handle[0]
  <2>1. mainPc = "join" => forked = NumThreads
    BY DEF IInv, MainInv
  <2>2. QED
    BY <2>1, NumThreadsAssumption DEF IInv, CreatedInv
<1>2. mainPc = "release" /\ task_.op = "reduce" => data[0] # << >>
  <2>1. mainPc = "release" => task_ # NoTask
    BY DEF IInv, MainInv
  <2>2. mainPc = "release" => Done(0)
    BY <2>1 DEF IInv, PhaseInv
  <2>3. QED
    BY <2>2 DEF IInv, DataInv, Holds
<1>3. QED
  BY <1>1, <1>2 DEF MainFails

\* Only TypeOK and NoContractViolation mention the outcome.
LEMMA SameState ==
    ASSUME IInv, TypeOK', NoContractViolation',
           UNCHANGED <<mainVars, signals, handle, pc, locals, ran, data>>
    PROVE  IInv'
<1>1. UNCHANGED <<mainPc, forked, task_, last, result, incoming, outgoing, handle,
                  pc, pass, joinRequested, limit, pos, ran, data>>
  BY DEF mainVars, signals, locals
<1>2. /\ Lim' = Lim
      /\ \A u \in Threads : /\ Kids(u)' = Kids(u)
                            /\ From(u)' = From(u)
                            /\ To(u)' = To(u)
  BY <1>1 DEF Lim, Kids, ToWalk, From, FromWalk, To
<1>3. \A u \in Threads : /\ Pending(u)' <=> Pending(u)
                         /\ Notified(u)' <=> Notified(u)
                         /\ AtRest(u)' <=> AtRest(u)
                         /\ Busy(u)' <=> Busy(u)
                         /\ Done(u)' <=> Done(u)
  BY <1>1 DEF Pending, Notified, AtRest, Busy, Done, Answered, Share
<1>4. \A u \in Threads : Holds(u)' <=> Holds(u)
  BY <1>1, <1>3 DEF Holds
<1>5. \A u \in Threads : /\ \A k \in 1 .. Len(To(u)) : To(u)[k] \in Threads
                         /\ \A k \in 1 .. Len(From(u)) : From(u)[k] \in Threads
                         /\ \A j \in Kids(u) : j \in Threads
  <2>1. ASSUME NEW u \in Threads
        PROVE  /\ \A k \in 1 .. Len(To(u)) : To(u)[k] \in Threads
               /\ \A k \in 1 .. Len(From(u)) : From(u)[k] \in Threads
               /\ \A j \in Kids(u) : j \in Threads
    BY InWalkFacts, KidFacts DEF IInv
  <2>2. QED
    BY <2>1
<1>6. MainInv' /\ CreatedInv' /\ PassInv' /\ QuietInv' /\ PhaseInv'
  BY <1>1, <1>2, <1>3, ThreadZero
     DEF IInv, MainInv, Reaches, CreatedInv, PassInv, QuietInv, PhaseInv, Answered
<1>7. HandleInv'
  BY <1>1, <1>2 DEF IInv, HandleInv, HandleAt
<1>8. WalkInv'
  <2>1. ASSUME NEW u \in Threads
        PROVE  WalkAt(u)'
    BY <1>1, <1>2, <1>3, <1>5 DEF IInv, WalkInv, WalkAt
  <2>2. QED
    BY <2>1 DEF WalkInv
<1>9. TreeInv' /\ ExitInv'
  BY <1>1, <1>2, <1>3, <1>5 DEF IInv, TreeInv, TreeAt, ExitInv, LeaveAt
<1>10. DataInv'
  BY <1>1, <1>4, OwnData
<1>11. CompleteOnReturn'
  BY <1>1 DEF IInv, CompleteOnReturn, Returned
<1>12. QED
  BY <1>6, <1>7, <1>8, <1>9, <1>10, <1>11 DEF IInv

LEMMA MainPreserves ==
    ASSUME IInv, Call \/ MainStep
    PROVE  IInv'
<1>1. TypeOK'
  BY MainTypeOK DEF IInv, MainInv
<1>2. CASE Call
  <2> PICK task \in (IF IsRunning THEN LaterCalls ELSE FirstCalls) \cup {Destroy} :
          Submit(task) \/ SubmitNothing(task)
    BY <1>2 DEF Call
  <2>1. CASE Submit(task)
    BY <1>1, <2>1, SubmitPreserves DEF Submit
  <2>2. CASE SubmitNothing(task)
    BY <1>1, <2>2, SubmitNothingPreserves
  <2>3. QED
    BY <2>1, <2>2
<1>3. CASE MainFails
  <2>1. CreateFails
    BY <1>3, MainNeverFails
  <2>2. QED
    BY <1>1, <2>1, SameState DEF CreateFails, Fail, NoContractViolation
<1>4. QED
  BY <1>1, <1>2, <1>3, WakeAllPreserves, CreateThreadPreserves,
     StoreHandlePreserves, NotifyRootPreserves, AwaitRootPreserves,
     JoinRootPreserves, ReturnPreserves DEF MainStep

-----------------------------------------------------------------------------
(* The theorems                                                              *)

LEMMA InitIInv == Init => IInv
<1> SUFFICES ASSUME Init
             PROVE  IInv
  OBVIOUS
<1>1. TypeOK
  BY InitTypeOK
<1>2. \A t \in Threads : /\ pc[t] = "none" /\ pass[t] = 0 /\ Answered(t)
                         /\ ~joinRequested[t] /\ ~handle[t]
  BY DEF Init, Answered
<1>3. mainPc = "idle" /\ forked = 0 /\ task_ = NoTask /\ last = NoTask
  BY DEF Init
<1>4. MainInv
  BY <1>3 DEF MainInv
<1>5. CreatedInv
  <2>1. \A t \in Threads : t > 0 \/ t = 0
    BY DEF Threads
  <2>2. QED
    BY <1>2, <1>3, <2>1 DEF CreatedInv
<1>6. HandleInv
  <2>1. \A t \in Threads : \A j \in Kids(t) : ~(j < 0)
    BY KidFacts DEF Threads
  <2>2. QED
    BY <1>2, <1>3, <2>1 DEF HandleInv, HandleAt
<1>7. PassInv /\ PhaseInv /\ TreeInv
  BY <1>3, NumThreadsAssumption DEF PassInv, PhaseInv, TreeInv
<1>8. QuietInv /\ WalkInv /\ ExitInv
  BY <1>2, <1>3 DEF QuietInv, WalkInv, WalkAt, ExitInv, LeaveAt
<1>9. DataInv
  BY <1>3 DEF DataInv, NoTask
<1>10. CompleteOnReturn /\ NoContractViolation
  BY <1>3 DEF Init, CompleteOnReturn, Returned, NoContractViolation
<1>11. QED
  BY <1>1, <1>4, <1>5, <1>6, <1>7, <1>8, <1>9, <1>10 DEF IInv

LEMMA NextIInv == IInv /\ [Next]_vars => IInv'
<1> SUFFICES ASSUME IInv, [Next]_vars
             PROVE  IInv'
  OBVIOUS
<1>1. CASE Call \/ MainStep
  BY <1>1, MainPreserves
<1>2. CASE \E t \in Threads : ThreadStep(t)
  BY <1>2, ThreadPreserves
<1>3. CASE UNCHANGED vars
  <2>1. TypeOK'
    BY <1>3 DEF IInv, TypeOK, vars, mainVars, signals, locals
  <2>2. NoContractViolation'
    BY <1>3 DEF IInv, NoContractViolation, vars
  <2>3. QED
    BY <1>3, <2>1, <2>2, SameState DEF vars
<1>4. QED
  BY <1>1, <1>2, <1>3 DEF Next, Stopped

\* The strengthened invariant holds throughout: for every tree that is well
\* formed and every client that keeps to CarefulSquad's rules.
THEOREM Inductive == Spec => []IInv
<1>1. QED
  BY InitIInv, NextIInv, PTL DEF Spec

\* Every variable keeps to its type.
THEOREM TypeCorrect == Spec => []TypeOK
<1>1. IInv => TypeOK
  BY DEF IInv
<1>2. QED
  BY <1>1, Inductive, PTL

\* When run() or transform_reduce() returns, exactly the threads it was asked
\* to use have executed the task, once each.
THEOREM Completeness == Spec => []CompleteOnReturn
<1>1. IInv => CompleteOnReturn
  BY DEF IInv
<1>2. QED
  BY <1>1, Inductive, PTL

\* No gsl_Expects or gsl_Assert of the squad fails, no thread reads a task that
\* was released, and no merge or return finds a result missing.
THEOREM ContractsHold == Spec => []NoContractViolation
<1>1. IInv => NoContractViolation
  BY DEF IInv
<1>2. QED
  BY <1>1, Inductive, PTL

\* Between two calls every thread sleeps in task_wait() or has left, and has
\* answered its last notification.
THEOREM Quiescence == Spec => []QuietBetweenCalls
<1>1. IInv => QuietBetweenCalls
  BY DEF IInv, MainInv, QuietInv, QuietBetweenCalls
<1>2. QED
  BY <1>1, Inductive, PTL

\* The destructor frees the squad's memory only after all threads have left
\* run_thread().
THEOREM SafeRelease == Spec => []FreedAfterExit
<1>1. IInv => FreedAfterExit
  BY DEF IInv, QuietInv, FreedAfterExit
<1>2. QED
  BY <1>1, Inductive, PTL

\* Only threads that have answered are notified.
LEMMA NotifiedAnswered ==
    ASSUME IInv, [Next]_vars, NEW t \in Threads, incoming'[t] # incoming[t]
    PROVE  Answered(t)
<1>1. TypeOK
  BY DEF IInv
<1>2. CASE WakeAll \/ NotifyRoot
  BY <1>2, AsleepFacts DEF WakeAll, NotifyRoot
<1>3. CASE \E u \in Threads : NotifySubthread(u)
  <2>1. PICK u \in Threads : NotifySubthread(u)
    BY <1>3
  <2>2. incoming' = Toggled(incoming, To(u)[pos[u]])
    BY <2>1 DEF NotifySubthread
  <2>3. To(u)[pos[u]] \in Threads /\ Answered(To(u)[pos[u]])
    BY <2>1, NotifyFacts DEF NotifySubthread, Pending
  <2>4. t = To(u)[pos[u]]
    <3>1. incoming \in [Threads -> {0, 1}]
      BY <1>1 DEF TypeOK
    <3>2. QED
      BY <2>2, <2>3, <3>1, ToggledFacts
  <2>5. QED
    BY <2>3, <2>4
<1>4. ASSUME ~(WakeAll \/ NotifyRoot \/ \E u \in Threads : NotifySubthread(u))
      PROVE  UNCHANGED incoming
  <2>1. CASE Call \/ MainStep
    BY <1>4, <2>1
       DEF Call, Submit, SubmitNothing, MainStep, CreateThread, StoreHandle,
           AwaitRoot, JoinRoot, Return, MainFails, CreateFails, Fail, signals
  <2>2. CASE \E u \in Threads : ThreadStep(u)
    BY <1>4, <2>2
       DEF ThreadStep, TaskWait, Execute, WaitForSubthread, Signal, BeginJoin,
           JoinSubthread, Exit, ThreadFails, Fail, signals
  <2>3. CASE UNCHANGED vars
    BY <2>3 DEF vars, signals
  <2>4. QED
    BY <2>1, <2>2, <2>3 DEF Next, Stopped
<1>5. QED
  BY <1>2, <1>3, <1>4

\* No notification is sent to a thread that has not answered the last one, so
\* that toggling incoming_ never takes a notification back.
THEOREM NoLostNotification == Spec => NotifiedWhenAnswered
<1>1. IInv /\ [Next]_vars
          => [\A t \in Threads : incoming'[t] # incoming[t] => Answered(t)]_vars
  BY NotifiedAnswered
<1>2. QED
  BY <1>1, Inductive, PTL DEF Spec, NotifiedWhenAnswered

-----------------------------------------------------------------------------
(* Results are merged in the order of the threads                            *)

LEMMA StretchOne ==
    ASSUME NEW t \in Nat
    PROVE  Stretch(t, t + 1) = <<t>>
  BY DEF Stretch

\* Neighbouring stretches of indices join to one.
LEMMA StretchJoin ==
    ASSUME NEW a \in Nat, NEW b \in Nat, NEW c \in Nat, a <= b, b <= c
    PROVE  Stretch(a, b) \o Stretch(b, c) = Stretch(a, c)
<1> DEFINE left == Stretch(a, b)
           right == Stretch(b, c)
<1>1. /\ left \in Seq(Nat) /\ Len(left) = b - a
      /\ \A k \in 1 .. b - a : left[k] = a + k - 1
  BY DEF Stretch
<1>2. /\ right \in Seq(Nat) /\ Len(right) = c - b
      /\ \A k \in 1 .. c - b : right[k] = b + k - 1
  BY DEF Stretch
<1> HIDE DEF left, right
<1>3. left \o right \in Seq(Nat) /\ Len(left \o right) = c - a
  <2>1. left \o right \in Seq(Nat) /\ Len(left \o right) = Len(left) + Len(right)
    <3>1. ASSUME NEW s \in Seq(Nat), NEW u \in Seq(Nat)
          PROVE  s \o u \in Seq(Nat) /\ Len(s \o u) = Len(s) + Len(u)
      OBVIOUS
    <3>2. QED
      BY <1>1, <1>2, <3>1
  <2>2. (b - a) + (c - b) = c - a
    OBVIOUS
  <2>3. QED
    BY <1>1, <1>2, <2>1, <2>2
<1>4. ASSUME NEW k \in 1 .. c - a
      PROVE  (left \o right)[k] = a + k - 1
  BY <1>1, <1>2
<1>5. left \o right = [k \in 1 .. c - a |-> (left \o right)[k]]
  <2>1. \A s \in Seq(Nat) : s = [k \in 1 .. Len(s) |-> s[k]]
    OBVIOUS
  <2>2. QED
    BY <1>3, <2>1, Zenon
<1>6. left \o right = [k \in 1 .. c - a |-> a + k - 1]
  BY <1>4, <1>5, Zenon
<1>7. QED
  BY <1>6 DEF Stretch, left, right

\* In a reduction the task runs on as many threads as there are results.
LEMMA ReduceFacts ==
    ASSUME IInv, task_ # NoTask
    PROVE  /\ Lim \in 1 .. NumThreads
           /\ task_ \in Task
           /\ task_.op = "reduce" => Lim = task_.concurrency
           /\ last = task_
           /\ mainPc \notin {"idle", "freed"}
<1>1. TypeOK /\ MainInv
  BY DEF IInv
<1>2. Lim \in 0 .. NumThreads /\ task_ \in Task
  BY <1>1, TaskFacts DEF Lim, TypeOK
<1>3. Lim > 0 /\ last = task_ /\ (task_.op = "reduce" => Lim = task_.concurrency)
  BY <1>1 DEF MainInv
<1>4. mainPc \notin {"idle", "freed"}
  BY <1>1 DEF MainInv
<1>5. QED
  BY <1>2, <1>3, <1>4, NumThreadsAssumption

\* A thread's result is as before unless it executes, merges or completes.
LEMMA OrderKept ==
    ASSUME IInv, task_ # NoTask, task_.op = "reduce", task_' = task_,
           NEW t \in Threads, t < Lim, OrderAt(t),
           pc'[t] = "wait" =>
               pc[t] = "wait" /\ pos'[t] = pos[t] /\ limit'[t] = limit[t],
           ran'[t] = ran[t], data'[t] = data[t], Answered(t)' => Answered(t)
    PROVE  OrderAt(t)'
<1>1. Lim' = Lim /\ Share(t)' = Share(t)
  BY DEF Lim, Share
<1>2. CASE pc'[t] = "wait"
  <2>1. From(t)' = From(t)
    BY <1>2 DEF From
  <2>2. NextOf(t)' = NextOf(t)
    BY <1>1, <1>2, <2>1 DEF NextOf, End
  <2>3. Stretch(t, NextOf(t))' = Stretch(t, NextOf(t))
    BY <2>2 DEF Stretch
  <2>4. ~Done(t)'
    BY <1>2 DEF Done
  <2>5. QED
    BY <1>2, <2>1, <2>3, <2>4 DEF OrderAt
<1>3. CASE pc'[t] # "wait"
  <2>1. SUFFICES ASSUME Done(t)', data[t] # << >>
                 PROVE  data[t] = Stretch(t, End(t))'
    BY <1>3 DEF OrderAt
  <2>2. Stretch(t, End(t))' = Stretch(t, End(t))
    BY <1>1 DEF Stretch, End
  <2>3. ran[t] # 0
    BY <2>1 DEF IInv, DataInv
  <2>4. ~Pending(t) /\ ~Notified(t)
    BY <2>3 DEF Pending, Notified, AtRest
  <2>5. ~Busy(t)
    BY <2>1 DEF Done, Busy
  <2>6. Done(t)
    BY <2>4, <2>5 DEF IInv, PhaseInv
  <2>7. QED
    BY <2>1, <2>2, <2>6 DEF OrderAt
<1>4. QED
  BY <1>2, <1>3

\* The other threads' results, and t's own where it is not at work on it
LEMMA OthersOrder ==
    ASSUME IInv, task_ # NoTask, task_.op = "reduce", task_' = task_, OrderInv,
           NEW t \in Threads, SameLocals(t), incoming' = incoming,
           t < Lim, data'[t] = data[t]
    PROVE  OrderAt(t)'
<1>1. OrderAt(t)
  BY DEF OrderInv
<1>2. Answered(t)' <=> Answered(t)
  BY DEF Answered, SameLocals
<1>3. QED
  BY <1>1, <1>2, OrderKept DEF SameLocals

LEMMA ExecuteOrder ==
    ASSUME IInv, OrderInv, TypeOK', NEW t \in Threads, Execute(t),
           task_.op = "reduce"
    PROVE  \A u \in Threads : u < Lim => OrderAt(u)'
<1>1. /\ TypeOK /\ task_' = task_ /\ incoming' = incoming /\ outgoing' = outgoing
      /\ pc' = [pc EXCEPT ![t] = "wait"]
      /\ limit' = [limit EXCEPT ![t] = Lim] /\ pos' = [pos EXCEPT ![t] = 1]
      /\ \A u \in Threads : u # t => SameLocals(u)
  <2>1. TypeOK
    BY DEF IInv
  <2>2. task_' = task_ /\ incoming' = incoming /\ outgoing' = outgoing
    BY DEF Execute, mainVars, signals
  <2>3. /\ pc' = [pc EXCEPT ![t] = "wait"]
        /\ limit' = [limit EXCEPT ![t] = Lim] /\ pos' = [pos EXCEPT ![t] = 1]
    BY DEF Execute, Goto, BeginWalk, Lim
  <2>4. pass' = pass /\ joinRequested' = joinRequested
    BY DEF Execute
  <2>5. ran' = ran \/ ran' = [ran EXCEPT ![t] = @ + 1]
    BY DEF Execute
  <2>6. ASSUME NEW u \in Threads, u # t
        PROVE  SameLocals(u)
    <3>1. pc'[u] = pc[u] /\ limit'[u] = limit[u] /\ pos'[u] = pos[u]
      BY <2>1, <2>3, <2>6 DEF TypeOK
    <3>2. ran'[u] = ran[u]
      BY <2>1, <2>5, <2>6 DEF TypeOK
    <3>3. QED
      BY <2>2, <2>4, <3>1, <3>2 DEF SameLocals
  <2>7. QED
    BY <2>1, <2>2, <2>3, <2>6
<1>2. task_ # NoTask /\ t < Lim /\ Lim = task_.concurrency
  BY BusyFacts, ReduceFacts DEF Execute, ReadyToExecute
<1>3. data' = [data EXCEPT ![t] = <<t>>]
  BY <1>2 DEF Execute, Participates
<1>4. SUFFICES ASSUME NEW u \in Threads, u < Lim
               PROVE  OrderAt(u)'
  OBVIOUS
<1>5. CASE u # t
  <2>1. data'[u] = data[u]
    BY <1>1, <1>3, <1>5 DEF TypeOK
  <2>2. QED
    BY <1>1, <1>2, <1>4, <1>5, <2>1, OthersOrder
<1>6. CASE u = t
  <2>1. pc'[t] = "wait" /\ pos'[t] = 1 /\ data'[t] = <<t>>
    BY <1>1, <1>3 DEF TypeOK
  <2>2. NextOf(t)' = t + 1 /\ ~Done(t)'
    BY <2>1 DEF NextOf, Done
  <2>3. Stretch(t, NextOf(t))' = <<t>>
    <3>1. Stretch(t, NextOf(t))' = Stretch(t, t + 1)
      BY <2>2 DEF Stretch
    <3>2. t \in Nat
      BY DEF Threads
    <3>3. QED
      BY <3>1, <3>2, StretchOne
  <2>4. Len(From(t)') \in Nat
    <3>1. PICK c \in 0 .. NumThreads : c = limit'[t]
      BY DEF TypeOK
    <3>2. From(t)' = FromWalk[t][c]
      BY <3>1 DEF From, FromWalk
    <3>3. FromWalk[t][c] \in Seq(Threads)
      BY WalkFacts
    <3>4. QED
      BY <3>2, <3>3
  <2>5. OrderAt(t)'
    <3>1. pos'[t] <= Len(From(t)') + 1
      BY <2>1, <2>4
    <3>2. QED
      BY <2>1, <2>2, <2>3, <3>1 DEF OrderAt
  <2>6. QED
    BY <1>6, <2>5
<1>7. QED
  BY <1>5, <1>6

LEMMA WaitForSubthreadOrder ==
    ASSUME IInv, OrderInv, TypeOK', NEW t \in Threads, WaitForSubthread(t),
           task_.op = "reduce"
    PROVE  \A u \in Threads : u < Lim => OrderAt(u)'
<1>1. /\ TypeOK /\ task_' = task_ /\ incoming' = incoming /\ outgoing' = outgoing
      /\ pc' = pc /\ limit' = limit /\ pass' = pass /\ ran' = ran
      /\ joinRequested' = joinRequested /\ pc[t] = "wait"
      /\ pos' = [pos EXCEPT ![t] = @ + 1] /\ pos[t] <= Len(From(t))
  BY DEF IInv, WaitForSubthread, mainVars, signals
<1>2. task_ # NoTask /\ t < Lim /\ Lim \in 1 .. NumThreads
  BY <1>1, BusyFacts, ReduceFacts
<1>3. limit[t] = Lim /\ From(t) = FromWalk[t][Lim]
  BY <1>1 DEF IInv, WalkInv, WalkAt, From
<1>4. pos'[t] = pos[t] + 1 /\ pos[t] \in 1 .. Len(From(t))
  BY <1>1, InWalkFacts DEF TypeOK
<1>5. \A u \in Threads : u # t => SameLocals(u)
  BY <1>1 DEF TypeOK, SameLocals
<1>6. PICK j \in Threads : j = From(t)[pos[t]]
  BY <1>1, <1>4, InWalkFacts, KidFacts
<1>7. j \in Kids(t) /\ j < Lim /\ j # t /\ t < j
  <2>1. j \in Kids(t) /\ j < limit[t]
    BY <1>1, <1>4, <1>6, InWalkFacts
  <2>2. QED
    BY <1>3, <2>1, KidFacts
<1>8. Answered(j) /\ data[t] # << >> /\ data[j] # << >> /\ data' = Merged(t, j)
  BY <1>6 DEF WaitForSubthread
<1>9. Done(j) /\ pc[j] # "wait"
  <2>1. ~Pending(j)
    <3>1. TreeInv /\ mainPc # "wake"
      BY <1>1, BusyFacts DEF IInv
    <3>2. QED
      BY <1>1, <1>2, <1>7, <3>1 DEF TreeInv, TreeAt
  <2>2. Done(j)
    BY <1>2, <1>7, <1>8, <2>1 DEF IInv, PhaseInv, Notified, Busy
  <2>3. QED
    BY <2>2 DEF Done
<1>10. data[t] = Stretch(t, NextOf(t)) /\ data[j] = Stretch(j, End(j))
  BY <1>1, <1>2, <1>7, <1>8, <1>9 DEF OrderInv, OrderAt
<1>11. NextOf(t) = j /\ NextOf(t)' = End(j)
  <2>1. j = IF pos[t] = 1 THEN t + 1 ELSE End(From(t)[pos[t] - 1])
    BY <1>2, <1>3, <1>4, <1>6, BlockFacts DEF End
  <2>2. pos'[t] - 1 = pos[t] /\ pos'[t] # 1
    BY <1>4
  <2>3. From(t)' = From(t) /\ Lim' = Lim
    BY <1>1 DEF From, Lim
  <2>4. NextOf(t)' = BlockEnd(NumThreads, From(t)'[pos'[t] - 1], Lim')
    BY <2>2 DEF NextOf, End
  <2>5. QED
    BY <1>6, <2>1, <2>2, <2>3, <2>4 DEF NextOf, End
<1>12. data[t] \o data[j] = Stretch(t, End(j))
  <2>1. End(j) \in j + 1 .. Lim
    BY <1>2, <1>7, BlockFacts DEF End
  <2>2. t \in Nat /\ j \in Nat /\ End(j) \in Nat /\ t <= j /\ j <= End(j)
    BY <1>7, <2>1 DEF Threads
  <2>3. data[t] = Stretch(t, j)
    BY <1>10, <1>11
  <2>4. QED
    BY <1>10, <2>2, <2>3, StretchJoin
<1>13. /\ data'[t] = data[t] \o data[j] /\ data'[j] = << >>
       /\ \A u \in Threads : u # t /\ u # j => data'[u] = data[u]
  BY <1>1, <1>7, <1>8 DEF Merged, TypeOK
<1>14. SUFFICES ASSUME NEW u \in Threads, u < Lim
                PROVE  OrderAt(u)'
  OBVIOUS
<1>15. CASE u # t /\ u # j
  BY <1>1, <1>2, <1>5, <1>13, <1>14, <1>15, OthersOrder
<1>16. CASE u = j
  <2>1. OrderAt(j)'
    BY <1>1, <1>9, <1>13 DEF OrderAt
  <2>2. QED
    BY <1>16, <2>1
<1>17. CASE u = t
  <2>1. pc'[t] = "wait" /\ ~Done(t)'
    BY <1>1 DEF Done
  <2>2. pos'[t] <= Len(From(t))' + 1
    <3>1. From(t)' = From(t) /\ Len(From(t)) \in Nat
      BY <1>1, InWalkFacts DEF From
    <3>2. QED
      BY <1>4, <3>1
  <2>3. Stretch(t, NextOf(t))' = Stretch(t, End(j))
    BY <1>11 DEF Stretch
  <2>4. OrderAt(t)'
    BY <1>12, <1>13, <2>1, <2>2, <2>3 DEF OrderAt
  <2>5. QED
    BY <1>17, <2>4
<1>18. QED
  BY <1>15, <1>16, <1>17

LEMMA SignalOrder ==
    ASSUME IInv, OrderInv, TypeOK', NEW t \in Threads, Signal(t),
           task_.op = "reduce"
    PROVE  \A u \in Threads : u < Lim => OrderAt(u)'
<1>1. /\ TypeOK /\ task_' = task_ /\ incoming' = incoming
      /\ limit' = limit /\ pos' = pos /\ data' = data /\ ran' = ran
      /\ joinRequested' = joinRequested /\ pass' = [pass EXCEPT ![t] = 1]
      /\ pc' = [pc EXCEPT ![t] = IF joinRequested[t] THEN "begin_join" ELSE "task_wait"]
      /\ pc[t] = "wait" /\ pos[t] > Len(From(t)) /\ pc'[t] # "wait"
      /\ outgoing' = Toggled(outgoing, t)
  BY DEF IInv, Signal, Goto, mainVars, TypeOK
<1>2. \A u \in Threads : u # t => SameLocals(u)
  <2>1. \A u \in Threads : u # t => outgoing'[u] = outgoing[u]
    <3>1. outgoing \in [Threads -> {0, 1}]
      BY <1>1 DEF TypeOK
    <3>2. QED
      BY <1>1, <3>1, ToggledFacts
  <2>2. QED
    BY <1>1, <2>1 DEF SameLocals, TypeOK
<1>3. task_ # NoTask /\ t < Lim /\ Lim \in 1 .. NumThreads
  BY <1>1, BusyFacts, ReduceFacts
<1>4. From(t) = FromWalk[t][Lim] /\ Len(From(t)) \in Nat
  BY <1>1, InWalkFacts DEF IInv, WalkInv, WalkAt, From
<1>5. OrderAt(t)'
  <2>1. pos[t] <= Len(From(t)) + 1 /\ data[t] = Stretch(t, NextOf(t))
    BY <1>1, <1>3 DEF OrderInv, OrderAt
  <2>2. pos[t] = Len(From(t)) + 1
    <3>1. pos[t] \in Nat
      BY <1>1 DEF TypeOK
    <3>2. QED
      BY <1>1, <1>4, <2>1, <3>1
  <2>3. NextOf(t) = End(t)
    BY <1>3, <1>4, <2>2, BlockFacts DEF NextOf, End
  <2>4. Stretch(t, End(t))' = Stretch(t, End(t))
    BY <1>1 DEF Stretch, End, Lim
  <2>5. QED
    BY <1>1, <2>1, <2>3, <2>4 DEF OrderAt
<1>6. QED
  BY <1>1, <1>2, <1>3, <1>5, OthersOrder

\* A step that leaves all results alone and ends no thread's work
LEMMA IdleOrder ==
    ASSUME IInv, OrderInv, [Next]_vars, task_' = task_, task_ # NoTask,
           task_.op = "reduce", data' = data, ran' = ran, outgoing' = outgoing,
           \A u \in Threads :
               pc'[u] = "wait" =>
                   pc[u] = "wait" /\ pos'[u] = pos[u] /\ limit'[u] = limit[u]
    PROVE  \A u \in Threads : u < Lim => OrderAt(u)'
<1>1. SUFFICES ASSUME NEW u \in Threads, u < Lim
               PROVE  OrderAt(u)'
  OBVIOUS
<1>2. OrderAt(u)
  BY <1>1 DEF OrderInv
<1>3. Answered(u)' => Answered(u)
  BY NotifiedAnswered DEF Answered
<1>4. QED
  BY <1>1, <1>2, <1>3, OrderKept

LEMMA ThreadOrder ==
    ASSUME IInv, OrderInv, [Next]_vars, NEW t \in Threads, ThreadStep(t)
    PROVE  OrderInv'
<1>1. TypeOK /\ TypeOK'
  BY ThreadTypeOK DEF IInv
<1>2. ~ThreadFails(t)
  BY ThreadNeverFails
<1>3. UNCHANGED mainVars /\ failed' = failed
  BY <1>2 DEF ThreadStep, TaskWait, NotifySubthread, Execute, WaitForSubthread,
              Signal, BeginJoin, JoinSubthread, Exit, mainVars
<1>4. /\ (Returned' => Returned) /\ task_' = task_ /\ last' = last
      /\ result' = result /\ mainPc' = mainPc /\ Lim' = Lim
  BY <1>3 DEF mainVars, Returned, Lim
<1>5. ASSUME task_ # NoTask, task_.op = "reduce"
      PROVE  \A u \in Threads : u < Lim => OrderAt(u)'
  <2>1. CASE Execute(t) \/ WaitForSubthread(t) \/ Signal(t)
    BY <1>1, <1>5, <2>1, ExecuteOrder, WaitForSubthreadOrder, SignalOrder
  <2>2. CASE \/ TaskWait(t) \/ NotifySubthread(t) \/ BeginJoin(t)
             \/ JoinSubthread(t) \/ Exit(t)
    <3>1. data' = data /\ ran' = ran /\ outgoing' = outgoing
      BY <2>2 DEF TaskWait, NotifySubthread, BeginJoin, JoinSubthread, Exit, signals
    <3>2. /\ pc'[t] # "wait"
          /\ \A u \in Threads : u # t =>
                pc'[u] = pc[u] /\ pos'[u] = pos[u] /\ limit'[u] = limit[u]
      <4>1. CASE TaskWait(t)
        BY <1>1, <4>1 DEF TypeOK, TaskWait, BeginWalk, Goto
      <4>2. CASE NotifySubthread(t) \/ JoinSubthread(t)
        BY <1>1, <4>2 DEF TypeOK, NotifySubthread, JoinSubthread
      <4>3. CASE BeginJoin(t) \/ Exit(t)
        BY <1>1, <4>3 DEF TypeOK, BeginJoin, Exit, BeginWalk, Goto, locals
      <4>4. QED
        BY <2>2, <4>1, <4>2, <4>3
    <3>3. QED
      BY <1>4, <1>5, <3>1, <3>2, IdleOrder
  <2>3. QED
    BY <1>2, <2>1, <2>2 DEF ThreadStep
<1>6. ASSUME task_ # NoTask, task_.op # "reduce"
      PROVE  data' = data
  BY <1>2, <1>6 DEF ThreadStep, TaskWait, NotifySubthread, Execute, WaitForSubthread,
                    Signal, BeginJoin, JoinSubthread, Exit
<1>7. QED
  BY <1>3, <1>4, <1>5, <1>6 DEF OrderInv

LEMMA SubmitOrder ==
    ASSUME IInv, mainPc = "idle", failed = "none", NEW task \in Task,
           Submit(task) \/ SubmitNothing(task)
    PROVE  OrderInv'
<1>1. CASE Submit(task)
  <2>1. /\ data' = [t \in Threads |-> << >>] /\ pc' = pc /\ failed' = "none"
        /\ mainPc' \in {"notify", "wake"}
    BY <1>1 DEF Submit
  <2>2. ASSUME NEW t \in Threads
        PROVE  OrderAt(t)' /\ data'[t] = << >>
    <3>1. pc[t] \in {"none", "task_wait"}
      BY AsleepFacts
    <3>2. QED
      BY <2>1, <3>1 DEF OrderAt
  <2>3. ~Returned'
    BY <2>1 DEF Returned
  <2>4. QED
    BY <2>1, <2>2, <2>3 DEF OrderInv
<1>2. CASE SubmitNothing(task)
  <2>1. /\ task_' = NoTask /\ failed' = "none" /\ last' = task /\ result' = << >>
    BY <1>2 DEF SubmitNothing, IInv, MainInv
  <2>2. task.op # "reduce"
    BY <1>2 DEF SubmitNothing, Submits, HaveWork
  <2>3. QED
    BY <2>1, <2>2 DEF OrderInv
<1>3. QED
  BY <1>1, <1>2

\* transform_reduce takes the result of thread 0, whose block is all threads.
LEMMA ReturnOrder ==
    ASSUME IInv, OrderInv, Return, failed = "none"
    PROVE  /\ OrderInv'
           /\ result' = IF last.op = "reduce" THEN Stretch(0, last.concurrency)
                                              ELSE << >>
<1>1. /\ mainPc = "release" /\ task_' = NoTask /\ result' = data[0] /\ last' = last
      /\ failed' = "none" /\ (task_.op = "reduce" => data[0] # << >>)
  BY DEF Return
<1>2. task_ # NoTask /\ last = task_ /\ Lim \in 1 .. NumThreads /\ task_ \in Task
  BY <1>1, ReduceFacts DEF IInv, MainInv
<1>3. Done(0) /\ 0 < Lim
  BY <1>1, <1>2 DEF IInv, PhaseInv
<1>4. CASE task_.op = "reduce"
  <2>1. data[0] = Stretch(0, End(0))
    BY <1>1, <1>2, <1>3, <1>4, ThreadZero DEF OrderInv, OrderAt
  <2>2. End(0) = task_.concurrency
    BY <1>2, <1>3, <1>4, ThreadZero, BlockFacts, ReduceFacts DEF End
  <2>3. QED
    BY <1>1, <1>2, <1>4, <2>1, <2>2 DEF OrderInv
<1>5. CASE task_.op # "reduce"
  BY <1>1, <1>2, <1>5, ThreadZero DEF OrderInv
<1>6. QED
  BY <1>4, <1>5

LEMMA MainOrder ==
    ASSUME IInv, OrderInv, [Next]_vars, failed = "none", MainStep
    PROVE  OrderInv'
<1>1. TypeOK
  BY DEF IInv
<1>2. CASE Return
  BY <1>2, ReturnOrder
<1>3. CASE CreateFails
  <2>1. UNCHANGED <<mainVars, signals, pc, locals, ran, data>> /\ mainPc = "create"
    BY <1>3 DEF CreateFails, Fail
  <2>2. ~Returned' /\ task_' = task_ /\ data' = data /\ mainPc' = "create"
    BY <2>1 DEF Returned, mainVars
  <2>3. ASSUME task_ # NoTask, task_.op = "reduce"
        PROVE  (\A u \in Threads : u < Lim => OrderAt(u)') /\ Lim' = Lim
    BY <2>1, <2>2, <2>3, IdleOrder DEF signals, locals, Lim
  <2>4. QED
    BY <2>2, <2>3 DEF OrderInv
<1>4. CASE WakeAll \/ CreateThread \/ StoreHandle \/ NotifyRoot \/ AwaitRoot \/ JoinRoot
  <2>1. /\ data' = data /\ ran' = ran /\ outgoing' = outgoing /\ pos' = pos
        /\ limit' = limit /\ task_' = task_ /\ failed' = failed
        /\ mainPc' \notin {"idle", "freed"}
    BY <1>4 DEF WakeAll, CreateThread, StoreHandle, NotifyRoot, AwaitRoot, JoinRoot,
                signals, locals
  <2>2. \A u \in Threads : pc'[u] = "wait" => pc[u] = "wait"
    BY <1>1, <1>4 DEF TypeOK, WakeAll, CreateThread, StoreHandle, NotifyRoot,
                      AwaitRoot, JoinRoot
  <2>3. ASSUME task_ # NoTask, task_.op = "reduce"
        PROVE  (\A u \in Threads : u < Lim => OrderAt(u)') /\ Lim' = Lim
    BY <2>1, <2>2, <2>3, IdleOrder DEF Lim
  <2>4. ~Returned'
    BY <2>1 DEF Returned
  <2>5. QED
    BY <2>1, <2>3, <2>4 DEF OrderInv
<1>5. QED
  BY <1>2, <1>3, <1>4, MainNeverFails DEF MainStep

LEMMA NextOrderInv == IInv /\ OrderInv /\ [Next]_vars => OrderInv'
<1>1. SUFFICES ASSUME IInv, OrderInv, [Next]_vars
               PROVE  OrderInv'
  OBVIOUS
<1>2. CASE failed = "none" /\ Call
  <2>1. PICK task \in Task : Submit(task) \/ SubmitNothing(task)
    BY <1>2, CallFacts DEF Call
  <2>2. mainPc = "idle"
    BY <2>1 DEF Submit, SubmitNothing
  <2>3. QED
    BY <1>1, <1>2, <2>1, <2>2, SubmitOrder
<1>3. CASE failed = "none" /\ MainStep
  BY <1>1, <1>3, MainOrder
<1>4. CASE \E t \in Threads : ThreadStep(t)
  BY <1>1, <1>4, ThreadOrder
<1>5. CASE UNCHANGED vars
  BY <1>1, <1>5
     DEF vars, mainVars, signals, locals, OrderInv, OrderAt, Returned, Stretch, NextOf,
         End, Lim, From, Done, Share, Answered
<1>6. QED
  BY <1>1, <1>2, <1>3, <1>4, <1>5 DEF Next, Stopped

\* Results follow the order of the threads throughout.
THEOREM Ordered == Spec => []MergingInv
<1>1. Init => OrderInv
  BY DEF Init, OrderInv, Returned
<1>2. Spec => []OrderInv
  BY <1>1, NextOrderInv, Inductive, PTL DEF Spec
<1>3. IInv /\ OrderInv => MergingInv
  BY DEF MergingInv
<1>4. QED
  BY <1>2, <1>3, Inductive, PTL

\* transform_reduce returns the values of all participating threads in the
\* order of their indices, in whatever order the threads finish.
THEOREM OrderedResult == Spec => []ResultInOrder
<1>1. MergingInv => ResultInOrder
  <2>1. SUFFICES ASSUME IInv, OrderInv, Returned, last.op = "reduce"
                 PROVE  result = [k \in 1 .. last.concurrency |-> k - 1]
    BY DEF ResultInOrder, MergingInv
  <2>2. last.concurrency \in Nat
    BY <2>1, TaskFacts DEF IInv, TypeOK
  <2>3. result = Stretch(0, last.concurrency)
    BY <2>1 DEF OrderInv
  <2>4. QED
    BY <2>2, <2>3 DEF Stretch
<1>2. QED
  BY <1>1, Ordered, PTL

-----------------------------------------------------------------------------
(* The squad implements the fork-join service                                *)

\* What a client sees of the squad's state
LEMMA PhaseSeen ==
    ASSUME IInv, OrderInv
    PROVE  /\ failed \in {"none", "pthread_create"}
           /\ failed = "pthread_create" =>
                 AbstractPhase = "terminated" /\ mainPc = "create"
           /\ failed = "none" /\ mainPc = "freed" => AbstractPhase = "freed"
           /\ failed = "none" /\ mainPc = "idle" =>
                 AbstractPhase = IF IsRunning THEN "used" ELSE "new"
           /\ failed = "none" /\ mainPc \notin {"idle", "freed"} =>
                 AbstractPhase = "running"
<1>1. failed \in {"none", "pthread_create"} /\ (failed # "none" => mainPc = "create")
  BY DEF IInv, NoContractViolation, OrderInv
<1>2. QED
  BY <1>1 DEF AbstractPhase

LEMMA SubmitImplements ==
    ASSUME IInv, OrderInv, IInv', OrderInv', mainPc = "idle", failed = "none",
           NEW task \in (IF IsRunning THEN LaterCalls ELSE FirstCalls) \cup {Destroy},
           Submit(task) \/ SubmitNothing(task)
    PROVE  Service!Next
<1> DEFINE calls == {k \in (IF IsRunning THEN LaterCalls ELSE FirstCalls) \cup {Destroy} :
                        k.concurrency # 0 \/ (k.join_requested /\ k.op # "reduce")}
<1>1. /\ last' = task /\ result' = << >> /\ ran' = [t \in Threads |-> 0]
      /\ failed' = "none" /\ Threads = Service!Indices
  BY DEF Submit, SubmitNothing, Service!Indices, Threads
<1>2. task \in calls
  BY DEF Submit, SubmitNothing, Submits, HaveWork
<1>3. AbstractPhase = IF IsRunning THEN "used" ELSE "new"
  BY PhaseSeen
<1>4. AbstractPhase' = IF AbstractPhase = "new" /\ task.concurrency = 0
                         THEN "freed" ELSE "running"
  <2>1. CASE Submit(task)
    <3>1. mainPc' \notin {"idle", "freed"} /\ (task.concurrency # 0 \/ IsRunning)
      BY <2>1 DEF Submit, HaveWork
    <3>2. AbstractPhase' = "running"
      BY <1>1, <3>1 DEF AbstractPhase
    <3>3. QED
      BY <1>3, <3>1, <3>2
  <2>2. CASE SubmitNothing(task)
    <3>1. mainPc' = "freed" /\ task.concurrency = 0 /\ ~IsRunning
      BY <2>2 DEF SubmitNothing, HaveWork
    <3>2. AbstractPhase' = "freed"
      BY <1>1, <3>1 DEF AbstractPhase
    <3>3. QED
      BY <1>3, <3>1, <3>2
  <2>3. QED
    BY <2>1, <2>2
<1>5. Service!Begin(calls)
  BY <1>1, <1>2, <1>4 DEF Service!Begin
<1>6. CASE IsRunning
  BY <1>3, <1>5, <1>6 DEF Service!BeginLater, Service!Next
<1>7. CASE ~IsRunning
  BY <1>3, <1>5, <1>7 DEF Service!BeginFirst, Service!Next
<1>8. QED
  BY <1>6, <1>7

LEMMA ReturnImplements ==
    ASSUME IInv, OrderInv, IInv', OrderInv', failed = "none", Return
    PROVE  Service!Next
<1>1. /\ mainPc = "release" /\ failed' = "none" /\ last' = last /\ ran' = ran
      /\ handle' = handle
      /\ mainPc' = IF task_.join_requested THEN "freed" ELSE "idle"
  BY DEF Return
<1>2. result' = IF last.op = "reduce" THEN [k \in 1 .. last.concurrency |-> k - 1]
                                      ELSE << >>
  <2>1. last.concurrency \in Nat
    BY TaskFacts DEF IInv, TypeOK
  <2>2. QED
    BY <2>1, ReturnOrder DEF Stretch
<1>3. task_ # NoTask /\ last = task_ /\ forked = NumThreads /\ Done(0)
  BY <1>1 DEF IInv, MainInv, PhaseInv
<1>4. AbstractPhase = "running"
  BY <1>1, PhaseSeen
<1>5. AbstractPhase' = IF last.join_requested THEN "freed" ELSE "used"
  <2>1. ~task_.join_requested => IsRunning
    BY <1>1, <1>3, NumThreadsAssumption DEF IInv, CreatedInv, IsRunning
  <2>2. QED
    BY <1>1, <1>3, <2>1 DEF AbstractPhase, IsRunning
<1>6. ASSUME NEW t \in Threads, t < last.concurrency
      PROVE  ran[t] = 1
  <2>1. t < Lim
    <3>1. Lim \in 1 .. NumThreads /\ task_ \in Task /\ t \in 0 .. NumThreads - 1
      BY <1>3, ReduceFacts, NumThreadsAssumption DEF Threads
    <3>2. task_.join_requested => Lim = NumThreads
      BY <1>3 DEF Lim, NumThreadsForTask
    <3>3. ~task_.join_requested => Lim = task_.concurrency
      BY <1>3 DEF Lim, NumThreadsForTask
    <3>4. CASE task_.join_requested
      BY <3>1, <3>2, <3>4, NumThreadsAssumption
    <3>5. CASE ~task_.join_requested
      BY <1>3, <1>6, <3>3, <3>5
    <3>6. QED
      BY <3>4, <3>5
  <2>2. Done(t)
    BY <1>1, <1>3, <2>1, AllDone
  <2>3. QED
    BY <1>3, <1>6, <2>2 DEF Done, Share
<1>7. Threads = Service!Indices
  BY DEF Service!Indices, Threads
<1>8. QED
  BY <1>1, <1>2, <1>4, <1>5, <1>6, <1>7 DEF Service!Finish, Service!Next

LEMMA ExecuteImplements ==
    ASSUME IInv, OrderInv, IInv', OrderInv', failed = "none",
           NEW t \in Threads, Execute(t)
    PROVE  [Service!Next]_Service!vars
<1>1. /\ mainPc' = mainPc /\ last' = last /\ result' = result /\ failed' = "none"
      /\ pc[t] \in {"notify", "execute"}
  BY DEF Execute, ReadyToExecute, mainVars
<1>2. mainPc \notin {"idle", "freed"} /\ task_ # NoTask /\ Busy(t)
  BY <1>1, BusyFacts
<1>3. AbstractPhase = "running" /\ AbstractPhase' = "running"
  BY <1>1, <1>2 DEF AbstractPhase
<1>4. CASE t < task_.concurrency
  <2>1. last = task_
    BY <1>2, ReduceFacts
  <2>2. ran[t] = 0 /\ ran' = [ran EXCEPT ![t] = 1]
    BY <1>1, <1>2, <1>4 DEF Execute, Participates, Busy
  <2>3. Service!Execute(t)
    BY <1>1, <1>3, <1>4, <2>1, <2>2 DEF Service!Execute
  <2>4. Threads = Service!Indices
    BY DEF Service!Indices, Threads
  <2>5. QED
    BY <2>3, <2>4 DEF Service!Next
<1>5. CASE ~(t < task_.concurrency)
  <2>1. ran' = ran
    BY <1>5 DEF Execute, Participates
  <2>2. QED
    BY <1>1, <1>3, <2>1 DEF Service!vars
<1>6. QED
  BY <1>4, <1>5

LEMMA ThreadImplements ==
    ASSUME IInv, OrderInv, IInv', OrderInv', failed = "none",
           NEW t \in Threads, ThreadStep(t)
    PROVE  [Service!Next]_Service!vars
<1>1. ~ThreadFails(t)
  BY ThreadNeverFails
<1>2. CASE Execute(t)
  BY <1>2, ExecuteImplements
<1>3. CASE \/ TaskWait(t) \/ NotifySubthread(t) \/ WaitForSubthread(t) \/ Signal(t)
           \/ BeginJoin(t) \/ JoinSubthread(t) \/ Exit(t)
  <2>1. UNCHANGED <<mainPc, last, result, ran, failed>>
    BY <1>3 DEF TaskWait, NotifySubthread, WaitForSubthread, Signal, BeginJoin,
                JoinSubthread, Exit, mainVars
  <2>2. mainPc = "idle" => handle' = handle
    <3>1. mainPc = "idle" => pc[t] \in {"none", "task_wait"}
      BY DEF IInv, QuietInv
    <3>2. QED
      BY <1>3, <3>1 DEF TaskWait, NotifySubthread, WaitForSubthread, Signal, BeginJoin,
                        JoinSubthread, Exit
  <2>3. AbstractPhase' = AbstractPhase
    BY <2>1, <2>2, PhaseSeen DEF AbstractPhase, IsRunning
  <2>4. QED
    BY <2>1, <2>3 DEF Service!vars
<1>4. QED
  BY <1>1, <1>2, <1>3 DEF ThreadStep

LEMMA MainImplements ==
    ASSUME IInv, OrderInv, IInv', OrderInv', failed = "none", MainStep
    PROVE  [Service!Next]_Service!vars
<1>1. CASE Return
  BY <1>1, ReturnImplements
<1>2. CASE CreateFails
  <2>1. /\ mainPc = "create" /\ failed' = "pthread_create" /\ mainPc' = "create"
        /\ last' = last /\ result' = result /\ ran' = ran
    BY <1>2 DEF CreateFails, Fail, mainVars
  <2>2. AbstractPhase = "running"
    BY <2>1, PhaseSeen
  <2>3. AbstractPhase' = "terminated"
    BY <2>1 DEF AbstractPhase
  <2>4. QED
    BY <2>1, <2>2, <2>3 DEF Service!Terminate, Service!Next
<1>3. CASE WakeAll \/ CreateThread \/ StoreHandle \/ NotifyRoot \/ AwaitRoot \/ JoinRoot
  <2>1. /\ mainPc \notin {"idle", "freed"} /\ mainPc' \notin {"idle", "freed"}
        /\ last' = last /\ result' = result /\ ran' = ran /\ failed' = failed
    BY <1>3 DEF WakeAll, CreateThread, StoreHandle, NotifyRoot, AwaitRoot, JoinRoot
  <2>2. AbstractPhase = "running" /\ AbstractPhase' = "running"
    BY <2>1 DEF AbstractPhase
  <2>3. QED
    BY <2>1, <2>2 DEF Service!vars
<1>4. QED
  BY <1>1, <1>2, <1>3, MainNeverFails DEF MainStep

\* The squad implements the fork-join service, its progress aside: whatever the
\* threads do, a client that uses the squad carefully sees a call begin, every
\* index executed once, and the call return with the result, and nothing else.
THEOREM SafeForkJoin == Spec => Service!Init /\ [][Service!Next]_Service!vars
<1>1. Init => Service!Init
  BY ThreadZero DEF Init, Service!Init, AbstractPhase, IsRunning, Service!Indices,
                    Threads
<1>2. IInv /\ OrderInv /\ IInv' /\ OrderInv' /\ [Next]_vars => [Service!Next]_Service!vars
  <2>1. SUFFICES ASSUME IInv, OrderInv, IInv', OrderInv', [Next]_vars
                 PROVE  [Service!Next]_Service!vars
    OBVIOUS
  <2>2. CASE failed = "none" /\ Call
    <3>1. mainPc = "idle"
      BY <2>2 DEF Call, Submit, SubmitNothing
    <3>2. QED
      BY <2>1, <2>2, <3>1, SubmitImplements DEF Call
  <2>3. CASE failed = "none" /\ MainStep
    BY <2>1, <2>3, MainImplements
  <2>4. CASE failed = "none" /\ \E t \in Threads : ThreadStep(t)
    BY <2>1, <2>4, ThreadImplements
  <2>5. CASE UNCHANGED vars
    BY <2>5 DEF vars, mainVars, Service!vars, AbstractPhase, IsRunning
  <2>6. QED
    BY <2>1, <2>2, <2>3, <2>4, <2>5 DEF Next, Stopped
<1>3. MergingInv => IInv /\ OrderInv
  BY DEF MergingInv
<1>4. QED
  BY <1>1, <1>2, <1>3, Ordered, PTL DEF Spec

=============================================================================
