-------------------------- MODULE SquadBarrierProofs --------------------------
(*****************************************************************************)
(* Proofs about the synchronization points, for every number of threads and  *)
(* every set of tasks.                                                       *)
(*****************************************************************************)
EXTENDS SquadBarrier, SquadLayoutProofs

-----------------------------------------------------------------------------
(* The values that are merged                                                *)

LEMMA MergedOne ==
    ASSUME NEW t \in Nat, NEW r \in Nat
    PROVE  Merged(t, t + 1, r) = <<[thread |-> t, round |-> r]>>
<1> DEFINE one == <<[thread |-> t, round |-> r]>>
           merged == Merged(t, t + 1, r)
<1>1. merged = [k \in 1 .. 1 |-> [thread |-> t + k - 1, round |-> r]]
  BY DEF Merged
<1>2. merged[1] = one[1] /\ one = [k \in 1 .. 1 |-> one[1]]
  BY <1>1
<1>3. merged = [k \in 1 .. 1 |-> one[1]]
  BY <1>1, <1>2
<1>4. QED
  BY <1>2, <1>3

\* Neighbouring stretches of values join to one.
LEMMA MergedJoin ==
    ASSUME NEW a \in Nat, NEW b \in Nat, NEW c \in Nat, NEW r \in Nat,
           a <= b, b <= c
    PROVE  Merged(a, b, r) \o Merged(b, c, r) = Merged(a, c, r)
<1> DEFINE left == Merged(a, b, r)
           right == Merged(b, c, r)
           V == [thread : Nat, round : Nat]
<1>1. /\ left \in Seq(V) /\ Len(left) = b - a
      /\ \A k \in 1 .. b - a : left[k] = [thread |-> a + k - 1, round |-> r]
  BY DEF Merged
<1>2. /\ right \in Seq(V) /\ Len(right) = c - b
      /\ \A k \in 1 .. c - b : right[k] = [thread |-> b + k - 1, round |-> r]
  BY DEF Merged
<1> HIDE DEF left, right, V
<1>3. left \o right \in Seq(V) /\ Len(left \o right) = c - a
  BY <1>1, <1>2
<1>4. ASSUME NEW k \in 1 .. c - a
      PROVE  (left \o right)[k] = [thread |-> a + k - 1, round |-> r]
  <2>1. CASE k <= b - a
    <3>1. k \in 1 .. b - a
      BY <2>1
    <3>2. (left \o right)[k] = left[k]
      BY <1>1, <1>2, <3>1
    <3>3. QED
      BY <1>1, <3>1, <3>2
  <2>2. CASE k > b - a
    <3>1. k - (b - a) \in 1 .. c - b
      BY <2>2
    <3>2. (left \o right)[k] = right[k - (b - a)]
      BY SMTT(20), <1>1, <1>2, <2>2
    <3>3. b + (k - (b - a)) - 1 = a + k - 1
      OBVIOUS
    <3>4. QED
      BY <1>2, <3>1, <3>2, <3>3
  <2>3. k <= b - a \/ k > b - a
    OBVIOUS
  <2>4. QED
    BY <2>1, <2>2, <2>3
<1>5. left \o right = [k \in 1 .. c - a |-> (left \o right)[k]]
  <2>1. \A s \in Seq(V) : s = [k \in 1 .. Len(s) |-> s[k]]
    OBVIOUS
  <2>2. QED
    BY <1>3, <2>1, Zenon
<1>6. left \o right = [k \in 1 .. c - a |-> [thread |-> a + k - 1, round |-> r]]
  BY <1>4, <1>5, Zenon
<1>7. QED
  BY <1>6 DEF Merged, left, right

-----------------------------------------------------------------------------
(* What the invariant says of the threads' positions                         *)

\* The walks of this task, and the operation that a thread is in.
LEMMA WalksNow ==
    ASSUME TypeOK, NEW t \in Threads
    PROVE  /\ To(t) \in Seq(Threads) /\ From(t) \in Seq(Threads)
           /\ \A k \in 1 .. Len(To(t)) : To(t)[k] \in Kids(t) /\ To(t)[k] < size
           /\ \A k \in 1 .. Len(From(t)) : From(t)[k] \in Kids(t) /\ From(t)[k] < size
           /\ \A j \in Kids(t) : j < size =>
                 /\ \E k \in 1 .. Len(To(t)) : To(t)[k] = j
                 /\ \E k \in 1 .. Len(From(t)) : From(t)[k] = j
           /\ \A k, l \in 1 .. Len(To(t)) : To(t)[k] = To(t)[l] => k = l
           /\ Kids(t) \subseteq Threads
           /\ Len(To(t)) \in Nat /\ Len(From(t)) \in Nat
<1>1. size \in 0 .. NumThreads
  BY DEF TypeOK
<1>2. To(t) = ToWalk[t][size] /\ From(t) = FromWalk[t][size]
  BY DEF To, From
<1>3. To(t) \in Seq(Threads) /\ From(t) \in Seq(Threads)
  BY <1>1, <1>2, WalkFacts
<1>4. Len(To(t)) \in Nat /\ Len(From(t)) \in Nat
  BY <1>3
<1>5. Kids(t) \subseteq Threads
  BY KidFacts
<1>6. QED
  BY <1>1, <1>2, <1>3, <1>4, <1>5, WalkFacts

\* A thread that has arrived waits and has not been released.
LEMMA ArrivedWaits ==
    ASSUME TypeOK, SenseInv, NEW j \in Threads
    PROVE  Arrived(j) <=> pc[j] = "await" /\ ~Released(j)
  BY DEF TypeOK, SenseInv, Arrived, Released

\* A subordinate that has been collected waits at the same point.
LEMMA CollectedWaits ==
    ASSUME IInv, NEW t \in Threads, NEW j \in Kids(t), j < size, CollectedBy(t, j)
    PROVE  /\ j \in Threads /\ j # t
           /\ Arrived(j) /\ pc[j] = "await" /\ ~Released(j)
           /\ round[j] = round[t]
<1>1. j \in Threads /\ j # t
  BY KidFacts
<1>2. TreeAt(t, j) /\ TypeOK /\ SenseInv
  BY DEF IInv, TreeInv
<1>3. Arrived(j) /\ pc[j] = "await" /\ ~Released(j)
  BY <1>1, <1>2, ArrivedWaits DEF TreeAt
<1>4. ~ReleasedBy(t, j)
  BY DEF CollectedBy, ReleasedBy
<1>5. ReleasedFrom(j) = round[j]
  BY <1>3 DEF ReleasedFrom
<1>6. QED
  BY <1>1, <1>2, <1>3, <1>4, <1>5 DEF TreeAt

\* So does one that is about to get the result.
LEMMA NextToRelease ==
    ASSUME IInv, NEW t \in Threads, pc[t] \in {"broadcast", "release"},
           pos[t] <= Len(To(t))
    PROVE  LET j == To(t)[pos[t]]
           IN  /\ pos[t] \in 1 .. Len(To(t))
               /\ j \in Kids(t) /\ j < size /\ j \in Threads /\ j # t
               /\ ~ReleasedBy(t, j)
               /\ Arrived(j) /\ pc[j] = "await" /\ ~Released(j)
               /\ round[j] = round[t]
<1> DEFINE j == To(t)[pos[t]]
<1>1. TypeOK
  BY DEF IInv
<1>2. pos[t] \in 1 .. Len(To(t))
  BY <1>1, WalksNow DEF TypeOK
<1>3. j \in Kids(t) /\ j < size
  BY <1>1, <1>2, WalksNow
<1>4. ~ReleasedBy(t, j)
  <2>1. SUFFICES ASSUME NEW k \in 1 .. Len(To(t)), k < pos[t], To(t)[k] = j
                 PROVE  FALSE
    BY DEF ReleasedBy
  <2>2. k = pos[t]
    BY <1>1, <1>2, <2>1, WalksNow
  <2>3. QED
    BY <1>1, <2>1, <2>2, WalksNow DEF TypeOK
<1>5. CollectedBy(t, j)
  BY <1>4 DEF CollectedBy
<1> HIDE DEF j
<1>6. QED
  BY <1>2, <1>3, <1>4, <1>5, CollectedWaits DEF j

\* A thread that has been handed the result has not been released yet.
LEMMA HandedWaits ==
    ASSUME IInv, NEW t \in Threads, Handed(t)
    PROVE  t < size /\ Arrived(t) /\ pc[t] = "await" /\ ~Released(t)
<1>1. PICK u \in Threads : pc[u] = "release" /\ To(u)[pos[u]] = t
  BY DEF Handed
<1>2. pos[u] <= Len(To(u))
  BY <1>1 DEF IInv, PointInv
<1>3. QED
  BY <1>1, <1>2, NextToRelease

LEMMA PlanFacts ==
    ASSUME TypeOK
    PROVE  plan \in Seq(Operations) /\ Len(plan) \in Nat /\ size \in 0 .. NumThreads
<1>1. << >> \in Seq(Operations)
  OBVIOUS
<1>2. plan \in Seq(Operations)
  BY <1>1, PlansAssumption, Zenon DEF TypeOK
<1>3. QED
  BY <1>2 DEF TypeOK

\* The operation is one of the plan.
LEMMA OperationFacts ==
    ASSUME TypeOK, PointInv, NEW t \in Threads, pc[t] # "compute"
    PROVE  /\ plan \in Seq(Operations) /\ size \in 1 .. NumThreads /\ t < size
           /\ round[t] \in Nat /\ round[t] + 1 \in 1 .. Len(plan)
  BY PlanFacts, NumThreadsAssumption DEF TypeOK, PointInv, Threads

-----------------------------------------------------------------------------
(* Types                                                                     *)

LEMMA InitTypeOK == Init => TypeOK
  BY NumThreadsAssumption DEF Init, TypeOK, Labels, Values

LEMMA BeginTypeOK ==
    ASSUME TypeOK, BeginTask
    PROVE  TypeOK'
<1>1. size' \in 0 .. NumThreads /\ plan' \in Plans \cup {<< >>}
  BY NumThreadsAssumption DEF BeginTask
<1>2. round' \in [Threads -> Nat] /\ got' \in [Threads -> Values]
  BY DEF BeginTask, Values
<1>3. QED
  BY <1>1, <1>2 DEF TypeOK, BeginTask, senses

LEMMA StepTypeOK ==
    ASSUME TypeOK, PointInv, NEW t \in Threads, Step(t)
    PROVE  TypeOK'
<1> USE DEF Goto, task, senses, Labels
<1>1. CASE Enter(t)
  <2>1. Contribution(t) \in Values /\ << >> \in Values
    BY DEF TypeOK, Contribution, Values
  <2>2. value' \in [Threads -> Values]
    BY <1>1, <2>1 DEF TypeOK, Enter
  <2>3. QED
    BY <1>1, <2>2 DEF TypeOK, Enter
<1>2. CASE CollectFromThread(t)
  <2> DEFINE j == From(t)[pos[t]]
  <2>1. j \in Threads
    BY <1>2, WalksNow DEF TypeOK, CollectFromThread
  <2>2. value[t] \o value[j] \in Values
    <3>1. value[t] \in Values /\ value[j] \in Values
      BY <2>1 DEF TypeOK
    <3>2. ASSUME NEW S, NEW a \in Seq(S), NEW b \in Seq(S)
          PROVE  a \o b \in Seq(S)
      OBVIOUS
    <3>3. QED
      BY <3>1, <3>2 DEF Values
  <2>3. value' \in [Threads -> Values]
    BY <1>2, <2>2 DEF TypeOK, CollectFromThread
  <2>4. QED
    BY <1>2, <2>3 DEF TypeOK, CollectFromThread
<1>3. CASE Publish(t)
  <2>1. (Operation(t) = "reduce") \in BOOLEAN
    OBVIOUS
  <2>2. syncData' \in [Threads -> BOOLEAN]
    BY <1>3, <2>1 DEF TypeOK, Publish
  <2>3. QED
    BY <1>3, <2>2 DEF TypeOK, Publish
<1>4. CASE SignalUpward(t)
  BY <1>4, ToggledFacts DEF TypeOK, SignalUpward
<1>5. CASE AwaitDownward(t)
  BY <1>5 DEF TypeOK, AwaitDownward
<1>6. CASE TurnAround(t)
  BY <1>6 DEF TypeOK, TurnAround
<1>7. CASE BroadcastToThread(t)
  <2>1. value' \in [Threads -> Values]
    BY <1>7 DEF TypeOK, BroadcastToThread
  <2>2. QED
    BY <1>7, <2>1 DEF TypeOK, BroadcastToThread
<1>8. CASE SignalDownward(t)
  <2>1. To(t)[pos[t]] \in Threads
    BY <1>8, WalksNow DEF TypeOK, SignalDownward, PointInv
  <2>2. downward' \in [Threads -> {0, 1}]
    BY <1>8, <2>1, ToggledFacts DEF TypeOK, SignalDownward
  <2>3. QED
    BY <1>8, <2>2 DEF TypeOK, SignalDownward
<1>9. CASE Leave(t)
  <2>1. << >> \in Values
    BY DEF Values
  <2>2. QED
    BY <1>9, <2>1 DEF TypeOK, Leave
<1>10. QED
  BY <1>1, <1>2, <1>3, <1>4, <1>5, <1>6, <1>7, <1>8, <1>9 DEF Step

-----------------------------------------------------------------------------
(* What a step of one thread leaves alone                                    *)

Keeps(u) ==
    /\ pc'[u] = pc[u] /\ pos'[u] = pos[u] /\ round'[u] = round[u]
    /\ upward'[u] = upward[u] /\ downward'[u] = downward[u]
    /\ oldValue'[u] = oldValue[u] /\ syncData'[u] = syncData[u]

OthersKeep(t) == UNCHANGED task /\ \A u \in Threads : u # t => Keeps(u)

\* The conjuncts about one thread
LEMMA LocalFrame ==
    ASSUME IInv, NEW t \in Threads, OthersKeep(t)
    PROVE  /\ (/\ pc'[t] # "compute" => t < size /\ round'[t] < Len(plan)
               /\ t < size => round'[t] <= Len(plan)
               /\ pc'[t] = "collect" => pos'[t] <= Len(From(t)) + 1
               /\ pc'[t] = "release" => pos'[t] <= Len(To(t))
               /\ pc'[t] \in {"publish", "await"} => t > 0) => PointInv'
           /\ (IF pc'[t] = "await" THEN oldValue'[t] = 1 - upward'[t]
                                   ELSE upward'[t] = downward'[t]) => SenseInv'
           /\ (syncData'[t] <=>
                  pc'[t] \in {"publish", "await"} /\ plan[round'[t] + 1] = "reduce")
              => ExposedInv'
<1>1. \A u \in Threads : u # t => Keeps(u)
  BY DEF OthersKeep
<1>2. size' = size /\ plan' = plan
  BY DEF OthersKeep, task
<1>3. \A u \in Threads : To(u)' = To(u) /\ From(u)' = From(u)
  BY <1>2 DEF To, From
<1>4. PointInv /\ SenseInv /\ ExposedInv
  BY DEF IInv
<1>5. \A u \in Threads : Operation(u)' = plan[round'[u] + 1]
  BY <1>2 DEF Operation
<1>6. \A u \in Threads : u # t => Operation(u)' = Operation(u)
  BY <1>1, <1>2 DEF Operation, Keeps
<1>7. QED
  BY <1>1, <1>2, <1>3, <1>4, <1>5, <1>6 DEF Keeps, PointInv, SenseInv, ExposedInv

\* What others see of a thread, and what it sees of them
LEMMA SeenFrame ==
    ASSUME UNCHANGED task, NEW u \in Threads, Keeps(u)
    PROVE  /\ ReleasedFrom(u)' = ReleasedFrom(u)
           /\ Arrived(u)' <=> Arrived(u)
           /\ Released(u)' <=> Released(u)
           /\ \A j \in Threads : ReleasedBy(u, j)' <=> ReleasedBy(u, j)
           /\ \A j \in Threads : CollectedBy(u, j)' <=> CollectedBy(u, j)
           /\ NextOf(u)' = NextOf(u)
<1>1. To(u)' = To(u) /\ From(u)' = From(u) /\ \A i : End(i)' = End(i)
  BY DEF To, From, End, task
<1>2. Arrived(u)' <=> Arrived(u)
  BY DEF Arrived, Keeps
<1>3. Released(u)' <=> Released(u)
  BY DEF Released, Keeps
<1>4. \A j \in Threads : ReleasedBy(u, j)' <=> ReleasedBy(u, j)
  BY <1>1 DEF ReleasedBy, Keeps
<1>5. \A j \in Threads : CollectedBy(u, j)' <=> CollectedBy(u, j)
  BY <1>1, <1>4 DEF CollectedBy, Keeps
<1>6. ReleasedFrom(u)' = ReleasedFrom(u)
  BY <1>3 DEF ReleasedFrom, Keeps
<1>7. NextOf(u)' = NextOf(u)
  BY <1>1 DEF NextOf, Keeps
<1>8. QED
  BY <1>2, <1>3, <1>4, <1>5, <1>6, <1>7

\* The tree
LEMMA TreeFrame ==
    ASSUME IInv, NEW t \in Threads, OthersKeep(t),
           t # 0 => ReleasedFrom(t)' = ReleasedFrom(t), Arrived(t) => Arrived(t)',
           \A j \in Kids(t) : j < size =>
               /\ ReleasedFrom(j) = IF ReleasedBy(t, j)' THEN round'[t] + 1
                                                         ELSE round'[t]
               /\ CollectedBy(t, j)' => Arrived(j)
    PROVE  TreeInv'
<1>1. UNCHANGED task /\ size' = size
  BY DEF OthersKeep, task
<1>2. \A u \in Threads : u # t => Keeps(u)
  BY DEF OthersKeep
<1>3. \A u \in Threads :
         (u # 0 => ReleasedFrom(u)' = ReleasedFrom(u)) /\ (Arrived(u) => Arrived(u)')
  BY <1>1, <1>2, SeenFrame
<1>4. SUFFICES ASSUME NEW u \in Threads, NEW j \in Kids(u), j < size
               PROVE  TreeAt(u, j)'
  BY <1>1 DEF TreeInv
<1>5. j \in Threads /\ j # 0
  BY KidFacts
<1>6. CASE u = t
  <2>1. TreeAt(t, j)'
    BY <1>3, <1>4, <1>5, <1>6 DEF TreeAt
  <2>2. QED
    BY <1>6, <2>1
<1>7. CASE u # t
  <2>1. Keeps(u) /\ TreeAt(u, j)
    BY <1>2, <1>4, <1>7 DEF IInv, TreeInv
  <2>2. (ReleasedBy(u, j)' <=> ReleasedBy(u, j)) /\ (CollectedBy(u, j)' <=> CollectedBy(u, j))
    BY <1>1, <1>5, <2>1, SeenFrame
  <2>3. QED
    BY <1>3, <1>5, <2>1, <2>2 DEF TreeAt, Keeps
<1>8. QED
  BY <1>6, <1>7

\* The value of a thread that keeps it
LEMMA ValueAtFrame ==
    ASSUME UNCHANGED task, NEW u \in Threads, Keeps(u), value'[u] = value[u],
           Handed(u)' <=> Handed(u), ValueAt(u)
    PROVE  ValueAt(u)'
<1>1. size' = size /\ plan' = plan
  BY DEF task
<1>2. Operation(u)' = Operation(u) /\ End(u)' = End(u)
  BY <1>1 DEF Operation, End, Keeps
<1>3. NextOf(u)' = NextOf(u) /\ (Released(u)' <=> Released(u))
  BY SeenFrame
<1>4. HasResult(u)' <=> HasResult(u)
  BY <1>3 DEF HasResult, Keeps
<1>5. Merged(u, NextOf(u), round[u])' = Merged(u, NextOf(u), round[u])
  BY <1>3 DEF Merged, Keeps
<1>6. Merged(0, size, round[u])' = Merged(0, size, round[u])
  BY <1>1 DEF Merged, Keeps
<1>7. Merged(u, End(u), round[u])' = Merged(u, End(u), round[u])
  BY <1>2 DEF Merged, Keeps
<1>8. pc'[u] = pc[u]
  BY DEF Keeps
<1>9. QED
  BY <1>2, <1>4, <1>5, <1>6, <1>7, <1>8 DEF ValueAt

\* Nobody is handed anything unless a thread begins or ends to release another.
LEMMA HandedFrame ==
    ASSUME NEW t \in Threads, OthersKeep(t), pc[t] # "release", pc'[t] # "release",
           NEW u \in Threads
    PROVE  Handed(u)' <=> Handed(u)
<1>1. \A v \in Threads : v # t => pc'[v] = pc[v] /\ pos'[v] = pos[v]
  BY DEF OthersKeep, Keeps
<1>2. \A v \in Threads : To(v)' = To(v)
  BY DEF OthersKeep, task, To
<1>3. QED
  BY <1>1, <1>2 DEF Handed

LEMMA ValueFrame ==
    ASSUME IInv, NEW t \in Threads, OthersKeep(t), pc[t] # "release", pc'[t] # "release",
           \A u \in Threads : u # t => value'[u] = value[u],
           pc'[t] # "compute" => ValueAt(t)'
    PROVE  ValueInv'
<1>1. SUFFICES ASSUME NEW u \in Threads, u # t, pc'[u] # "compute"
               PROVE  ValueAt(u)'
  BY DEF ValueInv
<1>2. Keeps(u) /\ UNCHANGED task /\ value'[u] = value[u]
  BY <1>1 DEF OthersKeep
<1>3. ValueAt(u)
  BY <1>1, <1>2 DEF IInv, ValueInv, Keeps
<1>4. QED
  BY <1>2, <1>3, HandedFrame, ValueAtFrame

-----------------------------------------------------------------------------
(* One lemma per action                                                      *)

LEMMA EnterPreserves ==
    ASSUME IInv, NEW t \in Threads, Enter(t)
    PROVE  IInv'
<1>1. TypeOK /\ TypeOK' /\ PointInv
  BY StepTypeOK DEF IInv, Step
<1>2. OthersKeep(t)
  BY <1>1 DEF Enter, Goto, TypeOK, OthersKeep, Keeps, task, senses
<1>3. /\ pc[t] = "compute" /\ pc'[t] = "collect" /\ pos'[t] = 1
      /\ t < size /\ round[t] < Len(plan) /\ round' = round /\ plan' = plan
      /\ upward' = upward /\ downward' = downward /\ oldValue' = oldValue
      /\ syncData' = syncData
  BY <1>1 DEF Enter, Goto, TypeOK, Participants, task, senses
<1>4. PointInv'
  <2>1. pos'[t] <= Len(From(t)) + 1
    BY <1>1, <1>3, WalksNow
  <2>2. round'[t] \in Nat /\ Len(plan) \in Nat
    BY <1>1, PlanFacts DEF TypeOK
  <2>3. QED
    BY <1>2, <1>3, <2>1, <2>2, LocalFrame
<1>5. SenseInv'
  BY <1>2, <1>3, LocalFrame DEF IInv, SenseInv
<1>6. ExposedInv'
  BY <1>2, <1>3, LocalFrame DEF IInv, ExposedInv
<1>7. TreeInv'
  <2>1. ASSUME NEW j \in Kids(t), j < size
        PROVE  /\ ReleasedFrom(j) = IF ReleasedBy(t, j)' THEN round'[t] + 1
                                                         ELSE round'[t]
               /\ ~CollectedBy(t, j)'
    <3>1. TreeAt(t, j)
      BY <2>1 DEF IInv, TreeInv
    <3>2. ~ReleasedBy(t, j) /\ ~ReleasedBy(t, j)' /\ ~CollectedBy(t, j)'
      BY <1>3 DEF ReleasedBy, CollectedBy
    <3>3. QED
      BY <1>3, <3>1, <3>2 DEF TreeAt
  <2>2. ReleasedFrom(t)' = ReleasedFrom(t) /\ (Arrived(t) => Arrived(t)')
    BY <1>3 DEF ReleasedFrom, Arrived
  <2>3. QED
    BY <1>2, <2>1, <2>2, TreeFrame
<1>8. ValueInv'
  <2>1. NextOf(t)' = t + 1
    BY <1>3 DEF NextOf
  <2>2. t \in Nat /\ round[t] \in Nat
    BY <1>1 DEF TypeOK, Threads
  <2>3. Merged(t, NextOf(t), round[t])' = Contribution(t)
    BY <1>3, <2>1, <2>2, MergedOne DEF Contribution, Merged
  <2>4. value' = [value EXCEPT ![t] = IF Operation(t) = "reduce"
                                        THEN Contribution(t) ELSE << >>]
    BY DEF Enter
  <2>5. Operation(t)' = Operation(t)
    BY <1>3 DEF Operation
  <2>6. ValueAt(t)'
    BY <1>1, <1>3, <2>3, <2>4, <2>5 DEF ValueAt, TypeOK
  <2>7. \A u \in Threads : u # t => value'[u] = value[u]
    BY <1>1, <2>4 DEF TypeOK
  <2>8. QED
    BY <1>2, <1>3, <2>6, <2>7, ValueFrame
<1>9. QED
  BY <1>1, <1>4, <1>5, <1>6, <1>7, <1>8 DEF IInv

LEMMA CollectFromThreadPreserves ==
    ASSUME IInv, NEW t \in Threads, CollectFromThread(t)
    PROVE  IInv'
<1> DEFINE j == From(t)[pos[t]]
<1>1. TypeOK /\ TypeOK' /\ PointInv /\ SenseInv
  BY StepTypeOK DEF IInv, Step
<1>2. OthersKeep(t)
  BY <1>1 DEF CollectFromThread, TypeOK, OthersKeep, Keeps, task, senses
<1>3. /\ pc[t] = "collect" /\ pc' = pc /\ pos'[t] = pos[t] + 1
      /\ pos[t] \in 1 .. Len(From(t))
      /\ round' = round /\ plan' = plan /\ size' = size
      /\ upward' = upward /\ downward' = downward /\ oldValue' = oldValue
      /\ syncData' = syncData /\ Arrived(j)
  BY <1>1, WalksNow DEF CollectFromThread, TypeOK, task, senses
<1>4. From(t)' = From(t) /\ To(t)' = To(t) /\ Operation(t)' = Operation(t)
  BY <1>3 DEF From, To, Operation
<1>5. t < size /\ round[t] \in Nat
  BY <1>1, <1>3, OperationFacts
<1>6. j \in Kids(t) /\ j < size /\ j \in Threads /\ j # t
  BY <1>1, <1>3, WalksNow, KidFacts
<1>7. PointInv'
  BY <1>1, <1>2, <1>3, <1>4, LocalFrame DEF PointInv
<1>8. SenseInv'
  BY <1>1, <1>2, <1>3, LocalFrame DEF SenseInv
<1>9. ExposedInv'
  BY <1>2, <1>3, <1>4, LocalFrame DEF IInv, ExposedInv, Operation
<1>10. TreeInv'
  <2>1. ASSUME NEW i \in Kids(t), i < size
        PROVE  /\ ReleasedFrom(i) = IF ReleasedBy(t, i)' THEN round'[t] + 1
                                                         ELSE round'[t]
               /\ CollectedBy(t, i)' => Arrived(i)
    <3>1. TreeAt(t, i)
      BY <2>1 DEF IInv, TreeInv
    <3>2. ~ReleasedBy(t, i) /\ ~ReleasedBy(t, i)'
      BY <1>3 DEF ReleasedBy
    <3>3. CollectedBy(t, i)' => CollectedBy(t, i) \/ i = j
      <4>1. SUFFICES ASSUME NEW k \in 1 .. Len(From(t)), k < pos'[t], From(t)[k] = i, i # j
                     PROVE  k < pos[t]
        BY <1>3, <1>4 DEF CollectedBy
      <4>2. QED
        BY <1>3, <4>1
    <3>4. QED
      BY <1>3, <3>1, <3>2, <3>3 DEF TreeAt
  <2>2. ReleasedFrom(t)' = ReleasedFrom(t) /\ (Arrived(t) => Arrived(t)')
    BY <1>3 DEF ReleasedFrom, Arrived, Released
  <2>3. QED
    BY <1>2, <2>1, <2>2, TreeFrame
<1>11. ValueInv'
  <2>1. /\ value' = IF Operation(t) = "reduce"
                      THEN [value EXCEPT ![t] = @ \o value[j]] ELSE value
    BY DEF CollectFromThread
  <2>2. NextOf(t) = j /\ NextOf(t)' = End(j)
    <3>1. size \in 0 .. NumThreads /\ From(t) = FromWalk[t][size]
      BY <1>1 DEF TypeOK, From
    <3>2. j = IF pos[t] = 1 THEN t + 1 ELSE End(From(t)[pos[t] - 1])
      BY SMTT(20), <1>3, <1>5, <3>1, BlockFacts DEF End
    <3>3. pos'[t] # 1 /\ pos'[t] - 1 = pos[t]
      BY <1>3
    <3>4. NextOf(t)' = BlockEnd(NumThreads, From(t)'[pos'[t] - 1], size')
      BY <3>3 DEF NextOf, End
    <3>5. QED
      BY <1>3, <1>4, <3>2, <3>3, <3>4 DEF NextOf, End
  <2>3. CASE Operation(t) = "reduce"
    <3>1. pc[j] = "await" /\ ~Released(j)
      BY <1>1, <1>3, <1>6, ArrivedWaits
    <3>2. round[j] = round[t]
      <4>1. TreeAt(t, j)
        BY <1>6 DEF IInv, TreeInv
      <4>2. ~ReleasedBy(t, j)
        BY <1>3 DEF ReleasedBy
      <4>3. QED
        BY <3>1, <4>1, <4>2 DEF TreeAt, ReleasedFrom
    <3>3. ~HasResult(j)
      <4>1. ~Handed(j)
        BY <1>3, <1>6, KidFacts DEF Handed
      <4>2. QED
        BY <3>1, <4>1 DEF HasResult
    <3>4. value[j] = Merged(j, End(j), round[t])
      <4>1. ValueAt(j)
        BY <1>6, <3>1 DEF IInv, ValueInv
      <4>2. Operation(j) = "reduce"
        BY <2>3, <3>2 DEF Operation
      <4>3. QED
        BY <3>1, <3>2, <3>3, <4>1, <4>2 DEF ValueAt
    <3>5. value[t] = Merged(t, j, round[t])
      <4>1. ValueAt(t)
        BY <1>3 DEF IInv, ValueInv
      <4>2. QED
        BY <1>3, <2>2, <2>3, <4>1 DEF ValueAt
    <3>6. End(j) \in j + 1 .. size
      BY <1>1, <1>6, BlockFacts DEF TypeOK, End
    <3>7. t \in Nat /\ j \in Nat /\ End(j) \in Nat /\ t <= j /\ j <= End(j)
      BY <1>6, <3>6, KidFacts DEF Threads
    <3>8. value'[t] = Merged(t, End(j), round[t])
      <4>1. value'[t] = value[t] \o value[j]
        BY <1>1, <2>1, <2>3 DEF TypeOK
      <4>2. Merged(t, j, round[t]) \o Merged(j, End(j), round[t])
              = Merged(t, End(j), round[t])
        BY ZenonT(40), <1>5, <3>7, MergedJoin
      <4>3. QED
        BY <3>4, <3>5, <4>1, <4>2
    <3>9. Merged(t, NextOf(t), round[t])' = Merged(t, End(j), round[t])
      BY <1>3, <2>2 DEF Merged
    <3>10. ValueAt(t)'
      BY <1>3, <1>4, <2>3, <3>8, <3>9 DEF ValueAt
    <3>11. \A u \in Threads : u # t => value'[u] = value[u]
      BY <1>1, <2>1, <2>3 DEF TypeOK
    <3>12. QED
      BY <1>2, <1>3, <3>10, <3>11, ValueFrame
  <2>4. CASE Operation(t) # "reduce"
    <3>1. ValueAt(t) /\ value' = value
      BY <1>3, <2>1, <2>4 DEF IInv, ValueInv
    <3>2. ValueAt(t)'
      BY <1>4, <2>4, <3>1 DEF ValueAt
    <3>3. QED
      BY <1>2, <1>3, <3>1, <3>2, ValueFrame
  <2>5. QED
    BY <2>3, <2>4
<1>12. QED
  BY <1>1, <1>7, <1>8, <1>9, <1>10, <1>11 DEF IInv

LEMMA PublishPreserves ==
    ASSUME IInv, NEW t \in Threads, Publish(t)
    PROVE  IInv'
<1>1. TypeOK /\ TypeOK' /\ PointInv /\ SenseInv
  BY StepTypeOK DEF IInv, Step
<1>2. OthersKeep(t)
  BY <1>1 DEF Publish, Goto, TypeOK, OthersKeep, Keeps, task, senses
<1>3. /\ pc[t] = "collect" /\ pc'[t] = "publish" /\ pos' = pos
      /\ pos[t] > Len(From(t)) /\ t > 0
      /\ round' = round /\ plan' = plan /\ size' = size
      /\ upward' = upward /\ downward' = downward /\ oldValue' = oldValue
      /\ syncData'[t] = (Operation(t) = "reduce") /\ value' = value
  BY <1>1 DEF Publish, Goto, TypeOK, task, senses
<1>4. t < size /\ round[t] \in Nat /\ Operation(t)' = Operation(t)
  BY <1>1, <1>3, OperationFacts DEF Operation
<1>5. PointInv'
  BY <1>1, <1>2, <1>3, LocalFrame DEF PointInv
<1>6. SenseInv'
  BY <1>1, <1>2, <1>3, LocalFrame DEF SenseInv
<1>7. ExposedInv'
  BY <1>2, <1>3, LocalFrame DEF Operation
<1>8. \A i \in Kids(t) : i < size => CollectedBy(t, i)
  <2>1. ASSUME NEW i \in Kids(t), i < size, NEW k \in 1 .. Len(From(t)), From(t)[k] = i
        PROVE  k < pos[t]
    BY <1>1, <1>3, <2>1, WalksNow DEF TypeOK
  <2>2. QED
    BY <1>1, <1>3, <2>1, WalksNow DEF CollectedBy
<1>9. TreeInv'
  <2>1. ASSUME NEW i \in Kids(t), i < size
        PROVE  /\ ReleasedFrom(i) = IF ReleasedBy(t, i)' THEN round'[t] + 1
                                                         ELSE round'[t]
               /\ CollectedBy(t, i)' => Arrived(i)
    <3>1. TreeAt(t, i)
      BY <2>1 DEF IInv, TreeInv
    <3>2. ~ReleasedBy(t, i) /\ ~ReleasedBy(t, i)'
      BY <1>3 DEF ReleasedBy
    <3>3. QED
      BY <1>3, <1>8, <2>1, <3>1, <3>2 DEF TreeAt
  <2>2. ReleasedFrom(t)' = ReleasedFrom(t) /\ (Arrived(t) => Arrived(t)')
    BY <1>3 DEF ReleasedFrom, Arrived
  <2>3. QED
    BY <1>2, <2>1, <2>2, TreeFrame
<1>10. ValueInv'
  <2>1. NextOf(t) = End(t)
    <3>1. size \in 0 .. NumThreads /\ From(t) = FromWalk[t][size]
      BY <1>1 DEF TypeOK, From
    <3>2. End(t) = IF Len(From(t)) = 0 THEN t + 1 ELSE End(From(t)[Len(From(t))])
      BY <1>4, <3>1, BlockFacts DEF End
    <3>3. pos[t] = Len(From(t)) + 1
      BY <1>1, <1>3, WalksNow DEF TypeOK, PointInv
    <3>4. QED
      BY <1>1, <3>2, <3>3, WalksNow DEF NextOf
  <2>2. ~HasResult(t)'
    BY <1>3 DEF HasResult
  <2>3. ValueAt(t)
    BY <1>3 DEF IInv, ValueInv
  <2>4. Merged(t, End(t), round[t])' = Merged(t, End(t), round[t])
    BY <1>3 DEF Merged, End
  <2>5. ValueAt(t)'
    BY <1>3, <1>4, <2>1, <2>2, <2>3, <2>4 DEF ValueAt
  <2>6. QED
    BY <1>2, <1>3, <2>5, ValueFrame
<1>11. QED
  BY <1>1, <1>5, <1>6, <1>7, <1>9, <1>10 DEF IInv

LEMMA SignalUpwardPreserves ==
    ASSUME IInv, NEW t \in Threads, SignalUpward(t)
    PROVE  IInv'
<1>1. TypeOK /\ TypeOK' /\ PointInv /\ SenseInv
  BY StepTypeOK DEF IInv, Step
<1>2. upward'[t] = 1 - upward[t] /\ \A u \in Threads : u # t => upward'[u] = upward[u]
  BY <1>1 DEF SignalUpward, TypeOK, Toggled
<1>3. OthersKeep(t)
  BY <1>1, <1>2 DEF SignalUpward, Goto, TypeOK, OthersKeep, Keeps, task
<1>4. /\ pc[t] = "publish" /\ pc'[t] = "await" /\ pos' = pos
      /\ round' = round /\ plan' = plan /\ size' = size
      /\ downward' = downward /\ oldValue'[t] = upward[t]
      /\ syncData' = syncData /\ value' = value
  BY <1>1 DEF SignalUpward, Goto, TypeOK, task
<1>5. t < size /\ round[t] \in Nat /\ Operation(t)' = Operation(t)
  BY <1>1, <1>4, OperationFacts DEF Operation
<1>6. upward[t] = downward[t] /\ upward[t] \in {0, 1} /\ ~Arrived(t)
  BY <1>1, <1>4 DEF SenseInv, TypeOK, Arrived
<1>7. Arrived(t)' /\ ~Released(t)'
  BY <1>2, <1>4, <1>6 DEF Arrived, Released
<1>8. PointInv'
  BY <1>1, <1>3, <1>4, LocalFrame DEF PointInv
<1>9. SenseInv'
  BY <1>2, <1>3, <1>4, <1>6, LocalFrame
<1>10. ExposedInv'
  BY <1>3, <1>4, LocalFrame DEF Operation, IInv, ExposedInv
<1>11. TreeInv'
  <2>1. ASSUME NEW i \in Kids(t), i < size
        PROVE  /\ ReleasedFrom(i) = IF ReleasedBy(t, i)' THEN round'[t] + 1
                                                         ELSE round'[t]
               /\ CollectedBy(t, i)' => Arrived(i)
    <3>1. TreeAt(t, i)
      BY <2>1 DEF IInv, TreeInv
    <3>2. ~ReleasedBy(t, i) /\ ~ReleasedBy(t, i)' /\ CollectedBy(t, i)
      BY <1>4 DEF ReleasedBy, CollectedBy
    <3>3. QED
      BY <1>4, <3>1, <3>2 DEF TreeAt
  <2>2. ReleasedFrom(t)' = ReleasedFrom(t)
    BY <1>4, <1>7 DEF ReleasedFrom
  <2>3. QED
    BY <1>3, <1>7, <2>1, <2>2, TreeFrame
<1>12. ValueInv'
  <2>1. ~HasResult(t) /\ ~HasResult(t)'
    <3>1. ~Handed(t)
      BY <1>6, HandedWaits
    <3>2. ~Handed(t)'
      BY <1>3, <1>4, <3>1, HandedFrame
    <3>3. QED
      BY <1>4, <1>7, <3>2 DEF HasResult
  <2>2. ValueAt(t)
    BY <1>4 DEF IInv, ValueInv
  <2>3. Merged(t, End(t), round[t])' = Merged(t, End(t), round[t])
    BY <1>4 DEF Merged, End
  <2>4. ValueAt(t)'
    BY <1>4, <1>5, <2>1, <2>2, <2>3 DEF ValueAt
  <2>5. QED
    BY <1>3, <1>4, <2>4, ValueFrame
<1>13. QED
  BY <1>1, <1>8, <1>9, <1>10, <1>11, <1>12 DEF IInv

LEMMA AwaitDownwardPreserves ==
    ASSUME IInv, NEW t \in Threads, AwaitDownward(t)
    PROVE  IInv'
<1>1. TypeOK /\ TypeOK' /\ PointInv /\ SenseInv
  BY StepTypeOK DEF IInv, Step
<1>2. OthersKeep(t)
  BY <1>1 DEF AwaitDownward, Goto, TypeOK, OthersKeep, Keeps, task, senses
<1>3. /\ pc[t] = "await" /\ pc'[t] = "broadcast" /\ pos'[t] = 1 /\ Released(t)
      /\ round' = round /\ plan' = plan /\ size' = size
      /\ upward' = upward /\ downward' = downward /\ oldValue' = oldValue
      /\ syncData'[t] = FALSE /\ value' = value
  BY <1>1 DEF AwaitDownward, Goto, TypeOK, task, senses
<1>4. t < size /\ round[t] \in Nat /\ Operation(t)' = Operation(t)
  BY <1>1, <1>3, OperationFacts DEF Operation
<1>5. upward[t] = downward[t]
  BY <1>1, <1>3 DEF SenseInv, TypeOK, Released
<1>6. PointInv'
  BY <1>1, <1>2, <1>3, LocalFrame DEF PointInv
<1>7. SenseInv'
  BY <1>2, <1>3, <1>5, LocalFrame
<1>8. ExposedInv'
  BY <1>2, <1>3, LocalFrame
<1>9. TreeInv'
  <2>1. ASSUME NEW i \in Kids(t), i < size
        PROVE  /\ ReleasedFrom(i) = IF ReleasedBy(t, i)' THEN round'[t] + 1
                                                         ELSE round'[t]
               /\ CollectedBy(t, i)' => Arrived(i)
    <3>1. TreeAt(t, i)
      BY <2>1 DEF IInv, TreeInv
    <3>2. ~ReleasedBy(t, i) /\ ~ReleasedBy(t, i)' /\ CollectedBy(t, i)
      BY <1>3 DEF ReleasedBy, CollectedBy
    <3>3. QED
      BY <1>3, <3>1, <3>2 DEF TreeAt
  <2>2. ReleasedFrom(t)' = ReleasedFrom(t) /\ (Arrived(t) => Arrived(t)')
    BY <1>3 DEF ReleasedFrom, Arrived
  <2>3. QED
    BY <1>2, <2>1, <2>2, TreeFrame
<1>10. ValueInv'
  <2>1. HasResult(t) /\ HasResult(t)'
    BY <1>3 DEF HasResult
  <2>2. ValueAt(t)
    BY <1>3 DEF IInv, ValueInv
  <2>3. Merged(0, size, round[t])' = Merged(0, size, round[t])
    BY <1>3 DEF Merged
  <2>4. ValueAt(t)'
    BY <1>3, <1>4, <2>1, <2>2, <2>3 DEF ValueAt
  <2>5. QED
    BY <1>2, <1>3, <2>4, ValueFrame
<1>11. QED
  BY <1>1, <1>6, <1>7, <1>8, <1>9, <1>10 DEF IInv

LEMMA TurnAroundPreserves ==
    ASSUME IInv, NEW t \in Threads, TurnAround(t)
    PROVE  IInv'
<1>1. TypeOK /\ TypeOK' /\ PointInv /\ SenseInv
  BY StepTypeOK DEF IInv, Step
<1>2. OthersKeep(t)
  BY <1>1 DEF TurnAround, Goto, TypeOK, OthersKeep, Keeps, task, senses
<1>3. /\ pc[t] = "collect" /\ pc'[t] = "broadcast" /\ pos'[t] = 1
      /\ pos[t] > Len(From(t)) /\ t = 0
      /\ round' = round /\ plan' = plan /\ size' = size
      /\ upward' = upward /\ downward' = downward /\ oldValue' = oldValue
      /\ syncData' = syncData /\ value' = value
  BY <1>1 DEF TurnAround, Goto, TypeOK, task, senses
<1>4. t < size /\ round[t] \in Nat /\ Operation(t)' = Operation(t)
  BY <1>1, <1>3, OperationFacts DEF Operation
<1>5. PointInv'
  BY <1>1, <1>2, <1>3, LocalFrame DEF PointInv
<1>6. SenseInv'
  BY <1>1, <1>2, <1>3, LocalFrame DEF SenseInv
<1>7. ExposedInv'
  BY <1>2, <1>3, LocalFrame DEF IInv, ExposedInv
<1>8. \A i \in Kids(t) : i < size => CollectedBy(t, i)
  <2>1. ASSUME NEW i \in Kids(t), i < size, NEW k \in 1 .. Len(From(t)), From(t)[k] = i
        PROVE  k < pos[t]
    BY <1>1, <1>3, <2>1, WalksNow DEF TypeOK
  <2>2. QED
    BY <1>1, <1>3, <2>1, WalksNow DEF CollectedBy
<1>9. TreeInv'
  <2>1. ASSUME NEW i \in Kids(t), i < size
        PROVE  /\ ReleasedFrom(i) = IF ReleasedBy(t, i)' THEN round'[t] + 1
                                                         ELSE round'[t]
               /\ CollectedBy(t, i)' => Arrived(i)
    <3>1. TreeAt(t, i)
      BY <2>1 DEF IInv, TreeInv
    <3>2. ~ReleasedBy(t, i) /\ ~ReleasedBy(t, i)'
      BY <1>3 DEF ReleasedBy
    <3>3. QED
      BY <1>3, <1>8, <2>1, <3>1, <3>2 DEF TreeAt
  <2>2. Arrived(t) => Arrived(t)'
    BY <1>3 DEF Arrived
  <2>3. QED
    BY <1>2, <1>3, <2>1, <2>2, TreeFrame
<1>10. ValueInv'
  <2>1. NextOf(t) = size
    <3>1. size \in 0 .. NumThreads /\ From(t) = FromWalk[t][size]
      BY <1>1 DEF TypeOK, From
    <3>2. /\ End(t) = IF Len(From(t)) = 0 THEN t + 1 ELSE End(From(t)[Len(From(t))])
          /\ End(t) = size
      BY <1>3, <1>4, <3>1, BlockFacts DEF End
    <3>3. pos[t] = Len(From(t)) + 1
      BY <1>1, <1>3, WalksNow DEF TypeOK, PointInv
    <3>4. QED
      BY <1>1, <3>2, <3>3, WalksNow DEF NextOf
  <2>2. HasResult(t)'
    BY <1>3 DEF HasResult
  <2>3. ValueAt(t)
    BY <1>3 DEF IInv, ValueInv
  <2>4. Merged(0, size, round[t])' = Merged(0, size, round[t])
    BY <1>3 DEF Merged
  <2>5. ValueAt(t)'
    BY <1>3, <1>4, <2>1, <2>2, <2>3, <2>4 DEF ValueAt
  <2>6. QED
    BY <1>2, <1>3, <2>5, ValueFrame
<1>11. QED
  BY <1>1, <1>5, <1>6, <1>7, <1>9, <1>10 DEF IInv

LEMMA BroadcastToThreadPreserves ==
    ASSUME IInv, NEW t \in Threads, BroadcastToThread(t)
    PROVE  IInv'
<1>1. TypeOK /\ TypeOK' /\ PointInv /\ SenseInv
  BY StepTypeOK DEF IInv, Step
<1>2. OthersKeep(t)
  BY <1>1 DEF BroadcastToThread, Goto, TypeOK, OthersKeep, Keeps, task, senses
<1>3. /\ pc[t] = "broadcast" /\ pc'[t] = "release" /\ pos' = pos
      /\ pos[t] <= Len(To(t))
      /\ round' = round /\ plan' = plan /\ size' = size
      /\ upward' = upward /\ downward' = downward /\ oldValue' = oldValue
      /\ syncData' = syncData
  BY <1>1 DEF BroadcastToThread, Goto, TypeOK, task, senses
<1>4. t < size /\ round[t] \in Nat /\ To(t)' = To(t)
  BY <1>1, <1>3, OperationFacts DEF To
<1>5. PICK j \in Threads :
         /\ j = To(t)[pos[t]] /\ j \in Kids(t) /\ j < size /\ j # t
         /\ pc[j] = "await" /\ ~Released(j) /\ round[j] = round[t]
  BY <1>3, NextToRelease
<1>6. PointInv'
  BY <1>1, <1>2, <1>3, LocalFrame DEF PointInv
<1>7. SenseInv'
  BY <1>1, <1>2, <1>3, LocalFrame DEF SenseInv
<1>8. ExposedInv'
  BY <1>2, <1>3, LocalFrame DEF IInv, ExposedInv
<1>9. TreeInv'
  <2>1. ASSUME NEW i \in Kids(t), i < size
        PROVE  /\ ReleasedFrom(i) = IF ReleasedBy(t, i)' THEN round'[t] + 1
                                                         ELSE round'[t]
               /\ CollectedBy(t, i)' => Arrived(i)
    <3>1. TreeAt(t, i)
      BY <2>1 DEF IInv, TreeInv
    <3>2. ReleasedBy(t, i)' <=> ReleasedBy(t, i)
      BY <1>3, <1>4 DEF ReleasedBy
    <3>3. CollectedBy(t, i)' => CollectedBy(t, i)
      BY <1>3, <3>2 DEF CollectedBy
    <3>4. QED
      BY <1>3, <3>1, <3>2, <3>3 DEF TreeAt
  <2>2. ReleasedFrom(t)' = ReleasedFrom(t) /\ (Arrived(t) => Arrived(t)')
    BY <1>3 DEF ReleasedFrom, Arrived
  <2>3. QED
    BY <1>2, <2>1, <2>2, TreeFrame
<1>10. ValueInv'
  <2>1. value' = IF Operation(t) = "reduce" THEN [value EXCEPT ![j] = value[t]]
                                            ELSE value
    BY <1>5 DEF BroadcastToThread
  <2>2. ValueAt(t) /\ ValueAt(j) /\ HasResult(t)
    BY <1>3, <1>5 DEF IInv, ValueInv, HasResult
  <2>3. Operation(j) = Operation(t)
    BY <1>5 DEF Operation
  <2>4. value[t] = IF Operation(t) = "reduce" THEN Merged(0, size, round[t]) ELSE << >>
    BY <1>3, <2>2 DEF ValueAt
  <2>5. /\ \A u \in Threads : u # j => value'[u] = value[u]
        /\ value'[j] = value[t]
    BY <1>1, <2>1, <2>2, <2>3, <2>4 DEF TypeOK, ValueAt
  <2>6. ASSUME NEW u \in Threads
        PROVE  Handed(u)' <=> (Handed(u) \/ u = j)
    <3>1. pos' = pos /\ \A v \in Threads : To(v)' = To(v)
      BY <1>3 DEF To
    <3>2. \A v \in Threads : v # t => pc'[v] = pc[v]
      BY <1>2 DEF OthersKeep, Keeps
    <3>3. QED
      BY <1>3, <1>5, <3>1, <3>2 DEF Handed
  <2>7. SUFFICES ASSUME NEW u \in Threads, pc'[u] # "compute"
                 PROVE  ValueAt(u)'
    BY DEF ValueInv
  <2>8. CASE u = t
    <3>1. HasResult(t)' /\ Operation(t)' = Operation(t)
      BY <1>3 DEF HasResult, Operation
    <3>2. Merged(0, size, round[t])' = Merged(0, size, round[t])
      BY <1>3 DEF Merged
    <3>3. ValueAt(t)'
      BY <1>3, <1>5, <2>4, <2>5, <3>1, <3>2 DEF ValueAt
    <3>4. QED
      BY <2>8, <3>3
  <2>9. CASE u = j
    <3>1. HasResult(j)' /\ Operation(j)' = Operation(j) /\ pc'[j] = "await"
      BY <1>2, <1>3, <1>5, <2>6 DEF HasResult, Operation, OthersKeep, Keeps
    <3>2. Merged(0, size, round[j])' = Merged(0, size, round[t])
      BY <1>3, <1>5 DEF Merged
    <3>3. ValueAt(j)'
      BY <2>3, <2>4, <2>5, <3>1, <3>2 DEF ValueAt
    <3>4. QED
      BY <2>9, <3>3
  <2>10. CASE u # t /\ u # j
    <3>1. Keeps(u) /\ UNCHANGED task /\ value'[u] = value[u]
      BY <1>2, <2>5, <2>10 DEF OthersKeep
    <3>2. ValueAt(u)
      BY <2>7, <3>1 DEF IInv, ValueInv, Keeps
    <3>3. Handed(u)' <=> Handed(u)
      BY <2>6, <2>10
    <3>4. QED
      BY <3>1, <3>2, <3>3, ValueAtFrame
  <2>11. QED
    BY <2>8, <2>9, <2>10
<1>11. QED
  BY <1>1, <1>6, <1>7, <1>8, <1>9, <1>10 DEF IInv

LEMMA LeavePreserves ==
    ASSUME IInv, NEW t \in Threads, Leave(t)
    PROVE  IInv'
<1>1. TypeOK /\ TypeOK' /\ PointInv /\ SenseInv
  BY StepTypeOK DEF IInv, Step
<1>2. OthersKeep(t)
  BY <1>1 DEF Leave, Goto, TypeOK, OthersKeep, Keeps, task, senses
<1>3. /\ pc[t] = "broadcast" /\ pc'[t] = "compute" /\ pos' = pos
      /\ pos[t] > Len(To(t))
      /\ round'[t] = round[t] + 1 /\ plan' = plan /\ size' = size
      /\ upward' = upward /\ downward' = downward /\ oldValue' = oldValue
      /\ syncData' = syncData
      /\ \A u \in Threads : u # t => value'[u] = value[u]
  BY <1>1 DEF Leave, Goto, TypeOK, task, senses
<1>4. round[t] \in Nat /\ Len(plan) \in Nat /\ round[t] < Len(plan)
  BY <1>1, <1>3, PlanFacts DEF TypeOK, PointInv
<1>5. PointInv'
  BY <1>2, <1>3, <1>4, LocalFrame
<1>6. SenseInv'
  BY <1>1, <1>2, <1>3, LocalFrame DEF SenseInv
<1>7. ExposedInv'
  BY <1>2, <1>3, LocalFrame DEF IInv, ExposedInv
<1>8. TreeInv'
  <2>1. ASSUME NEW i \in Kids(t), i < size
        PROVE  /\ ReleasedFrom(i) = IF ReleasedBy(t, i)' THEN round'[t] + 1
                                                         ELSE round'[t]
               /\ CollectedBy(t, i)' => Arrived(i)
    <3>1. TreeAt(t, i)
      BY <2>1 DEF IInv, TreeInv
    <3>2. ReleasedBy(t, i)
      <4>1. PICK k \in 1 .. Len(To(t)) : To(t)[k] = i
        BY <1>1, <2>1, WalksNow
      <4>2. k < pos[t]
        BY <1>1, <1>3, WalksNow DEF TypeOK
      <4>3. QED
        BY <1>3, <4>1, <4>2 DEF ReleasedBy
    <3>3. ~ReleasedBy(t, i)' /\ ~CollectedBy(t, i)'
      BY <1>3 DEF ReleasedBy, CollectedBy
    <3>4. QED
      BY <1>3, <3>1, <3>2, <3>3 DEF TreeAt
  <2>2. ReleasedFrom(t)' = ReleasedFrom(t) /\ (Arrived(t) => Arrived(t)')
    BY <1>3 DEF ReleasedFrom, Arrived
  <2>3. QED
    BY <1>2, <2>1, <2>2, TreeFrame
<1>9. ValueInv'
  BY <1>2, <1>3, ValueFrame
<1>10. QED
  BY <1>1, <1>5, <1>6, <1>7, <1>8, <1>9 DEF IInv

LEMMA SignalDownwardPreserves ==
    ASSUME IInv, NEW t \in Threads, SignalDownward(t)
    PROVE  IInv'
<1>1. TypeOK /\ TypeOK' /\ PointInv /\ SenseInv
  BY StepTypeOK DEF IInv, Step
<1>2. /\ pc[t] = "release" /\ pos'[t] = pos[t] + 1 /\ pc'[t] = "broadcast"
      /\ \A u \in Threads : u # t => pc'[u] = pc[u] /\ pos'[u] = pos[u]
      /\ round' = round /\ plan' = plan /\ size' = size /\ UNCHANGED task
      /\ upward' = upward /\ oldValue' = oldValue
      /\ syncData' = syncData /\ value' = value
  BY <1>1 DEF SignalDownward, Goto, TypeOK, task
<1>3. pos[t] <= Len(To(t)) /\ t < size /\ round[t] < Len(plan) /\ round[t] \in Nat
  BY <1>1, <1>2 DEF PointInv, TypeOK
<1>4. PICK j \in Threads :
         /\ pos[t] \in 1 .. Len(To(t)) /\ j = To(t)[pos[t]]
         /\ j \in Kids(t) /\ j < size /\ j # t /\ ~ReleasedBy(t, j)
         /\ Arrived(j) /\ pc[j] = "await" /\ ~Released(j) /\ round[j] = round[t]
  BY <1>2, <1>3, NextToRelease
<1>5. downward'[j] = 1 - downward[j] /\ \A u \in Threads : u # j => downward'[u] = downward[u]
  BY <1>1, <1>4 DEF SignalDownward, TypeOK, Toggled
<1>6. Released(j)'
  BY <1>1, <1>2, <1>4, <1>5 DEF Released, Arrived, SenseInv, TypeOK
<1>7. /\ pc'[j] = "await" /\ oldValue'[j] = 1 - upward'[j]
      /\ \A u \in Threads : Operation(u)' = Operation(u) /\ To(u)' = To(u) /\ From(u)' = From(u)
  BY <1>1, <1>2, <1>4 DEF Operation, To, From, SenseInv
<1>8. \A u \in Threads : u # t /\ u # j => Keeps(u)
  BY <1>2, <1>5 DEF Keeps
<1>9. PointInv'
  BY <1>1, <1>2, <1>7 DEF PointInv
<1>10. SenseInv'
  BY <1>1, <1>2, <1>5, <1>7 DEF SenseInv
<1>11. ExposedInv'
  BY <1>2, <1>7 DEF IInv, ExposedInv
<1>12. \A i \in Kids(t) : i < size => (ReleasedBy(t, i)' <=> ReleasedBy(t, i) \/ i = j)
  <2>1. SUFFICES ASSUME NEW i \in Kids(t), i < size
                 PROVE  ReleasedBy(t, i)' <=> ReleasedBy(t, i) \/ i = j
    OBVIOUS
  <2>2. ASSUME ReleasedBy(t, i)', i # j
        PROVE  ReleasedBy(t, i)
    <3>1. PICK k \in 1 .. Len(To(t)) : k < pos'[t] /\ To(t)[k] = i
      BY <1>7, <2>2 DEF ReleasedBy
    <3>2. k < pos[t]
      BY <1>2, <1>4, <2>2, <3>1
    <3>3. QED
      BY <1>2, <3>1, <3>2 DEF ReleasedBy
  <2>3. ASSUME ReleasedBy(t, i)
        PROVE  ReleasedBy(t, i)'
    <3>1. PICK k \in 1 .. Len(To(t)) : k < pos[t] /\ To(t)[k] = i
      BY <2>3 DEF ReleasedBy
    <3>2. k < pos'[t]
      BY <1>2, <1>4, <3>1
    <3>3. QED
      BY <1>2, <1>7, <3>1, <3>2 DEF ReleasedBy
  <2>4. ReleasedBy(t, j)'
    <3>1. pos[t] < pos'[t]
      BY <1>2, <1>4
    <3>2. QED
      BY <1>2, <1>4, <1>7, <3>1 DEF ReleasedBy
  <2>5. QED
    BY <2>2, <2>3, <2>4
<1>13. TreeInv'
  <2>1. SUFFICES ASSUME NEW u \in Threads, NEW i \in Kids(u), i < size
                 PROVE  TreeAt(u, i)'
    BY <1>2 DEF TreeInv
  <2>2. i \in Threads /\ i # u /\ TreeAt(u, i)
    BY <2>1, KidFacts DEF IInv, TreeInv
  <2>3. CASE u = t
    <3>1. ReleasedBy(t, i)' <=> ReleasedBy(t, i) \/ i = j
      BY <1>12, <2>1, <2>3
    <3>2. CollectedBy(t, i)' => CollectedBy(t, i) /\ i # j
      BY <1>2, <3>1 DEF CollectedBy
    <3>3. CASE i = j
      <4>1. ReleasedFrom(j)' = round[t] + 1
        BY <1>2, <1>4, <1>6, <1>7 DEF ReleasedFrom
      <4>2. TreeAt(t, j)'
        BY <1>2, <3>1, <3>2, <3>3, <4>1 DEF TreeAt
      <4>3. QED
        BY <2>3, <3>3, <4>2
    <3>4. CASE i # j
      <4>1. ReleasedFrom(i)' = ReleasedFrom(i) /\ (Arrived(i)' <=> Arrived(i))
        BY <1>2, <1>8, <2>2, <2>3, <3>4, SeenFrame
      <4>2. TreeAt(t, i)'
        BY <1>2, <2>2, <2>3, <3>1, <3>2, <3>4, <4>1 DEF TreeAt
      <4>3. QED
        BY <2>3, <4>2
    <3>5. QED
      BY <3>3, <3>4
  <2>4. CASE u # t
    <3>1. i # j
      BY <1>4, <2>4, KidFacts
    <3>2. ReleasedFrom(i)' = ReleasedFrom(i) /\ (Arrived(i)' <=> Arrived(i))
      BY <1>2, <1>5, <2>2, <3>1 DEF ReleasedFrom, Arrived, Released
    <3>3. (ReleasedBy(u, i)' <=> ReleasedBy(u, i)) /\ (CollectedBy(u, i)' <=> CollectedBy(u, i))
      BY <1>2, <1>7, <2>4 DEF ReleasedBy, CollectedBy
    <3>4. QED
      BY <1>2, <2>2, <2>4, <3>2, <3>3 DEF TreeAt
  <2>5. QED
    BY <2>3, <2>4
<1>14. ValueInv'
  <2>1. SUFFICES ASSUME NEW u \in Threads, pc'[u] # "compute"
                 PROVE  ValueAt(u)'
    BY DEF ValueInv
  <2>2. ASSUME NEW v \in Threads, v # j
        PROVE  Handed(v)' <=> Handed(v)
    BY <1>2, <1>4, <1>7, <2>2 DEF Handed
  <2>3. CASE u = t
    <3>1. HasResult(t) /\ HasResult(t)' /\ ValueAt(t)
      BY <1>2 DEF HasResult, IInv, ValueInv
    <3>2. Merged(0, size, round[t])' = Merged(0, size, round[t])
      BY <1>2 DEF Merged
    <3>3. ValueAt(t)'
      BY <1>2, <1>7, <3>1, <3>2 DEF ValueAt
    <3>4. QED
      BY <2>3, <3>3
  <2>4. CASE u = j
    <3>1. Handed(j)
      BY <1>2, <1>4 DEF Handed
    <3>2. HasResult(j) /\ HasResult(j)' /\ ValueAt(j)
      BY <1>4, <1>6, <1>7, <3>1 DEF HasResult, IInv, ValueInv
    <3>3. Merged(0, size, round[j])' = Merged(0, size, round[j])
      BY <1>2 DEF Merged
    <3>4. ValueAt(j)'
      BY <1>2, <1>4, <1>7, <3>2, <3>3 DEF ValueAt
    <3>5. QED
      BY <2>4, <3>4
  <2>5. CASE u # t /\ u # j
    <3>1. Keeps(u) /\ UNCHANGED task /\ value'[u] = value[u]
      BY <1>2, <1>8, <2>5
    <3>2. ValueAt(u)
      BY <2>1, <3>1 DEF IInv, ValueInv, Keeps
    <3>3. QED
      BY <2>2, <2>5, <3>1, <3>2, ValueAtFrame
  <2>6. QED
    BY <2>3, <2>4, <2>5
<1>15. QED
  BY <1>1, <1>9, <1>10, <1>11, <1>13, <1>14 DEF IInv

\* Between tasks everybody is outside of all points.
LEMMA AllOutside ==
    ASSUME TypeOK, PointInv, \A t \in Participants : round[t] = Len(plan)
    PROVE  \A t \in Threads : pc[t] = "compute"
<1>1. SUFFICES ASSUME NEW t \in Threads, pc[t] # "compute"
               PROVE  FALSE
  OBVIOUS
<1>2. t < size /\ round[t] < Len(plan) /\ round[t] \in Nat /\ Len(plan) \in Nat
  BY <1>1, PlanFacts DEF PointInv, TypeOK
<1>3. t \in Participants
  BY <1>2 DEF Participants, Threads, TypeOK
<1>4. QED
  BY <1>2, <1>3

LEMMA BeginTaskPreserves ==
    ASSUME IInv, BeginTask
    PROVE  IInv'
<1>1. TypeOK /\ TypeOK' /\ PointInv /\ SenseInv
  BY BeginTypeOK DEF IInv
<1>2. \A t \in Threads : pc[t] = "compute"
  BY <1>1, AllOutside DEF BeginTask
<1>3. /\ pc' = pc /\ pos' = pos /\ syncData' = syncData
      /\ upward' = upward /\ downward' = downward /\ oldValue' = oldValue
      /\ round' = [t \in Threads |-> 0]
  BY DEF BeginTask, senses
<1>4. PointInv'
  <2>1. Len(plan)' \in Nat
    BY <1>1, PlansAssumption DEF BeginTask
  <2>2. QED
    BY <1>2, <1>3, <2>1 DEF PointInv
<1>5. SenseInv'
  BY <1>1, <1>2, <1>3 DEF SenseInv
<1>6. ExposedInv'
  BY <1>2, <1>3 DEF IInv, ExposedInv
<1>7. TreeInv'
  <2>1. SUFFICES ASSUME NEW t \in Threads, NEW j \in Kids(t)
                 PROVE  TreeAt(t, j)'
    BY DEF TreeInv
  <2>2. j \in Threads
    BY KidFacts
  <2>3. ~ReleasedBy(t, j)' /\ ~CollectedBy(t, j)'
    BY <1>2, <1>3 DEF ReleasedBy, CollectedBy
  <2>4. ReleasedFrom(j)' = 0
    BY <1>2, <1>3, <2>2 DEF ReleasedFrom
  <2>5. QED
    BY <1>3, <2>3, <2>4 DEF TreeAt
<1>8. ValueInv'
  BY <1>2, <1>3 DEF ValueInv
<1>9. QED
  BY <1>1, <1>4, <1>5, <1>6, <1>7, <1>8 DEF IInv

LEMMA InitIInv == Init => IInv
<1>1. SUFFICES ASSUME Init
               PROVE  IInv
  OBVIOUS
<1>2. TypeOK
  BY <1>1, InitTypeOK
<1>3. PointInv
  BY <1>1 DEF Init, PointInv, Threads
<1>4. SenseInv /\ ExposedInv /\ ValueInv
  BY <1>1 DEF Init, SenseInv, ExposedInv, ValueInv
<1>5. TreeInv
  <2>1. SUFFICES ASSUME NEW t \in Threads, NEW j \in Kids(t), j < size
                 PROVE  FALSE
    BY DEF TreeInv
  <2>2. j \in Threads /\ size = 0
    BY <1>1, KidFacts DEF Init
  <2>3. QED
    BY <2>1, <2>2 DEF Threads
<1>6. QED
  BY <1>2, <1>3, <1>4, <1>5 DEF IInv

LEMMA NextIInv == IInv /\ [Next]_vars => IInv'
<1>1. ASSUME IInv, UNCHANGED vars
      PROVE  IInv'
  BY <1>1 DEF IInv, vars, task, senses, TypeOK, PointInv, SenseInv, ExposedInv,
              TreeInv, TreeAt, ReleasedFrom, ReleasedBy, CollectedBy, Arrived, Released,
              ValueInv, ValueAt, Operation, NextOf, End, HasResult, Handed, Merged, To, From
<1>2. ASSUME IInv, NEW t \in Threads, Step(t)
      PROVE  IInv'
  BY <1>2, EnterPreserves, CollectFromThreadPreserves, PublishPreserves,
     SignalUpwardPreserves, AwaitDownwardPreserves, TurnAroundPreserves,
     BroadcastToThreadPreserves, SignalDownwardPreserves, LeavePreserves DEF Step
<1>3. QED
  BY <1>1, <1>2, BeginTaskPreserves DEF Next

\* The invariant holds in every reachable state.
THEOREM Inductive == Spec => []IInv
  BY InitIInv, NextIInv, PTL DEF Spec

\* All variables have their types: senses are bits, whatever the number of tasks
\* and points.
THEOREM TypeCorrect == Spec => []TypeOK
<1>1. IInv => TypeOK
  BY DEF IInv
<1>2. QED
  BY <1>1, Inductive, PTL

\* A thread reads or writes the value of another only while that thread waits at
\* the same point and exposes it: the pointers into other threads' stacks are
\* good whenever they are used.
THEOREM PeersHoldStill == Spec => []PeerHoldsStill
<1>1. ASSUME IInv
      PROVE  PeerHoldsStill
  <2>1. SUFFICES ASSUME NEW t \in Threads, NEW j \in Threads, Touches(t, j)
                 PROVE  /\ pc[j] = "await" /\ ~Released(j)
                        /\ Operation(t) = "reduce" => syncData[j]
                        /\ round[j] = round[t]
    BY DEF PeerHoldsStill
  <2>2. pc[j] = "await" /\ ~Released(j) /\ round[j] = round[t]
    <3>1. CASE pc[t] = "broadcast"
      BY <1>1, <2>1, <3>1, NextToRelease DEF Touches
    <3>2. CASE pc[t] = "collect"
      <4>1. TypeOK /\ SenseInv
        BY <1>1 DEF IInv
      <4>2. pos[t] \in 1 .. Len(From(t)) /\ j = From(t)[pos[t]] /\ Arrived(j)
        BY <2>1, <3>2, <4>1, WalksNow DEF Touches, TypeOK
      <4>3. pc[j] = "await" /\ ~Released(j)
        BY <4>1, <4>2, ArrivedWaits
      <4>4. TreeAt(t, j)
        BY <1>1, <4>1, <4>2, WalksNow DEF IInv, TreeInv
      <4>5. ~ReleasedBy(t, j)
        BY <3>2 DEF ReleasedBy
      <4>6. QED
        BY <4>3, <4>4, <4>5 DEF TreeAt, ReleasedFrom
    <3>3. QED
      BY <2>1, <3>1, <3>2 DEF Touches
  <2>3. Operation(t) = "reduce" => syncData[j]
    BY <1>1, <2>2 DEF IInv, ExposedInv, Operation
  <2>4. QED
    BY <2>2, <2>3
<1>2. QED
  BY <1>1, Inductive, PTL

\* A task leaves the senses of every thread in agreement and no pointer behind,
\* so that the next task can begin on other threads.
THEOREM CleanAfterTask == Spec => []CleanBetweenTasks
<1>1. ASSUME IInv, \A t \in Participants : round[t] = Len(plan)
      PROVE  \A t \in Threads : upward[t] = downward[t] /\ ~syncData[t]
  <2>1. TypeOK /\ PointInv /\ SenseInv /\ ExposedInv
    BY <1>1 DEF IInv
  <2>2. \A t \in Threads : pc[t] = "compute"
    BY <1>1, <2>1, AllOutside
  <2>3. QED
    BY <2>1, <2>2 DEF SenseInv, ExposedInv
<1>2. IInv => CleanBetweenTasks
  BY <1>1 DEF CleanBetweenTasks
<1>3. QED
  BY <1>2, Inductive, PTL

-----------------------------------------------------------------------------
(* The rendezvous                                                            *)

\* Thread t has collected all values at the r-th point of the plan.
Collected(t, r) ==
    round[t] > r \/ (round[t] = r /\ pc[t] \in {"publish", "await", "broadcast", "release"})

LEMMA RoundTypes ==
    ASSUME TypeOK, NEW t \in Threads
    PROVE  /\ round[t] \in Nat /\ ReleasedFrom(t) \in {round[t], round[t] + 1}
           /\ ReleasedFrom(t) = round[t] + 1 => pc[t] \in {"await", "broadcast", "release"}
  BY DEF TypeOK, ReleasedFrom

\* A thread is released only after its superordinate.
LEMMA ReleasedAbove ==
    ASSUME IInv, NEW t \in Threads, NEW j \in Kids(t), j < size
    PROVE  ReleasedFrom(t) >= ReleasedFrom(j)
<1>1. j \in Threads /\ TypeOK /\ TreeAt(t, j)
  BY KidFacts DEF IInv, TreeInv
<1>2. CASE ReleasedBy(t, j)
  <2>1. ReleasedFrom(t) = round[t] + 1
    BY <1>2 DEF ReleasedFrom, ReleasedBy
  <2>2. QED
    BY <1>1, <1>2, <2>1, RoundTypes DEF TreeAt
<1>3. CASE ~ReleasedBy(t, j)
  BY <1>1, <1>3, RoundTypes DEF TreeAt
<1>4. QED
  BY <1>2, <1>3

\* A thread collects its subordinates' values only after these have collected
\* those of theirs.
LEMMA CollectedBelow ==
    ASSUME IInv, NEW r \in Nat, NEW t \in Threads, NEW j \in Kids(t), j < size,
           Collected(t, r)
    PROVE  Collected(j, r)
<1>1. j \in Threads /\ TypeOK /\ TreeAt(t, j)
  BY KidFacts DEF IInv, TreeInv
<1>2. CASE CollectedBy(t, j)
  <2>1. pc[j] = "await" /\ round[j] = round[t]
    BY <1>2, CollectedWaits
  <2>2. QED
    BY <2>1 DEF Collected
<1>3. CASE ~CollectedBy(t, j)
  <2>1. ReleasedFrom(j) >= r + 1
    <3>1. CASE round[t] > r
      BY <1>1, <3>1, RoundTypes DEF TreeAt
    <3>2. CASE ~(round[t] > r)
      <4>1. ReleasedBy(t, j) /\ round[t] = r
        BY <1>3, <3>2 DEF Collected, CollectedBy
      <4>2. QED
        BY <1>1, <4>1 DEF TreeAt
    <3>3. QED
      BY <3>1, <3>2
  <2>2. round[j] > r \/ (round[j] = r /\ ReleasedFrom(j) = round[j] + 1)
    BY <1>1, <2>1, RoundTypes
  <2>3. QED
    BY <1>1, <2>2, RoundTypes DEF Collected
<1>4. QED
  BY <1>2, <1>3

\* When a thread is about to leave a point, all participants have entered it.
LEMMA AllEntered ==
    ASSUME IInv, NEW t \in Threads, pc[t] = "broadcast"
    PROVE  \A j \in Threads : j < size => Collected(j, round[t])
<1> DEFINE r == round[t]
<1>1. TypeOK /\ r \in Nat /\ t < size
  BY RoundTypes DEF IInv, PointInv
<1>2. ReleasedFrom(0) >= r + 1
  <2> DEFINE back == {u \in Threads : u < size /\ ReleasedFrom(u) >= r + 1}
  <2>1. t \in back /\ back \subseteq Nat
    BY <1>1, RoundTypes DEF ReleasedFrom, Threads
  <2>2. PICK m \in back : \A k \in back : m <= k
    BY <2>1, LeastNat
  <2>3. ASSUME m # 0
        PROVE  FALSE
    <3>1. PICK u \in Threads : m \in Kids(u) /\ u < m
      BY <2>3, KidFacts
    <3>2. u < size /\ u \in Nat /\ m \in Nat
      BY <1>1, <2>1, <2>2, <3>1 DEF TypeOK, Threads
    <3>3. ReleasedFrom(u) >= r + 1
      BY <1>1, <2>2, <3>1, ReleasedAbove, RoundTypes
    <3>4. QED
      BY <2>2, <3>1, <3>2, <3>3
  <2>4. QED
    BY <2>2, <2>3
<1>3. Collected(0, r)
  BY <1>1, <1>2, ThreadZero, RoundTypes DEF Collected
<1> DEFINE good == {u \in Threads : u < size => Collected(u, r)}
<1>4. ASSUME NEW u \in good, NEW j \in Kids(u)
      PROVE  j \in good
  <2>1. j \in Threads /\ u \in Threads /\ u < j
    BY KidFacts
  <2>2. ASSUME j < size
        PROVE  Collected(j, r)
    <3>1. u < size
      BY <1>1, <2>1, <2>2 DEF TypeOK, Threads
    <3>2. QED
      BY <1>1, <2>1, <2>2, <3>1, CollectedBelow
  <2>3. QED
    BY <2>1, <2>2
<1>5. good = Threads
  BY <1>3, <1>4, ThreadZero, DownTheTree
<1>6. QED
  BY <1>5

LEMMA InitRendezvous == Init => Service!Init
  BY DEF Init, Service!Init, Service!Indices, Threads

LEMMA StepRendezvous ==
    ASSUME IInv, NEW t \in Threads, Step(t)
    PROVE  [Service!Next]_Service!vars
<1> DEFINE inside == {u \in Threads : pc[u] # "compute"}
<1>1. TypeOK /\ TypeOK' /\ Threads = Service!Indices /\ t \in Service!Indices
  BY StepTypeOK DEF IInv, Service!Indices, Threads
<1>2. CASE Enter(t)
  <2>1. inside' = inside \cup {t}
    BY <1>1, <1>2 DEF Enter, Goto, TypeOK
  <2>2. Service!Enter(t)
    BY <1>1, <1>2, <2>1 DEF Enter, Service!Enter, Service!Participants, Participants, task
  <2>3. QED
    BY <1>1, <2>2 DEF Service!Next
<1>3. CASE Leave(t)
  <2>1. inside' = inside \ {t} /\ t \in inside
    BY <1>1, <1>3 DEF Leave, Goto, TypeOK
  <2>2. \A j \in Service!Participants : Service!HasEntered(j, t)
    <3>1. SUFFICES ASSUME NEW j \in Service!Participants
                   PROVE  Service!HasEntered(j, t)
      OBVIOUS
    <3>2. j \in Threads /\ j < size
      <4>1. size \in 0 .. NumThreads /\ j \in 0 .. size - 1
        BY <1>1 DEF Service!Participants, TypeOK
      <4>2. QED
        BY <4>1, NumThreadsAssumption DEF Threads
    <3>3. Collected(j, round[t])
      BY <1>3, <3>2, AllEntered DEF Leave
    <3>4. QED
      BY <3>2, <3>3 DEF Collected, Service!HasEntered
  <2>3. value[t] = IF plan[round[t] + 1] = "reduce"
                     THEN [k \in 1 .. size |-> [thread |-> k - 1, round |-> round[t]]]
                     ELSE << >>
    <3>1. ValueAt(t) /\ pc[t] = "broadcast"
      BY <1>3 DEF IInv, ValueInv, Leave
    <3>2. size \in Nat
      BY <1>1 DEF TypeOK
    <3>3. Merged(0, size, round[t])
            = [k \in 1 .. size |-> [thread |-> k - 1, round |-> round[t]]]
      BY <3>2 DEF Merged
    <3>4. QED
      BY <3>1, <3>3 DEF ValueAt, HasResult, Operation
  <2>4. Service!Leave(t)
    BY <1>3, <2>1, <2>2, <2>3 DEF Leave, Service!Leave, task
  <2>5. QED
    BY <1>1, <2>4 DEF Service!Next
<1>4. CASE ~Enter(t) /\ ~Leave(t)
  <2>1. UNCHANGED task /\ round' = round /\ got' = got
    BY <1>4 DEF Step, CollectFromThread, Publish, SignalUpward, AwaitDownward,
                TurnAround, BroadcastToThread, SignalDownward, task
  <2>2. pc[t] # "compute" /\ pc'[t] # "compute"
        /\ \A u \in Threads : u # t => pc'[u] = pc[u]
    BY <1>1, <1>4 DEF Step, CollectFromThread, Publish, SignalUpward, AwaitDownward,
                TurnAround, BroadcastToThread, SignalDownward, Goto, TypeOK
  <2>3. inside' = inside
    BY <2>2
  <2>4. QED
    BY <2>1, <2>3 DEF Service!vars, task
<1>5. QED
  BY <1>2, <1>3, <1>4

LEMMA BeginRendezvous == BeginTask => Service!Begin
  BY DEF BeginTask, Service!Begin, Service!Participants, Participants,
         Service!Indices, Threads

\* The synchronization points implement the rendezvous, its progress aside: no
\* thread returns from synchronize() or reduce() before all participants have
\* called it, and each gets the values of all, in the order of the threads.
THEOREM SafeRendezvous == Spec => Service!Init /\ [][Service!Next]_Service!vars
<1>1. IInv /\ [Next]_vars => [Service!Next]_Service!vars
  <2>1. ASSUME UNCHANGED vars
        PROVE  UNCHANGED Service!vars
    BY <2>1 DEF vars, task, Service!vars
  <2>2. ASSUME IInv, BeginTask
        PROVE  Service!Next
    BY <2>2, BeginRendezvous DEF Service!Next
  <2>3. QED
    BY <2>1, <2>2, StepRendezvous DEF Next
<1>2. QED
  BY <1>1, InitRendezvous, Inductive, PTL DEF Spec

=============================================================================
