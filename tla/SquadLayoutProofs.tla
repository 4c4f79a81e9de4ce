-------------------------- MODULE SquadLayoutProofs --------------------------
(*****************************************************************************)
(* Facts about the tree of a squad, for every number of threads, from what   *)
(* SquadLayout assumes of it.                                                *)
(*****************************************************************************)
EXTENDS SquadLayout, SenseSignals, WellFoundedInduction, TLAPS

LEMMA ThreadZero == 0 \in Threads
  BY NumThreadsAssumption DEF Threads

\* The walks visit subordinates below the number of threads asked for, all of
\* them, once.
LEMMA WalkFacts ==
    ASSUME NEW t \in Threads, NEW c \in 0 .. NumThreads
    PROVE  /\ ToWalk[t][c] \in Seq(Threads)
           /\ FromWalk[t][c] \in Seq(Threads)
           /\ \A k \in 1 .. Len(ToWalk[t][c]) :
                 ToWalk[t][c][k] \in Kids(t) /\ ToWalk[t][c][k] < c
           /\ \A k \in 1 .. Len(FromWalk[t][c]) :
                 FromWalk[t][c][k] \in Kids(t) /\ FromWalk[t][c][k] < c
           /\ \A j \in Kids(t) : j < c =>
                 /\ \E k \in 1 .. Len(ToWalk[t][c]) : ToWalk[t][c][k] = j
                 /\ \E k \in 1 .. Len(FromWalk[t][c]) : FromWalk[t][c][k] = j
           /\ \A k, l \in 1 .. Len(ToWalk[t][c]) :
                 ToWalk[t][c][k] = ToWalk[t][c][l] => k = l
           /\ \A k, l \in 1 .. Len(FromWalk[t][c]) :
                 FromWalk[t][c][k] = FromWalk[t][c][l] => k = l
<1> DEFINE to == ToSubthreads(NumThreads, t, c)
           from == FromSubthreads(NumThreads, t, c)
<1>1. NumThreads \in 0 .. NumThreads /\ Threads = 0 .. NumThreads - 1
  BY NumThreadsAssumption DEF Threads
<1>2. ToWalk[t][c] = to /\ FromWalk[t][c] = from
  BY DEF ToWalk, FromWalk
<1>3. Kids(t) = Subthreads(NumThreads, t)
  BY <1>1 DEF Kids, Subthreads, ToWalk
<1>4. WalksAgree(NumThreads, c)
  BY TreeAssumption
<1>5. /\ to \in Seq(Threads)
      /\ from \in Seq(Threads)
      /\ Visited(to) = {j \in Kids(t) : j < c}
      /\ Visited(from) = {j \in Kids(t) : j < c}
      /\ VisitsOnce(to)
      /\ VisitsOnce(from)
  BY <1>1, <1>3, <1>4 DEF WalksAgree
<1> HIDE DEF to, from
<1>6. QED
  BY <1>2, <1>5 DEF Visited, VisitsOnce

\* Subordinates come after their superordinate, and have only one.
LEMMA KidFacts ==
    /\ \A t \in Threads : \A j \in Kids(t) : j \in Threads /\ t < j /\ j # t /\ j # 0
    /\ \A t, u \in Threads : \A j \in Threads :
          j \in Kids(t) /\ j \in Kids(u) => t = u
    /\ \A j \in Threads : j # 0 => \E t \in Threads : j \in Kids(t)
<1>1. NumThreads \in 0 .. NumThreads /\ Threads = 0 .. NumThreads - 1
  BY NumThreadsAssumption DEF Threads
<1>2. \A t \in Threads : Kids(t) = Subthreads(NumThreads, t)
  BY <1>1 DEF Kids, Subthreads, ToWalk
<1>3. UniqueSuperordinate(NumThreads)
  BY TreeAssumption
<1>4. \A t \in Threads : \A j \in Kids(t) : j \in Nat
  BY <1>1, WalkFacts DEF Kids, Visited
<1>5. ASSUME NEW t \in Threads, NEW j \in Kids(t)
      PROVE  j \in Threads /\ t < j /\ j # t /\ j # 0
  BY <1>1, <1>2, <1>3, <1>4, <1>5, NumThreadsAssumption DEF UniqueSuperordinate
<1>6. ASSUME NEW t \in Threads, NEW u \in Threads, NEW j \in Threads,
             j \in Kids(t), j \in Kids(u)
      PROVE  t = u
  BY <1>1, <1>2, <1>3, <1>6 DEF UniqueSuperordinate
<1>7. ASSUME NEW j \in Threads, j # 0
      PROVE  \E t \in Threads : j \in Kids(t)
  BY <1>1, <1>2, <1>3, <1>7, NumThreadsAssumption DEF UniqueSuperordinate
<1>8. QED
  BY <1>5, <1>6, <1>7

\* In a task on c threads, the block of thread t is t itself and then, without
\* gap or overlap, the blocks of the subordinates that it awaits one by one.
LEMMA BlockFacts ==
    ASSUME NEW c \in 0 .. NumThreads, NEW t \in Threads, t < c
    PROVE  LET from == FromWalk[t][c]
               End(u) == BlockEnd(NumThreads, u, c)
           IN  /\ End(0) = c
               /\ End(t) \in t + 1 .. c
               /\ \A k \in 1 .. Len(from) :
                     from[k] = IF k = 1 THEN t + 1 ELSE End(from[k - 1])
               /\ End(t) = IF Len(from) = 0 THEN t + 1 ELSE End(from[Len(from)])
<1> DEFINE from == FromSubthreads(NumThreads, t, c)
           End(u) == BlockEnd(NumThreads, u, c)
           ends == [k \in 1 .. Len(from) |-> End(from[k])]
           bounds == <<t + 1>> \o ends
<1>1. FromWalk[t][c] = from
  BY DEF FromWalk
<1>2. from \in Seq(Threads)
  BY <1>1, WalkFacts
<1>3. c > 0 /\ t \in 0 .. c - 1
  BY NumThreadsAssumption DEF Threads
<1>4. BlocksInOrder(NumThreads, c)
  BY TreeAssumption
<1>5. /\ \A k \in 1 .. Len(from) : from[k] = bounds[k]
      /\ bounds[Len(bounds)] = End(t)
      /\ End(t) \in t + 1 .. c
      /\ End(0) = c
  BY <1>3, <1>4 DEF BlocksInOrder
<1>6. /\ Len(bounds) = Len(from) + 1
      /\ bounds[1] = t + 1
      /\ \A k \in 1 .. Len(from) : bounds[k + 1] = End(from[k])
  <2> HIDE DEF from, End
  <2>1. Len(from) \in Nat
    BY <1>2
  <2>2. ends \in Seq({End(from[k]) : k \in 1 .. Len(from)}) /\ Len(ends) = Len(from)
    BY <2>1
  <2>3. QED
    BY <2>1, <2>2
<1> HIDE DEF from, End, bounds
<1>7. Len(from) \in Nat
  BY <1>2
<1>8. ASSUME NEW k \in 1 .. Len(from)
      PROVE  from[k] = IF k = 1 THEN t + 1 ELSE End(from[k - 1])
  BY <1>5, <1>6, <1>7, k = (k - 1) + 1
<1>9. End(t) = IF Len(from) = 0 THEN t + 1 ELSE End(from[Len(from)])
  BY <1>5, <1>6, <1>7
<1>10. QED
  BY <1>1, <1>5, <1>8, <1>9 DEF End

LEMMA LeastNat ==
    ASSUME NEW S, S \subseteq Nat, S # {}
    PROVE  \E m \in S : \A k \in S : m <= k
<1> DEFINE R == OpToRel(<, Nat)
<1>1. IsWellFoundedOn(R, Nat)
  BY NatLessThanWellFounded
<1>2. \A x, y \in Nat : y < x => <<y, x>> \in R
  BY DEF OpToRel
<1> HIDE DEF R
<1>3. PICK m \in S : \A k \in S : ~ (<<k, m>> \in R)
  BY <1>1, WFMin
<1>4. \A k \in S : m \in Nat /\ k \in Nat /\ ~(k < m)
  BY <1>2, <1>3
<1>5. QED
  BY <1>4

\* The least thread that breaks a rule has a superordinate that keeps it.
LEMMA DownTheTree ==
    ASSUME NEW good, good \subseteq Threads, 0 \in good,
           \A t \in good : \A j \in Kids(t) : j \in good
    PROVE  good = Threads
<1> DEFINE bad == Threads \ good
<1>1. SUFFICES ASSUME bad # {}
               PROVE  FALSE
  OBVIOUS
<1>2. bad \subseteq Nat /\ Threads \subseteq Nat
  BY DEF Threads
<1>3. PICK m \in bad : \A k \in bad : m <= k
  BY <1>1, <1>2, LeastNat
<1>4. PICK t \in Threads : m \in Kids(t) /\ t < m
  BY <1>3, KidFacts
<1>5. t \in good
  BY <1>2, <1>3, <1>4
<1>6. QED
  BY <1>3, <1>4, <1>5

-----------------------------------------------------------------------------

\* A toggled signal differs from before, and no other signal does.
LEMMA ToggledFacts ==
    ASSUME NEW signal \in [Threads -> {0, 1}], NEW t \in Threads
    PROVE  /\ Toggled(signal, t) \in [Threads -> {0, 1}]
           /\ Toggled(signal, t)[t] # signal[t]
           /\ \A u \in Threads : u # t => Toggled(signal, t)[u] = signal[u]
  BY DEF Toggled

=============================================================================
