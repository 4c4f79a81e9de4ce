--------------------------- MODULE FoundationProofs ---------------------------
(*****************************************************************************)
(* Proofs about what a squad stands on: the processor information, the wait  *)
(* for a toggle, the hardware threads of a squad, and its tree.  The three   *)
(* components do not interact; the proofs are for any number of threads and  *)
(* calls, any machine, any parameters and either wait mode.  Only those      *)
(* about the tree are for squads of at most TreeBreadth * TreeBreadth        *)
(* threads: in larger ones a thread may have two superordinates.             *)
(*****************************************************************************)
EXTENDS CpuInfo, AtomicWait, SquadSetup, CheckedArithmeticProofs,
        FiniteSetTheorems, SequenceTheorems

-----------------------------------------------------------------------------
(* Reading the file                                                          *)

Lines == [key : Keys, id : Nat]

LEMMA SameLine ==
    ASSUME NEW x \in Lines, NEW y \in Lines, x.key = y.key, x.id = y.id
    PROVE  x = y
BY DEF Lines

Reads == [last : [Keys -> Int], ids : SUBSET [Keys -> Int], failed : BOOLEAN]

LEMMA NothingReadType == NothingRead \in Reads
BY DEF NothingRead, Reads, Unset

LEMMA ReadLineType ==
    ASSUME NEW read \in Reads, NEW line \in Lines
    PROVE  ReadLine(read, line) \in Reads
<1>2. [read.last EXCEPT ![line.key] = line.id] \in [Keys -> Int]
  BY DEF Reads, Lines
<1>3. QED
  BY <1>2, NothingReadType DEF ReadLine, Reads

\* r is what has been read after each line.
ReadsOf(f, r) ==
    /\ r \in [0 .. Len(f) -> Reads]
    /\ r[0] = NothingRead
    /\ \A n \in 0 .. Len(f) - 1 : r[n + 1] = ReadLine(r[n], f[n + 1])

\* The recursion of ReadFile has a solution.
LEMMA ReadsExist ==
    ASSUME NEW f \in Seq(Lines)
    PROVE  \E r : ReadsOf(f, r)
<1>1. Len(f) \in Nat /\ \A n \in 1 .. Len(f) : f[n] \in Lines
  OBVIOUS
<1> DEFINE After(n, read) == IF n < Len(f) THEN ReadLine(read, f[n + 1]) ELSE read
<1>2. \A n \in Nat, read \in Reads : After(n, read) \in Reads
  <2>1. ASSUME NEW n \in Nat, NEW read \in Reads, n < Len(f)
        PROVE  ReadLine(read, f[n + 1]) \in Reads
    <3>1. n + 1 \in 1 .. Len(f)
      BY <1>1, <2>1
    <3>2. QED
      BY <1>1, <3>1, ReadLineType
  <2>2. QED
    BY <2>1
<1> DEFINE step == [n \in Nat |-> [read \in Reads |-> After(n, read)]]
<1> HIDE DEF After
<1>3. StepOn(Reads, step)
  BY <1>2 DEF StepOn
<1>4. \A n \in Nat, read \in Reads : step[n][read] = After(n, read)
  OBVIOUS
<1> HIDE DEF step
<1>6. PICK g : Defines(Reads, NothingRead, step, g)
  BY <1>3, NothingReadType, RecursionExists
<1> DEFINE r == [n \in 0 .. Len(f) |-> g[n]]
<1>7. \A n \in 0 .. Len(f) : r[n] = g[n] /\ g[n] \in Reads /\ n \in Nat
  BY <1>1, <1>6 DEF Defines
<1>8. ASSUME NEW n \in 0 .. Len(f) - 1
      PROVE  r[n + 1] = ReadLine(r[n], f[n + 1])
  <2>1. n \in Nat /\ n \in 0 .. Len(f) /\ n + 1 \in 0 .. Len(f) /\ n < Len(f)
    BY <1>1
  <2>2. g[n + 1] = step[n][g[n]]
    BY <1>6, <2>1 DEF Defines
  <2>3. step[n][g[n]] = After(n, g[n])
    BY <1>4, <1>7, <2>1
  <2>4. QED
    BY <1>7, <2>1, <2>2, <2>3 DEF After
<1>9. r \in [0 .. Len(f) -> Reads]
  BY <1>7
<1>10. r[0] = NothingRead
  BY <1>1, <1>6, <1>7 DEF Defines
<1> HIDE DEF r
<1>11. QED
  BY <1>8, <1>9, <1>10 DEF ReadsOf

LEMMA ReadFileDef ==
    ASSUME NEW f \in Seq(Lines)
    PROVE  \E r : ReadsOf(f, r) /\ ReadFile(f) = r[Len(f)]
<1> DEFINE Def(r) == [n \in 0 .. Len(f) |->
                        IF n = 0 THEN NothingRead ELSE ReadLine(r[n - 1], f[n])]
           read == CHOOSE r : r = Def(r)
<1>1. Len(f) \in Nat
  OBVIOUS
<1>2. PICK g : ReadsOf(f, g)
  BY ReadsExist
<1>3. g = Def(g)
  <2>1. ASSUME NEW n \in 0 .. Len(f)
        PROVE  g[n] = IF n = 0 THEN NothingRead ELSE ReadLine(g[n - 1], f[n])
    <3>1. CASE n # 0
      <4>1. n - 1 \in 0 .. Len(f) - 1 /\ n = (n - 1) + 1
        BY <1>1, <3>1
      <4>2. QED
        BY <1>2, <3>1, <4>1 DEF ReadsOf
    <3>2. QED
      BY <1>2, <3>1 DEF ReadsOf
  <2>2. QED
    BY <1>2, <2>1 DEF ReadsOf
<1>4. ReadFile(f) = read[Len(f)]
  BY DEF ReadFile
<1>5. read = Def(read)
  <2> HIDE DEF Def
  <2>1. QED
    BY <1>3
<1> HIDE DEF read
<1>6. \A n \in 0 .. Len(f) :
          read[n] = IF n = 0 THEN NothingRead ELSE ReadLine(read[n - 1], f[n])
  BY <1>5
<1>7. read[0] = NothingRead
  BY <1>1, <1>6
<1>8. ASSUME NEW n \in 0 .. Len(f) - 1
      PROVE  read[n + 1] = ReadLine(read[n], f[n + 1])
  <2>1. n + 1 \in 0 .. Len(f) /\ n + 1 # 0 /\ (n + 1) - 1 = n
    BY <1>1
  <2>2. QED
    BY <1>6, <2>1
<1>9. \A n \in 0 .. Len(f) : read[n] \in Reads
  <2> DEFINE good == {n \in Nat : n <= Len(f) => read[n] \in Reads}
  <2>1. 0 \in good
    BY <1>7, NothingReadType
  <2>2. ASSUME NEW n \in good
        PROVE  n + 1 \in good
    <3>1. CASE n + 1 <= Len(f)
      <4>1. n \in 0 .. Len(f) - 1 /\ n + 1 \in 1 .. Len(f) /\ n <= Len(f)
        BY <1>1, <3>1
      <4>2. f[n + 1] \in Lines /\ read[n] \in Reads
        BY <4>1
      <4>3. QED
        BY <1>8, <4>1, <4>2, ReadLineType
    <3>2. QED
      BY <3>1
  <2>3. good = Nat
    <3>1. good \subseteq Nat
      OBVIOUS
    <3> HIDE DEF good
    <3>2. QED
      BY <2>1, <2>2, <3>1, InductionOverNat
  <2>4. QED
    BY <2>3
<1>10. read = [n \in 0 .. Len(f) |-> read[n]]
  BY <1>5
<1>11. read \in [0 .. Len(f) -> Reads]
  BY <1>9, <1>10
<1>12. QED
  BY <1>4, <1>7, <1>8, <1>11 DEF ReadsOf

\* A line up to the n-th names processor p.
IsNamed(f, n, p) == \E i \in 1 .. n : f[i].key = "processor" /\ f[i].id = p

\* What has been read from the first n lines of a file that names no processor twice
DistinctSoFar(f, n, read) ==
    /\ read.last \in [Keys -> Nat \cup {Unset}]
    /\ read.ids \subseteq [Keys -> Nat] /\ IsFiniteSet(read.ids)
    /\ \A a \in read.ids : IsNamed(f, n, a["processor"])
    /\ read.last["processor"] # Unset =>
           /\ IsNamed(f, n, read.last["processor"])
           /\ \A a \in read.ids : a["processor"] # read.last["processor"]
    /\ \A a, b \in read.ids : a["processor"] = b["processor"] => a = b

LEMMA ReadLineKeepsDistinct ==
    ASSUME NEW f \in Seq(Lines), NEW n \in Nat, n + 1 \in 1 .. Len(f),
           \A i, j \in 1 .. Len(f) : f[i] = f[j] /\ f[i].key = "processor" => i = j,
           NEW read \in Reads, DistinctSoFar(f, n, read)
    PROVE  DistinctSoFar(f, n + 1, ReadLine(read, f[n + 1]))
<1> DEFINE line == f[n + 1]
           last == [read.last EXCEPT ![line.key] = line.id]
<1>1. line \in Lines /\ line.key \in Keys /\ line.id \in Nat
  <2>1. line \in Lines
    OBVIOUS
  <2> HIDE DEF line
  <2>2. QED
    BY <2>1 DEF Lines
<1>2. \A i \in 1 .. n : i \in 1 .. Len(f) /\ i # n + 1 /\ f[i] \in Lines
  OBVIOUS
<1>3. \A p : IsNamed(f, n, p) => IsNamed(f, n + 1, p)
  <2>1. \A i \in 1 .. n : i \in 1 .. n + 1
    OBVIOUS
  <2>2. QED
    BY <2>1 DEF IsNamed
<1>4. line.key = "processor" => IsNamed(f, n + 1, line.id) /\ ~IsNamed(f, n, line.id)
  <2>1. n + 1 \in 1 .. n + 1
    OBVIOUS
  <2>2. ASSUME line.key = "processor", NEW i \in 1 .. n,
               f[i].key = "processor", f[i].id = line.id
        PROVE  FALSE
    <3> HIDE DEF line
    <3>1. f[i] = line
      BY <1>1, <1>2, <2>2, SameLine
    <3>2. QED
      BY <1>2, <2>2, <3>1 DEF line
  <2>3. QED
    BY <2>1, <2>2 DEF IsNamed
<1> HIDE DEF line
<1>5. /\ last \in [Keys -> Nat \cup {Unset}]
      /\ line.key # "processor" => last["processor"] = read.last["processor"]
      /\ line.key = "processor" => last["processor"] = line.id
  BY <1>1 DEF DistinctSoFar, Keys
<1> HIDE DEF last
<1>6. last["processor"] # Unset =>
          /\ IsNamed(f, n + 1, last["processor"])
          /\ \A a \in read.ids : a["processor"] # last["processor"]
  BY <1>3, <1>4, <1>5 DEF DistinctSoFar
<1>7. CASE read.failed \/ read.last[line.key] # Unset
  <2>1. /\ ReadLine(read, line).last = read.last
        /\ ReadLine(read, line).ids = read.ids
    BY <1>7 DEF ReadLine, Reads
  <2>2. QED
    BY <1>3, <2>1 DEF DistinctSoFar, line
<1>8. CASE ~(read.failed \/ read.last[line.key] # Unset) /\ \A key \in Keys : last[key] # Unset
  <2>1. /\ ReadLine(read, line).last = NothingRead.last
        /\ ReadLine(read, line).ids = read.ids \cup {last}
    BY <1>8 DEF ReadLine, NothingRead, last
  <2>2. NothingRead.last \in [Keys -> Nat \cup {Unset}] /\ NothingRead.last["processor"] = Unset
    BY DEF NothingRead, Keys
  <2>3. last \in [Keys -> Nat] /\ "processor" \in Keys
    BY <1>5, <1>8 DEF Keys
  <2>4. IsFiniteSet(read.ids \cup {last})
    BY FS_AddElement DEF DistinctSoFar
  <2>5. last["processor"] # Unset
    BY <1>8, <2>3
  <2>6. QED
    BY <1>3, <1>6, <2>1, <2>2, <2>3, <2>4, <2>5 DEF DistinctSoFar, line
<1>9. CASE ~(read.failed \/ read.last[line.key] # Unset) /\ ~\A key \in Keys : last[key] # Unset
  <2>1. /\ ReadLine(read, line).last = last
        /\ ReadLine(read, line).ids = read.ids
    BY <1>9 DEF ReadLine, Reads, last
  <2>2. QED
    BY <1>3, <1>5, <1>6, <2>1 DEF DistinctSoFar, line
<1>10. QED
  BY <1>7, <1>8, <1>9

\* The processors that a file describes: finitely many, each of them once.
LEMMA IdsFacts ==
    ASSUME NEW f \in Files
    PROVE  /\ ReadFile(f).ids \subseteq [Keys -> Nat] /\ IsFiniteSet(ReadFile(f).ids)
           /\ \A a, b \in ReadFile(f).ids : a["processor"] = b["processor"] => a = b
<1>1. /\ f \in Seq(Lines)
      /\ \A i, j \in 1 .. Len(f) : f[i] = f[j] /\ f[i].key = "processor" => i = j
  BY FilesAssumption DEF Lines
<1>2. PICK r : ReadsOf(f, r) /\ ReadFile(f) = r[Len(f)]
  BY <1>1, ReadFileDef
<1>3. Len(f) \in Nat
  BY <1>1
<1> DEFINE good == {n \in Nat : n <= Len(f) => DistinctSoFar(f, n, r[n])}
<1>4. 0 \in good
  <2>1. DistinctSoFar(f, 0, NothingRead)
    BY FS_EmptySet DEF DistinctSoFar, NothingRead, Keys
  <2>2. QED
    BY <1>2, <2>1 DEF ReadsOf
<1>5. ASSUME NEW n \in good
      PROVE  n + 1 \in good
  <2>1. CASE n + 1 <= Len(f)
    <3>1. n \in Nat /\ n \in 0 .. Len(f) /\ n \in 0 .. Len(f) - 1 /\ n + 1 \in 1 .. Len(f)
          /\ n <= Len(f)
      BY <1>3, <2>1
    <3>2. r[n] \in Reads /\ r[n + 1] = ReadLine(r[n], f[n + 1]) /\ DistinctSoFar(f, n, r[n])
      BY <1>2, <3>1 DEF ReadsOf
    <3>3. DistinctSoFar(f, n + 1, r[n + 1])
      BY <1>1, <3>1, <3>2, ReadLineKeepsDistinct
    <3>4. QED
      BY <3>1, <3>3
  <2>2. QED
    BY <2>1
<1>6. good = Nat
  <2>1. good \subseteq Nat
    OBVIOUS
  <2> HIDE DEF good
  <2>2. QED
    BY <1>4, <1>5, <2>1, InductionOverNat
<1>7. DistinctSoFar(f, Len(f), ReadFile(f))
  BY <1>2, <1>3, <1>6
<1>8. QED
  BY <1>7 DEF DistinctSoFar

-----------------------------------------------------------------------------
(* Sorting                                                                   *)

Increasing(list, n) == \A i, j \in 1 .. n : i < j => list[i] < list[j]

SortedList(S, n, list) == list \in [1 .. n -> S] /\ Increasing(list, n)

HasAll(S, n, list) == \A s \in S : \E i \in 1 .. n : list[i] = s

LEMMA SortedExists ==
    ASSUME NEW S, S \subseteq Nat, IsFiniteSet(S)
    PROVE  \E list : SortedList(S, Cardinality(S), list)
<1> DEFINE good == {n \in Nat : \A T \in SUBSET Nat :
                        IsFiniteSet(T) /\ Cardinality(T) = n => \E list : SortedList(T, n, list)}
<1>1. 0 \in good
  <2>1. ASSUME NEW T
        PROVE  SortedList(T, 0, [i \in 1 .. 0 |-> 0])
    BY DEF SortedList, Increasing
  <2>2. QED
    BY <2>1
<1>2. ASSUME NEW n \in good
      PROVE  n + 1 \in good
  <2>1. SUFFICES ASSUME NEW T \in SUBSET Nat, IsFiniteSet(T), Cardinality(T) = n + 1
                 PROVE  \E list : SortedList(T, n + 1, list)
    OBVIOUS
  <2>2. T # {}
    BY <2>1, FS_EmptySet
  <2>3. PICK m \in T : \A k \in T : m <= k
    BY <2>2, LeastNat
  <2>4. IsFiniteSet(T \ {m}) /\ Cardinality(T \ {m}) = n /\ T \ {m} \in SUBSET Nat
    <3>1. m \in T
      BY <2>3
    <3>2. IsFiniteSet(T \ {m}) /\ Cardinality(T \ {m}) = Cardinality(T) - 1
      BY <2>1, <3>1, FS_RemoveElement
    <3>3. QED
      BY <2>1, <3>2
  <2>5. PICK rest : SortedList(T \ {m}, n, rest)
    BY <2>4
  <2> DEFINE list == [i \in 1 .. n + 1 |-> IF i = 1 THEN m ELSE rest[i - 1]]
  <2>6. \A i \in 1 .. n : rest[i] \in T /\ m < rest[i] /\ rest[i] \in Nat
    <3>1. \A i \in 1 .. n : rest[i] \in T \ {m}
      BY <2>5 DEF SortedList
    <3>2. \A k \in T : k \in Nat
      OBVIOUS
    <3>3. \A k \in T \ {m} : m < k
      BY <2>3, <3>2
    <3>4. QED
      BY <3>1, <3>2, <3>3
  <2>7. \A i \in 1 .. n + 1 : i = 1 \/ i - 1 \in 1 .. n
    OBVIOUS
  <2>8. list \in [1 .. n + 1 -> T]
    BY <2>3, <2>6, <2>7
  <2>9. ASSUME NEW i \in 1 .. n + 1, NEW j \in 1 .. n + 1, i < j
        PROVE  list[i] < list[j]
    <3>1. j - 1 \in 1 .. n /\ j # 1 /\ list[j] = rest[j - 1]
      BY <2>7, <2>9
    <3>2. CASE i = 1
      BY <2>6, <3>1, <3>2
    <3>3. CASE i # 1
      <4>1. i - 1 \in 1 .. n /\ i - 1 < j - 1 /\ list[i] = rest[i - 1]
        BY <2>7, <2>9, <3>3
      <4>2. QED
        BY <2>5, <3>1, <4>1 DEF SortedList, Increasing
    <3>4. QED
      BY <3>2, <3>3
  <2> HIDE DEF list
  <2>10. SortedList(T, n + 1, list)
    BY <2>8, <2>9 DEF SortedList, Increasing
  <2>11. QED
    BY <2>10
<1>3. good = Nat
  <2>1. good \subseteq Nat
    OBVIOUS
  <2> HIDE DEF good
  <2>2. QED
    BY <1>1, <1>2, <2>1, InductionOverNat
<1>4. Cardinality(S) \in Nat
  BY FS_CardinalityType
<1>5. QED
  BY <1>3, <1>4

\* A sorted list of as many elements as there are has all of them.
LEMMA SortedHasAll ==
    ASSUME NEW S, S \subseteq Nat, IsFiniteSet(S), NEW list, SortedList(S, Cardinality(S), list)
    PROVE  HasAll(S, Cardinality(S), list)
<1>1. PICK n \in Nat : n = Cardinality(S)
  BY FS_CardinalityType
<1>2. list \in Injection(1 .. n, S)
  <2>1. list \in [1 .. n -> S] /\ \A i, j \in 1 .. n : i < j => list[i] < list[j]
    BY <1>1 DEF SortedList, Increasing
  <2>2. ASSUME NEW i \in 1 .. n, NEW j \in 1 .. n, list[i] = list[j]
        PROVE  i = j
    <3>1. list[i] \in Nat /\ list[j] \in Nat
      BY <2>1
    <3>2. ~(i < j) /\ ~(j < i)
      BY <2>1, <2>2, <3>1
    <3>3. QED
      BY <3>2
  <2>3. \A i, j \in 1 .. n : list[i] = list[j] => i = j
    BY <2>2
  <2>4. QED
    BY <2>1, <2>3 DEF Injection, IsInjective
<1>3. Cardinality(1 .. n) = n
  <2>1. 1 \in Int /\ n \in Int
    OBVIOUS
  <2>2. Cardinality(1 .. n) = IF 1 > n THEN 0 ELSE n - 1 + 1
    BY <2>1, FS_Interval
  <2>3. QED
    BY <2>2
<1>4. list \in Surjection(1 .. n, S)
  BY <1>1, <1>2, <1>3, FS_Injection
<1>5. QED
  BY <1>1, <1>4 DEF Surjection, HasAll

-----------------------------------------------------------------------------
(* Cores                                                                     *)

CoreOfId(a) == <<a["physical id"], a["core id"]>>

CoresOf(f) == {<<a["physical id"], a["core id"]>> : a \in ReadFile(f).ids}

LEMMA SameCoreFacts ==
    ASSUME NEW a, NEW b
    PROVE  SameCore(a, b) <=> CoreOfId(a) = CoreOfId(b)
BY DEF SameCore, CoreOfId

\* Each core is represented by one of its processors.
LEMMA Representatives ==
    ASSUME NEW f \in Files
    PROVE  LET ids == ReadFile(f).ids
           IN  /\ UniqueIds(ids) \subseteq ids
               /\ \A a \in ids : \E b \in UniqueIds(ids) : CoreOfId(b) = CoreOfId(a)
               /\ \A a, b \in UniqueIds(ids) : CoreOfId(a) = CoreOfId(b) => a = b
<1> DEFINE ids == ReadFile(f).ids
<1>1. /\ ids \subseteq [Keys -> Nat]
      /\ \A a, b \in ids : a["processor"] = b["processor"] => a = b
  BY IdsFacts
<1> HIDE DEF ids
<1>2. \A a \in ids : a["processor"] \in Nat
  BY <1>1 DEF Keys
<1>3. ASSUME NEW a \in ids
      PROVE  \E b \in UniqueIds(ids) : CoreOfId(b) = CoreOfId(a)
  <2> DEFINE same == {c["processor"] : c \in {b \in ids : SameCore(a, b)}}
  <2>1. same \subseteq Nat /\ same # {}
    BY <1>2, SameCoreFacts
  <2>2. PICK p \in same : \A q \in same : p <= q
    BY <2>1, LeastNat
  <2>3. PICK b \in ids : SameCore(a, b) /\ b["processor"] = p
    BY <2>2
  <2>4. ASSUME NEW c \in ids, SameCore(b, c)
        PROVE  b["processor"] <= c["processor"]
    BY <2>2, <2>3, <2>4, SameCoreFacts
  <2>5. b \in UniqueIds(ids)
    BY <2>4 DEF UniqueIds
  <2>6. QED
    BY <2>3, <2>5, SameCoreFacts
<1>4. ASSUME NEW a \in UniqueIds(ids), NEW b \in UniqueIds(ids), CoreOfId(a) = CoreOfId(b)
      PROVE  a = b
  <2>1. a \in ids /\ b \in ids
    BY DEF UniqueIds
  <2>2. a["processor"] <= b["processor"] /\ b["processor"] <= a["processor"]
    BY <1>4, <2>1, SameCoreFacts DEF UniqueIds
  <2>3. QED
    BY <1>1, <1>2, <2>1, <2>2
<1>5. UniqueIds(ids) \subseteq ids
  BY DEF UniqueIds
<1>6. QED
  BY <1>3, <1>4, <1>5 DEF ids

ProcessorsOf(f) == {a["processor"] : a \in UniqueIds(ReadFile(f).ids)}

LEMMA ProcessorFacts ==
    ASSUME NEW f \in Files
    PROVE  /\ ProcessorsOf(f) \subseteq Nat /\ IsFiniteSet(ProcessorsOf(f))
           /\ Cardinality(CoresOf(f)) = Cardinality(ProcessorsOf(f))
<1> DEFINE ids == ReadFile(f).ids
           unique == UniqueIds(ids)
           toCore == [a \in unique |-> CoreOfId(a)]
           toProcessor == [a \in unique |-> a["processor"]]
<1>1. /\ ids \subseteq [Keys -> Nat] /\ IsFiniteSet(ids)
      /\ \A a, b \in ids : a["processor"] = b["processor"] => a = b
  BY IdsFacts
<1>2. /\ unique \subseteq ids
      /\ \A a \in ids : \E b \in unique : CoreOfId(b) = CoreOfId(a)
      /\ \A a, b \in unique : CoreOfId(a) = CoreOfId(b) => a = b
  BY Representatives
<1> HIDE DEF ids, unique
<1>3. IsFiniteSet(unique)
  BY <1>1, <1>2, FS_Subset
<1>4. CoresOf(f) = {CoreOfId(a) : a \in ids} /\ ProcessorsOf(f) = {a["processor"] : a \in unique}
  BY DEF CoresOf, CoreOfId, ProcessorsOf, ids, unique
<1>5. toCore \in Surjection(unique, CoresOf(f)) /\ toCore \in Injection(unique, CoresOf(f))
  <2>1. toCore \in [unique -> CoresOf(f)]
    BY <1>2, <1>4
  <2>2. \A core \in CoresOf(f) : \E a \in unique : toCore[a] = core
    BY <1>2, <1>4
  <2>3. \A a, b \in unique : toCore[a] = toCore[b] => a = b
    BY <1>2
  <2> HIDE DEF toCore
  <2>4. QED
    BY <2>1, <2>2, <2>3 DEF Surjection, Injection, IsInjective
<1>6. /\ toProcessor \in Surjection(unique, ProcessorsOf(f))
      /\ toProcessor \in Injection(unique, ProcessorsOf(f))
  <2>1. toProcessor \in [unique -> ProcessorsOf(f)]
    BY <1>4
  <2>2. \A p \in ProcessorsOf(f) : \E a \in unique : toProcessor[a] = p
    BY <1>4
  <2>3. \A a, b \in unique : toProcessor[a] = toProcessor[b] => a = b
    BY <1>1, <1>2
  <2> HIDE DEF toProcessor
  <2>4. QED
    BY <2>1, <2>2, <2>3 DEF Surjection, Injection, IsInjective
<1> HIDE DEF toCore, toProcessor
<1>7. Cardinality(CoresOf(f)) = Cardinality(unique)
  BY <1>3, <1>5, FS_Surjection
<1>8. IsFiniteSet(ProcessorsOf(f)) /\ Cardinality(ProcessorsOf(f)) = Cardinality(unique)
  BY <1>3, <1>6, FS_Surjection
<1>9. ProcessorsOf(f) \subseteq Nat
  <2>1. \A a \in ids : a["processor"] \in Nat
    BY <1>1 DEF Keys
  <2>2. QED
    BY <1>2, <1>4, <2>1
<1>10. QED
  BY <1>7, <1>8, <1>9

\* The list of a file has one processor of each core.
LEMMA ListFacts ==
    ASSUME NEW f \in Files
    PROVE  LET list == CoreThreadIds(f)
           IN  /\ list \in Seq(Nat)
               /\ Len(list) = Cardinality(CoresOf(f))
               /\ \A i \in 1 .. Len(list) : list[i] \in ProcessorsOf(f)
               /\ \A p \in ProcessorsOf(f) : \E i \in 1 .. Len(list) : list[i] = p
<1> DEFINE S == ProcessorsOf(f)
           list == CoreThreadIds(f)
<1>1. S \subseteq Nat /\ IsFiniteSet(S) /\ Cardinality(S) \in Nat
      /\ Cardinality(CoresOf(f)) = Cardinality(S)
  BY ProcessorFacts, FS_CardinalityType
<1>2. list = CHOOSE l \in [1 .. Cardinality(S) -> S] : \A i, j \in DOMAIN l : i < j => l[i] < l[j]
  BY DEF CoreThreadIds, ProcessorsOf
<1>3. \E l \in [1 .. Cardinality(S) -> S] : \A i, j \in DOMAIN l : i < j => l[i] < l[j]
  <2> HIDE DEF S
  <2>1. PICK l : SortedList(S, Cardinality(S), l)
    BY <1>1, SortedExists
  <2>2. QED
    BY <2>1 DEF SortedList, Increasing
<1> HIDE DEF S, list
<1>4. list \in [1 .. Cardinality(S) -> S] /\ \A i, j \in DOMAIN list : i < j => list[i] < list[j]
  BY <1>2, <1>3
<1>5. SortedList(S, Cardinality(S), list)
  BY <1>4 DEF SortedList, Increasing
<1>6. HasAll(S, Cardinality(S), list)
  <2>1. S \subseteq Nat /\ IsFiniteSet(S)
    BY <1>1
  <2>2. QED
    BY <1>5, <2>1, SortedHasAll
<1>7. PICK n \in Nat : n = Cardinality(S)
  BY <1>1
<1>8. list \in [1 .. n -> Nat]
  BY <1>1, <1>4, <1>7
<1>9. list \in Seq(Nat) /\ Len(list) = n
  BY <1>8
<1>10. \A i \in 1 .. n : list[i] \in S
  BY <1>4, <1>7
<1>11. QED
  BY <1>1, <1>6, <1>7, <1>9, <1>10 DEF S, list, HasAll

-----------------------------------------------------------------------------
(* The racing initialisation                                                 *)

\* What is known of the list of cores and of nullptr
LEMMA Constants ==
    ASSUME file \in Files
    PROVE  /\ Cores \in Seq(Nat) /\ Cores # NULL /\ NULL \notin Threads
           /\ Len(Cores) \in Nat
           /\ Len(Cores) = 0 <=> Cores = << >>
<1>1. Cores \in Seq(Nat) /\ Cores # NULL
  BY FilesAssumption, ListFacts DEF Cores
<1>2. Len(Cores) \in Nat /\ (Len(Cores) = 0 <=> Cores = << >>)
  BY <1>1
<1>3. QED
  BY <1>1, <1>2, NullAssumption

LEMMA Initially == Init => IInv
<1>1. SUFFICES ASSUME Init
               PROVE  IInv
  OBVIOUS
<1>2. TypeOK
  BY <1>1, Constants DEF Init, TypeOK, Pointers, Labels, Queries
<1>3. /\ PublishedWithCount /\ CountStored /\ WinnerKnows /\ LoadedTogether
      /\ CountsOfCores /\ SpansOfCores
  BY <1>1, NullAssumption
     DEF Init, PublishedWithCount, CountStored, WinnerKnows, LoadedTogether, CountsOfCores,
         SpansOfCores
<1>4. QED
  BY <1>2, <1>3 DEF IInv

-----------------------------------------------------------------------------
(* Each step preserves the invariant.                                        *)

\* The parts that a step needs are those that speak of what it changes.
LEMMA CallKeeps ==
    ASSUME IInv, NEW t \in Threads, NEW q \in Queries, Call(t, q)
    PROVE  IInv'
<1>1. TypeOK'
  BY DEF IInv, TypeOK, Call, Goto, cpu_info_value, history, Cores, Labels, Pointers
<1>2. (PublishedWithCount /\ SpansOfCores)'
  BY DEF IInv, PublishedWithCount, SpansOfCores, Call, cpu_info_value, history, Cores
<1>3. (CountStored /\ WinnerKnows)'
  BY DEF IInv, TypeOK, CountStored, WinnerKnows, Call, Goto, cpu_info_value, Cores, Queries
<1>4. LoadedTogether'
  BY DEF IInv, TypeOK, LoadedTogether, Call, Goto, cpu_info_value, Cores, Queries
<1>5. CountsOfCores'
  BY DEF IInv, TypeOK, CountsOfCores, Call, Goto, cpu_info_value, history, Cores, Queries
<1>6. QED
  BY <1>1, <1>2, <1>3, <1>4, <1>5 DEF IInv

LEMMA LoadPtrKeeps ==
    ASSUME IInv, NEW t \in Threads, LoadPtr(t)
    PROVE  IInv'
<1>1. TypeOK'
  BY DEF IInv, TypeOK, LoadPtr, Goto, cpu_info_value, history, Cores, Labels
<1>2. (PublishedWithCount /\ SpansOfCores)'
  BY DEF IInv, PublishedWithCount, SpansOfCores, LoadPtr, cpu_info_value, history, Cores
<1>3. (CountStored /\ WinnerKnows)'
  BY DEF IInv, TypeOK, CountStored, WinnerKnows, LoadPtr, Goto, cpu_info_value, Cores
<1>4. LoadedTogether'
  BY DEF IInv, TypeOK, LoadedTogether, LoadPtr, Goto, cpu_info_value, Cores
<1>5. CountsOfCores'
  BY DEF IInv, TypeOK, CountsOfCores, LoadPtr, Goto, cpu_info_value, history, Cores
<1>6. QED
  BY <1>1, <1>2, <1>3, <1>4, <1>5 DEF IInv

\* Once there is a pointer there is a count, and nobody reads the file any more.
LEMMA GuardKeeps ==
    ASSUME IInv, NEW t \in Threads, Guard(t)
    PROVE  IInv'
<1>1. TypeOK'
  BY DEF IInv, TypeOK, Guard, Goto, cpu_info_value, locals, history, Cores, Labels
<1>2. (PublishedWithCount /\ SpansOfCores)'
  BY DEF IInv, PublishedWithCount, SpansOfCores, Guard, cpu_info_value, history, Cores
<1>3. CountStored'
  BY DEF IInv, TypeOK, CountStored, Guard, Goto, cpu_info_value, Cores
<1>4. WinnerKnows'
  <2>1. core_thread_ids_ptr # NULL => physical_concurrency # 0
    BY Constants DEF IInv, TypeOK, PublishedWithCount
  <2>2. QED
    BY <2>1, NullAssumption
       DEF IInv, TypeOK, WinnerKnows, Guard, Goto, cpu_info_value, locals
<1>5. LoadedTogether'
  BY DEF IInv, TypeOK, LoadedTogether, Guard, Goto, cpu_info_value, locals, Cores
<1>6. CountsOfCores'
  BY DEF IInv, TypeOK, CountsOfCores, Guard, Goto, cpu_info_value, locals, history, Cores
<1>7. QED
  BY <1>1, <1>2, <1>3, <1>4, <1>5, <1>6 DEF IInv

LEMMA StoreCountKeeps ==
    ASSUME IInv, NEW t \in Threads, StoreCount(t)
    PROVE  IInv'
<1> USE DEF Cores
<1>1. /\ heap' = [heap EXCEPT ![t] = Cores]
      /\ physical_concurrency' = Len(Cores)
      /\ pc' = [pc EXCEPT ![t] = "publish"]
      /\ pc[t] = "read"
      /\ file' = file
      /\ UNCHANGED <<core_thread_ids_ptr, locals, history>>
  BY DEF IInv, TypeOK, StoreCount, Goto
<1>2. TypeOK'
  BY <1>1 DEF IInv, TypeOK, locals, history, Labels
<1>3. PublishedWithCount'
  BY <1>1 DEF IInv, TypeOK, PublishedWithCount, Pointers
<1>4. CountStored'
  BY <1>1 DEF IInv, TypeOK, CountStored
<1>5. WinnerKnows'
  BY <1>1 DEF IInv, TypeOK, WinnerKnows, locals
<1>6. (LoadedTogether /\ SpansOfCores)'
  BY <1>1 DEF IInv, TypeOK, LoadedTogether, SpansOfCores, locals, history
<1>7. CountsOfCores'
  BY <1>1 DEF IInv, TypeOK, CountsOfCores, locals, history
<1>8. QED
  BY <1>2, <1>3, <1>4, <1>5, <1>6, <1>7 DEF IInv

LEMMA TerminateKeeps ==
    ASSUME IInv, NEW t \in Threads, Terminate(t)
    PROVE  IInv'
<1>1. TypeOK'
  BY DEF IInv, TypeOK, Terminate, cpu_info_value, locals, history, Cores, Labels
<1>2. (PublishedWithCount /\ CountStored /\ WinnerKnows)'
  BY DEF IInv, PublishedWithCount, CountStored, WinnerKnows, Terminate, cpu_info_value, Cores
<1>3. (LoadedTogether /\ SpansOfCores)'
  BY DEF IInv, LoadedTogether, SpansOfCores, Terminate, cpu_info_value, locals, history, Cores
<1>4. CountsOfCores'
  BY DEF IInv, TypeOK, CountsOfCores, Terminate, history, locals, Cores
<1>5. QED
  BY <1>1, <1>2, <1>3, <1>4 DEF IInv

\* The pointer is set once, to the vector of the thread that sets it.
LEMMA PublishKeeps ==
    ASSUME IInv, NEW t \in Threads, Publish(t)
    PROVE  IInv'
<1>1. /\ heap[t] = Cores /\ physical_concurrency = Len(Cores) /\ NULL \notin Threads
      /\ pc[t] = "publish"
  BY NullAssumption DEF IInv, CountStored, Publish
<1>2. /\ file' = file /\ physical_concurrency' = physical_concurrency /\ heap' = heap
      /\ query' = query /\ count' = count /\ ptr' = ptr /\ spans' = spans /\ counts' = counts
      /\ pc' = [pc EXCEPT ![t] = "leave"]
      /\ won' = [won EXCEPT ![t] = core_thread_ids_ptr = NULL]
      /\ Cores' = Cores
  BY DEF Publish, Goto, history, Cores
<1>3. \/ /\ core_thread_ids_ptr = NULL
         /\ core_thread_ids_ptr' = t
         /\ Cores # << >>
      \/ core_thread_ids_ptr' = core_thread_ids_ptr
  BY <1>1 DEF Publish, Data
<1>4. TypeOK'
  BY <1>2, <1>3 DEF IInv, TypeOK, Labels, Pointers
<1>5. PublishedWithCount'
  BY <1>1, <1>2, <1>3 DEF IInv, TypeOK, PublishedWithCount
<1>6. CountStored'
  BY <1>1, <1>2 DEF IInv, TypeOK, CountStored
<1>7. WinnerKnows'
  BY <1>1, <1>2, <1>3 DEF IInv, TypeOK, WinnerKnows
<1>8. (LoadedTogether /\ SpansOfCores)'
  BY <1>1, <1>2, <1>3 DEF IInv, TypeOK, LoadedTogether, SpansOfCores
<1>9. CountsOfCores'
  BY <1>1, <1>2, <1>3 DEF IInv, TypeOK, CountsOfCores
<1>10. QED
  BY <1>4, <1>5, <1>6, <1>7, <1>8, <1>9 DEF IInv

\* Only losers destroy their vectors.
LEMMA LeaveInitKeeps ==
    ASSUME IInv, NEW t \in Threads, LeaveInit(t)
    PROVE  IInv'
<1>1. /\ file' = file /\ physical_concurrency' = physical_concurrency
      /\ core_thread_ids_ptr' = core_thread_ids_ptr
      /\ query' = query /\ count' = count /\ ptr' = ptr /\ won' = won
      /\ spans' = spans /\ counts' = counts
      /\ pc' = [pc EXCEPT ![t] = "reload_count"] /\ pc[t] = "leave"
      /\ heap' = heap \/ (~won[t] /\ heap' = [heap EXCEPT ![t] = NULL])
      /\ Cores' = Cores
  BY DEF LeaveInit, Goto, locals, history, Cores
<1>2. TypeOK'
  BY <1>1 DEF IInv, TypeOK, Labels
<1>3. PublishedWithCount'
  BY <1>1 DEF IInv, TypeOK, PublishedWithCount, WinnerKnows, Pointers
<1>4. CountStored'
  BY <1>1 DEF IInv, TypeOK, CountStored
<1>5. WinnerKnows'
  BY <1>1 DEF IInv, TypeOK, WinnerKnows
<1>6. (LoadedTogether /\ SpansOfCores)'
  BY <1>1 DEF IInv, TypeOK, LoadedTogether, SpansOfCores
<1>7. CountsOfCores'
  BY <1>1 DEF IInv, TypeOK, CountsOfCores
<1>8. QED
  BY <1>2, <1>3, <1>4, <1>5, <1>6, <1>7 DEF IInv

LEMMA ReloadCountKeeps ==
    ASSUME IInv, NEW t \in Threads, ReloadCount(t)
    PROVE  IInv'
<1>1. TypeOK'
  BY DEF IInv, TypeOK, ReloadCount, Goto, cpu_info_value, history, Cores, Labels
<1>2. (PublishedWithCount /\ SpansOfCores)'
  BY DEF IInv, PublishedWithCount, SpansOfCores, ReloadCount, cpu_info_value, history, Cores
<1>3. (CountStored /\ WinnerKnows)'
  BY DEF IInv, TypeOK, CountStored, WinnerKnows, ReloadCount, Goto, cpu_info_value, Cores
<1>4. LoadedTogether'
  BY DEF IInv, TypeOK, CountStored, LoadedTogether, ReloadCount, Goto, cpu_info_value, Cores,
         Queries
<1>5. CountsOfCores'
  BY DEF IInv, TypeOK, CountsOfCores, CountStored, ReloadCount, Goto, cpu_info_value, history, Cores
<1>6. QED
  BY <1>1, <1>2, <1>3, <1>4, <1>5 DEF IInv

LEMMA ReloadPtrKeeps ==
    ASSUME IInv, NEW t \in Threads, ReloadPtr(t)
    PROVE  IInv'
<1>1. TypeOK'
  BY DEF IInv, TypeOK, ReloadPtr, Goto, cpu_info_value, history, Cores, Labels
<1>2. (PublishedWithCount /\ SpansOfCores)'
  BY DEF IInv, PublishedWithCount, SpansOfCores, ReloadPtr, cpu_info_value, history, Cores
<1>3. (CountStored /\ WinnerKnows)'
  BY DEF IInv, TypeOK, CountStored, WinnerKnows, ReloadPtr, Goto, cpu_info_value, Cores
<1>4. LoadedTogether'
  BY DEF IInv, TypeOK, LoadedTogether, ReloadPtr, Goto, cpu_info_value, Cores
<1>5. CountsOfCores'
  BY DEF IInv, TypeOK, CountsOfCores, LoadedTogether, ReloadPtr, Goto, cpu_info_value, history, Cores
<1>6. QED
  BY <1>1, <1>2, <1>3, <1>4, <1>5 DEF IInv

LEMMA ReturnCountKeeps ==
    ASSUME IInv, NEW t \in Threads, ReturnCount(t)
    PROVE  IInv'
<1>1. TypeOK'
  <2>1. count[t] \in Nat
    BY Constants DEF IInv, TypeOK
  <2>2. counts' \subseteq Nat
    BY <2>1 DEF IInv, TypeOK, ReturnCount
  <2>3. QED
    BY <2>2 DEF IInv, TypeOK, ReturnCount, Goto, cpu_info_value, locals, Cores, Labels
<1>2. (PublishedWithCount /\ SpansOfCores)'
  BY DEF IInv, PublishedWithCount, SpansOfCores, ReturnCount, cpu_info_value, Cores
<1>3. (CountStored /\ WinnerKnows /\ LoadedTogether)'
  BY DEF IInv, TypeOK, CountStored, WinnerKnows, LoadedTogether, ReturnCount, Goto,
         cpu_info_value, locals, Cores
<1>4. CountsOfCores'
  BY DEF IInv, TypeOK, CountsOfCores, ReturnCount, Goto, cpu_info_value, locals, Cores
<1>5. QED
  BY <1>1, <1>2, <1>3, <1>4 DEF IInv

LEMMA ReturnSpanKeeps ==
    ASSUME IInv, NEW t \in Threads, ReturnSpan(t)
    PROVE  IInv'
<1>1. TypeOK'
  BY Constants
     DEF IInv, TypeOK, ReturnSpan, Goto, cpu_info_value, locals, Cores, Labels
<1>2. PublishedWithCount'
  BY DEF IInv, PublishedWithCount, ReturnSpan, cpu_info_value, Cores
<1>3. (CountStored /\ WinnerKnows /\ LoadedTogether)'
  BY DEF IInv, TypeOK, CountStored, WinnerKnows, LoadedTogether, ReturnSpan, Goto,
         cpu_info_value, locals, Cores
<1>4. SpansOfCores'
  BY DEF IInv, LoadedTogether, SpansOfCores, ReturnSpan, cpu_info_value, Cores
<1>5. CountsOfCores'
  BY DEF IInv, TypeOK, CountsOfCores, ReturnSpan, Goto, cpu_info_value, locals, Cores
<1>6. QED
  BY <1>1, <1>2, <1>3, <1>4, <1>5 DEF IInv

LEMMA StutterKeeps ==
    ASSUME IInv, UNCHANGED vars
    PROVE  IInv'
BY DEF IInv, TypeOK, PublishedWithCount, CountStored, WinnerKnows, LoadedTogether,
       CountsOfCores, SpansOfCores, vars, cpu_info_value, locals, history, Cores

-----------------------------------------------------------------------------

(* The invariant holds whatever the number of threads, the file and the      *)
(* order in which they initialise the processor information.                 *)
THEOREM Inductive == Spec => []IInv
<1>1. IInv /\ [Next]_vars => IInv'
  <2>1. SUFFICES ASSUME IInv, [Next]_vars
                 PROVE  IInv'
    OBVIOUS
  <2>2. ASSUME NEW t \in Threads, Step(t)
        PROVE  IInv'
    BY <2>1, <2>2, CallKeeps, LoadPtrKeeps, GuardKeeps, StoreCountKeeps, TerminateKeeps,
       PublishKeeps, LeaveInitKeeps, ReloadCountKeeps, ReloadPtrKeeps, ReturnCountKeeps,
       ReturnSpanKeeps
       DEF Step
  <2>3. CASE Terminated \/ UNCHANGED vars
    BY <2>1, <2>3, StutterKeeps DEF Terminated
  <2>4. QED
    BY <2>1, <2>2, <2>3 DEF Next
<1>2. QED
  BY <1>1, Initially, PTL DEF Spec

(* A list of cores that was returned refers to memory that nobody frees, and *)
(* to all of the one vector that everyone gets.                              *)
THEOREM ListsStayValid == Spec => []SpansStayValid
<1>1. IInv => SpansStayValid
  <2>1. SUFFICES ASSUME IInv, NEW span \in spans, span.data # NULL
                 PROVE  /\ span.data = core_thread_ids_ptr
                        /\ heap[span.data] # NULL
                        /\ Len(heap[span.data]) = span.size
    BY DEF SpansStayValid
  <2>2. span.data = core_thread_ids_ptr /\ span.size = Len(Cores)
    BY <2>1 DEF IInv, SpansOfCores
  <2>3. heap[span.data] = Cores
    BY <2>1, <2>2 DEF IInv, PublishedWithCount
  <2>4. QED
    BY <2>1, <2>2, <2>3, Constants DEF IInv, TypeOK
<1>2. QED
  BY <1>1, Inductive, PTL

\* What the list says of cores.
LEMMA ListCovers ==
    ASSUME NEW f \in Files
    PROVE  LET ids == ReadFile(f).ids
               list == CoreThreadIds(f)
               CoreOf(p) == CHOOSE core \in CoresOf(f) :
                               \E a \in ids : /\ a["processor"] = p
                                              /\ core = <<a["physical id"], a["core id"]>>
           IN  {CoreOf(list[i]) : i \in 1 .. Len(list)} = CoresOf(f)
<1> DEFINE ids == ReadFile(f).ids
           list == CoreThreadIds(f)
           unique == UniqueIds(ids)
           CoreOf(p) == CHOOSE core \in CoresOf(f) :
                           \E a \in ids : /\ a["processor"] = p
                                          /\ core = <<a["physical id"], a["core id"]>>
<1>1. \A a, b \in ids : a["processor"] = b["processor"] => a = b
  BY IdsFacts
<1>2. /\ unique \subseteq ids
      /\ \A a \in ids : \E b \in unique : CoreOfId(b) = CoreOfId(a)
  BY Representatives
<1>3. /\ \A i \in 1 .. Len(list) : list[i] \in ProcessorsOf(f)
      /\ \A p \in ProcessorsOf(f) : \E i \in 1 .. Len(list) : list[i] = p
  BY ListFacts
<1>4. CoresOf(f) = {CoreOfId(a) : a \in ids} /\ ProcessorsOf(f) = {a["processor"] : a \in unique}
  BY DEF CoresOf, CoreOfId, ProcessorsOf
<1> HIDE DEF ids, unique, list
<1>5. ASSUME NEW a \in ids
      PROVE  CoreOf(a["processor"]) = CoreOfId(a)
  <2>1. CoreOfId(a) \in CoresOf(f)
    BY <1>4
  <2>2. \A core \in CoresOf(f) :
            (\E b \in ids : /\ b["processor"] = a["processor"]
                            /\ core = <<b["physical id"], b["core id"]>>)
                <=> core = CoreOfId(a)
    BY <1>1 DEF CoreOfId
  <2>3. QED
    BY <2>1, <2>2
<1> HIDE DEF CoreOf
<1>6. ASSUME NEW i \in 1 .. Len(list)
      PROVE  CoreOf(list[i]) \in CoresOf(f)
  <2>1. PICK a \in unique : list[i] = a["processor"]
    BY <1>3, <1>4
  <2>2. QED
    BY <1>2, <1>4, <1>5, <2>1
<1>7. ASSUME NEW core \in CoresOf(f)
      PROVE  \E i \in 1 .. Len(list) : core = CoreOf(list[i])
  <2>1. PICK a \in unique : core = CoreOfId(a)
    BY <1>2, <1>4
  <2>2. PICK i \in 1 .. Len(list) : list[i] = a["processor"]
    BY <1>3, <1>4
  <2>3. QED
    BY <1>2, <1>5, <2>1, <2>2
<1>8. {CoreOf(list[i]) : i \in 1 .. Len(list)} = CoresOf(f)
  BY <1>6, <1>7
<1>9. QED
  BY <1>8 DEF CoreOf, ids, list

(* Each physical core of the file is counted once, and the threads of a list *)
(* are on distinct cores, one on each, whatever the file and whoever else is *)
(* initialising.                                                             *)
THEOREM CoresCounted == Spec => []OneThreadPerCore
<1>1. IInv => OneThreadPerCore
  <2>1. SUFFICES ASSUME IInv
                 PROVE  OneThreadPerCore
    OBVIOUS
  <2> DEFINE ids == ReadFile(file).ids
             CoreOf(p) == CHOOSE core \in CoresOf(file) :
                             \E a \in ids : /\ a["processor"] = p
                                            /\ core = <<a["physical id"], a["core id"]>>
  <2>2. file \in Files /\ Cores \in Seq(Nat) /\ Len(Cores) = Cardinality(CoresOf(file))
    BY <2>1, ListFacts DEF IInv, TypeOK, Cores
  <2>3. \A n \in counts : n = Cardinality(CoresOf(file))
    BY <2>1, <2>2 DEF IInv, CountsOfCores
  <2>4. ASSUME NEW span \in spans, span.data # NULL
        PROVE  {CoreOf(Elements(span)[i]) : i \in DOMAIN Elements(span)} = CoresOf(file)
    <3>1. heap[span.data] = Cores /\ span.size = Len(Cores)
      BY <2>1, <2>4 DEF IInv, SpansOfCores, PublishedWithCount
    <3>2. Elements(span) = Cores /\ DOMAIN Cores = 1 .. Len(Cores)
      BY <2>2, <3>1 DEF Elements
    <3>3. {CoreOf(Cores[i]) : i \in 1 .. Len(Cores)} = CoresOf(file)
      BY <2>2, ListCovers DEF Cores
    <3> HIDE DEF CoreOf
    <3>4. QED
      BY <3>2, <3>3
  <2>5. QED
    BY <2>3, <2>4 DEF OneThreadPerCore, CoresOf
<1>2. QED
  BY <1>1, Inductive, PTL

-----------------------------------------------------------------------------
(* The wait for a toggle                                                     *)

LEMMA OtherOfPair ==
    /\ Pair = {"super", "sub"}
    /\ Other("super") = "sub" /\ Other("sub") = "super"
    /\ \A t \in Pair : Other(t) \in Pair /\ Other(t) # t /\ Other(Other(t)) = t
BY DEF Pair, Other

\* A wait is over when it is the waiting thread's turn.
LEMMA OverInTurn ==
    ASSUME WaitTypeOK, NEW t \in Pair
    PROVE  HasToggled(t) <=> Turn = t
BY OtherOfPair DEF WaitTypeOK, HasToggled, OldValue, Turn

LEMMA TurnInPair == Turn \in Pair
BY DEF Turn, Pair

LEMMA ToggleEndsTurn ==
    ASSUME WaitTypeOK, NEW t \in Pair, Turn = t, sense' = Toggled(sense, t)
    PROVE  /\ Turn' = Other(t)
           /\ sense' \in [Pair -> {0, 1}]
BY OtherOfPair DEF WaitTypeOK, Turn, Toggled

LEMMA WaitInitial == WaitInit => WaitInv
<1>1. BeginWait \in {"spin", "compare"}
  BY DEF BeginWait
<1>2. QED
  BY <1>1, OtherOfPair DEF WaitInit, WaitInv, WaitTypeOK, Places, InTurn, Released,
       NoLostWakeUp, WritesVisible, Turn

LEMMA WaitWork ==
    ASSUME WaitInv, NEW t \in Pair, Work(t)
    PROVE  WaitInv'
<1> USE OtherOfPair DEF Work, MoveTo
<1>1. WaitTypeOK'
  BY DEF WaitInv, WaitTypeOK, Places
<1>2. Turn' = Turn /\ Turn = t
  BY DEF WaitInv, Turn, InTurn
<1>3. InTurn'
  BY <1>2 DEF WaitInv, InTurn, WaitTypeOK
<1>4. Released'
  BY DEF WaitInv, Released, WaitTypeOK
<1>5. NoLostWakeUp'
  <2>1. \A u \in Pair : HasToggled(u)' = HasToggled(u)
    BY DEF HasToggled, OldValue
  <2>2. QED
    BY <2>1 DEF WaitInv, NoLostWakeUp, WaitTypeOK
<1>6. WritesVisible'
  BY <1>2 DEF WaitInv, WritesVisible, InTurn, WaitTypeOK
<1>7. QED
  BY <1>1, <1>3, <1>4, <1>5, <1>6 DEF WaitInv

LEMMA WaitToggle ==
    ASSUME WaitInv, NEW t \in Pair, Toggle(t)
    PROVE  WaitInv'
<1> USE OtherOfPair DEF Toggle, MoveTo
<1>1. Turn = t
  BY DEF WaitInv, InTurn
<1>2. Turn' = Other(t) /\ sense' \in [Pair -> {0, 1}]
  BY <1>1, ToggleEndsTurn DEF WaitInv
<1>3. WaitTypeOK'
  BY <1>2 DEF WaitInv, WaitTypeOK, Places
<1>4. InTurn'
  BY <1>1, <1>2 DEF WaitInv, InTurn, WaitTypeOK
<1>5. Released'
  BY DEF WaitInv, Released, WaitTypeOK
<1>6. NoLostWakeUp'
  BY <1>1 DEF WaitInv, NoLostWakeUp, InTurn, WaitTypeOK
<1>7. WritesVisible'
  BY DEF WaitInv, WritesVisible, WaitTypeOK
<1>8. QED
  BY <1>3, <1>4, <1>5, <1>6, <1>7 DEF WaitInv

LEMMA WaitNotify ==
    ASSUME WaitInv, NEW t \in Pair, NotifyOne(t)
    PROVE  WaitInv'
<1> USE OtherOfPair DEF NotifyOne
<1>1. BeginWait \in {"spin", "compare"}
  BY DEF BeginWait
<1>2. /\ at'[t] = BeginWait
      /\ at'[Other(t)] = (IF at[Other(t)] = "asleep" THEN "compare" ELSE at[Other(t)])
  BY DEF WaitInv, WaitTypeOK
<1>3. WaitTypeOK'
  BY <1>1 DEF WaitInv, WaitTypeOK, Places
<1>4. InTurn'
  BY <1>1, <1>2 DEF WaitInv, InTurn, Turn
<1>5. Released'
  BY <1>1, <1>2 DEF WaitInv, Released
<1>6. NoLostWakeUp'
  BY <1>1, <1>2 DEF NoLostWakeUp
<1>7. WritesVisible'
  BY <1>1, <1>2 DEF WaitInv, WritesVisible
<1>8. QED
  BY <1>3, <1>4, <1>5, <1>6, <1>7 DEF WaitInv

\* The steps of a wait that change nothing but where the thread is
Waiting(t) ==
    /\ at[t] \in {"spin", "compare", "asleep"}
    /\ \/ MoveTo(t, "load") /\ HasToggled(t)
       \/ MoveTo(t, "compare")
       \/ MoveTo(t, "asleep") /\ ~HasToggled(t)
    /\ UNCHANGED <<waitMode, sense, carries, sees>>

LEMMA WaitWaiting ==
    ASSUME WaitInv, NEW t \in Pair, Waiting(t)
    PROVE  WaitInv'
<1> USE OtherOfPair DEF Waiting, MoveTo
<1>1. WaitTypeOK'
  BY DEF WaitInv, WaitTypeOK, Places
<1>2. Turn' = Turn /\ \A u \in Pair : HasToggled(u)' = HasToggled(u)
  BY DEF Turn, HasToggled, OldValue
<1>3. InTurn'
  BY <1>2, OverInTurn DEF WaitInv, InTurn, WaitTypeOK
<1>4. Released'
  BY DEF WaitInv, Released, WaitTypeOK
<1>5. NoLostWakeUp'
  BY <1>2 DEF WaitInv, NoLostWakeUp, WaitTypeOK
<1>6. WritesVisible'
  BY DEF WaitInv, WritesVisible, WaitTypeOK
<1>7. QED
  BY <1>1, <1>3, <1>4, <1>5, <1>6 DEF WaitInv

LEMMA WaitLoad ==
    ASSUME WaitInv, NEW t \in Pair, LoadAcquire(t)
    PROVE  WaitInv'
<1> USE OtherOfPair DEF LoadAcquire, MoveTo
<1>1. WaitTypeOK'
  BY DEF WaitInv, WaitTypeOK, Places
<1>2. Turn' = Turn /\ Turn = t /\ \A u \in Pair : HasToggled(u)' = HasToggled(u)
  BY DEF Turn, HasToggled, OldValue, WaitInv, InTurn
<1>3. InTurn'
  BY <1>2 DEF WaitInv, InTurn, WaitTypeOK
<1>4. Released'
  BY DEF WaitInv, Released, WaitTypeOK
<1>5. NoLostWakeUp'
  BY <1>2 DEF WaitInv, NoLostWakeUp, WaitTypeOK
<1>6. carries[Other(t)]
  BY <1>2 DEF WaitInv, InTurn, Released
<1>7. WritesVisible'
  BY <1>6 DEF WaitInv, WritesVisible, WaitTypeOK
<1>8. QED
  BY <1>1, <1>3, <1>4, <1>5, <1>7 DEF WaitInv

\* The steps of WaitNext, sorted by what they do
LEMMA WaitSteps ==
    ASSUME WaitNext
    PROVE  \E t \in Pair : \/ Work(t) \/ Toggle(t) \/ NotifyOne(t)
                           \/ Waiting(t) \/ LoadAcquire(t)
BY DEF WaitNext, StepAlone, SpinSees, SpinGivesUp, Sleep, StopWaiting, WakeSpuriously,
     Waiting

(* A thread's place tells whose turn it is and what memory it may use; this  *)
(* is kept by every step of both threads, in either wait mode.               *)
THEOREM WaitInductive == WaitSpec => []WaitInv
<1>1. ASSUME WaitInv, [WaitNext]_waitVars
      PROVE  WaitInv'
  <2>1. CASE WaitNext
    BY <1>1, <2>1, WaitSteps, WaitWork, WaitToggle, WaitNotify, WaitWaiting, WaitLoad
  <2>2. CASE UNCHANGED waitVars
    BY <1>1, <2>2 DEF waitVars, WaitInv, WaitTypeOK, InTurn, Released, NoLostWakeUp,
         WritesVisible, HasToggled, OldValue, Turn
  <2>3. QED
    BY <1>1, <2>1, <2>2
<1>2. QED
  BY <1>1, WaitInitial, PTL DEF WaitSpec

(* Whoever sleeps although its wait is over is still to be notified.         *)
THEOREM NoWakeUpLost == WaitSpec => []NoLostWakeUp
<1>1. WaitInv => NoLostWakeUp
  BY DEF WaitInv
<1>2. QED
  BY <1>1, WaitInductive, PTL

(* A thread that works has acquired the other's last writes.                 *)
THEOREM WritesAcquired == WaitSpec => []WritesVisible
<1>1. WaitInv => WritesVisible
  BY DEF WaitInv
<1>2. QED
  BY <1>1, WaitInductive, PTL

(* The safety part of ImplementsTurnTaking: the two threads work in turn.    *)
(* (That nobody misses its turn is liveness, which the run checks.)          *)
THEOREM TakesTurns == WaitSpec => Turns!Init /\ [][Turns!Next]_Turns!vars
<1>1. WaitInit => Turns!Init
  BY DEF WaitInit, Turns!Init, Turn, Pair
<1>2. ASSUME WaitInv, [WaitNext]_waitVars
      PROVE  [Turns!Next]_Turns!vars
  <2> DEFINE Working == at[Turn] \in {"work", "toggle"}
  <2>1. ASSUME NEW t \in Pair, Work(t)
        PROVE  UNCHANGED Turns!vars
    <3>1. Turn' = Turn /\ Turn = t /\ Working /\ Working'
      BY <1>2, <2>1 DEF Work, MoveTo, WaitInv, WaitTypeOK, InTurn, Turn
    <3>2. QED
      BY <3>1 DEF Turns!vars
  <2>2. ASSUME NEW t \in Pair, Toggle(t)
        PROVE  Turns!EndTurn(t)
    <3>1. Turn = t /\ at[t] = "toggle"
      BY <1>2, <2>2 DEF Toggle, WaitInv, InTurn
    <3>2. Turn' = Other(t)
      BY <1>2, <2>2, <3>1, ToggleEndsTurn DEF WaitInv, Toggle
    <3>3. at'[Other(t)] \notin {"work", "toggle"}
      BY <1>2, <2>2, <3>1, OtherOfPair DEF Toggle, MoveTo, WaitInv, WaitTypeOK, InTurn
    <3>4. QED
      BY <3>1, <3>2, <3>3, OtherOfPair DEF Turns!EndTurn, Turns!Threads
  <2>3. ASSUME NEW t \in Pair, NotifyOne(t)
        PROVE  UNCHANGED Turns!vars
    <3>1. Turn' = Turn
      BY <2>3 DEF NotifyOne, Turn
    <3>2. \A u \in Pair : at'[u] \in {"work", "toggle"} <=> at[u] \in {"work", "toggle"}
      BY <1>2, <2>3, OtherOfPair DEF NotifyOne, BeginWait, WaitInv, WaitTypeOK
    <3>3. QED
      BY <3>1, <3>2, TurnInPair DEF Turns!vars
  <2>4. ASSUME NEW t \in Pair, Waiting(t)
        PROVE  UNCHANGED Turns!vars
    <3>1. Turn' = Turn
      BY <2>4 DEF Waiting, Turn
    <3>2. \A u \in Pair : at'[u] \in {"work", "toggle"} <=> at[u] \in {"work", "toggle"}
      BY <1>2, <2>4 DEF Waiting, MoveTo, WaitInv, WaitTypeOK
    <3>3. QED
      BY <3>1, <3>2, TurnInPair DEF Turns!vars
  <2>5. ASSUME NEW t \in Pair, LoadAcquire(t)
        PROVE  Turns!BeginTurn
    <3>1. Turn = t /\ Turn' = Turn /\ at'[t] = "work"
      BY <1>2, <2>5 DEF LoadAcquire, MoveTo, WaitInv, WaitTypeOK, InTurn, Turn
    <3>2. QED
      BY <2>5, <3>1 DEF LoadAcquire, Turns!BeginTurn
  <2>6. CASE UNCHANGED waitVars
    BY <2>6 DEF waitVars, Turns!vars, Turn
  <2>7. QED
    BY <1>2, <2>1, <2>2, <2>3, <2>4, <2>5, <2>6, WaitSteps, OtherOfPair
      DEF Turns!Next, Turns!Threads
<1>3. QED
  BY <1>1, <1>2, WaitInductive, PTL DEF WaitSpec

-----------------------------------------------------------------------------
(* The threads on the hardware                                               *)

LEMMA SetupInitial == SetupInit => SetupInv
<1>1. SUFFICES ASSUME SetupInit
               PROVE  SetupInv
  OBVIOUS
<1>2. SetupTypeOK
  BY <1>1, ParamsAssumption DEF SetupInit, SetupTypeOK
<1>3. affinity = << >> /\ Len(affinity) = 0 /\ forked = 0 /\ stage = "create"
  BY <1>1 DEF SetupInit
<1>4. InStages /\ PinnedAsMapped /\ StartedWhereItExists
  BY <1>3 DEF InStages, PinnedAsMapped, StartedWhereItExists
<1>5. QED
  BY <1>2, <1>4 DEF SetupInv

LEMMA SetupCreate ==
    ASSUME SetupInv, Create
    PROVE  SetupInv'
<1>1. SetupTypeOK'
  <2>1. hardware \in Nat /\ MaxNumHardwareThreads(params) \in Nat
    BY HardwareAssumption
      DEF SetupInv, SetupTypeOK, ParamRecords, MaxNumHardwareThreads, GreaterOf
  <2>2. params' \in ParamRecords
    BY <2>1 DEF SetupInv, SetupTypeOK, ParamRecords, Create
  <2>3. QED
    BY <2>2 DEF SetupInv, SetupTypeOK, Create
<1>2. affinity' = << >> /\ Len(affinity') = 0 /\ forked' = forked /\ stage' = "pin"
  BY DEF Create, SetupInv, InStages
<1>3. forked' <= 0 /\ forked' \in Nat
  BY <1>1, <1>2 DEF SetupInv, InStages, SetupTypeOK, Create
<1>4. InStages' /\ PinnedAsMapped' /\ StartedWhereItExists'
  BY <1>2, <1>3 DEF InStages, PinnedAsMapped, StartedWhereItExists
<1>5. QED
  BY <1>1, <1>4 DEF SetupInv

\* Where a thread is pinned is a number, if the parameters are as they must be.
LEMMA MappedToNumber ==
    ASSUME SetupTypeOK, MappingFits, NEW k \in Nat, k < params.max_num_hardware_threads
    PROVE  MappedTo(k) \in Nat
<1>1. PICK names : names = params.hardware_thread_mappings /\ names \in Seq(Nat)
  BY DEF SetupTypeOK, ParamRecords
<1>2. names # << >> => k + 1 \in 1 .. Len(names)
  BY <1>1 DEF SetupTypeOK, ParamRecords, MappingFits
<1>3. names # << >> => names[k + 1] \in Nat
  BY <1>1, <1>2
<1>4. QED
  BY <1>1, <1>3 DEF MappedTo

LEMMA HardwareThreadFacts ==
    ASSUME SetupTypeOK, MappingFits, NEW t \in Nat
    PROVE  /\ t % params.max_num_hardware_threads
                 \in 0 .. params.max_num_hardware_threads - 1
           /\ HardwareThread(t) \in Nat
<1>1. params.max_num_hardware_threads \in Nat \ {0}
  BY DEF SetupTypeOK, ParamRecords, MappingFits
<1>2. t % params.max_num_hardware_threads \in 0 .. params.max_num_hardware_threads - 1
  BY <1>1, DivMod
<1>3. QED
  BY <1>1, <1>2, MappedToNumber DEF HardwareThread

LEMMA SetupPin ==
    ASSUME SetupInv, Pin
    PROVE  SetupInv'
<1> DEFINE n == Len(affinity)
           place == IF params.pin_to_hardware_threads THEN HardwareThread(n) ELSE Anywhere
<1>1. n \in Nat /\ affinity \in Seq(Nat \cup {Anywhere})
  BY DEF SetupInv, SetupTypeOK
<1>2. place \in Nat \cup {Anywhere}
  BY <1>1, HardwareThreadFacts DEF SetupInv, Pin
<1>3. /\ affinity' \in Seq(Nat \cup {Anywhere})
      /\ Len(affinity') = n + 1
      /\ affinity'[n + 1] = place
      /\ \A t \in 0 .. n - 1 : affinity'[t + 1] = affinity[t + 1]
  <2> HIDE DEF place
  <2>1. affinity' = Append(affinity, place)
    BY DEF Pin, place
  <2>2. QED
    BY <1>1, <1>2, <2>1
<1>4. SetupTypeOK'
  BY <1>3 DEF SetupInv, SetupTypeOK, Pin
<1>5. InStages'
  BY <1>1, <1>3 DEF SetupInv, SetupTypeOK, InStages, Pin
<1>6. PinnedAsMapped'
  <2>1. SUFFICES ASSUME params.pin_to_hardware_threads, NEW t \in 0 .. n
                 PROVE  MappingFits /\ affinity'[t + 1] = HardwareThread(t)
    BY <1>1, <1>3 DEF PinnedAsMapped, Pin, MappingFits, HardwareThread, MappedTo
  <2>2. MappingFits
    BY <2>1 DEF Pin
  <2>3. CASE t = n
    BY <1>3, <2>1, <2>2, <2>3
  <2>4. CASE t # n
    <3>1. t \in 0 .. n - 1
      BY <1>1, <2>4
    <3>2. QED
      BY <1>3, <2>1, <2>2, <3>1 DEF SetupInv, PinnedAsMapped
  <2>5. QED
    BY <2>3, <2>4
<1>7. StartedWhereItExists'
  <2>1. forked \in Nat /\ forked <= n
    BY DEF SetupInv, SetupTypeOK, InStages
  <2>2. \A t \in 0 .. forked - 1 : t \in 0 .. n - 1
    BY <1>1, <2>1
  <2>3. forked' = forked /\ hardware' = hardware
    BY DEF Pin
  <2>4. QED
    BY <1>3, <2>2, <2>3 DEF SetupInv, StartedWhereItExists, CpuExists
<1>8. QED
  BY <1>4, <1>5, <1>6, <1>7 DEF SetupInv

LEMMA SetupFork ==
    ASSUME SetupInv, Fork
    PROVE  SetupInv'
<1>1. forked \in Nat /\ forked + 1 <= Len(affinity) /\ forked' = forked + 1
  BY DEF SetupInv, SetupTypeOK, InStages, ParamRecords, Fork
<1>2. SetupTypeOK'
  BY <1>1 DEF SetupInv, SetupTypeOK, Fork
<1>3. InStages'
  BY <1>1 DEF SetupInv, InStages, Fork, numThreads
<1>4. PinnedAsMapped'
  BY DEF SetupInv, PinnedAsMapped, Fork, MappingFits, HardwareThread, MappedTo
<1>5. StartedWhereItExists'
  <2>1. \A t \in 0 .. forked : CpuExists(t)
    BY <1>1 DEF SetupInv, StartedWhereItExists, Fork
  <2>2. affinity' = affinity /\ hardware' = hardware /\ forked' - 1 = forked
    BY <1>1 DEF Fork
  <2>3. QED
    BY <2>1, <2>2 DEF StartedWhereItExists, CpuExists
<1>6. QED
  BY <1>2, <1>3, <1>4, <1>5 DEF SetupInv

\* The steps that change only the stage and the concurrency
LEMMA SetupOther ==
    ASSUME SetupInv,
           UNCHANGED <<given, params, hardware, affinity, forked>>,
           stage' \in {"fork", "failed", stage}, concurrency' \in Nat,
           stage' = "fork" => Len(affinity) = numThreads
    PROVE  SetupInv'
<1>1. SetupTypeOK'
  BY DEF SetupInv, SetupTypeOK
<1>2. InStages' /\ PinnedAsMapped' /\ StartedWhereItExists'
  BY DEF SetupInv, InStages, PinnedAsMapped, StartedWhereItExists, MappingFits,
       HardwareThread, MappedTo, CpuExists, numThreads
<1>3. QED
  BY <1>1, <1>2 DEF SetupInv

(* Threads are pinned as the parameters say before they are started, and     *)
(* started where the hardware thread exists, or the program has ended.       *)
THEOREM SetupInductive == SetupSpec => []SetupInv
<1>1. ASSUME SetupInv, [SetupNext]_setupVars
      PROVE  SetupInv'
  <2>1. stage = "fork" => Len(affinity) = numThreads
    BY <1>1 DEF SetupInv, InStages
  <2>2. concurrency \in Nat
    BY <1>1 DEF SetupInv, SetupTypeOK
  <2>3. CASE Create
    BY <1>1, <2>3, SetupCreate
  <2>4. CASE Pin
    BY <1>1, <2>4, SetupPin
  <2>5. CASE LayOut
    BY <1>1, <2>2, <2>5, SetupOther DEF LayOut
  <2>6. CASE Fork
    BY <1>1, <2>6, SetupFork
  <2>7. CASE Fail
    BY <1>1, <2>2, <2>7, SetupOther DEF Fail
  <2>8. CASE NextConcurrency
    BY <1>1, <2>1, <2>2, <2>8, SetupOther DEF NextConcurrency
  <2>9. CASE UNCHANGED setupVars
    BY <1>1, <2>1, <2>2, <2>9, SetupOther DEF setupVars
  <2>10. QED
    BY <1>1, <2>3, <2>4, <2>5, <2>6, <2>7, <2>8, <2>9 DEF SetupNext, Ended
<1>2. QED
  BY <1>1, SetupInitial, PTL DEF SetupSpec

\* Of the first n threads (which are counted from 0), those that are r modulo m
Congruent(n, m, r) == {t \in 1 .. n : (t - 1) % m = r}

\* No remainder is more than one ahead of another: take the first thread away, and the
\* others can be moved to the place below them that has the other remainder.
LEMMA RemaindersEven ==
    ASSUME NEW n \in Nat, NEW m \in Nat \ {0},
           NEW a \in 0 .. m - 1, NEW b \in 0 .. m - 1, a < n
    PROVE  /\ Cardinality(Congruent(n, m, a)) \in Nat
           /\ Cardinality(Congruent(n, m, b)) \in Nat
           /\ Cardinality(Congruent(n, m, a)) <= Cardinality(Congruent(n, m, b)) + 1
<1> DEFINE A == Congruent(n, m, a)
           B == Congruent(n, m, b)
           down == [t \in A \ {a + 1} |-> t - m - a + b]
<1>1. IsFiniteSet(A) /\ IsFiniteSet(B)
  <2>1. IsFiniteSet(1 .. n)
    BY FS_Interval
  <2>2. A \in SUBSET (1 .. n) /\ B \in SUBSET (1 .. n)
    BY DEF Congruent
  <2>3. QED
    BY <2>1, <2>2, FS_Subset
<1>2. Cardinality(A) \in Nat /\ Cardinality(B) \in Nat
  BY <1>1, FS_CardinalityType
<1>3. a + 1 \in A
  <2>1. (0 * m + a) % m = a
    BY ModUnique
  <2>2. 0 * m + a = a /\ (a + 1) - 1 = a /\ a + 1 \in 1 .. n
    OBVIOUS
  <2>3. QED
    BY <2>1, <2>2 DEF Congruent
<1>4. Cardinality(A \ {a + 1}) = Cardinality(A) - 1
  BY <1>1, <1>3, FS_RemoveElement
<1>5. ASSUME NEW t \in A \ {a + 1}
      PROVE  down[t] \in B
  <2>1. PICK x \in Nat : x = t - 1
    BY DEF Congruent
  <2>2. t \in Nat /\ x < n /\ x % m = a /\ x # a
    BY <2>1 DEF Congruent
  <2>3. PICK q \in Nat : x = q * m + a
    BY <2>2, DivMod
  <2>4. q # 0
    BY <2>2, <2>3
  <2>5. PICK p \in Nat : p = q - 1
    BY <2>4
  <2>6. q * m = p * m + m
    BY <2>5
  <2>7. PICK pm \in Nat : pm = p * m
    OBVIOUS
  <2>8. down[t] - 1 = pm + b /\ pm + b < n /\ pm + b \in Nat
    BY <2>1, <2>2, <2>3, <2>6, <2>7
  <2>9. down[t] \in 1 .. n
    BY <2>1, <2>2, <2>8
  <2>10. (p * m + b) % m = b
    BY ModUnique
  <2>11. QED
    BY <2>7, <2>8, <2>9, <2>10 DEF Congruent
<1>6. \A x, y \in A \ {a + 1} : down[x] = down[y] => x = y
  <2>1. A \subseteq Nat
    BY DEF Congruent
  <2>2. QED
    BY <2>1
<1>7. down \in Injection(A \ {a + 1}, B)
  <2>1. down \in [A \ {a + 1} -> B]
    BY <1>5
  <2>2. QED
    BY <1>6, <2>1 DEF Injection, IsInjective
<1> HIDE DEF down
<1>8. Cardinality(A \ {a + 1}) <= Cardinality(B)
  BY <1>1, <1>7, FS_Injection
<1>9. QED
  BY <1>2, <1>4, <1>8

(* Whoever is started is pinned to an existing hardware thread, as many of   *)
(* them are used as can be, and no one has two threads more than another,    *)
(* unless the mapping names one twice.                                       *)
THEOREM ThreadsSpread == SetupSpec => []SpreadOverHardware
<1>1. SetupInv => SpreadOverHardware
  <2>1. SUFFICES ASSUME SetupInv, params.pin_to_hardware_threads, forked > 0
                 PROVE  SpreadOverHardware
    BY DEF SpreadOverHardware
  <2> DEFINE m == params.max_num_hardware_threads
             few == LesserOf(forked, m)
             used == {affinity[t] : t \in 1 .. forked}
  <2>2. forked \in Nat \ {0} /\ forked <= Len(affinity) /\ Len(affinity) \in Nat
    BY <2>1 DEF SetupInv, SetupTypeOK, InStages
  <2>3. MappingFits /\ SetupTypeOK
    <3>1. 0 \in 0 .. Len(affinity) - 1
      BY <2>2
    <3>2. QED
      BY <2>1, <3>1 DEF SetupInv, PinnedAsMapped
  <2>4. m \in Nat \ {0}
    BY <2>3 DEF MappingFits, SetupTypeOK, ParamRecords
  <2>5. few \in Nat \ {0} /\ few <= forked /\ few <= m
    BY <2>2, <2>4 DEF LesserOf
  <2>6. ASSUME NEW t \in 1 .. forked
        PROVE  /\ (t - 1) % m \in 0 .. few - 1
               /\ affinity[t] = MappedTo((t - 1) % m)
               /\ affinity[t] \in 0 .. hardware - 1
    <3>1. PICK u \in 0 .. forked - 1 : u = t - 1 /\ t = u + 1
      BY <2>2
    <3>2. u \in 0 .. Len(affinity) - 1 /\ u \in Nat
      BY <2>2
    <3>3. u % m \in 0 .. m - 1 /\ u % m <= u
      <4>1. (u \div m) * m \in Nat
        <5>1. \A x \in Nat, y \in Nat : x * y \in Nat
          OBVIOUS
        <5>2. u \div m \in Nat
          BY <2>4, <3>2, DivMod
        <5>3. QED
          BY <2>4, <5>1, <5>2
      <4>2. u = (u \div m) * m + (u % m) /\ u % m \in 0 .. m - 1
        BY <2>4, <3>2, DivMod
      <4>3. \A p \in Nat, r \in Int : u = p + r => r <= u
        BY <3>2
      <4>4. QED
        BY <4>1, <4>2, <4>3
    <3>4. affinity[t] = MappedTo(u % m) /\ affinity[t] \in Nat
      BY <2>1, <2>3, <3>1, <3>2, HardwareThreadFacts
        DEF SetupInv, PinnedAsMapped, HardwareThread
    <3>5. affinity[t] < hardware
      BY <2>1, <3>1, <3>4, HardwareAssumption DEF SetupInv, StartedWhereItExists, CpuExists
    <3>6. hardware \in Nat
      BY <2>3, HardwareAssumption DEF SetupTypeOK
    <3>7. u % m \in 0 .. few - 1
      BY <2>2, <2>4, <3>3 DEF LesserOf
    <3>8. QED
      BY <3>1, <3>4, <3>5, <3>6, <3>7
  <2>7. ASSUME NEW k \in 0 .. few - 1
        PROVE  k + 1 \in 1 .. forked /\ affinity[k + 1] = MappedTo(k)
    <3>1. k + 1 \in 1 .. forked /\ k \in 0 .. m - 1 /\ (k + 1) - 1 = k
      BY <2>2, <2>4, <2>5
    <3>2. k % m = k
      <4>1. (0 * m + k) % m = k
        BY <2>4, <3>1, ModUnique
      <4>2. 0 * m + k = k
        BY <2>4, <3>1
      <4>3. QED
        BY <4>1, <4>2
    <3>3. affinity[k + 1] = MappedTo(((k + 1) - 1) % m)
      BY <2>6, <3>1
    <3>4. QED
      BY <3>1, <3>2, <3>3
  <2> HIDE DEF m, few
  <2>8. used = Named(few)
    <3>1. \A t \in 1 .. forked : \E k \in 0 .. few - 1 : affinity[t] = MappedTo(k)
      BY <2>6
    <3>2. \A k \in 0 .. few - 1 : \E t \in 1 .. forked : affinity[t] = MappedTo(k)
      BY <2>7
    <3>3. QED
      BY <3>1, <3>2 DEF Named
  <2>9. used \subseteq 0 .. hardware - 1
    BY <2>6
  <2>10. ASSUME NamesDiffer(few), NEW k \in 0 .. few - 1
         PROVE  PinnedTo(MappedTo(k)) = Cardinality(Congruent(forked, m, k))
    <3>1. \A t \in 1 .. forked : affinity[t] = MappedTo(k) <=> (t - 1) % m = k
      BY <2>6, <2>10 DEF NamesDiffer
    <3>2. {t \in 1 .. forked : affinity[t] = MappedTo(k)} = Congruent(forked, m, k)
      BY <3>1 DEF Congruent
    <3>3. QED
      BY <3>2 DEF PinnedTo
  <2>11. ASSUME NamesDiffer(few), NEW h \in used, NEW g \in used
         PROVE  PinnedTo(h) <= PinnedTo(g) + 1
    <3>1. PICK a \in 0 .. few - 1, b \in 0 .. few - 1 : h = MappedTo(a) /\ g = MappedTo(b)
      BY <2>6
    <3>2. a \in 0 .. m - 1 /\ b \in 0 .. m - 1 /\ a < forked
      BY <2>2, <2>4, <2>5
    <3>3. Cardinality(Congruent(forked, m, a)) <= Cardinality(Congruent(forked, m, b)) + 1
      BY <2>2, <2>4, <3>2, RemaindersEven
    <3>4. QED
      BY <2>10, <2>11, <3>1, <3>3
  <2>12. QED
    BY <2>8, <2>9, <2>11 DEF SpreadOverHardware, m, few
<1>2. QED
  BY <1>1, SetupInductive, PTL

-----------------------------------------------------------------------------
(* The tree of a squad of at most TreeBreadth * TreeBreadth threads          *)

SmallSquad(n) == n \in Nat /\ 1 <= n /\ n <= TreeBreadth * TreeBreadth

LEMMA DividedByBreadth ==
    ASSUME NEW x \in Nat, 1 <= x, x <= TreeBreadth * TreeBreadth
    PROVE  /\ NextSubstride(x) \in 1 .. x
           /\ NextSubstride(x) <= TreeBreadth
<1> DEFINE q == NextSubstride(x)
<1>1. PICK B \in Nat \ {0} : B = TreeBreadth /\ B >= 2
  BY TreeBreadthAssumption
<1>2. PICK r \in 0 .. B - 1 : x + (B - 1) = q * B + r /\ q \in Nat
  <2>1. x + (B - 1) \in Nat
    BY <1>1
  <2>2. q = (x + (B - 1)) \div B
    BY <1>1 DEF NextSubstride
  <2>3. QED
    BY ZenonT(40), <1>1, <2>1, <2>2, DivMod
<1> HIDE DEF q
<1>3. q # 0
  <2>1. CASE q = 0
    <3>1. q * B = 0
      BY <1>1, <2>1
    <3>2. QED
      BY <1>1, <1>2, <3>1
  <2>2. QED
    BY <2>1
<1>4. q <= B
  <2>1. CASE B + 1 <= q
    <3>1. (B + 1) * B <= q * B
      BY <1>1, <1>2, <2>1, ProductMonotonic
    <3>2. (B + 1) * B = B * B + B
      BY <1>1
    <3>3. QED
      BY <1>1, <1>2, <3>1, <3>2
  <2>2. QED
    BY <1>1, <1>2, <2>1
<1>5. q <= x
  <2>1. CASE x + 1 <= q
    <3>1. (x + 1) * B <= q * B
      BY <1>1, <1>2, <2>1, ProductMonotonic
    <3>2. (x + 1) * B = x * B + B
      BY <1>1
    <3>3. x <= x * B
      <4>1. 1 * x <= B * x
        BY <1>1, ProductMonotonic
      <4>2. QED
        BY <1>1, <4>1
    <3>4. QED
      BY <1>1, <1>2, <3>1, <3>2, <3>3
  <2>2. QED
    BY <1>2, <2>1
<1>6. QED
  BY <1>1, <1>2, <1>3, <1>4, <1>5 DEF q

LEMMA DividedToOne ==
    ASSUME NEW x \in Nat, 1 <= x, x <= TreeBreadth
    PROVE  NextSubstride(x) = 1
<1>1. PICK B \in Nat \ {0} : B = TreeBreadth /\ B >= 2
  BY TreeBreadthAssumption
<1>2. (1 * B + (x - 1)) \div B = 1
  BY <1>1, DivUnique
<1>3. x + (B - 1) = 1 * B + (x - 1)
  BY <1>1
<1>4. QED
  BY <1>1, <1>2, <1>3 DEF NextSubstride

\* Dividing the stride twice leaves nothing to divide.
LEMMA Substrides ==
    ASSUME NEW n, SmallSquad(n), NEW x \in 1 .. n
    PROVE  /\ NextSubstride(x) \in 1 .. n
           /\ NextSubstride(NextSubstride(x)) = 1
           /\ NextSubstride(1) = 1
<1>1. TreeBreadth \in Nat /\ TreeBreadth >= 2
  BY TreeBreadthAssumption
<1>2. x \in Nat /\ 1 <= x /\ x <= TreeBreadth * TreeBreadth /\ n \in Nat
  <2>1. TreeBreadth * TreeBreadth \in Nat
    BY <1>1
  <2>2. QED
    BY <2>1 DEF SmallSquad
<1>3. NextSubstride(x) \in 1 .. x /\ NextSubstride(x) <= TreeBreadth
  BY <1>2, DividedByBreadth
<1>4. NextSubstride(NextSubstride(x)) = 1
  BY <1>2, <1>3, DividedToOne
<1>5. NextSubstride(1) = 1
  BY <1>1, DividedToOne
<1>6. QED
  BY <1>2, <1>3, <1>4, <1>5

\* What is left of a block before thread i's sub-block
SubBlock(first, i, sub) == first + ((i - first) \div sub) * sub

LEMMA SubBlockFacts ==
    ASSUME NEW i \in Nat, NEW first \in 0 .. i, NEW sub \in Nat \ {0}
    PROVE  /\ SubBlock(first, i, sub) \in 0 .. i
           /\ sub = 1 => SubBlock(first, i, sub) = i
           /\ first = 0 => (SubBlock(first, i, sub) = i <=> i % sub = 0)
<1>1. PICK d \in Nat : d = i - first
  OBVIOUS
<1>2. /\ d \div sub \in Nat
      /\ d % sub \in 0 .. sub - 1
      /\ d = (d \div sub) * sub + (d % sub)
  BY DivMod
<1>3. PICK q \in Nat, r \in 0 .. sub - 1 : /\ q = d \div sub /\ r = d % sub
                                           /\ d = q * sub + r
  BY <1>2
<1>4. PICK p \in Nat : p = q * sub
  <2>1. \A x \in Nat, y \in Nat : x * y \in Nat
    OBVIOUS
  <2>2. QED
    BY <2>1
<1>5. SubBlock(first, i, sub) = first + p
  BY <1>1, <1>3, <1>4 DEF SubBlock
<1>6. d = p + r
  BY <1>3, <1>4
<1>7. sub = 1 => r = 0
  OBVIOUS
<1>8. first = 0 => r = i % sub
  BY <1>1, <1>3
<1>9. QED
  BY <1>1, <1>5, <1>6, <1>7, <1>8

\* The stride that stays for each thread: the widest, the next one, or 1
Own(n, i) ==
    IF i = 0 THEN n
    ELSE IF i % NextSubstride(n) = 0 THEN NextSubstride(n) ELSE 1

LEMMA OwnStride ==
    ASSUME NEW n, SmallSquad(n), NEW i \in 0 .. n - 1
    PROVE  /\ NumSubthreads(n, i) = Own(n, i)
           /\ Own(n, i) \in 1 .. n
<1> DEFINE Widest(w) ==
             w = [stride \in 1 .. n |->
                    [first \in 0 .. i |->
                       IF first = i THEN stride
                       ELSE w[NextSubstride(stride)]
                             [SubBlock(first, i, NextSubstride(stride))]]]
           known == [stride \in 1 .. n |->
                       [first \in 0 .. i |->
                         IF first = i THEN stride
                         ELSE IF SubBlock(first, i, NextSubstride(stride)) = i
                           THEN NextSubstride(stride) ELSE 1]]
           widest == CHOOSE w : Widest(w)
<1>1. n \in Nat /\ i \in Nat /\ 1 \in 1 .. n /\ n \in 1 .. n /\ 0 \in 0 .. i
  BY DEF SmallSquad
<1>2. \A stride \in 1 .. n : /\ NextSubstride(stride) \in 1 .. n
                             /\ NextSubstride(NextSubstride(stride)) = 1
                             /\ NextSubstride(stride) \in Nat \ {0}
  BY <1>1, Substrides
<1>3. \A stride \in 1 .. n, first \in 0 .. i :
         SubBlock(first, i, NextSubstride(stride)) \in 0 .. i
  BY <1>1, <1>2, SubBlockFacts
<1>4. \A first \in 0 .. i : SubBlock(first, i, 1) = i
  BY <1>1, SubBlockFacts
<1>5. Widest(known)
  <2>1. SUFFICES ASSUME NEW stride \in 1 .. n, NEW first \in 0 .. i, first # i
                 PROVE  known[stride][first]
                          = known[NextSubstride(stride)]
                                 [SubBlock(first, i, NextSubstride(stride))]
    OBVIOUS
  <2>2. PICK sub \in 1 .. n : sub = NextSubstride(stride) /\ NextSubstride(sub) = 1
    BY <1>2
  <2>3. PICK block \in 0 .. i : block = SubBlock(first, i, sub)
    BY <1>3, <2>2
  <2>4. known[stride][first] = IF block = i THEN sub ELSE 1
    BY <2>1, <2>2, <2>3
  <2>5. known[sub][block] = IF block = i THEN sub ELSE 1
    BY <1>4, <2>2
  <2>6. QED
    BY <2>2, <2>3, <2>4, <2>5
<1>6. Widest(widest)
  BY <1>5
<1>7. NumSubthreads(n, i) = widest[n][0]
  BY DEF NumSubthreads, SubBlock
<1> HIDE DEF widest, known
<1>8. ASSUME NEW stride \in 1 .. n, NEW first \in 0 .. i
      PROVE  widest[stride][first] =
                IF first = i THEN stride
                ELSE widest[NextSubstride(stride)]
                           [SubBlock(first, i, NextSubstride(stride))]
  <2>1. widest[stride]
          = [f \in 0 .. i |->
               IF f = i THEN stride
               ELSE widest[NextSubstride(stride)][SubBlock(f, i, NextSubstride(stride))]]
    BY <1>6
  <2> HIDE DEF Widest
  <2>2. QED
    BY <2>1
<1> HIDE DEF Widest
<1>9. PICK s \in 1 .. n : s = NextSubstride(n) /\ NextSubstride(s) = 1
  BY <1>1, <1>2
<1>10. PICK block \in 0 .. i : /\ block = SubBlock(0, i, s)
                               /\ block = i <=> i % s = 0
  <2>1. s \in Nat \ {0}
    BY <1>1
  <2>2. SubBlock(0, i, s) \in 0 .. i /\ (SubBlock(0, i, s) = i <=> i % s = 0)
    BY <1>1, <2>1, SubBlockFacts
  <2>3. QED
    BY <2>2
<1>11. widest[1][i] = 1
  BY <1>1, <1>8
<1>12. widest[s][block] = IF block = i THEN s ELSE 1
  <2>1. widest[s][block] = IF block = i THEN s ELSE widest[1][SubBlock(block, i, 1)]
    BY <1>8, <1>9
  <2>2. QED
    BY <1>4, <1>11, <2>1
<1>13. widest[n][0] = IF 0 = i THEN n ELSE widest[s][block]
  BY <1>1, <1>8, <1>9, <1>10
<1>14. QED
  BY <1>1, <1>7, <1>9, <1>10, <1>12, <1>13 DEF Own

\* What a loop over steps visits, in order, and where it stops
IsSteps(seq, first, last, stride) ==
    /\ seq \in Seq(Nat) /\ Len(seq) \in Nat
    /\ \A k \in 1 .. Len(seq) : /\ seq[k] = first + (k - 1) * stride
                                /\ seq[k] \in first .. last - 1
    /\ first < last => last <= first + Len(seq) * stride
    /\ last <= first => seq = << >>

LEMMA StepsAre ==
    ASSUME NEW first \in Nat, NEW last \in Nat, NEW stride \in Nat \ {0}
    PROVE  IsSteps(Steps(first, last, stride), first, last, stride)
<1>1. CASE last <= first
  <2>1. ~ (first < last)
    BY <1>1
  <2>2. Steps(first, last, stride) = [k \in 1 .. 0 |-> first + (k - 1) * stride]
    BY <2>1 DEF Steps
  <2>3. Steps(first, last, stride) = << >>
    BY <2>2
  <2>4. QED
    BY <2>1, <2>3 DEF IsSteps
<1>2. CASE first < last
  <2>1. PICK d \in Nat \ {0} : d = last - first
    BY <1>2
  <2>2. PICK m \in Nat, r \in 0 .. stride - 1 :
            m = (d + stride - 1) \div stride /\ d + stride - 1 = m * stride + r
    <3>1. d + stride - 1 \in Nat
      BY <2>1
    <3>2. QED
      BY <3>1, DivMod
  <2>3. Steps(first, last, stride) = [k \in 1 .. m |-> first + (k - 1) * stride]
    BY <1>2, <2>1, <2>2 DEF Steps
  <2>4. d <= m * stride
    <3>1. PICK p \in Int : p = m * stride
      BY <2>2
    <3>2. QED
      BY <2>1, <2>2, <3>1
  <2>5. m # 0
    BY <2>1, <2>4
  <2>6. ASSUME NEW k \in 1 .. m
        PROVE  first + (k - 1) * stride \in first .. last - 1
    <3>1. PICK l \in Nat, n \in Nat : l = k - 1 /\ n = m - 1 /\ l <= n
      BY <2>5
    <3>2. l * stride <= n * stride
      BY <3>1, ProductMonotonic
    <3>3. m * stride = n * stride + stride
      BY <3>1
    <3>4. PICK p \in Int, o \in Nat : p = n * stride /\ o = l * stride
      BY <3>1
    <3>5. p + stride + r = d + stride - 1
      BY <2>2, <3>3, <3>4
    <3>6. o <= d - 1
      BY <2>1, <2>2, <3>2, <3>4, <3>5
    <3>7. QED
      BY <2>1, <3>1, <3>4, <3>6
  <2>7. Steps(first, last, stride) \in Seq(Nat) /\ Len(Steps(first, last, stride)) = m
    <3>1. \A k \in 1 .. m : first + (k - 1) * stride \in Nat
      BY <2>6
    <3>2. QED
      BY <2>3, <3>1
  <2>8. \A k \in 1 .. m : Steps(first, last, stride)[k] = first + (k - 1) * stride
    BY <2>3
  <2>9. last <= first + m * stride
    BY <2>1, <2>4
  <2>10. PICK seq : seq = Steps(first, last, stride)
    OBVIOUS
  <2>11. seq \in Seq(Nat) /\ Len(seq) = m
    BY <2>7, <2>10
  <2>12. \A k \in 1 .. Len(seq) : /\ seq[k] = first + (k - 1) * stride
                                   /\ seq[k] \in first .. last - 1
    BY <2>6, <2>8, <2>10, <2>11
  <2>13. last <= first + Len(seq) * stride
    BY <2>9, <2>11
  <2>14. ~ (last <= first)
    BY <1>2
  <2>15. IsSteps(seq, first, last, stride)
    BY <2>11, <2>12, <2>13, <2>14 DEF IsSteps
  <2>16. QED
    BY <2>10, <2>15
<1>3. QED
  BY <1>1, <1>2

LEMMA StepsType ==
    ASSUME NEW first \in Nat, NEW last \in Nat, NEW stride \in Nat \ {0}
    PROVE  Steps(first, last, stride) \in Seq(Nat)
<1>1. IsSteps(Steps(first, last, stride), first, last, stride)
  BY StepsAre
<1>2. QED
  BY <1>1 DEF IsSteps

LEMMA StepsOfOne ==
    ASSUME NEW first \in Nat, NEW last \in Nat
    PROVE  /\ Len(Steps(first, last, 1)) = IF first < last THEN last - first ELSE 0
           /\ \A k \in 1 .. Len(Steps(first, last, 1)) :
                 Steps(first, last, 1)[k] = first + k - 1
<1>1. PICK seq : seq = Steps(first, last, 1)
  OBVIOUS
<1>2. /\ Len(seq) \in Nat
      /\ \A k \in 1 .. Len(seq) : seq[k] = first + (k - 1) * 1 /\ seq[k] \in first .. last - 1
      /\ first < last => last <= first + Len(seq) * 1
      /\ last <= first => seq = << >>
  <2>1. IsSteps(seq, first, last, 1)
    BY <1>1, StepsAre
  <2>2. QED
    BY <2>1 DEF IsSteps
<1>3. \A k \in 1 .. Len(seq) : seq[k] = first + k - 1 /\ first + k - 1 <= last - 1
  BY <1>2
<1>4. CASE first < last
  <2>1. last <= first + Len(seq)
    BY <1>2, <1>4
  <2>2. Len(seq) \in 1 .. Len(seq)
    BY <1>2, <1>4, <2>1
  <2>3. first + Len(seq) - 1 <= last - 1
    BY <1>3, <2>2
  <2>4. QED
    BY <1>1, <1>2, <1>3, <1>4, <2>1, <2>3
<1>5. CASE ~ (first < last)
  <2>1. seq = << >>
    BY <1>2, <1>5
  <2>2. QED
    BY <1>1, <1>3, <1>5, <2>1
<1>6. QED
  BY <1>4, <1>5

LEMMA VisitedSteps ==
    ASSUME NEW first \in Nat, NEW last \in Nat, NEW stride \in Nat \ {0}
    PROVE  /\ Visited(Steps(first, last, stride))
                = {j \in 0 .. last - 1 : \E q \in Nat : j = first + q * stride}
           /\ VisitsOnce(Steps(first, last, stride))
<1>1. PICK seq : seq = Steps(first, last, stride)
  OBVIOUS
<1>2. /\ Len(seq) \in Nat
      /\ \A k \in 1 .. Len(seq) : /\ seq[k] = first + (k - 1) * stride
                                  /\ seq[k] \in first .. last - 1
      /\ first < last => last <= first + Len(seq) * stride
      /\ last <= first => seq = << >>
  <2>1. IsSteps(seq, first, last, stride)
    BY <1>1, StepsAre
  <2>2. QED
    BY <2>1 DEF IsSteps
<1>3. ASSUME NEW k \in 1 .. Len(seq)
      PROVE  seq[k] \in 0 .. last - 1 /\ \E q \in Nat : seq[k] = first + q * stride
  <2>1. PICK q \in Nat : q = k - 1
    BY <1>2
  <2>2. seq[k] = first + q * stride
    BY <1>2, <2>1
  <2>3. seq[k] \in 0 .. last - 1
    BY <1>2
  <2>4. QED
    BY <2>2, <2>3
<1>4. ASSUME NEW j \in 0 .. last - 1, NEW q \in Nat, j = first + q * stride
      PROVE  \E k \in 1 .. Len(seq) : j = seq[k]
  <2>1. PICK p \in Nat : p = q * stride
    <3>1. \A x \in Nat, y \in Nat : x * y \in Nat
      OBVIOUS
    <3>2. QED
      BY <3>1
  <2>2. first < last /\ p < Len(seq) * stride
    <3>1. j < last /\ j = first + p
      BY <1>4, <2>1
    <3>2. PICK o \in Int : o = Len(seq) * stride
      BY <1>2
    <3>3. QED
      BY <1>2, <2>1, <3>1, <3>2
  <2>3. q < Len(seq)
    <3>1. CASE Len(seq) <= q
      <4>1. Len(seq) * stride <= q * stride
        BY <1>2, <3>1, ProductMonotonic
      <4>2. PICK o \in Int : o = Len(seq) * stride
        BY <1>2
      <4>3. QED
        BY <2>1, <2>2, <4>1, <4>2
    <3>2. QED
      BY <1>2, <3>1
  <2>4. q + 1 \in 1 .. Len(seq) /\ (q + 1) - 1 = q
    BY <1>2, <2>3
  <2>5. seq[q + 1] = first + q * stride
    BY <1>2, <2>4
  <2>6. QED
    BY <1>4, <2>4, <2>5
<1>5. Visited(seq) = {j \in 0 .. last - 1 : \E q \in Nat : j = first + q * stride}
  BY <1>3, <1>4 DEF Visited
<1>6. VisitsOnce(seq)
  <2>1. SUFFICES ASSUME NEW k \in 1 .. Len(seq), NEW l \in 1 .. Len(seq), k < l
                 PROVE  seq[k] # seq[l]
    BY <1>2 DEF VisitsOnce
  <2>2. PICK x \in Nat, y \in Nat : x = k - 1 /\ y = l - 1 /\ x + 1 <= y
    BY <1>2, <2>1
  <2>3. (x + 1) * stride <= y * stride
    BY <2>2, ProductMonotonic
  <2>4. (x + 1) * stride = x * stride + stride
    BY <2>2
  <2>5. seq[k] = first + x * stride /\ seq[l] = first + y * stride
    BY <1>2, <2>2
  <2>6. PICK o \in Int, p \in Int : o = x * stride /\ p = y * stride
    BY <2>2
  <2>7. QED
    BY <2>3, <2>4, <2>5, <2>6
<1>7. QED
  BY <1>1, <1>5, <1>6

\* Two walks one after the other
LEMMA VisitedBoth ==
    ASSUME NEW p \in Seq(Nat), NEW q \in Seq(Nat)
    PROVE  /\ p \o q \in Seq(Nat)
           /\ Visited(p \o q) = Visited(p) \cup Visited(q)
           /\ VisitsOnce(p) /\ VisitsOnce(q) /\ Visited(p) \cap Visited(q) = {}
                => VisitsOnce(p \o q)
<1>1. /\ p \o q \in Seq(Nat)
      /\ Len(p \o q) = Len(p) + Len(q)
      /\ \A i \in 1 .. Len(p) + Len(q) :
            (p \o q)[i] = IF i <= Len(p) THEN p[i] ELSE q[i - Len(p)]
  BY ConcatProperties
<1>2. Len(p) \in Nat /\ Len(q) \in Nat
  OBVIOUS
<1>3. PICK pq : pq = p \o q
  OBVIOUS
<1>4. \A i \in 1 .. Len(p) + Len(q) :
         \/ i \in 1 .. Len(p) /\ pq[i] = p[i]
         \/ i - Len(p) \in 1 .. Len(q) /\ pq[i] = q[i - Len(p)]
  BY <1>1, <1>2, <1>3
<1>5. \A i \in 1 .. Len(p) : i \in 1 .. Len(p) + Len(q) /\ pq[i] = p[i]
  BY <1>1, <1>2, <1>3
<1>6. ASSUME NEW i \in 1 .. Len(q)
      PROVE  Len(p) + i \in 1 .. Len(p) + Len(q) /\ pq[Len(p) + i] = q[i]
  <2>1. /\ Len(p) + i \in 1 .. Len(p) + Len(q) /\ ~ (Len(p) + i <= Len(p))
        /\ (Len(p) + i) - Len(p) = i
    BY <1>2
  <2>2. QED
    BY <1>1, <1>3, <2>1
<1>7. Visited(pq) = Visited(p) \cup Visited(q)
  <2>1. \A i \in 1 .. Len(p) + Len(q) : pq[i] \in Visited(p) \cup Visited(q)
    BY <1>4 DEF Visited
  <2>2. \A x \in Visited(p) : \E i \in 1 .. Len(p) + Len(q) : pq[i] = x
    BY <1>5 DEF Visited
  <2>3. \A x \in Visited(q) : \E i \in 1 .. Len(p) + Len(q) : pq[i] = x
    BY <1>6 DEF Visited
  <2>4. Visited(pq) = {pq[i] : i \in 1 .. Len(p) + Len(q)}
    BY <1>1, <1>3 DEF Visited
  <2>5. QED
    BY <2>1, <2>2, <2>3, <2>4
<1>8. ASSUME VisitsOnce(p), VisitsOnce(q), Visited(p) \cap Visited(q) = {}
      PROVE  VisitsOnce(pq)
  <2>1. SUFFICES ASSUME NEW k \in 1 .. Len(p) + Len(q), NEW l \in 1 .. Len(p) + Len(q),
                        pq[k] = pq[l]
                 PROVE  k = l
    BY <1>1, <1>3 DEF VisitsOnce
  <2>2. \A i \in 1 .. Len(p), j \in 1 .. Len(q) : p[i] # q[j]
    BY <1>8 DEF Visited
  <2>3. CASE k \in 1 .. Len(p) /\ pq[k] = p[k]
    <3>1. CASE l \in 1 .. Len(p) /\ pq[l] = p[l]
      BY <1>8, <2>1, <2>3, <3>1 DEF VisitsOnce
    <3>2. CASE l - Len(p) \in 1 .. Len(q) /\ pq[l] = q[l - Len(p)]
      BY <2>1, <2>2, <2>3, <3>2
    <3>3. QED
      BY <1>4, <3>1, <3>2
  <2>4. CASE k - Len(p) \in 1 .. Len(q) /\ pq[k] = q[k - Len(p)]
    <3>1. CASE l \in 1 .. Len(p) /\ pq[l] = p[l]
      BY <2>1, <2>2, <2>4, <3>1
    <3>2. CASE l - Len(p) \in 1 .. Len(q) /\ pq[l] = q[l - Len(p)]
      <4>1. k - Len(p) = l - Len(p)
        BY <1>8, <2>1, <2>4, <3>2 DEF VisitsOnce
      <4>2. QED
        BY <1>2, <4>1
    <3>3. QED
      BY <1>4, <3>1, <3>2
  <2>5. QED
    BY <1>4, <2>3, <2>4
<1>9. QED
  BY <1>1, <1>3, <1>7, <1>8

LEMMA LesserFacts ==
    ASSUME NEW a \in Nat, NEW b \in Nat
    PROVE  LesserOf(a, b) \in Nat /\ LesserOf(a, b) <= a /\ LesserOf(a, b) <= b
BY DEF LesserOf

\* The walks of thread t in a squad whose next stride is s
ToWalk0(s, c) == Steps(s, c, s) \o Steps(1, LesserOf(s, c), 1)
FromWalk0(s, c) == Steps(1, LesserOf(s, c), 1) \o Steps(s, c, s)
WalkBelow(n, t, c) == Steps(t + 1, LesserOf(t + Own(n, t), c), 1)

\* What both walks rest on: the strides, and steps that go nowhere
LEMMA WalkTools ==
    ASSUME NEW n, SmallSquad(n), NEW t \in 0 .. n - 1
    PROVE  /\ n \in Nat \ {0} /\ t \in Nat
           /\ \A stride \in 1 .. n :
                 /\ NextSubstride(stride) \in 1 .. n
                 /\ NextSubstride(NextSubstride(stride)) = 1
           /\ NextSubstride(1) = 1
           /\ \A sub \in 1 .. n, last \in 0 .. n :
                 /\ LesserOf(t + sub, last) \in 0 .. n
                 /\ Steps(t + sub, last, sub) \in Seq(Nat)
                 /\ Steps(t + 1, last, 1) \in Seq(Nat)
                 /\ last <= t + sub => Steps(t + sub, last, sub) = << >>
                 /\ LesserOf(t + 1, last) \in 0 .. n
                 /\ Steps(t + 1, LesserOf(t + 1, last), 1) = << >>
           /\ \A p \in Seq(Nat) : p \o << >> = p /\ << >> \o p = p
<1>1. n \in Nat \ {0} /\ t \in Nat /\ 1 \in 1 .. n
  BY DEF SmallSquad
<1>2. ASSUME NEW sub \in 1 .. n, NEW last \in 0 .. n
      PROVE  /\ LesserOf(t + sub, last) \in 0 .. n
             /\ Steps(t + sub, last, sub) \in Seq(Nat)
             /\ last <= t + sub => Steps(t + sub, last, sub) = << >>
  <2>1. t + sub \in Nat /\ last \in Nat /\ sub \in Nat \ {0}
    BY <1>1
  <2>2. IsSteps(Steps(t + sub, last, sub), t + sub, last, sub)
    BY <2>1, StepsAre
  <2>3. LesserOf(t + sub, last) \in 0 .. n
    BY <1>1, <2>1, LesserFacts
  <2>4. QED
    BY <2>2, <2>3 DEF IsSteps
<1>3. ASSUME NEW last \in 0 .. n
      PROVE  /\ Steps(t + 1, last, 1) \in Seq(Nat)
             /\ LesserOf(t + 1, last) \in 0 .. n
             /\ Steps(t + 1, LesserOf(t + 1, last), 1) = << >>
  <2>1. PICK few : few = LesserOf(t + 1, last)
    OBVIOUS
  <2>2. few \in 0 .. n /\ few <= t + 1
    BY <1>1, <2>1, LesserFacts
  <2>3. Steps(t + 1, few, 1) = << >>
    BY <1>1, <1>2, <2>2
  <2>4. QED
    BY <1>1, <1>2, <2>1, <2>2, <2>3
<1>4. \A p \in Seq(Nat) : p \o << >> = p /\ << >> \o p = p
  BY ConcatEmptySeq
<1>5. \A stride \in 1 .. n : /\ NextSubstride(stride) \in 1 .. n
                             /\ NextSubstride(NextSubstride(stride)) = 1
  BY <1>1, Substrides
<1>6. NextSubstride(1) = 1
  BY <1>1, Substrides
<1>7. QED
  BY <1>1, <1>2, <1>3, <1>4, <1>5, <1>6


LEMMA ToWalkOf ==
    ASSUME NEW n, SmallSquad(n), NEW t \in 0 .. n - 1, NEW c \in 0 .. n
    PROVE  ToSubthreads(n, t, c)
             = IF t = 0 THEN ToWalk0(NextSubstride(n), c) ELSE WalkBelow(n, t, c)
<1> DEFINE Rest(w, stride, last) ==
             w[NextSubstride(stride)][LesserOf(t + NextSubstride(stride), last)]
           Walk(w) ==
             w = [stride \in 1 .. n |->
                    [last \in 0 .. n |->
                       IF stride = 1 THEN << >>
                       ELSE Steps(t + NextSubstride(stride), last, NextSubstride(stride))
                              \o Rest(w, stride, last)]]
           Known(stride, last) ==
             IF stride = 1 THEN << >>
             ELSE Steps(t + NextSubstride(stride), last, NextSubstride(stride))
                    \o (IF NextSubstride(stride) = 1 THEN << >>
                        ELSE Steps(t + 1, LesserOf(t + NextSubstride(stride), last), 1))
           known == [stride \in 1 .. n |-> [last \in 0 .. n |-> Known(stride, last)]]
           walk == CHOOSE w : Walk(w)
<1>1. PICK s \in 1 .. n : s = NextSubstride(n) /\ NextSubstride(s) = 1
  <2>1. n \in 1 .. n
    BY WalkTools
  <2>2. NextSubstride(n) \in 1 .. n /\ NextSubstride(NextSubstride(n)) = 1
    BY <2>1, WalkTools
  <2>3. QED
    BY <2>2
<1>2. Walk(known)
  <2>1. ASSUME NEW stride \in 1 .. n, NEW last \in 0 .. n, stride # 1
        PROVE  Known(stride, last)
                 = Steps(t + NextSubstride(stride), last, NextSubstride(stride))
                     \o Rest(known, stride, last)
    <3>1. PICK sub \in 1 .. n : sub = NextSubstride(stride) /\ NextSubstride(sub) = 1
      BY WalkTools
    <3>2. PICK less \in 0 .. n : less = LesserOf(t + sub, last)
      BY WalkTools
    <3>3. Rest(known, stride, last) = Known(sub, less)
      BY <3>1, <3>2
    <3>4. Steps(t + 1, less, 1) \o << >> = Steps(t + 1, less, 1)
      BY WalkTools
    <3>5. Known(sub, less) = IF sub = 1 THEN << >> ELSE Steps(t + 1, less, 1)
      BY <3>1, <3>4
    <3>6. QED
      BY <2>1, <3>1, <3>2, <3>3, <3>5
  <2> HIDE DEF Known
  <2>2. \A stride \in 1 .. n, last \in 0 .. n :
           Known(stride, last)
             = IF stride = 1 THEN << >>
               ELSE Steps(t + NextSubstride(stride), last, NextSubstride(stride))
                      \o Rest(known, stride, last)
    BY <2>1 DEF Known
  <2> HIDE DEF Rest
  <2>3. QED
    BY <2>2
<1>3. Walk(walk)
  BY <1>2
<1>4. ToSubthreads(n, t, c)
        = walk[NumSubthreads(n, t)][LesserOf(t + NumSubthreads(n, t), c)]
  BY DEF ToSubthreads
<1> HIDE DEF walk, known, Known
<1>5. ASSUME NEW stride \in 1 .. n, NEW last \in 0 .. n
      PROVE  walk[stride][last]
               = IF stride = 1 THEN << >>
                 ELSE Steps(t + NextSubstride(stride), last, NextSubstride(stride))
                        \o Rest(walk, stride, last)
  <2>1. walk[stride]
          = [l \in 0 .. n |->
               IF stride = 1 THEN << >>
               ELSE Steps(t + NextSubstride(stride), l, NextSubstride(stride))
                      \o Rest(walk, stride, l)]
    BY <1>3
  <2> HIDE DEF Walk, Rest
  <2>2. QED
    BY <2>1
<1> HIDE DEF Walk
<1>6. ASSUME NEW last \in 0 .. n, NEW stride \in 1 .. n, NextSubstride(stride) = 1
      PROVE  walk[stride][last] = IF stride = 1 THEN << >> ELSE Steps(t + 1, last, 1)
  <2>1. 1 \in 1 .. n /\ LesserOf(t + 1, last) \in 0 .. n
    BY WalkTools
  <2>2. walk[1][LesserOf(t + 1, last)] = << >>
    BY <1>5, <2>1
  <2>3. Steps(t + 1, last, 1) \o << >> = Steps(t + 1, last, 1)
    BY WalkTools
  <2>4. Rest(walk, stride, last) = << >>
    BY <1>6, <2>2
  <2> HIDE DEF Rest
  <2>5. walk[stride][last]
          = IF stride = 1 THEN << >>
            ELSE Steps(t + NextSubstride(stride), last, NextSubstride(stride))
                   \o Rest(walk, stride, last)
    BY <1>5, <1>6
  <2>6. walk[stride][last]
          = IF stride = 1 THEN << >> ELSE Steps(t + 1, last, 1) \o << >>
    BY <1>6, <2>4, <2>5
  <2>7. QED
    BY <2>3, <2>6
<1>7. CASE t = 0
  <2>1. NumSubthreads(n, t) = n /\ LesserOf(t + n, c) = c
    BY <1>7, OwnStride, WalkTools DEF Own, LesserOf
  <2>2. n \in 1 .. n
    BY SMTT(20), WalkTools
  <2>3. ToSubthreads(n, t, c) = walk[n][c]
    BY <1>4, <2>1
  <2>4. PICK less \in 0 .. n : less = LesserOf(s, c) /\ less = LesserOf(t + s, c)
    <3>1. LesserOf(t + s, c) \in 0 .. n /\ t + s = s
      BY <1>7, WalkTools
    <3>2. QED
      BY <3>1
  <2>5. walk[n][c] = IF n = 1 THEN << >> ELSE Steps(s, c, s) \o walk[s][less]
    <3>1. t + s = s
      BY <1>1, <1>7
    <3>2. QED
      BY <1>1, <1>5, <2>2, <2>4, <3>1
  <2>6. walk[s][less] = IF s = 1 THEN << >> ELSE Steps(1, less, 1)
    <3>1. t + 1 = 1
      BY <1>7
    <3>2. QED
      BY <1>1, <1>6, <3>1
  <2>7. s = 1 => Steps(1, less, 1) = << >>
    BY <1>7, <2>4, WalkTools
  <2>8. n = 1 => s = 1 /\ Steps(s, c, s) = << >>
    <3>1. ASSUME n = 1
          PROVE  s = 1 /\ c <= t + 1 /\ 1 \in 1 .. n /\ t + 1 = 1
      BY <1>1, <1>7, <3>1
    <3>2. 1 \in 1 .. n
      BY WalkTools
    <3>3. c <= t + 1 => Steps(t + 1, c, 1) = << >>
      BY <3>2, WalkTools
    <3>4. QED
      BY <3>1, <3>3
  <2>9. << >> \o << >> = << >>
    BY WalkTools
  <2>10. ToSubthreads(n, t, c) = Steps(s, c, s) \o Steps(1, less, 1)
    BY <2>3, <2>5, <2>6, <2>7, <2>8, <2>9
  <2>11. QED
    BY <1>1, <1>7, <2>4, <2>10 DEF ToWalk0
<1>8. CASE t # 0
  <2>1. PICK own \in 1 .. n : own = Own(n, t) /\ NumSubthreads(n, t) = own
    BY OwnStride
  <2>2. NextSubstride(own) = 1
    BY <1>1, <1>8, <2>1, WalkTools DEF Own
  <2>3. PICK less \in 0 .. n : less = LesserOf(t + own, c)
    BY WalkTools
  <2>4. ToSubthreads(n, t, c) = IF own = 1 THEN << >> ELSE Steps(t + 1, less, 1)
    BY <1>4, <1>6, <2>1, <2>2, <2>3
  <2>5. own = 1 => Steps(t + 1, less, 1) = << >>
    BY <2>3, WalkTools
  <2>6. QED
    BY <1>8, <2>1, <2>3, <2>4, <2>5 DEF WalkBelow
<1>9. QED
  BY <1>7, <1>8

LEMMA FromWalkOf ==
    ASSUME NEW n, SmallSquad(n), NEW t \in 0 .. n - 1, NEW c \in 0 .. n
    PROVE  FromSubthreads(n, t, c)
             = IF t = 0 THEN FromWalk0(NextSubstride(n), c) ELSE WalkBelow(n, t, c)
<1> DEFINE Rest(w, stride, last) ==
             w[NextSubstride(stride)][LesserOf(t + NextSubstride(stride), last)]
           Walk(w) ==
             w = [stride \in 1 .. n |->
                    [last \in 0 .. n |->
                       (IF stride = 1 THEN << >> ELSE Rest(w, stride, last))
                       \o Steps(t + NextSubstride(stride), last, NextSubstride(stride))]]
           Known(stride, last) ==
             (IF stride = 1 THEN << >>
              ELSE Steps(t + 1, LesserOf(t + NextSubstride(stride), last), 1))
             \o Steps(t + NextSubstride(stride), last, NextSubstride(stride))
           known == [stride \in 1 .. n |-> [last \in 0 .. n |-> Known(stride, last)]]
           walk == CHOOSE w : Walk(w)
<1>1. PICK s \in 1 .. n : s = NextSubstride(n) /\ NextSubstride(s) = 1
  <2>1. n \in 1 .. n
    BY WalkTools
  <2>2. NextSubstride(n) \in 1 .. n /\ NextSubstride(NextSubstride(n)) = 1
    BY <2>1, WalkTools
  <2>3. QED
    BY <2>2
<1>2. Walk(known)
  <2>1. ASSUME NEW stride \in 1 .. n, NEW last \in 0 .. n, stride # 1
        PROVE  Known(stride, last)
                 = Rest(known, stride, last)
                     \o Steps(t + NextSubstride(stride), last, NextSubstride(stride))
    <3>1. PICK sub \in 1 .. n : sub = NextSubstride(stride) /\ NextSubstride(sub) = 1
      BY WalkTools
    <3>2. PICK less \in 0 .. n : less = LesserOf(t + sub, last)
      BY WalkTools
    <3>3. Rest(known, stride, last) = Known(sub, less)
      BY <3>1, <3>2
    <3>4. /\ Steps(t + 1, LesserOf(t + 1, less), 1) = << >>
          /\ << >> \o Steps(t + 1, less, 1) = Steps(t + 1, less, 1)
      BY WalkTools
    <3>5. Known(sub, less) = Steps(t + 1, less, 1)
      BY <3>1, <3>4
    <3>6. QED
      BY <2>1, <3>1, <3>2, <3>3, <3>5
  <2> HIDE DEF Known
  <2>2. \A stride \in 1 .. n, last \in 0 .. n :
           Known(stride, last)
             = (IF stride = 1 THEN << >> ELSE Rest(known, stride, last))
                 \o Steps(t + NextSubstride(stride), last, NextSubstride(stride))
    BY <2>1 DEF Known
  <2> HIDE DEF Rest
  <2>3. QED
    BY <2>2
<1>3. Walk(walk)
  BY <1>2
<1>4. FromSubthreads(n, t, c)
        = walk[NumSubthreads(n, t)][LesserOf(t + NumSubthreads(n, t), c)]
  BY DEF FromSubthreads
<1> HIDE DEF walk, known, Known
<1>5. ASSUME NEW stride \in 1 .. n, NEW last \in 0 .. n
      PROVE  walk[stride][last]
               = (IF stride = 1 THEN << >> ELSE Rest(walk, stride, last))
                   \o Steps(t + NextSubstride(stride), last, NextSubstride(stride))
  <2>1. walk[stride]
          = [l \in 0 .. n |->
               (IF stride = 1 THEN << >> ELSE Rest(walk, stride, l))
                 \o Steps(t + NextSubstride(stride), l, NextSubstride(stride))]
    BY <1>3
  <2> HIDE DEF Walk, Rest
  <2>2. QED
    BY <2>1
<1> HIDE DEF Walk
<1>6. ASSUME NEW last \in 0 .. n, NEW stride \in 1 .. n, NextSubstride(stride) = 1
      PROVE  walk[stride][last] = Steps(t + 1, last, 1)
  <2>1. 1 \in 1 .. n /\ NextSubstride(1) = 1
    BY WalkTools
  <2>2. PICK less \in 0 .. n : less = LesserOf(t + 1, last)
    BY WalkTools
  <2>3. Steps(t + 1, less, 1) = << >> /\ << >> \o << >> = << >>
    BY <2>2, WalkTools
  <2>4. << >> \o Steps(t + 1, last, 1) = Steps(t + 1, last, 1)
    BY WalkTools
  <2>5. Rest(walk, stride, last) = walk[1][less]
    BY <1>6, <2>2
  <2> HIDE DEF Rest
  <2>6. walk[1][less] = << >>
    BY ZenonT(40), <1>5, <2>1, <2>3
  <2>7. (IF stride = 1 THEN << >> ELSE Rest(walk, stride, last)) = << >>
    BY <2>5, <2>6
  <2>8. walk[stride][last]
          = (IF stride = 1 THEN << >> ELSE Rest(walk, stride, last)) \o Steps(t + 1, last, 1)
    BY <1>5, <1>6
  <2>9. QED
    BY <2>4, <2>7, <2>8
<1>7. CASE t = 0
  <2>1. NumSubthreads(n, t) = n /\ LesserOf(t + n, c) = c
    BY <1>7, OwnStride, WalkTools DEF Own, LesserOf
  <2>2. n \in 1 .. n /\ 1 \in 1 .. n
    BY SMTT(20), WalkTools
  <2>3. FromSubthreads(n, t, c) = walk[n][c]
    BY <1>4, <2>1
  <2>4. PICK less \in 0 .. n : less = LesserOf(s, c) /\ less = LesserOf(t + s, c)
    <3>1. LesserOf(t + s, c) \in 0 .. n /\ t + s = s
      BY <1>7, WalkTools
    <3>2. QED
      BY <3>1
  <2>5. walk[n][c] = (IF n = 1 THEN << >> ELSE walk[s][less]) \o Steps(s, c, s)
    <3>1. t + s = s
      BY <1>1, <1>7
    <3>2. QED
      BY <1>1, <1>5, <2>2, <2>4, <3>1
  <2>6. walk[s][less] = Steps(1, less, 1)
    <3>1. t + 1 = 1
      BY <1>7
    <3>2. QED
      BY <1>1, <1>6, <3>1
  <2>7. s = 1 => Steps(1, less, 1) = << >>
    BY <1>7, <2>4, WalkTools
  <2>8. n = 1 => s = 1
    BY <1>1
  <2>9. FromSubthreads(n, t, c) = Steps(1, less, 1) \o Steps(s, c, s)
    BY <2>3, <2>5, <2>6, <2>7, <2>8
  <2>10. QED
    BY <1>1, <1>7, <2>4, <2>9 DEF FromWalk0
<1>8. CASE t # 0
  <2>1. PICK own \in 1 .. n : own = Own(n, t) /\ NumSubthreads(n, t) = own
    BY OwnStride
  <2>2. NextSubstride(own) = 1
    BY <1>1, <1>8, <2>1, WalkTools DEF Own
  <2>3. PICK less \in 0 .. n : less = LesserOf(t + own, c)
    BY WalkTools
  <2>4. FromSubthreads(n, t, c) = Steps(t + 1, less, 1)
    BY <1>4, <1>6, <2>1, <2>2, <2>3
  <2>5. QED
    BY <1>8, <2>1, <2>3, <2>4 DEF WalkBelow
<1>9. QED
  BY <1>7, <1>8

\* Multiples of s, as the loops reach them
LEMMA MultiplesOf ==
    ASSUME NEW s \in Nat \ {0}, NEW j \in Nat
    PROVE  /\ (\E q \in Nat : j = s + q * s) <=> j > 0 /\ j % s = 0
           /\ 0 < j /\ j < s => j % s # 0
<1>1. ASSUME NEW q \in Nat, j = s + q * s
      PROVE  j > 0 /\ j % s = 0
  <2>1. ((q + 1) * s + 0) % s = 0
    BY ModUnique
  <2>2. (q + 1) * s = q * s + s
    OBVIOUS
  <2>3. PICK p \in Nat : p = q * s
    <3>1. \A x \in Nat, y \in Nat : x * y \in Nat
      OBVIOUS
    <3>2. QED
      BY <3>1
  <2>4. (q + 1) * s + 0 = j
    BY <1>1, <2>2, <2>3
  <2>5. QED
    BY <1>1, <2>1, <2>3, <2>4
<1>2. ASSUME j > 0, j % s = 0
      PROVE  \E q \in Nat : j = s + q * s
  <2>1. PICK p \in Nat : p = j \div s /\ j = p * s
    BY <1>2, DivMod
  <2>2. p # 0
    BY <1>2, <2>1
  <2>3. PICK q \in Nat : q = p - 1 /\ p = q + 1
    BY <2>2
  <2>4. (q + 1) * s = s + q * s
    OBVIOUS
  <2>5. j = s + q * s
    BY <2>1, <2>3, <2>4
  <2>6. QED
    BY <2>5
<1>3. ASSUME 0 < j, j < s
      PROVE  j % s # 0
  <2>1. (0 * s + j) % s = j
    BY <1>3, ModUnique
  <2>2. 0 * s + j = j
    OBVIOUS
  <2>3. QED
    BY <1>3, <2>1, <2>2
<1>4. QED
  BY <1>1, <1>2, <1>3

\* Whether thread j is a subordinate of thread t
Kid(n, t, j) ==
    /\ t < j
    /\ IF t = 0 THEN j < NextSubstride(n) \/ j % NextSubstride(n) = 0
       ELSE j < t + Own(n, t)

IsWalk(seq, n, t, c) ==
    /\ seq \in Seq(Nat)
    /\ Visited(seq) = {j \in 0 .. c - 1 : Kid(n, t, j)}
    /\ VisitsOnce(seq)

LEMMA WalksVisitKids ==
    ASSUME NEW n, SmallSquad(n), NEW t \in 0 .. n - 1, NEW c \in 0 .. n
    PROVE  /\ IsWalk(ToSubthreads(n, t, c), n, t, c)
           /\ IsWalk(FromSubthreads(n, t, c), n, t, c)
<1>1. n \in Nat \ {0} /\ t \in Nat /\ c \in Nat
  BY WalkTools
<1>2. PICK s \in Nat \ {0} : s = NextSubstride(n)
  <2>1. n \in 1 .. n
    BY <1>1
  <2>2. NextSubstride(n) \in 1 .. n
    BY <2>1, WalkTools
  <2>3. QED
    BY <1>1, <2>2
<1>3. CASE t = 0
  <2>1. PICK less \in Nat : less = LesserOf(s, c) /\ less <= s /\ less <= c
    BY <1>1, <1>2, LesserFacts
  <2>2. s <= less \/ c <= less
    BY <1>1, <2>1 DEF LesserOf
  <2>3. PICK p \in Seq(Nat) : p = Steps(s, c, s)
    BY <1>1, StepsType
  <2>4. PICK q \in Seq(Nat) : q = Steps(1, less, 1)
    BY StepsType
  <2>5. Visited(p) = {j \in 0 .. c - 1 : j > 0 /\ j % s = 0} /\ VisitsOnce(p)
    <3>1. /\ Visited(p) = {j \in 0 .. c - 1 : \E k \in Nat : j = s + k * s}
          /\ VisitsOnce(p)
      BY ZenonT(40), <1>1, <2>3, VisitedSteps
    <3>2. ASSUME NEW j \in 0 .. c - 1
          PROVE  (\E k \in Nat : j = s + k * s) <=> j > 0 /\ j % s = 0
      <4>1. j \in Nat
        BY <1>1
      <4>2. QED
        BY <4>1, MultiplesOf
    <3>3. QED
      BY <3>1, <3>2
  <2>6. Visited(q) = {j \in 0 .. c - 1 : j > 0 /\ j < s} /\ VisitsOnce(q)
    <3>1. /\ Visited(q) = {j \in 0 .. less - 1 : \E k \in Nat : j = 1 + k * 1}
          /\ VisitsOnce(q)
      BY <2>4, VisitedSteps
    <3>2. ASSUME NEW j \in 0 .. less - 1
          PROVE  (\E k \in Nat : j = 1 + k * 1) <=> j > 0
      <4>1. \A k \in Nat : 1 + k * 1 = k + 1
        OBVIOUS
      <4>2. j > 0 => j - 1 \in Nat /\ j = (j - 1) + 1
        BY <2>1
      <4>3. QED
        BY <2>1, <4>1, <4>2
    <3>3. Visited(q) = {j \in 0 .. less - 1 : j > 0}
      BY <3>1, <3>2
    <3>4. {j \in 0 .. less - 1 : j > 0} = {j \in 0 .. c - 1 : j > 0 /\ j < s}
      BY <1>1, <2>1, <2>2
    <3>5. QED
      BY <3>1, <3>3, <3>4
  <2>7. Visited(p) \cap Visited(q) = {}
    <3>1. ASSUME NEW j \in 0 .. c - 1
          PROVE  0 < j /\ j < s => j % s # 0
      <4>1. j \in Nat
        BY <1>1
      <4>2. QED
        BY <4>1, MultiplesOf
    <3>2. QED
      BY <2>5, <2>6, <3>1
  <2>8. Visited(p) \cup Visited(q) = {j \in 0 .. c - 1 : Kid(n, t, j)}
    <3>1. \A j \in 0 .. c - 1 : Kid(n, t, j) <=> j > 0 /\ (j < s \/ j % s = 0)
      BY <1>2, <1>3 DEF Kid
    <3>2. QED
      BY <2>5, <2>6, <3>1
  <2>9. /\ p \o q \in Seq(Nat) /\ q \o p \in Seq(Nat)
        /\ Visited(p \o q) = Visited(p) \cup Visited(q)
        /\ Visited(q \o p) = Visited(p) \cup Visited(q)
        /\ VisitsOnce(p \o q) /\ VisitsOnce(q \o p)
    BY <2>5, <2>6, <2>7, VisitedBoth
  <2>10. ToSubthreads(n, t, c) = p \o q /\ FromSubthreads(n, t, c) = q \o p
    BY <1>2, <1>3, <2>1, <2>3, <2>4, ToWalkOf, FromWalkOf DEF ToWalk0, FromWalk0
  <2>11. QED
    BY <2>8, <2>9, <2>10 DEF IsWalk
<1>4. CASE t # 0
  <2>1. PICK own \in 1 .. n : own = Own(n, t)
    BY OwnStride
  <2>2. PICK less \in Nat : /\ less = LesserOf(t + own, c)
                            /\ less <= t + own /\ less <= c
                            /\ t + own <= less \/ c <= less
    <3>1. t + own \in Nat
      BY <1>1
    <3>2. LesserOf(t + own, c) \in Nat
      BY <1>1, <3>1, LesserFacts
    <3>3. QED
      BY <1>1, <3>1, <3>2 DEF LesserOf
  <2>3. PICK first \in Nat, seq \in Seq(Nat) : first = t + 1 /\ seq = Steps(first, less, 1)
    BY <1>1, StepsType
  <2>4. /\ Visited(seq) = {j \in 0 .. less - 1 : \E k \in Nat : j = first + k * 1}
        /\ VisitsOnce(seq)
    <3>1. PICK one \in Nat \ {0} : one = 1
      OBVIOUS
    <3>2. /\ Visited(Steps(first, less, one))
                = {j \in 0 .. less - 1 : \E k \in Nat : j = first + k * one}
          /\ VisitsOnce(Steps(first, less, one))
      BY VisitedSteps
    <3>3. QED
      BY <2>3, <3>1, <3>2
  <2>5. ASSUME NEW j \in 0 .. less - 1
        PROVE  (\E k \in Nat : j = first + k * 1) <=> t < j
    <3>1. \A k \in Nat : first + k * 1 = first + k
      BY <2>3
    <3>2. t < j => j - first \in Nat /\ j = first + (j - first)
      BY <1>1, <2>2, <2>3
    <3>3. QED
      BY <1>1, <2>2, <2>3, <3>1, <3>2
  <2>6. Visited(seq) = {j \in 0 .. less - 1 : t < j}
    BY <2>4, <2>5
  <2>7. \A j \in Int : j \in 0 .. less - 1 /\ t < j <=> j \in 0 .. c - 1 /\ Kid(n, t, j)
    BY <1>1, <1>4, <2>1, <2>2 DEF Kid
  <2>8. Visited(seq) = {j \in 0 .. c - 1 : Kid(n, t, j)}
    BY <2>6, <2>7
  <2>9. ToSubthreads(n, t, c) = seq /\ FromSubthreads(n, t, c) = seq
    BY <1>4, <2>1, <2>2, <2>3, ToWalkOf, FromWalkOf DEF WalkBelow
  <2>10. QED
    BY <2>4, <2>8, <2>9 DEF IsWalk
<1>5. QED
  BY <1>3, <1>4

\* A walk that visits the subordinates below c, once each
LEMMA WalksAgreeOn ==
    ASSUME NEW n, SmallSquad(n), NEW c \in 0 .. n
    PROVE  WalksAgree(n, c)
<1>1. n \in Nat \ {0} /\ n \in 0 .. n
  BY DEF SmallSquad
<1>2. ASSUME NEW t \in 0 .. n - 1, NEW seq, IsWalk(seq, n, t, c)
      PROVE  /\ seq \in Seq(0 .. n - 1)
             /\ Visited(seq) = {j \in Subthreads(n, t) : j < c}
             /\ VisitsOnce(seq)
  <2>1. /\ seq \in Seq(Nat) /\ VisitsOnce(seq)
        /\ Visited(seq) = {j \in 0 .. c - 1 : Kid(n, t, j)}
    BY <1>2 DEF IsWalk
  <2>2. \A k \in 1 .. Len(seq) : seq[k] \in 0 .. n - 1
    <3>1. \A k \in 1 .. Len(seq) : seq[k] \in 0 .. c - 1
      BY <2>1 DEF Visited
    <3>2. QED
      BY <1>1, <3>1
  <2>3. seq \in Seq(0 .. n - 1)
    <3>1. Len(seq) \in Nat /\ seq = [k \in 1 .. Len(seq) |-> seq[k]]
      BY <2>1
    <3>2. seq \in [1 .. Len(seq) -> 0 .. n - 1]
      BY <2>2, <3>1
    <3>3. PICK m \in Nat : m = Len(seq)
      BY <3>1
    <3>4. seq \in [1 .. m -> 0 .. n - 1]
      BY <3>2, <3>3
    <3>5. QED
      BY <3>4, SeqDef
  <2>4. IsWalk(ToSubthreads(n, t, n), n, t, n)
    BY <1>1, WalksVisitKids
  <2>5. Subthreads(n, t) = {j \in 0 .. n - 1 : Kid(n, t, j)}
    BY <2>4 DEF IsWalk, Subthreads
  <2>6. \A j \in 0 .. n - 1 : j < c <=> j \in 0 .. c - 1
    BY <1>1
  <2>7. 0 .. c - 1 \subseteq 0 .. n - 1
    BY <1>1
  <2>8. {j \in Subthreads(n, t) : j < c} = {j \in 0 .. c - 1 : Kid(n, t, j)}
    BY <2>5, <2>6, <2>7
  <2>9. QED
    BY <2>1, <2>3, <2>8
<1>3. QED
  BY <1>2, WalksVisitKids DEF WalksAgree

\* The thread that wakes and awaits thread j
Parent(n, j) ==
    IF j < NextSubstride(n) \/ j % NextSubstride(n) = 0 THEN 0
    ELSE (j \div NextSubstride(n)) * NextSubstride(n)

LEMMA OneParent ==
    ASSUME NEW n, SmallSquad(n), NEW j \in 1 .. n - 1
    PROVE  /\ Parent(n, j) \in 0 .. n - 1
           /\ \A t \in 0 .. n - 1 : Kid(n, t, j) <=> t = Parent(n, j)
<1>1. n \in Nat \ {0} /\ n \in 1 .. n
  BY DEF SmallSquad
<1>2. PICK s \in Nat \ {0} : s = NextSubstride(n)
  <2>1. NextSubstride(n) \in 1 .. n
    BY <1>1, Substrides
  <2>2. QED
    BY <1>1, <2>1
<1>3. PICK q \in Nat, r \in 0 .. s - 1 :
          q = j \div s /\ r = j % s /\ j = q * s + r
  <2>1. j \in Nat
    BY <1>1
  <2>2. j \div s \in Nat /\ j % s \in 0 .. s - 1 /\ j = (j \div s) * s + (j % s)
    BY <2>1, DivMod
  <2>3. QED
    BY <2>2
<1>4. PICK p \in Nat : p = q * s
  <2>1. \A x \in Nat, y \in Nat : x * y \in Nat
    OBVIOUS
  <2>2. QED
    BY <2>1
<1>5. j = p + r
  BY <1>3, <1>4
<1>6. s <= j => p > 0
  BY <1>3, <1>5
<1>7. p % s = 0
  <2>1. (q * s + 0) % s = 0
    BY ModUnique
  <2>2. QED
    BY <1>4, <2>1
<1>8. Parent(n, j) = IF j < s \/ r = 0 THEN 0 ELSE p
  BY <1>2, <1>3, <1>4 DEF Parent
<1>9. Kid(n, 0, j) <=> Parent(n, j) = 0
  <2>1. 0 < j
    BY <1>1
  <2>2. Kid(n, 0, j) <=> j < s \/ j % s = 0
    BY <1>2, <2>1 DEF Kid
  <2>3. j < s \/ s <= j
    BY <1>1
  <2>4. QED
    BY <1>3, <1>6, <1>8, <2>2, <2>3
<1>10. ASSUME NEW t \in 1 .. n - 1
       PROVE  Kid(n, t, j) <=> t = Parent(n, j)
  <2>1. Kid(n, t, j) <=> t < j /\ j < t + (IF t % s = 0 THEN s ELSE 1)
    BY <1>2 DEF Kid, Own
  <2>2. ASSUME Kid(n, t, j)
        PROVE  t = Parent(n, j)
    <3>1. t % s = 0 /\ t < j /\ j < t + s /\ t \in Nat
      BY <1>1, <2>1, <2>2
    <3>2. PICK a \in Nat : t = a * s
      <4>1. t \div s \in Nat /\ t = (t \div s) * s + (t % s)
        BY <3>1, DivMod
      <4>2. PICK a \in Nat : a = t \div s /\ t = a * s + 0
        BY <3>1, <4>1
      <4>3. QED
        BY <4>2
    <3>3. PICK b \in Nat : b = j - t /\ 0 < b /\ b < s
      BY <3>1
    <3>4. (a * s + b) \div s = a
      BY <3>3, DivUnique
    <3>5. j = a * s + b
      BY <3>1, <3>2, <3>3
    <3>6. a = q
      BY <1>3, <3>4, <3>5
    <3>7. t = p /\ r # 0
      BY <1>4, <1>5, <3>2, <3>3, <3>6
    <3>8. s <= j
      <4>1. a # 0
        BY <3>2
      <4>2. 1 * s <= a * s
        BY <4>1, ProductMonotonic
      <4>3. QED
        BY <3>1, <3>2, <4>2
    <3>9. QED
      BY <1>8, <3>7, <3>8
  <2>3. ASSUME t = Parent(n, j)
        PROVE  Kid(n, t, j)
    <3>1. t = p /\ r # 0
      BY <1>8, <2>3
    <3>2. t % s = 0 /\ t < j /\ j < t + s
      BY <1>5, <1>7, <3>1
    <3>3. QED
      BY <2>1, <3>2
  <2>4. QED
    BY <2>2, <2>3
<1>11. Parent(n, j) \in 0 .. n - 1
  BY <1>1, <1>5, <1>8
<1>12. \A t \in 0 .. n - 1 : t = 0 \/ t \in 1 .. n - 1
  BY <1>1
<1>13. QED
  BY <1>9, <1>10, <1>11, <1>12

LEMMA SuperordinateUnique ==
    ASSUME NEW n, SmallSquad(n)
    PROVE  UniqueSuperordinate(n)
<1>1. n \in Nat \ {0} /\ n \in 0 .. n
  BY DEF SmallSquad
<1>2. ASSUME NEW t \in 0 .. n - 1
      PROVE  Subthreads(n, t) = {j \in 0 .. n - 1 : Kid(n, t, j)}
  <2>1. IsWalk(ToSubthreads(n, t, n), n, t, n)
    BY <1>1, WalksVisitKids
  <2>2. QED
    BY <2>1 DEF IsWalk, Subthreads
<1>3. ASSUME NEW t \in 0 .. n - 1, NEW j \in Subthreads(n, t)
      PROVE  t < j /\ j < n /\ j \in 1 .. n - 1 /\ t = Parent(n, j)
  <2>1. j \in 0 .. n - 1 /\ Kid(n, t, j)
    BY <1>2
  <2>2. t < j /\ j < n /\ j \in 1 .. n - 1
    BY <1>1, <2>1 DEF Kid
  <2>3. QED
    BY <2>1, <2>2, OneParent
<1>4. ASSUME NEW j \in 1 .. n - 1
      PROVE  \E t \in 0 .. n - 1 : j \in Subthreads(n, t)
  <2>1. Parent(n, j) \in 0 .. n - 1 /\ Kid(n, Parent(n, j), j)
    BY OneParent
  <2>2. j \in 0 .. n - 1
    BY <1>1
  <2>3. QED
    BY <1>2, <2>1, <2>2
<1>5. \A t, u \in 0 .. n - 1 : Subthreads(n, t) \cap Subthreads(n, u) # {} => t = u
  <2>1. SUFFICES ASSUME NEW t \in 0 .. n - 1, NEW u \in 0 .. n - 1,
                        NEW j \in Subthreads(n, t) \cap Subthreads(n, u)
                 PROVE  t = u
    OBVIOUS
  <2>2. t = Parent(n, j) /\ u = Parent(n, j)
    BY <1>3, <2>1
  <2>3. QED
    BY <2>2
<1>6. QED
  BY <1>3, <1>4, <1>5 DEF UniqueSuperordinate

\* The blocks of the threads of a walk follow one another.
Follows(from, n, t, c) ==
    /\ from \in Seq(Nat)
    /\ from = << >> => BlockEnd(n, t, c) = t + 1
    /\ from # << >> => /\ from[1] = t + 1
                       /\ BlockEnd(n, from[Len(from)], c) = BlockEnd(n, t, c)
    /\ \A k \in 1 .. Len(from) - 1 : from[k + 1] = BlockEnd(n, from[k], c)

\* The bounds between these blocks
Bounds(from, n, t, c) ==
    <<t + 1>> \o [k \in 1 .. Len(from) |-> BlockEnd(n, from[k], c)]

LEMMA FollowsBounds ==
    ASSUME NEW n, NEW t \in Nat, NEW c, NEW from, Follows(from, n, t, c)
    PROVE  /\ \A k \in 1 .. Len(from) : from[k] = Bounds(from, n, t, c)[k]
           /\ Bounds(from, n, t, c)[Len(Bounds(from, n, t, c))] = BlockEnd(n, t, c)
<1> USE DEF Follows
<1> DEFINE ends == [k \in 1 .. Len(from) |-> BlockEnd(n, from[k], c)]
           bounds == <<t + 1>> \o ends
<1>1. Len(from) \in Nat
  OBVIOUS
<1>2. Len(ends) = Len(from)
  BY <1>1
<1>3. PICK S : ends \in Seq(S) /\ <<t + 1>> \in Seq(S)
  <2>1. ends \in Seq({BlockEnd(n, from[k], c) : k \in 1 .. Len(from)} \cup {t + 1})
    BY <1>1
  <2>2. <<t + 1>> \in Seq({BlockEnd(n, from[k], c) : k \in 1 .. Len(from)} \cup {t + 1})
    OBVIOUS
  <2>3. QED
    BY <2>1, <2>2
<1>4. /\ Len(bounds) = 1 + Len(from)
      /\ bounds[1] = t + 1
      /\ \A k \in 1 .. Len(from) : bounds[k + 1] = ends[k]
  <2>1. /\ Len(bounds) = Len(<<t + 1>>) + Len(ends)
        /\ \A i \in 1 .. Len(<<t + 1>>) + Len(ends) :
              bounds[i] = IF i <= Len(<<t + 1>>) THEN <<t + 1>>[i]
                          ELSE ends[i - Len(<<t + 1>>)]
    BY <1>3, ConcatProperties
  <2>2. Len(<<t + 1>>) = 1 /\ <<t + 1>>[1] = t + 1
    OBVIOUS
  <2> HIDE DEF ends, bounds
  <2>3. \A i \in 1 .. 1 + Len(from) :
           bounds[i] = IF i <= 1 THEN <<t + 1>>[i] ELSE ends[i - 1]
    BY <1>2, <2>1, <2>2
  <2>4. ASSUME NEW k \in 1 .. Len(from)
        PROVE  bounds[k + 1] = ends[k]
    <3>1. k + 1 \in 1 .. 1 + Len(from) /\ ~ (k + 1 <= 1) /\ (k + 1) - 1 = k
      BY <1>1
    <3>2. QED
      BY <2>3, <3>1
  <2>5. 1 \in 1 .. 1 + Len(from)
    BY <1>1
  <2>6. QED
    BY <1>2, <2>1, <2>2, <2>3, <2>4, <2>5
<1>5. \A k \in 1 .. Len(from) : ends[k] = BlockEnd(n, from[k], c)
  OBVIOUS
<1> HIDE DEF ends, bounds
<1>6. ASSUME NEW k \in 1 .. Len(from)
      PROVE  from[k] = bounds[k]
  <2>1. CASE k = 1
    <3>1. from # << >>
      BY <1>1, <2>1
    <3>2. QED
      BY <1>4, <2>1, <3>1
  <2>2. CASE k # 1
    <3>1. PICK l \in 1 .. Len(from) - 1 : k = l + 1
      <4>1. k - 1 \in 1 .. Len(from) - 1 /\ k = (k - 1) + 1
        BY <1>1, <2>2
      <4>2. QED
        BY <4>1
    <3>2. l \in 1 .. Len(from)
      BY <1>1
    <3>3. from[l + 1] = BlockEnd(n, from[l], c)
      OBVIOUS
    <3>4. QED
      BY <1>4, <1>5, <3>1, <3>2, <3>3
  <2>3. QED
    BY <2>1, <2>2
<1>7. bounds[Len(bounds)] = BlockEnd(n, t, c)
  <2>1. CASE from = << >>
    <3>1. Len(from) = 0
      BY <2>1
    <3>2. QED
      BY <1>4, <2>1, <3>1
  <2>2. CASE from # << >>
    <3>1. Len(from) \in 1 .. Len(from)
      BY <1>1, <2>2
    <3>2. bounds[Len(from) + 1] = BlockEnd(n, from[Len(from)], c)
      BY <1>4, <1>5, <3>1
    <3>3. Len(bounds) = Len(from) + 1
      BY <1>1, <1>4
    <3>4. QED
      BY <2>2, <3>2, <3>3
  <2>3. QED
    BY <2>1, <2>2
<1>8. QED
  BY <1>6, <1>7 DEF bounds, ends, Bounds

\* Where blocks end
LEMMA BlockEnds ==
    ASSUME NEW n, SmallSquad(n), NEW c \in 0 .. n, NEW s, s = NextSubstride(n),
           NEW t \in 0 .. c - 1
    PROVE  /\ n \in Nat \ {0} /\ c \in Nat /\ s \in Nat \ {0} /\ t \in 0 .. n - 1
           /\ BlockEnd(n, t, c) = LesserOf(t + Own(n, t), c)
           /\ BlockEnd(n, t, c) \in t + 1 .. c
           /\ t = 0 => BlockEnd(n, t, c) = c
           /\ t # 0 /\ t % s # 0 => BlockEnd(n, t, c) = t + 1
           /\ t # 0 /\ t % s = 0 => BlockEnd(n, t, c) = LesserOf(t + s, c)
<1>1. n \in Nat \ {0} /\ c \in Nat /\ n \in 1 .. n
  BY DEF SmallSquad
<1>2. s \in Nat \ {0}
  <2>1. NextSubstride(n) \in 1 .. n
    BY <1>1, Substrides
  <2>2. QED
    BY <1>1, <2>1
<1>3. t \in 0 .. n - 1 /\ t \in Nat
  BY <1>1
<1>4. BlockEnd(n, t, c) = LesserOf(t + Own(n, t), c) /\ Own(n, t) \in 1 .. n
  BY <1>3, OwnStride DEF BlockEnd
<1>5. BlockEnd(n, t, c) \in t + 1 .. c
  BY <1>1, <1>3, <1>4 DEF LesserOf
<1>6. t = 0 => BlockEnd(n, t, c) = c
  BY <1>1, <1>4 DEF Own, LesserOf
<1>7. t # 0 /\ t % s # 0 => BlockEnd(n, t, c) = t + 1
  BY <1>1, <1>3, <1>4 DEF Own, LesserOf
<1>8. t # 0 /\ t % s = 0 => BlockEnd(n, t, c) = LesserOf(t + s, c)
  BY <1>4 DEF Own
<1>9. QED
  BY <1>1, <1>2, <1>3, <1>4, <1>5, <1>6, <1>7, <1>8

LEMMA FollowsBelow ==
    ASSUME NEW n, SmallSquad(n), NEW c \in 0 .. n, NEW t \in 1 .. c - 1
    PROVE  Follows(FromSubthreads(n, t, c), n, t, c)
<1>1. PICK s : s = NextSubstride(n)
  OBVIOUS
<1>2. /\ n \in Nat \ {0} /\ c \in Nat /\ s \in Nat \ {0} /\ t \in 0 .. n - 1 /\ t \in Nat
      /\ BlockEnd(n, t, c) \in t + 1 .. c
      /\ BlockEnd(n, t, c) = LesserOf(t + Own(n, t), c)
  <2>1. t \in 0 .. c - 1 /\ t \in Nat
    OBVIOUS
  <2>2. QED
    BY <1>1, <2>1, BlockEnds
<1>3. PICK e \in t + 1 .. c : e = BlockEnd(n, t, c)
  BY <1>2
<1>4. PICK first \in Nat : first = t + 1
  BY <1>2
<1>5. PICK from : from = FromSubthreads(n, t, c) /\ from = Steps(first, e, 1)
  BY <1>2, <1>3, <1>4, FromWalkOf DEF WalkBelow
<1>6. e \in Nat
  BY <1>2
<1>7. /\ from \in Seq(Nat)
      /\ Len(from) = IF first < e THEN e - first ELSE 0
      /\ \A k \in 1 .. Len(from) : from[k] = first + k - 1
  <2>1. /\ Len(Steps(first, e, 1)) = IF first < e THEN e - first ELSE 0
        /\ \A k \in 1 .. Len(Steps(first, e, 1)) : Steps(first, e, 1)[k] = first + k - 1
    BY <1>6, StepsOfOne
  <2>2. Steps(first, e, 1) \in Seq(Nat)
    BY <1>6, StepsType
  <2>3. QED
    BY <1>5, <2>1, <2>2
<1>8. ASSUME NEW j \in first .. e - 1
      PROVE  BlockEnd(n, j, c) = j + 1
  <2>1. t % s = 0 /\ e <= t + s
    BY <1>1, <1>2, <1>3, <1>4, <1>8 DEF Own, LesserOf
  <2>2. PICK b \in Nat : b = j - t /\ 0 < b /\ b < s
    BY <1>2, <1>4, <1>6, <2>1
  <2>3. j % s # 0
    <3>1. t \div s \in Nat /\ t = (t \div s) * s + (t % s)
      BY <1>2, DivMod
    <3>2. PICK a \in Nat : a = t \div s /\ t = a * s + 0
      BY <2>1, <3>1
    <3>3. (a * s + b) % s = b
      BY <1>2, <2>2, ModUnique
    <3>4. j = a * s + b
      BY <1>2, <1>4, <1>6, <2>2, <3>2
    <3>5. QED
      BY <2>2, <3>3, <3>4
  <2>4. j \in 0 .. c - 1 /\ j # 0
    BY <1>2, <1>3, <1>4
  <2>5. QED
    BY <1>1, <2>3, <2>4, BlockEnds
<1>9. CASE first < e
  <2>1. PICK m \in Nat : m = Len(from) /\ m = e - first /\ m > 0
    BY <1>4, <1>6, <1>7, <1>9
  <2>2. \A k \in 1 .. m : from[k] = first + k - 1 /\ first + k - 1 \in first .. e - 1
    BY <1>6, <1>7, <2>1
  <2>3. \A k \in 1 .. m : BlockEnd(n, from[k], c) = first + k
    <3>1. \A k \in 1 .. m : BlockEnd(n, from[k], c) = (first + k - 1) + 1
      BY <1>8, <2>2
    <3>2. QED
      BY <3>1
  <2>4. from # << >>
    <3>1. from = << >> => Len(from) = 0
      OBVIOUS
    <3>2. QED
      BY <2>1, <3>1
  <2>5. from[1] = first
    BY <2>1, <2>2
  <2>6. BlockEnd(n, from[m], c) = e
    BY <1>6, <2>1, <2>3
  <2>7. ASSUME NEW k \in 1 .. m - 1
        PROVE  from[k + 1] = BlockEnd(n, from[k], c)
    <3>1. k \in 1 .. m /\ k + 1 \in 1 .. m /\ k \in Nat
      BY <2>1
    <3>2. from[k + 1] = first + (k + 1) - 1
      BY <2>2, <3>1
    <3>3. QED
      BY <2>3, <3>1, <3>2
  <2>8. QED
    BY <1>3, <1>4, <1>5, <1>7, <2>1, <2>4, <2>5, <2>6, <2>7 DEF Follows
<1>10. CASE ~ (first < e)
  <2>1. Len(from) = 0 /\ e = t + 1
    BY <1>2, <1>4, <1>6, <1>7, <1>10
  <2>2. from = << >>
    BY <1>7, <2>1
  <2>3. QED
    BY <1>3, <1>5, <1>7, <2>1, <2>2 DEF Follows
<1>11. QED
  BY <1>9, <1>10

LEMMA FollowsFirst ==
    ASSUME NEW n, SmallSquad(n), NEW c \in 1 .. n
    PROVE  Follows(FromSubthreads(n, 0, c), n, 0, c)
<1>1. PICK s : s = NextSubstride(n)
  OBVIOUS
<1>2. n \in Nat \ {0} /\ c \in Nat \ {0} /\ s \in Nat \ {0} /\ BlockEnd(n, 0, c) = c
  <2>1. n \in Nat
    BY DEF SmallSquad
  <2>2. 0 \in 0 .. c - 1 /\ c \in 0 .. n /\ c \in Nat \ {0}
    BY <2>1
  <2>3. QED
    BY <1>1, <2>2, BlockEnds
<1>3. PICK less \in Nat \ {0} : /\ less = LesserOf(s, c)
                                /\ c <= s => less = c
                                /\ s < c => less = s
  BY <1>2 DEF LesserOf
<1>4. PICK p \in Seq(Nat), q \in Seq(Nat) : p = Steps(1, less, 1) /\ q = Steps(s, c, s)
  <2>1. Steps(1, less, 1) \in Seq(Nat)
    BY StepsType
  <2>2. Steps(s, c, s) \in Seq(Nat)
    BY <1>2, StepsType
  <2>3. QED
    BY <2>1, <2>2
<1>5. PICK l \in Nat, m \in Nat : l = Len(p) /\ m = Len(q)
  OBVIOUS
<1>6. l = less - 1 /\ \A k \in 1 .. l : p[k] = k
  <2>1. /\ Len(Steps(1, less, 1)) = IF 1 < less THEN less - 1 ELSE 0
        /\ \A k \in 1 .. Len(Steps(1, less, 1)) : Steps(1, less, 1)[k] = 1 + k - 1
    BY StepsOfOne
  <2>2. /\ l = IF 1 < less THEN less - 1 ELSE 0
        /\ \A k \in 1 .. l : p[k] = 1 + k - 1
    BY <1>4, <1>5, <2>1
  <2>3. QED
    BY <2>2
<1>7. /\ \A i \in 1 .. m : q[i] = s + (i - 1) * s /\ q[i] \in s .. c - 1
      /\ s < c => c <= s + m * s
      /\ c <= s => m = 0
  <2>1. IsSteps(q, s, c, s)
    BY <1>2, <1>4, StepsAre
  <2>2. QED
    BY <1>5, <2>1 DEF IsSteps
<1>8. s < c => m > 0
  <2>1. CASE m = 0
    <3>1. m * s = 0
      BY <1>2, <2>1
    <3>2. QED
      BY <1>2, <1>7, <3>1
  <2>2. QED
    BY <2>1
<1>9. PICK from : from = FromSubthreads(n, 0, c) /\ from = p \o q
  <2>1. 0 \in 0 .. n - 1 /\ c \in 0 .. n
    BY <1>2
  <2>2. QED
    BY <1>1, <1>3, <1>4, <2>1, FromWalkOf DEF FromWalk0
<1>10. /\ from \in Seq(Nat) /\ Len(from) = l + m
       /\ \A k \in 1 .. l + m : from[k] = IF k <= l THEN p[k] ELSE q[k - l]
  <2>1. /\ p \o q \in Seq(Nat) /\ Len(p \o q) = Len(p) + Len(q)
        /\ \A k \in 1 .. Len(p) + Len(q) :
              (p \o q)[k] = IF k <= Len(p) THEN p[k] ELSE q[k - Len(p)]
    BY ConcatProperties
  <2>2. QED
    BY <1>5, <1>9, <2>1
<1>11. \A k \in 1 .. l : from[k] = k
  BY SMTT(20), <1>6, <1>10
<1>12. ASSUME NEW i \in 1 .. m
       PROVE  from[l + i] = q[i]
  <2>1. l + i \in 1 .. l + m /\ ~ (l + i <= l) /\ (l + i) - l = i
    OBVIOUS
  <2>2. QED
    BY <1>10, <2>1
\* Where the blocks of the two parts end
<1>13. ASSUME NEW k \in 1 .. l
       PROVE  BlockEnd(n, k, c) = k + 1
  <2>1. k \in Nat /\ 0 < k /\ k < s /\ k < c
    BY <1>2, <1>3, <1>6
  <2>2. k % s # 0
    BY <1>2, <2>1, MultiplesOf
  <2>3. k \in 0 .. c - 1 /\ c \in 0 .. n
    BY <1>2, <2>1
  <2>4. QED
    BY <1>1, <2>1, <2>2, <2>3, BlockEnds
<1>14. ASSUME NEW i \in 1 .. m
       PROVE  BlockEnd(n, q[i], c) = LesserOf(s + i * s, c)
  <2>1. PICK h \in Nat : h = i - 1 /\ i = h + 1
    OBVIOUS
  <2>2. PICK j \in s .. c - 1 : j = q[i] /\ j = s + h * s
    BY <1>7, <2>1
  <2>3. j \in Nat /\ j \in 0 .. c - 1 /\ c \in 0 .. n /\ j # 0
    BY <1>2
  <2>4. j % s = 0
    BY <1>2, <2>2, <2>3, MultiplesOf
  <2>5. BlockEnd(n, j, c) = LesserOf(j + s, c)
    BY <1>1, <2>3, <2>4, BlockEnds
  <2>6. (h + 1) * s = h * s + s
    BY <1>2
  <2>7. j + s = s + i * s
    BY <1>2, <2>1, <2>2, <2>6
  <2>8. QED
    BY <2>2, <2>5, <2>7
<1>15. from = << >> => c = 1
  <2>1. from = << >> => l + m = 0
    BY <1>10
  <2>2. l + m = 0 => c = 1
    BY <1>2, <1>3, <1>6, <1>8
  <2>3. QED
    BY <2>1, <2>2
<1>16. ASSUME from # << >>
       PROVE  from[1] = 1
  <2>1. CASE l > 0
    BY <1>11, <2>1
  <2>2. CASE l = 0
    <3>1. m # 0
      BY <1>10, <1>16, <2>2
    <3>2. s = 1 /\ 1 \in 1 .. m
      BY <1>2, <1>3, <1>6, <1>7, <2>2, <3>1
    <3>3. from[0 + 1] = q[1]
      BY <1>12, <2>2, <3>2
    <3>4. q[1] = s + (1 - 1) * s
      BY <1>7, <3>2
    <3>5. QED
      BY <3>2, <3>3, <3>4
  <2>3. QED
    BY <2>1, <2>2
<1>17. ASSUME from # << >>
       PROVE  BlockEnd(n, from[Len(from)], c) = c
  <2>1. CASE m = 0
    <3>1. l # 0 /\ l = c - 1
      BY <1>2, <1>3, <1>6, <1>8, <1>10, <1>17, <2>1
    <3>2. from[l] = l /\ BlockEnd(n, l, c) = l + 1
      BY <1>11, <1>13, <3>1
    <3>3. QED
      BY <1>10, <2>1, <3>1, <3>2
  <2>2. CASE m # 0
    <3>1. m \in 1 .. m
      BY <2>2
    <3>2. from[l + m] = q[m] /\ BlockEnd(n, q[m], c) = LesserOf(s + m * s, c)
      BY <1>12, <1>14, <3>1
    <3>3. PICK o \in Int : o = m * s
      BY <1>2
    <3>4. LesserOf(s + m * s, c) = c
      BY <1>2, <1>7, <2>2, <3>3 DEF LesserOf
    <3>5. QED
      BY <1>10, <3>2, <3>4
  <2>3. QED
    BY <2>1, <2>2
<1>18. ASSUME NEW k \in 1 .. l + m - 1
       PROVE  from[k + 1] = BlockEnd(n, from[k], c)
  <2>1. CASE k < l
    <3>1. k \in 1 .. l /\ k + 1 \in 1 .. l
      BY <2>1
    <3>2. QED
      BY <1>11, <1>13, <3>1
  <2>2. CASE k = l
    <3>1. m # 0 /\ l \in 1 .. l /\ 1 \in 1 .. m
      BY <2>2
    <3>2. less = s
      BY <1>2, <1>3, <1>7, <3>1
    <3>3. from[l] = l /\ BlockEnd(n, l, c) = l + 1
      BY <1>11, <1>13, <3>1
    <3>4. from[l + 1] = q[1] /\ q[1] = s + (1 - 1) * s
      BY <1>7, <1>12, <3>1
    <3>5. q[1] = s
      BY <1>2, <3>4
    <3>6. QED
      BY <1>6, <2>2, <3>2, <3>3, <3>4, <3>5
  <2>3. CASE k > l
    <3>1. PICK i \in 1 .. m - 1 : k = l + i
      <4>1. k - l \in 1 .. m - 1 /\ k = l + (k - l)
        BY <2>3
      <4>2. QED
        BY <4>1
    <3>2. i \in 1 .. m /\ i + 1 \in 1 .. m /\ (i + 1) - 1 = i /\ k + 1 = l + (i + 1)
      BY <3>1
    <3>3. from[k] = q[i] /\ from[k + 1] = q[i + 1]
      BY <1>12, <3>1, <3>2
    <3>4. q[i + 1] = s + i * s /\ q[i + 1] < c
      <4>1. q[i + 1] = s + ((i + 1) - 1) * s /\ q[i + 1] \in s .. c - 1
        BY <1>7, <3>2
      <4>2. QED
        BY <1>2, <3>2, <4>1
    <3>5. BlockEnd(n, q[i], c) = LesserOf(s + i * s, c)
      BY <1>14, <3>2
    <3>6. LesserOf(s + i * s, c) = s + i * s
      <4>1. PICK o \in Int : o = s + i * s
        BY <1>2, <3>2
      <4>2. QED
        BY <1>2, <3>4, <4>1 DEF LesserOf
    <3>7. QED
      BY <3>3, <3>4, <3>5, <3>6
  <2>4. QED
    BY <2>1, <2>2, <2>3
<1>19. QED
  BY <1>2, <1>9, <1>10, <1>15, <1>16, <1>17, <1>18 DEF Follows

LEMMA MergeOrder ==
    ASSUME NEW n, SmallSquad(n), NEW c \in 0 .. n
    PROVE  BlocksInOrder(n, c)
<1>1. c \in Nat /\ n \in Nat
  BY DEF SmallSquad
<1>2. c > 0 => BlockEnd(n, 0, c) = c
  <2>1. c > 0 => 0 \in 0 .. c - 1
    BY <1>1
  <2>2. QED
    BY <2>1, BlockEnds
<1>3. ASSUME NEW t \in 0 .. c - 1
      PROVE  BlockEnd(n, t, c) \in t + 1 .. c
  BY BlockEnds
<1>4. ASSUME NEW t \in 0 .. c - 1
      PROVE  t \in Nat /\ Follows(FromSubthreads(n, t, c), n, t, c)
  <2>1. CASE t = 0
    <3>1. c \in 1 .. n
      BY <1>1
    <3>2. QED
      BY <2>1, <3>1, FollowsFirst
  <2>2. CASE t # 0
    <3>1. t \in 1 .. c - 1
      BY <1>1, <2>2
    <3>2. QED
      BY <3>1, FollowsBelow
  <2>3. QED
    BY <2>1, <2>2
<1>5. ASSUME NEW t \in 0 .. c - 1
      PROVE  LET from == FromSubthreads(n, t, c)
             IN  /\ \A k \in 1 .. Len(from) : from[k] = Bounds(from, n, t, c)[k]
                 /\ Bounds(from, n, t, c)[Len(Bounds(from, n, t, c))]
                      = BlockEnd(n, t, c)
  BY <1>4, FollowsBounds
<1>6. QED
  BY <1>2, <1>3, <1>5 DEF BlocksInOrder, Bounds

(* "Wait sequence" in the diagram above run(): in any squad of at most       *)
(* TreeBreadth * TreeBreadth threads, 64 in the code, the walks visit every  *)
(* subordinate below the concurrency once, every thread but the first has    *)
(* one superordinate, and results are merged in the order of the threads.    *)
(* What the proofs about the squad assume of its layout holds for these.     *)
THEOREM SmallSquadLayout ==
    ASSUME NEW n, SmallSquad(n)
    PROVE  /\ \A c \in 0 .. n : WalksAgree(n, c) /\ BlocksInOrder(n, c)
           /\ UniqueSuperordinate(n)
BY WalksAgreeOn, MergeOrder, SuperordinateUnique

\* All squads that can come about are small.
SmallSquadsOnly ==
    /\ \A p \in Params : p.num_threads <= TreeBreadth * TreeBreadth
    /\ \A h \in HardwareCounts : h <= TreeBreadth * TreeBreadth

\* They stay small, and no task is asked for with more threads than there are.
SetupSmall ==
    /\ {given.num_threads, hardware, numThreads} \subseteq 0 .. TreeBreadth * TreeBreadth
    /\ stage \in {"create", "pin"} => concurrency = 0
    /\ stage = "fork" => numThreads > 0
    /\ concurrency \in 0 .. numThreads

LEMMA SquadsStaySmall ==
    ASSUME SmallSquadsOnly
    PROVE  SetupSpec => []SetupSmall
<1>1. PICK B \in Nat : B = TreeBreadth * TreeBreadth
  <2>1. TreeBreadth \in Nat
    BY TreeBreadthAssumption
  <2>2. QED
    BY <2>1
<1>2. SetupInit => SetupSmall
  <2>1. SUFFICES ASSUME SetupInit
                 PROVE  SetupSmall
    OBVIOUS
  <2>2. /\ given \in Params /\ given \in ParamRecords /\ params = given
        /\ hardware \in HardwareCounts /\ hardware \in Nat
        /\ stage = "create" /\ concurrency = 0
    BY <2>1, ParamsAssumption, HardwareAssumption DEF SetupInit
  <2>3. /\ given.num_threads \in Nat /\ given.num_threads <= B /\ hardware <= B
        /\ numThreads = given.num_threads
    BY <1>1, <2>2 DEF SmallSquadsOnly, ParamRecords, numThreads
  <2>4. QED
    BY <1>1, <2>2, <2>3 DEF SetupSmall
<1>3. ASSUME SetupInv, SetupSmall, [SetupNext]_setupVars
      PROVE  SetupSmall'
  <2>1. SetupTypeOK
    BY <1>3 DEF SetupInv
  <2>2. CASE Create
    <3>1. /\ given' = given /\ hardware' = hardware /\ concurrency' = concurrency
          /\ stage' = "pin" /\ concurrency = 0
          /\ numThreads' \in {numThreads, hardware}
      BY <1>3, <2>1, <2>2 DEF Create, numThreads, SetupTypeOK, ParamRecords, SetupSmall
    <3>2. QED
      BY <1>1, <1>3, <3>1 DEF SetupSmall
  <2>3. CASE Pin
    BY <1>3, <2>3 DEF Pin, SetupSmall, numThreads
  <2>4. CASE LayOut
    BY <1>3, <2>4 DEF LayOut, SetupSmall, numThreads
  <2>5. CASE Fork
    BY <1>3, <2>5 DEF Fork, SetupSmall, numThreads
  <2>6. CASE Fail
    BY <1>3, <2>6 DEF Fail, SetupSmall, numThreads
  <2>7. CASE NextConcurrency
    <3>1. /\ given' = given /\ hardware' = hardware /\ numThreads' = numThreads
          /\ stage' = "fork" /\ stage = "fork"
          /\ concurrency' = concurrency + 1 /\ concurrency < numThreads
      BY <2>7 DEF NextConcurrency, numThreads
    <3>2. concurrency \in Nat /\ numThreads \in Nat
      BY <1>1, <1>3 DEF SetupSmall
    <3>3. QED
      BY <1>3, <3>1, <3>2 DEF SetupSmall
  <2>8. CASE UNCHANGED setupVars
    BY <1>3, <2>8 DEF setupVars, SetupSmall, numThreads
  <2>9. QED
    BY <1>3, <2>2, <2>3, <2>4, <2>5, <2>6, <2>7, <2>8 DEF SetupNext, Ended
<1>4. QED
  BY <1>2, <1>3, SetupInductive, PTL DEF SetupSpec

\* A squad that is set up is one that SmallSquadLayout is about.
LEMMA SetUpSquad ==
    ASSUME SetupInv, SetupSmall, SetUp
    PROVE  SmallSquad(numThreads) /\ concurrency \in 0 .. numThreads
<1>1. TreeBreadth * TreeBreadth \in Nat
  <2>1. TreeBreadth \in Nat
    BY TreeBreadthAssumption
  <2>2. QED
    BY <2>1
<1>2. QED
  BY <1>1 DEF SetupSmall, SetUp, SmallSquad

(* Whatever the parameters, both walks of every thread visit exactly its     *)
(* subordinates below the concurrency, once each.                            *)
THEOREM WalksOfSquads ==
    ASSUME SmallSquadsOnly
    PROVE  SetupSpec => []SameThreadsBothWays
<1>1. SetupInv /\ SetupSmall => SameThreadsBothWays
  BY SetUpSquad, SmallSquadLayout DEF SameThreadsBothWays
<1>2. QED
  BY <1>1, SetupInductive, SquadsStaySmall, PTL

(* Every thread but the first is awaited by exactly one other thread.        *)
THEOREM SuperordinatesOfSquads ==
    ASSUME SmallSquadsOnly
    PROVE  SetupSpec => []OneSuperordinate
<1>1. SetupInv /\ SetupSmall => OneSuperordinate
  BY SetUpSquad, SmallSquadLayout DEF OneSuperordinate
<1>2. QED
  BY <1>1, SetupInductive, SquadsStaySmall, PTL

(* The results of subordinates are merged in the order of thread indices.    *)
THEOREM MergesOfSquads ==
    ASSUME SmallSquadsOnly
    PROVE  SetupSpec => []MergedInOrder
<1>1. SetupInv /\ SetupSmall => MergedInOrder
  BY SetUpSquad, SmallSquadLayout DEF MergedInOrder
<1>2. QED
  BY <1>1, SetupInductive, SquadsStaySmall, PTL

=============================================================================
