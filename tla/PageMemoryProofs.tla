--------------------------- MODULE PageMemoryProofs ---------------------------
(*****************************************************************************)
(* Proofs about the hardware sizes and the allocation of pages, for any      *)
(* number of threads, blocks and calls, any sizes and any machine.           *)
(*****************************************************************************)
EXTENDS PageMemory, CheckedArithmeticProofs, FiniteSetTheorems

-----------------------------------------------------------------------------
(* The hardware sizes                                                        *)

LEMMA ChainFacts ==
    /\ Len(Chain) = 3 /\ DOMAIN Chain = 1 .. 3
    /\ Chain[1] = "large" /\ Chain[2] = "page" /\ Chain[3] = "line"
    /\ Position("large") = 1 /\ Position("page") = 2 /\ Position("line") = 3
    /\ Asked = {"large", "page", "line"}
<1>1. /\ Len(Chain) = 3 /\ DOMAIN Chain = 1 .. 3
      /\ Chain[1] = "large" /\ Chain[2] = "page" /\ Chain[3] = "line"
  BY DEF Chain
<1>2. ASSUME NEW i \in 1 .. 3, NEW j \in 1 .. 3, Chain[i] = Chain[j]
      PROVE  i = j
  BY <1>1, <1>2
<1>3. ASSUME NEW i \in 1 .. 3
      PROVE  Position(Chain[i]) = i
  <2>1. \E j \in DOMAIN Chain : Chain[j] = Chain[i]
    BY <1>1
  <2>2. Position(Chain[i]) \in DOMAIN Chain /\ Chain[Position(Chain[i])] = Chain[i]
    BY <2>1 DEF Position
  <2>3. QED
    BY <1>1, <1>2, <2>2
<1>4. QED
  BY <1>1, <1>3 DEF Asked

\* What the machine reports is a size, and not the mark of one that is not known.
LEMMA MachineFacts ==
    ASSUME SizesTypeOK
    PROVE  /\ \A s \in Asked : machine[s] \in Sizes /\ machine[s] # Unknown
           /\ machine["page"] # 0 /\ machine["line"] # 0
<1>1. /\ machine.large \in Sizes
      /\ machine.page \in Sizes \ {0} /\ machine.line \in Sizes \ {0}
  BY MachinesAssumption DEF SizesTypeOK
<1>2. QED
  BY <1>1, UnknownAssumption DEF Asked

\* Where a query that goes on is.
LEMMA AskingAt ==
    ASSUME SizesInv, NEW t \in Threads, Asking(t)
    PROVE  /\ asked[t] \in Asked /\ asked[t] # "none"
           /\ at[t] \in 1 .. 3 /\ Chain[at[t]] \in Asked
           /\ Position(asked[t]) \in 1 .. 3 /\ Position(asked[t]) <= at[t]
           /\ QueryAt(t)
<1>1. /\ asked[t] \in Asked \cup {"none"} /\ at[t] \in 0 .. 3
      /\ asked[t] # "none" /\ at[t] >= Position(asked[t])
  BY DEF SizesInv, SizesTypeOK, Asking
<1>2. Position(asked[t]) \in 1 .. 3
  BY <1>1, ChainFacts
<1>3. at[t] \in 1 .. 3
  BY <1>1, <1>2
<1>4. Chain[at[t]] \in Asked
  BY <1>3, ChainFacts
<1>5. QED
  BY <1>1, <1>2, <1>3, <1>4 DEF SizesInv, QueryInv

\* The query of another thread is not disturbed by sizes becoming known.
LEMMA OthersQuery ==
    ASSUME SizesInv, NEW u \in Threads, machine' = machine,
           \A s \in Asked : known[s] # Unknown => known'[s] # Unknown,
           asked'[u] = asked[u], at'[u] = at[u], rising'[u] = rising[u],
           size'[u] = size[u], asked[u] # "none"
    PROVE  QueryAt(u)'
<1>1. QueryAt(u) /\ at[u] \in 0 .. 3
  BY DEF SizesInv, QueryInv, SizesTypeOK
<1>2. ASSUME rising[u], at[u] < 3
      PROVE  known'[Chain[at[u] + 1]] # Unknown /\ size[u] = machine[Chain[at[u] + 1]]
  <2>1. at[u] + 1 \in 1 .. 3
    BY <1>1, <1>2
  <2>2. Chain[at[u] + 1] \in Asked
    BY <2>1, ChainFacts
  <2>3. QED
    BY <1>1, <1>2, <2>2, ChainFacts DEF QueryAt
<1>3. Len(Chain) = 3
  BY ChainFacts
<1>4. QED
  BY <1>1, <1>2, <1>3 DEF QueryAt

\* What a store adds to what is known.
LEMMA StoreKnown ==
    ASSUME SizesInv, NEW t \in Threads, Store(t)
    PROVE  KnownFromBelow'
<1>1. /\ at[t] \in 1 .. 3 /\ rising[t] /\ QueryAt(t)
  BY AskingAt DEF Store
<1>2. /\ machine' = machine /\ Consistent(t)
      /\ known' = [known EXCEPT ![Chain[at[t]]] = machine[Chain[at[t]]]]
      /\ known \in [Asked -> Sizes \cup {Unknown}]
  BY DEF Store, SizesInv, SizesTypeOK
<1>3. KnownFromBelow
  BY DEF SizesInv
<1>4. CASE at[t] = 1
  <2>1. size[t] = machine["page"] /\ known["page"] # Unknown
    BY <1>1, <1>4, ChainFacts DEF QueryAt
  <2>2. machine["large"] % machine["page"] = 0
    BY <1>2, <1>4, <2>1, ChainFacts DEF Consistent
  <2>3. known' = [known EXCEPT !["large"] = machine["large"]]
    BY <1>2, <1>4, ChainFacts
  <2>4. /\ known'["large"] = machine["large"]
        /\ known'["page"] = known["page"] /\ known'["line"] = known["line"]
    BY <1>2, <2>3, ChainFacts
  <2>5. QED
    BY <1>2, <1>3, <2>1, <2>2, <2>4 DEF KnownFromBelow
<1>5. CASE at[t] = 2
  <2>1. size[t] = machine["line"] /\ known["line"] # Unknown
    BY <1>1, <1>5, ChainFacts DEF QueryAt
  <2>2. machine["page"] % machine["line"] = 0
    BY <1>2, <1>5, <2>1, ChainFacts DEF Consistent
  <2>3. known' = [known EXCEPT !["page"] = machine["page"]]
    BY <1>2, <1>5, ChainFacts
  <2>4. /\ known'["page"] = machine["page"]
        /\ known'["large"] = known["large"] /\ known'["line"] = known["line"]
    BY <1>2, <2>3, ChainFacts
  <2>5. machine["page"] # Unknown
    BY MachineFacts DEF SizesInv, Asked
  <2>6. QED
    BY <1>2, <1>3, <2>1, <2>2, <2>4, <2>5 DEF KnownFromBelow
<1>6. CASE at[t] = 3
  <2>1. known' = [known EXCEPT !["line"] = machine["line"]]
    BY <1>2, <1>6, ChainFacts
  <2>2. /\ known'["line"] = machine["line"]
        /\ known'["large"] = known["large"] /\ known'["page"] = known["page"]
    BY <1>2, <2>1, ChainFacts
  <2>3. machine["line"] # Unknown
    BY MachineFacts DEF SizesInv, Asked
  <2>4. QED
    BY <1>2, <1>3, <2>2, <2>3 DEF KnownFromBelow
<1>7. QED
  BY <1>1, <1>4, <1>5, <1>6

\* The sizes stay what they should be, whichever step a query takes; what has become
\* known stays so, and an answer stands.
LEMMA SizeStepKeeps ==
    ASSUME SizesInv, NEW t \in Threads, SizeStep(t)
    PROVE  /\ SizesInv' /\ machine' = machine /\ asked' = asked
           /\ \A s \in Asked : known[s] # Unknown => known'[s] # Unknown
           /\ \A u \in Threads, s \in Asked :
                 Answered(u, s) => at'[u] = at[u] /\ size'[u] = size[u]
<1> DEFINE here == Chain[at[t]]
<1>1. /\ Asking(t) /\ machine' = machine /\ asked' = asked
      /\ asked[t] \in Asked /\ asked[t] # "none"
      /\ at[t] \in 1 .. 3 /\ here \in Asked
      /\ Position(asked[t]) \in 1 .. 3 /\ Position(asked[t]) <= at[t] /\ QueryAt(t)
  <2>1. Asking(t) /\ machine' = machine /\ asked' = asked
    BY DEF SizeStep, LoadKnown, LoadUnknown, Store, RefuseMachine, InitThrows, sizeVars
  <2>2. QED
    BY <2>1, AskingAt
<1>2. /\ SizesTypeOK /\ machine[here] \in Sizes /\ machine[here] # Unknown
  BY <1>1, MachineFacts DEF SizesInv
<1>3. /\ known \in [Asked -> Sizes \cup {Unknown}] /\ at \in [Threads -> 0 .. 3]
      /\ rising \in [Threads -> BOOLEAN] /\ size \in [Threads -> Sizes]
  BY <1>2 DEF SizesTypeOK
<1> HIDE DEF here
\* Each step that changes something: what is known, and where the query is then
<1>4. \/ /\ known' = known \/ known' = [known EXCEPT ![here] = machine[here]]
         /\ at' = [at EXCEPT ![t] = at[t] - 1]
         /\ \E n \in Sizes : size' = [size EXCEPT ![t] = n]
         /\ rising' = [rising EXCEPT ![t] = TRUE]
         /\ size'[t] = machine[here] /\ known'[here] # Unknown
      \/ /\ known' = known /\ at' = at /\ size' = size /\ here = "line"
         /\ rising' = [rising EXCEPT ![t] = TRUE]
      \/ /\ known' = known /\ at' = [at EXCEPT ![t] = at[t] + 1] /\ size' = size
         /\ rising' = rising /\ here # "line" /\ ~rising[t]
      \/ UNCHANGED sizeVars
  <2>1. CASE LoadKnown(t)
    <3>1. known[here] # Unknown /\ known' = known /\ size'[t] = known[here]
          /\ size' = [size EXCEPT ![t] = known[here]]
      BY <1>3, <2>1 DEF LoadKnown, here
    <3>2. known[here] = machine[here]
      <4>1. KnownFromBelow
        BY DEF SizesInv
      <4>2. QED
        BY <1>1, <3>1, <4>1, ChainFacts DEF KnownFromBelow
    <3>3. QED
      BY <1>2, <2>1, <3>1, <3>2 DEF LoadKnown
  <2>2. CASE LoadUnknown(t)
    BY <2>2 DEF LoadUnknown, here
  <2>3. CASE Store(t)
    <3>1. /\ known' = [known EXCEPT ![here] = machine[here]]
          /\ size' = [size EXCEPT ![t] = machine[here]] /\ rising[t]
      BY <2>3 DEF Store, here
    <3>2. known'[here] = machine[here] /\ size'[t] = machine[here]
      BY <1>1, <1>3, <3>1
    <3>3. rising' = [rising EXCEPT ![t] = TRUE]
      <4>1. rising' = rising
        BY <2>3 DEF Store
      <4>2. QED
        BY <1>3, <3>1, <4>1
    <3>4. QED
      BY <1>2, <2>3, <3>1, <3>2, <3>3 DEF Store
  <2>4. CASE RefuseMachine(t) \/ InitThrows(t)
    BY <2>4 DEF RefuseMachine, InitThrows
  <2>5. QED
    BY <2>1, <2>2, <2>3, <2>4 DEF SizeStep
<1>5. /\ known' = known \/ known' = [known EXCEPT ![here] = machine[here]]
      /\ \A s \in Asked : known[s] # Unknown => known'[s] # Unknown
  <2>1. known' = known \/ known' = [known EXCEPT ![here] = machine[here]]
    BY <1>4 DEF sizeVars
  <2>2. QED
    BY <1>2, <1>3, <2>1
<1>6. at[t] = 3 <=> here = "line"
  BY <1>1, ChainFacts DEF here
<1>7. SizesTypeOK'
  <2>1. known' \in [Asked -> Sizes \cup {Unknown}]
    BY <1>2, <1>3, <1>5
  <2>2. at' \in [Threads -> 0 .. 3]
    BY <1>1, <1>3, <1>4, <1>6 DEF sizeVars
  <2>3. rising' \in [Threads -> BOOLEAN] /\ size' \in [Threads -> Sizes]
    <3>1. rising' = rising \/ rising' = [rising EXCEPT ![t] = TRUE]
      BY <1>4 DEF sizeVars
    <3>2. size' = size \/ \E n \in Sizes : size' = [size EXCEPT ![t] = n]
      BY <1>4 DEF sizeVars
    <3>3. rising' \in [Threads -> BOOLEAN]
      BY <1>3, <3>1
    <3>4. size' \in [Threads -> Sizes]
      BY <1>3, <3>2
    <3>5. QED
      BY <3>3, <3>4
  <2>4. machine' \in Machines /\ asked' \in [Threads -> Asked \cup {"none"}]
    <3>1. machine \in Machines /\ asked \in [Threads -> Asked \cup {"none"}]
      BY <1>2 DEF SizesTypeOK
    <3>2. QED
      BY <1>1, <3>1
  <2>5. QED
    BY <2>1, <2>2, <2>3, <2>4 DEF SizesTypeOK
<1>8. KnownFromBelow'
  <2>1. CASE Store(t)
    BY <2>1, StoreKnown
  <2>2. CASE ~Store(t)
    <3>1. known' = known
      BY <2>2 DEF SizeStep, LoadKnown, LoadUnknown, RefuseMachine, InitThrows, sizeVars
    <3>2. QED
      BY <1>1, <3>1 DEF SizesInv, KnownFromBelow
  <2>3. QED
    BY <2>1, <2>2
<1>9. \A u \in Threads \ {t} : at'[u] = at[u] /\ rising'[u] = rising[u] /\ size'[u] = size[u]
  BY <1>3, <1>4 DEF sizeVars
<1>10. QueryAt(t)'
  <2>1. QueryAt(t)
    BY <1>1
  <2>2. CASE /\ at' = [at EXCEPT ![t] = at[t] - 1] /\ rising' = [rising EXCEPT ![t] = TRUE]
             /\ size'[t] = machine[here] /\ known'[here] # Unknown
    <3>1. at'[t] = at[t] - 1 /\ rising'[t]
      BY <1>3, <2>2
    <3>2. at'[t] + 1 = at[t]
      BY <1>1, <3>1
    <3>3. Chain[at'[t] + 1] = here
      BY <3>2 DEF here
    <3>4. at'[t] >= Position(asked[t]) - 1
      BY <1>1, <3>1
    <3>5. QED
      BY <1>1, <2>2, <3>1, <3>3, <3>4 DEF QueryAt
  <2>3. CASE at' = at /\ here = "line" /\ rising' = [rising EXCEPT ![t] = TRUE]
    <3>1. at'[t] = 3 /\ rising'[t] /\ Len(Chain) = 3
      BY <1>3, <1>6, <2>3, ChainFacts
    <3>2. QED
      BY <1>1, <3>1 DEF QueryAt
  <2>4. CASE at' = [at EXCEPT ![t] = at[t] + 1] /\ rising' = rising /\ ~rising[t]
    <3>1. at'[t] = at[t] + 1 /\ ~rising'[t]
      BY <1>3, <2>4
    <3>2. QED
      BY <1>1, <3>1 DEF QueryAt
  <2>5. CASE UNCHANGED sizeVars
    BY <2>1, <2>5 DEF QueryAt, sizeVars
  <2>6. QED
    BY <1>4, <2>2, <2>3, <2>4, <2>5
<1>11. QueryInv'
  <2>1. ASSUME NEW u \in Threads, asked'[u] # "none"
        PROVE  QueryAt(u)'
    <3>1. CASE u = t
      BY <1>10, <3>1
    <3>2. CASE u # t
      BY <1>1, <1>5, <1>9, <2>1, <3>2, OthersQuery
    <3>3. QED
      BY <3>1, <3>2
  <2>2. QED
    BY <2>1 DEF QueryInv
<1>12. ASSUME NEW u \in Threads, NEW s \in Asked, Answered(u, s)
       PROVE  at'[u] = at[u] /\ size'[u] = size[u]
  <2>1. u # t
    BY <1>1, <1>12, ChainFacts DEF Answered
  <2>2. QED
    BY <1>9, <2>1
<1>13. QED
  BY <1>1, <1>5, <1>7, <1>8, <1>11, <1>12 DEF SizesInv

\* A call asks for a size ...
LEMMA AskKeeps ==
    ASSUME SizesInv, NEW t \in Threads, NEW s \in Asked, Ask(t, s)
    PROVE  SizesInv'
<1>1. SizesTypeOK /\ KnownFromBelow /\ QueryInv
  BY DEF SizesInv
<1>2. Position(s) \in 1 .. 3
  BY ChainFacts
<1>3. SizesTypeOK'
  BY <1>1, <1>2 DEF SizesTypeOK, Ask
<1>4. KnownFromBelow'
  BY <1>1 DEF KnownFromBelow, Ask
<1>5. ASSUME NEW u \in Threads, asked'[u] # "none"
      PROVE  QueryAt(u)'
  <2>1. CASE u = t
    <3>1. asked'[t] = s /\ at'[t] = Position(s) /\ ~rising'[t]
      BY <1>1 DEF Ask, SizesTypeOK
    <3>2. QED
      BY <1>2, <2>1, <3>1 DEF QueryAt
  <2>2. CASE u # t
    <3>1. asked'[u] = asked[u] /\ at'[u] = at[u] /\ rising'[u] = rising[u] /\ size'[u] = size[u]
      BY <1>1, <2>2 DEF Ask, SizesTypeOK
    <3>2. QED
      BY <1>5, <3>1, OthersQuery DEF Ask
  <2>3. QED
    BY <2>1, <2>2
<1>6. QED
  BY <1>3, <1>4, <1>5 DEF SizesInv, QueryInv

\* ... and forgets it.
LEMMA ForgetKeeps ==
    ASSUME SizesInv, NEW t \in Threads, ForgetSize(t)
    PROVE  /\ SizesInv' /\ UNCHANGED <<machine, known>> /\ asked'[t] = "none"
           /\ \A u \in Threads \ {t} : /\ asked'[u] = asked[u] /\ at'[u] = at[u]
                                       /\ size'[u] = size[u]
<1>1. SizesTypeOK /\ KnownFromBelow /\ QueryInv
  BY DEF SizesInv
<1>2. SizesTypeOK'
  <2>1. 0 \in Sizes
    BY MaxSizeAssumption DEF Sizes
  <2>2. QED
    BY <1>1, <2>1 DEF SizesTypeOK, ForgetSize
<1>3. KnownFromBelow'
  BY <1>1 DEF KnownFromBelow, ForgetSize
<1>4. asked'[t] = "none"
  BY <1>1 DEF ForgetSize, SizesTypeOK
<1>5. \A u \in Threads \ {t} : /\ asked'[u] = asked[u] /\ at'[u] = at[u]
                               /\ size'[u] = size[u] /\ rising'[u] = rising[u]
  BY <1>1 DEF ForgetSize, SizesTypeOK
<1>6. ASSUME NEW u \in Threads, asked'[u] # "none"
      PROVE  QueryAt(u)'
  BY <1>4, <1>5, <1>6, OthersQuery DEF ForgetSize
<1>7. QED
  BY <1>2, <1>3, <1>4, <1>5, <1>6 DEF SizesInv, QueryInv, ForgetSize

\* The answer is the size of the machine, which is known and which the size of a page
\* divides.
LEMMA AnswerFacts ==
    ASSUME SizesInv, NEW t \in Threads, NEW kind \in Kinds, Answered(t, kind)
    PROVE  /\ size[t] = machine[kind] /\ known[kind] # Unknown
           /\ machine[kind] \in Sizes
<1>1. /\ asked[t] = kind /\ kind \in Asked /\ kind # "none"
      /\ at[t] < Position(kind) /\ at[t] \in 0 .. 3 /\ QueryAt(t)
  BY DEF Answered, Kinds, Asked, SizesInv, QueryInv, SizesTypeOK
<1>2. rising \in [Threads -> BOOLEAN] /\ Position(kind) \in 1 .. 2
  BY ChainFacts DEF SizesInv, SizesTypeOK, Kinds
<1>3. rising[t] /\ at[t] = Position(kind) - 1
  BY <1>1, <1>2 DEF QueryAt
<1>4. at[t] + 1 = Position(kind) /\ Chain[Position(kind)] = kind /\ at[t] < Len(Chain)
  BY <1>2, <1>3, ChainFacts DEF Kinds
<1>5. size[t] = machine[kind] /\ known[kind] # Unknown
  BY <1>1, <1>3, <1>4 DEF QueryAt
<1>6. QED
  BY <1>1, <1>5, MachineFacts DEF SizesInv

\* Known sizes divide each other.
LEMMA KnownFacts ==
    ASSUME SizesInv, NEW kind \in Kinds, known[kind] # Unknown
    PROVE  /\ machine[kind] \in Sizes
           /\ machine["page"] \in Nat \ {0} /\ machine[kind] % machine["page"] = 0
<1>1. /\ machine[kind] \in Sizes /\ machine["page"] \in Nat \ {0}
  BY MachineFacts DEF SizesInv, Kinds, Asked, Sizes
<1>2. machine["page"] % machine["page"] = 0
  <2>1. (1 * machine["page"]) % machine["page"] = 0
    BY <1>1, MultipleDivides
  <2>2. QED
    BY <1>1, <2>1
<1>3. kind = "large" => machine["large"] % machine["page"] = 0
  BY DEF SizesInv, KnownFromBelow
<1>4. QED
  BY <1>1, <1>2, <1>3 DEF Kinds

-----------------------------------------------------------------------------
(* Blocks and calls                                                          *)

\* What is rounded up, where it fits, is what is mapped.
LEMMA RoundedUp ==
    ASSUME SizesInv, NEW bytes \in Requests, NEW n \in Sizes \ {0}
    PROVE  /\ try_ceili(bytes, n) = Reported(CeilingOf(bytes, n))
           /\ CeilingOf(bytes, n) \in Nat /\ bytes \in Nat /\ bytes <= CeilingOf(bytes, n)
<1>1. bytes \in Sizes /\ bytes \in Nat /\ n \in Nat \ {0}
  BY RequestsAssumption, MaxSizeAssumption DEF Sizes
<1>2. QED
  BY <1>1, CeilingReported, CeilingFacts

LEMMA TrapCountFits ==
    ASSUME NEW bytes \in Nat, NEW mapped \in Nat, bytes <= mapped
    PROVE  TrapCount(bytes, mapped) \in 0 .. MaxTrapCount
<1>1. PICK n \in Nat : n = mapped - bytes
  OBVIOUS
<1>2. n \div TrapSize \in Nat
  BY TrapAssumption, DivMod
<1>3. (mapped - bytes) \div TrapSize \in Nat
  BY <1>1, <1>2
<1>4. QED
  BY <1>3, TrapAssumption DEF TrapCount

\* What is known of a block.
LEMMA BlockFacts ==
    ASSUME IInv, NEW b \in DOMAIN block, block[b].owner # "nobody"
    PROVE  /\ b \in Blocks /\ b # FailedMap
           /\ block[b] \in [kind : Kinds, size : Requests, mapped : Sizes \ {0},
                            traps : 0 .. MaxTrapCount, damaged : BOOLEAN,
                            owner : {"call", "client", "nobody"}]
           /\ BlockAt(b)
           /\ machine[block[b].kind] \in Sizes \ {0}
           /\ machine["page"] \in Nat \ {0}
           /\ machine[block[b].kind] % machine["page"] = 0
           /\ block[b].size \in Nat /\ block[b].mapped \in Nat
           /\ block[b].size <= block[b].mapped
           /\ try_ceili(block[b].size, machine[block[b].kind]).value = block[b].mapped
           /\ TrapCount(block[b].size, block[b].mapped) \in 0 .. MaxTrapCount
<1>1. /\ b \in Blocks
      /\ block[b] \in [kind : Kinds, size : Requests, mapped : Sizes \ {0},
                       traps : 0 .. MaxTrapCount, damaged : BOOLEAN,
                       owner : {"call", "client", "nobody"}]
      /\ BlockAt(b)
  BY DEF IInv, TypeOK, BlockInv
<1>2. /\ block[b].kind \in Kinds /\ block[b].size \in Requests
      /\ block[b].mapped \in Sizes \ {0}
  BY <1>1
<1>3. /\ SizesInv /\ known[block[b].kind] # Unknown /\ machine[block[b].kind] # 0
      /\ block[b].mapped = CeilingOf(block[b].size, machine[block[b].kind])
  BY <1>1 DEF IInv, BlockAt
<1>4. /\ machine[block[b].kind] \in Sizes \ {0} /\ machine["page"] \in Nat \ {0}
      /\ machine[block[b].kind] % machine["page"] = 0
  BY <1>2, <1>3, KnownFacts
<1>5. /\ try_ceili(block[b].size, machine[block[b].kind]) = Reported(block[b].mapped)
      /\ block[b].mapped \in Nat /\ block[b].size \in Nat /\ block[b].size <= block[b].mapped
  BY <1>2, <1>3, <1>4, RoundedUp
<1>6. Reported(block[b].mapped).value = block[b].mapped
  BY <1>2, MaxSizeAssumption DEF Reported, Exactly, Sizes
<1>7. TrapCount(block[b].size, block[b].mapped) \in 0 .. MaxTrapCount
  BY <1>5, TrapCountFits
<1>8. QED
  BY <1>1, <1>4, <1>5, <1>6, <1>7, FailedMapAssumption

\* A call that has hold of a block, once it has the size of the pages, computes what
\* is mapped.
LEMMA HeldFacts ==
    ASSUME IInv, NEW t \in Threads, NEW b \in Blocks, Holds(t, b),
           Answered(t, call[t].kind)
    PROVE  /\ HeldBy(t, b) /\ BlockAt(b) /\ data[t] = b
           /\ call[t].size = block[b].size /\ call[t].kind = block[b].kind
           /\ FullSize(t).value = block[b].mapped /\ FreedSize(t).value = block[b].mapped
<1>1. HeldBy(t, b) /\ data[t] = b
  BY DEF IInv, CallInv, Holds
<1>2. /\ b \in DOMAIN block /\ block[b].owner # "nobody"
      /\ block[b].kind = call[t].kind /\ block[b].size = call[t].size
  BY <1>1 DEF HeldBy
<1>3. block[b].kind \in Kinds
  BY <1>2, BlockFacts
<1>4. size[t] = machine[call[t].kind]
  BY <1>2, <1>3, AnswerFacts DEF IInv
<1>5. QED
  BY <1>1, <1>2, <1>4, BlockFacts DEF FullSize, FreedSize

\* What a step of another thread leaves alone.
Undisturbed(u) ==
    /\ pc'[u] = pc[u] /\ call'[u] = call[u] /\ data'[u] = data[u] /\ ec'[u] = ec[u]
    /\ asked'[u] = asked[u]
    /\ Answered(u, call[u].kind) => at'[u] = at[u]

\* What is known of the machine stays so.
Learning ==
    machine' = machine /\ \A s \in Asked : known[s] # Unknown => known'[s] # Unknown

LEMMA OthersCall ==
    ASSUME IInv, NEW u \in Threads, Undisturbed(u),
           \A b \in Blocks : Holds(u, b) => b \in DOMAIN block' /\ block'[b] = block[b]
    PROVE  /\ CallAt(u)' /\ \A b \in Blocks : Holds(u, b)' => HeldBy(u, b)'
           /\ \A b \in Blocks : Holds(u, b)' <=> Holds(u, b)
<1>1. CallAt(u) /\ \A b \in Blocks : Holds(u, b) => HeldBy(u, b)
  BY DEF IInv, CallInv
<1>2. CallAt(u)'
  BY <1>1 DEF CallAt, Undisturbed, Answered
<1>3. \A b \in Blocks : Holds(u, b)' <=> Holds(u, b)
  BY DEF Holds, Undisturbed
<1>4. ASSUME NEW b \in Blocks, Holds(u, b)'
      PROVE  HeldBy(u, b)'
  <2>1. HeldBy(u, b) /\ b \in DOMAIN block' /\ block'[b] = block[b]
    BY <1>1, <1>3, <1>4
  <2>2. QED
    BY <2>1 DEF HeldBy, Undisturbed
<1>5. QED
  BY <1>2, <1>3, <1>4

LEMMA OthersBlock ==
    ASSUME IInv, Learning, NEW b \in DOMAIN block, block[b].owner # "nobody",
           block'[b] = block[b],
           block[b].owner = "call" => \E t \in Threads : Holds(t, b)'
    PROVE  BlockAt(b)'
<1>1. BlockAt(b) /\ block[b].kind \in Asked
  BY BlockFacts DEF Kinds, Asked
<1>2. QED
  BY <1>1 DEF BlockAt, Learning

\* A step that changes neither the blocks nor who has hold of them.
LEMMA QuietKeeps ==
    ASSUME IInv, NEW t \in Threads, TypeOK', SizesInv', Learning, OnlyDamageFound',
           DOMAIN block' = DOMAIN block, \A b \in DOMAIN block : block'[b] = block[b],
           \A u \in Threads \ {t} : Undisturbed(u), CallAt(t)',
           \A b \in Blocks : Holds(t, b)' <=> Holds(t, b),
           \A b \in Blocks : Holds(t, b) =>
               call'[t] = call[t] /\ (pc'[t] = "check" <=> pc[t] = "check")
    PROVE  IInv'
<1>1. DOMAIN block \subseteq Blocks
  BY DEF IInv, TypeOK
<1>2. ASSUME NEW u \in Threads, u # t
      PROVE  /\ CallAt(u)' /\ \A b \in Blocks : Holds(u, b)' => HeldBy(u, b)'
             /\ \A b \in Blocks : Holds(u, b)' <=> Holds(u, b)
  <2>1. \A b \in Blocks : Holds(u, b) => b \in DOMAIN block
    BY DEF IInv, CallInv, HeldBy
  <2>2. QED
    BY <1>2, <2>1, OthersCall
<1>3. ASSUME NEW b \in Blocks, Holds(t, b)'
      PROVE  HeldBy(t, b)'
  <2>1. HeldBy(t, b) /\ call'[t] = call[t] /\ (pc'[t] = "check" <=> pc[t] = "check")
    BY <1>3 DEF IInv, CallInv
  <2>2. QED
    BY <2>1 DEF HeldBy
<1>4. \A u \in Threads, b \in Blocks : Holds(u, b)' <=> Holds(u, b)
  BY <1>2
<1>5. CallInv'
  BY <1>2, <1>3 DEF CallInv
<1>6. HeldOnce'
  BY <1>4 DEF IInv, HeldOnce
<1>7. BlockInv'
  <2>1. ASSUME NEW b \in DOMAIN block, block[b].owner # "nobody"
        PROVE  BlockAt(b)'
    <3>1. block[b].owner = "call" => \E u \in Threads : Holds(u, b)'
      <4>1. BlockAt(b) /\ b \in Blocks
        BY <2>1, BlockFacts
      <4>2. QED
        BY <1>4, <4>1 DEF BlockAt
    <3>2. QED
      BY <2>1, <3>1, OthersBlock
  <2>2. QED
    BY <2>1 DEF BlockInv
<1>8. QED
  BY <1>5, <1>6, <1>7 DEF IInv

\* The types of what a call keeps, and of the blocks
LocalsTyped ==
    /\ pc \in [Threads -> {"idle", "map", "advise", "unmap", "raise", "check"}]
    /\ call \in [Threads -> [kind : Kinds, size : Requests] \cup {NoCall}]
    /\ data \in [Threads -> Blocks \cup {FailedMap}]
    /\ errno \in [Threads -> {"none", "mmap", "madvise", "munmap"}]
    /\ ec \in [Threads -> {"none", "madvise"}]

Block == [kind : Kinds, size : Requests, mapped : Sizes \ {0}, traps : 0 .. MaxTrapCount,
          damaged : BOOLEAN, owner : {"call", "client", "nobody"}]

BlocksTyped == DOMAIN block \subseteq Blocks /\ \A b \in DOMAIN block : block[b] \in Block

LEMMA Typed ==
    TypeOK <=> SizesTypeOK /\ failed \in Failures /\ LocalsTyped /\ BlocksTyped
BY DEF TypeOK, LocalsTyped, BlocksTyped, Block

\* The end of a call, whatever its outcome
LEMMA EndCallKeeps ==
    ASSUME IInv, NEW t \in Threads, EndCall(t)
    PROVE  /\ SizesInv' /\ Learning /\ LocalsTyped' /\ CallAt(t)'
           /\ pc'[t] = "idle" /\ \A b \in Blocks : ~Holds(t, b)'
           /\ \A u \in Threads \ {t} : Undisturbed(u)
<1>1. LocalsTyped /\ SizesInv
  BY Typed DEF IInv
<1>2. SizesInv' /\ UNCHANGED <<machine, known>>
      /\ \A u \in Threads \ {t} : asked'[u] = asked[u] /\ at'[u] = at[u]
  BY <1>1, ForgetKeeps DEF EndCall
<1>3. LocalsTyped'
  BY <1>1 DEF LocalsTyped, EndCall, Goto
<1>4. pc'[t] = "idle"
  BY <1>1 DEF LocalsTyped, EndCall, Goto
<1>5. CallAt(t)' /\ \A b \in Blocks : ~Holds(t, b)'
  BY <1>4 DEF CallAt, Holds
<1>6. \A u \in Threads \ {t} : Undisturbed(u)
  BY <1>1, <1>2 DEF LocalsTyped, EndCall, Goto, Undisturbed
<1>7. QED
  BY <1>2, <1>3, <1>4, <1>5, <1>6 DEF Learning

LEMMA Initially == Init => IInv
<1>1. SUFFICES ASSUME Init
               PROVE  IInv
  OBVIOUS
<1>2. /\ machine \in Machines /\ known = [s \in Asked |-> Unknown]
      /\ asked = [t \in Threads |-> "none"] /\ at = [t \in Threads |-> 1]
      /\ rising = [t \in Threads |-> FALSE] /\ size = [t \in Threads |-> 0]
      /\ failed = "none" /\ DOMAIN block = {}
      /\ pc = [t \in Threads |-> "idle"]
  BY <1>1 DEF Init, InitSizes
<1>3. SizesInv
  <2>1. SizesTypeOK
    BY <1>2, MaxSizeAssumption DEF SizesTypeOK, Sizes
  <2>2. KnownFromBelow
    BY <1>2 DEF KnownFromBelow, Asked
  <2>3. QueryInv
    BY <1>2 DEF QueryInv
  <2>4. QED
    BY <2>1, <2>2, <2>3 DEF SizesInv
<1>4. TypeOK
  <2>1. LocalsTyped
    BY <1>1 DEF Init, LocalsTyped
  <2>2. QED
    BY <1>2, <1>3, <2>1, Typed DEF SizesInv, BlocksTyped, Failures
<1>5. CallInv /\ HeldOnce
  BY <1>2 DEF CallInv, HeldOnce, CallAt, Holds
<1>6. BlockInv /\ OnlyDamageFound
  BY <1>2 DEF BlockInv, OnlyDamageFound
<1>7. QED
  BY <1>3, <1>4, <1>5, <1>6 DEF IInv

LEMMA SizeStepIInv ==
    ASSUME IInv, failed = "none", NEW t \in Threads, SizeStep(t),
           UNCHANGED <<block, pc, call, data, errno, ec>>
    PROVE  IInv'
<1>1. /\ SizesInv' /\ machine' = machine /\ asked' = asked
      /\ \A s \in Asked : known[s] # Unknown => known'[s] # Unknown
      /\ \A u \in Threads, s \in Asked :
            Answered(u, s) => at'[u] = at[u] /\ size'[u] = size[u]
  BY SizeStepKeeps DEF IInv
<1>2. failed' \in {"none", "inconsistent sizes", "terminated"}
  BY DEF SizeStep, LoadKnown, LoadUnknown, Store, RefuseMachine, InitThrows
<1>3. TypeOK'
  <2>1. LocalsTyped /\ BlocksTyped
    BY Typed DEF IInv
  <2>2. LocalsTyped' /\ BlocksTyped'
    BY <2>1 DEF LocalsTyped, BlocksTyped
  <2>3. QED
    BY <1>1, <1>2, <2>2, Typed DEF SizesInv, Failures, TypeOK, LocalsTyped, BlocksTyped, Block
<1>4. \A u \in Threads : Undisturbed(u)
  <2>1. ASSUME NEW u \in Threads, Answered(u, call[u].kind)
        PROVE  at'[u] = at[u]
    <3>1. asked[u] = call[u].kind /\ asked[u] \in Asked \cup {"none"}
      BY <2>1 DEF Answered, IInv, SizesInv, SizesTypeOK
    <3>2. CASE asked[u] = "none"
      <4>1. u # t
        BY <3>2, AskingAt DEF IInv, SizeStep, LoadKnown, LoadUnknown, Store, RefuseMachine,
                              InitThrows, Asking
      <4>2. at \in [Threads -> 0 .. 3]
        BY DEF IInv, SizesInv, SizesTypeOK
      <4>3. QED
        BY <4>1, <4>2 DEF SizeStep, LoadKnown, LoadUnknown, Store, RefuseMachine,
                          InitThrows, sizeVars
    <3>3. QED
      BY <1>1, <2>1, <3>1, <3>2
  <2>2. QED
    BY <1>1, <2>1 DEF Undisturbed
<1>5. CallAt(t)' /\ \A b \in Blocks : Holds(t, b)' <=> Holds(t, b)
  <2>1. CallAt(t)
    BY DEF IInv, CallInv
  <2>2. QED
    BY <1>4, <2>1 DEF CallAt, Undisturbed, Answered, Holds
<1>6. OnlyDamageFound'
  BY <1>2 DEF OnlyDamageFound
<1>7. QED
  BY <1>1, <1>3, <1>4, <1>5, <1>6, QuietKeeps DEF Learning

LEMMA CallAllocIInv ==
    ASSUME IInv, failed = "none", NEW t \in Threads, NEW kind \in Kinds,
           NEW bytes \in Requests, CallAlloc(t, kind, bytes)
    PROVE  IInv'
<1>1. LocalsTyped /\ BlocksTyped /\ SizesInv /\ SizesTypeOK
  BY Typed DEF IInv
<1>2. SizesInv' /\ Learning
  BY <1>1, AskKeeps DEF CallAlloc, Ask, Kinds, Asked, Learning
<1>3. /\ pc[t] = "idle" /\ pc'[t] = "map" /\ asked'[t] = kind
      /\ call'[t] = [kind |-> kind, size |-> bytes]
  BY <1>1 DEF CallAlloc, Goto, LocalsTyped, Ask, SizesTypeOK
<1>4. TypeOK'
  <2>1. LocalsTyped' /\ BlocksTyped'
    BY <1>1 DEF LocalsTyped, BlocksTyped, CallAlloc, Goto
  <2>2. QED
    BY <1>2, <2>1, Typed DEF SizesInv, Failures, CallAlloc, TypeOK, LocalsTyped, BlocksTyped,
                             Block
<1>5. \A u \in Threads \ {t} : Undisturbed(u)
  BY <1>1 DEF Undisturbed, CallAlloc, Goto, LocalsTyped, Ask, SizesTypeOK
<1>6. CallAt(t)' /\ \A b \in Blocks : ~Holds(t, b)' /\ ~Holds(t, b)
  <2>1. call'[t] # NoCall
    BY <1>3 DEF Kinds, NoCall
  <2>2. QED
    BY <1>3, <2>1 DEF CallAt, Holds
<1>7. OnlyDamageFound' /\ block' = block
  BY DEF OnlyDamageFound, CallAlloc
<1>8. QED
  BY <1>2, <1>4, <1>5, <1>6, <1>7, QuietKeeps

LEMMA QuietEnd ==
    ASSUME IInv, failed = "none", NEW t \in Threads, Refuse(t) \/ Raise(t)
    PROVE  IInv'
<1>1. /\ EndCall(t) /\ failed' = failed /\ block' = block /\ pc[t] \in {"map", "raise"}
  BY DEF Refuse, Raise
<1>2. /\ SizesInv' /\ Learning /\ LocalsTyped' /\ CallAt(t)'
      /\ \A b \in Blocks : ~Holds(t, b)'
      /\ \A u \in Threads \ {t} : Undisturbed(u)
  BY <1>1, EndCallKeeps
<1>3. TypeOK'
  BY <1>1, <1>2, Typed DEF SizesInv, Failures, TypeOK, LocalsTyped, IInv
<1>4. \A b \in Blocks : ~Holds(t, b)
  BY <1>1 DEF Holds
<1>5. OnlyDamageFound'
  BY <1>1 DEF OnlyDamageFound
<1>6. QED
  BY <1>1, <1>2, <1>3, <1>4, <1>5, QuietKeeps

\* mmap or madvise fails.
LEMMA CallFailsIInv ==
    ASSUME IInv, failed = "none", NEW t \in Threads, MapFails(t) \/ AdviseFails(t)
    PROVE  IInv'
<1>1. LocalsTyped /\ BlocksTyped /\ SizesInv /\ CallAt(t)
  BY Typed DEF IInv, CallInv
<1>2. /\ UNCHANGED sizeVars /\ failed' = failed /\ block' = block /\ call' = call
      /\ Answered(t, call[t].kind) \/ pc[t] = "advise"
  BY DEF MapFails, AdviseFails
<1>3. SizesInv' /\ Learning
  BY <1>1, <1>2 DEF SizesInv, SizesTypeOK, KnownFromBelow, QueryInv, QueryAt, sizeVars,
                    Learning
<1>4. LocalsTyped'
  <2>1. CASE MapFails(t)
    BY <1>1, <2>1 DEF LocalsTyped, MapFails, Goto
  <2>2. CASE AdviseFails(t)
    <3>1. errno'[t] = "madvise"
      BY <1>1, <2>2 DEF LocalsTyped, AdviseFails
    <3>2. QED
      BY <1>1, <2>2, <3>1 DEF LocalsTyped, AdviseFails, Goto
  <2>3. QED
    BY <2>1, <2>2
<1>5. TypeOK'
  <2>1. BlocksTyped'
    BY <1>1, <1>2 DEF BlocksTyped
  <2>2. QED
    BY <1>2, <1>3, <1>4, <2>1, Typed DEF SizesInv, Failures, TypeOK, LocalsTyped,
                                          BlocksTyped, Block
<1>6. \A u \in Threads \ {t} : Undisturbed(u)
  BY <1>1, <1>2 DEF Undisturbed, MapFails, AdviseFails, Goto, LocalsTyped, sizeVars
<1>7. /\ CallAt(t)' /\ \A b \in Blocks : Holds(t, b)' <=> Holds(t, b)
      /\ pc'[t] # "check" /\ pc[t] # "check"
  <2>1. CASE MapFails(t)
    <3>1. pc[t] = "map" /\ pc'[t] = "advise" /\ data'[t] = FailedMap
      BY <1>1, <2>1 DEF LocalsTyped, MapFails, Goto
    <3>2. Answered(t, call[t].kind)'
      BY <1>2, <3>1 DEF Answered, sizeVars
    <3>3. QED
      BY <1>1, <1>2, <3>1, <3>2, FailedMapAssumption DEF CallAt, Holds, sizeVars
  <2>2. CASE AdviseFails(t)
    <3>1. /\ pc[t] = "advise" /\ pc'[t] = "unmap" /\ data'[t] = data[t]
          /\ ec'[t] = "madvise"
      BY <1>1, <2>2 DEF LocalsTyped, AdviseFails, Goto
    <3>2. QED
      BY <1>1, <1>2, <3>1 DEF CallAt, Holds, sizeVars
  <2>3. QED
    BY <2>1, <2>2
<1>8. OnlyDamageFound'
  BY <1>2 DEF OnlyDamageFound
<1>9. QED
  BY <1>2, <1>3, <1>5, <1>6, <1>7, <1>8, QuietKeeps

\* A block is mapped where there was none.
LEMMA MapIInv ==
    ASSUME IInv, failed = "none", NEW t \in Threads, NEW b \in Blocks, Map(t, b)
    PROVE  IInv'
<1> DEFINE new == [kind |-> call[t].kind, size |-> call[t].size,
                   mapped |-> FullSize(t).value, traps |-> 0,
                   damaged |-> FALSE, owner |-> "call"]
<1>1. LocalsTyped /\ BlocksTyped /\ SizesInv /\ CallAt(t)
  BY Typed DEF IInv, CallInv
<1>2. /\ UNCHANGED sizeVars /\ failed' = failed /\ call' = call /\ ec' = ec
      /\ pc[t] = "map" /\ pc'[t] = "advise" /\ data'[t] = b /\ b \notin DOMAIN block
      /\ DOMAIN block' = DOMAIN block \cup {b} /\ block'[b] = new
      /\ \A c \in DOMAIN block : block'[c] = block[c]
  BY <1>1 DEF Map, Goto, LocalsTyped
<1>3. /\ Answered(t, call[t].kind) /\ size[t] # 0 /\ ~FullSize(t).tooLarge
      /\ FullSize(t).value # 0
  BY DEF Map
<1>4. call[t] \in [kind : Kinds, size : Requests] /\ call[t] # NoCall
  BY <1>1, <1>2 DEF CallAt, LocalsTyped
<1>5. /\ size[t] = machine[call[t].kind] /\ known[call[t].kind] # Unknown
      /\ machine[call[t].kind] \in Sizes \ {0}
  BY <1>1, <1>3, <1>4, AnswerFacts
<1>6. /\ FullSize(t).value = CeilingOf(call[t].size, machine[call[t].kind])
      /\ FullSize(t).value \in Sizes \ {0}
  <2>1. /\ FullSize(t) = Reported(CeilingOf(call[t].size, machine[call[t].kind]))
        /\ CeilingOf(call[t].size, machine[call[t].kind]) \in Nat
    BY <1>1, <1>4, <1>5, RoundedUp DEF FullSize
  <2>2. QED
    BY <1>3, <2>1, MaxSizeAssumption DEF Reported, Exactly, TooLarge, Sizes
<1> HIDE DEF new
<1>7. /\ new.kind = call[t].kind /\ new.size = call[t].size /\ new.owner = "call"
      /\ new.mapped = CeilingOf(call[t].size, machine[call[t].kind])
      /\ new.damaged = FALSE /\ new \in Block
  BY <1>4, <1>6, TrapAssumption DEF new, Block
<1>8. SizesInv' /\ Learning
  BY <1>1, <1>2 DEF SizesInv, SizesTypeOK, KnownFromBelow, QueryInv, QueryAt, sizeVars,
                    Learning
<1>9. TypeOK'
  <2>1. LocalsTyped'
    BY <1>1 DEF LocalsTyped, Map, Goto
  <2>2. BlocksTyped'
    BY <1>1, <1>2, <1>7 DEF BlocksTyped, Block
  <2>3. QED
    BY <1>2, <1>8, <2>1, <2>2, Typed DEF SizesInv, Failures, TypeOK, LocalsTyped,
                                          BlocksTyped, Block
<1>10. ASSUME NEW u \in Threads \ {t}
       PROVE  /\ CallAt(u)' /\ \A c \in Blocks : Holds(u, c)' => HeldBy(u, c)'
              /\ \A c \in Blocks : Holds(u, c)' <=> Holds(u, c)
  <2>1. Undisturbed(u)
    BY <1>1, <1>2 DEF Undisturbed, Map, Goto, LocalsTyped, sizeVars
  <2>2. \A c \in Blocks : Holds(u, c) => c \in DOMAIN block
    BY DEF IInv, CallInv, HeldBy
  <2>3. QED
    BY <1>2, <2>1, <2>2, OthersCall
<1>11. /\ \A c \in Blocks : Holds(t, c)' <=> c = b
       /\ \A c \in Blocks : ~Holds(t, c)
       /\ \A u \in Threads : ~Holds(u, b)
  <2>1. \A u \in Threads : Holds(u, b) => b \in DOMAIN block
    BY DEF IInv, CallInv, HeldBy
  <2>2. QED
    BY <1>2, <2>1 DEF Holds
<1>12. CallInv'
  <2>1. CallAt(t)'
    BY <1>1, <1>2, <1>3 DEF CallAt, Answered, sizeVars
  <2>2. HeldBy(t, b)'
    BY <1>2, <1>7 DEF HeldBy
  <2>3. QED
    BY <1>10, <1>11, <2>1, <2>2 DEF CallInv
<1>13. HeldOnce'
  BY <1>10, <1>11 DEF IInv, HeldOnce
<1>14. BlockInv'
  <2>1. BlockAt(b)'
    <3>1. Holds(t, b)'
      BY <1>11
    <3>2. QED
      BY <1>2, <1>5, <1>7, <3>1 DEF BlockAt, sizeVars
  <2>2. ASSUME NEW c \in DOMAIN block, block[c].owner # "nobody"
        PROVE  BlockAt(c)'
    <3>1. block[c].owner = "call" => \E u \in Threads : Holds(u, c)'
      <4>1. BlockAt(c) /\ c \in Blocks
        BY <2>2, BlockFacts
      <4>2. QED
        BY <1>10, <1>11, <4>1 DEF BlockAt
    <3>2. QED
      BY <1>2, <1>8, <2>2, <3>1, OthersBlock
  <2>3. QED
    BY <1>2, <2>1, <2>2 DEF BlockInv
<1>15. OnlyDamageFound'
  BY <1>2 DEF OnlyDamageFound
<1>16. QED
  BY <1>8, <1>9, <1>12, <1>13, <1>14, <1>15 DEF IInv

\* A step of thread t that changes block b and nothing else of the blocks: the rest
\* stays as it is.
LEMMA OneBlockKeeps ==
    ASSUME IInv, NEW t \in Threads, NEW b \in Blocks, Learning,
           \A u \in Threads \ {t} : Undisturbed(u) /\ ~Holds(u, b),
           \A c \in Blocks \ {b} : ~Holds(t, c) /\ ~Holds(t, c)',
           \A c \in DOMAIN block \ {b} : c \in DOMAIN block' /\ block'[c] = block[c],
           DOMAIN block' \subseteq DOMAIN block,
           CallAt(t)', Holds(t, b)' => HeldBy(t, b)',
           b \in DOMAIN block' /\ block'[b].owner # "nobody" => BlockAt(b)'
    PROVE  CallInv' /\ HeldOnce' /\ BlockInv'
<1>1. ASSUME NEW u \in Threads \ {t}
      PROVE  /\ CallAt(u)' /\ \A c \in Blocks : Holds(u, c)' => HeldBy(u, c)'
             /\ \A c \in Blocks : Holds(u, c)' <=> Holds(u, c)
  <2>1. ASSUME NEW c \in Blocks, Holds(u, c)
        PROVE  c \in DOMAIN block' /\ block'[c] = block[c]
    <3>1. c # b /\ c \in DOMAIN block
      BY <2>1 DEF IInv, CallInv, HeldBy
    <3>2. QED
      BY <3>1
  <2>2. QED
    BY <2>1, OthersCall
<1>2. CallInv'
  BY <1>1 DEF CallInv
<1>3. HeldOnce'
  BY <1>1 DEF IInv, HeldOnce
<1>4. ASSUME NEW c \in DOMAIN block', block'[c].owner # "nobody"
      PROVE  BlockAt(c)'
  <2>1. CASE c = b
    BY <1>4, <2>1
  <2>2. CASE c # b
    <3>1. c \in DOMAIN block /\ block'[c] = block[c] /\ block[c].owner # "nobody"
      BY <1>4, <2>2
    <3>2. BlockAt(c) /\ c \in Blocks
      BY <3>1, BlockFacts
    <3>3. block[c].owner = "call" => \E u \in Threads : Holds(u, c)'
      BY <1>1, <2>2, <3>2 DEF BlockAt
    <3>4. QED
      BY <3>1, <3>3, OthersBlock
  <2>3. QED
    BY <2>1, <2>2
<1>5. QED
  BY <1>2, <1>3, <1>4 DEF BlockInv

\* madvise has succeeded: the traps are set and the block is the client's.
LEMMA AdviseIInv ==
    ASSUME IInv, failed = "none", NEW t \in Threads, Advise(t)
    PROVE  IInv'
<1>1. LocalsTyped /\ BlocksTyped /\ SizesInv /\ CallAt(t)
  BY Typed DEF IInv, CallInv
<1>2. PICK b \in Blocks : b = data[t]
  BY <1>1 DEF Advise, LocalsTyped
<1>3. /\ EndCall(t) /\ failed' = failed /\ pc[t] = "advise" /\ Holds(t, b)
      /\ Answered(t, call[t].kind)
  BY <1>1, <1>2 DEF Advise, Holds, CallAt
<1>4. /\ SizesInv' /\ Learning /\ LocalsTyped' /\ CallAt(t)'
      /\ \A c \in Blocks : ~Holds(t, c)'
      /\ \A u \in Threads \ {t} : Undisturbed(u)
  BY <1>3, EndCallKeeps
<1>5. /\ HeldBy(t, b) /\ BlockAt(b) /\ call[t].size = block[b].size
      /\ FullSize(t).value = block[b].mapped
  BY <1>3, HeldFacts
<1>6. /\ b \in DOMAIN block /\ block[b].owner = "call" /\ ~block[b].damaged
  BY <1>3, <1>5 DEF HeldBy
<1>7. block[b] \in Block /\ TrapCount(block[b].size, block[b].mapped) \in 0 .. MaxTrapCount
  BY <1>6, BlockFacts DEF Block
<1>8. /\ DOMAIN block' = DOMAIN block
      /\ \A c \in DOMAIN block \ {b} : block'[c] = block[c]
      /\ block'[b] = [block[b] EXCEPT
                         !.owner = "client",
                         !.traps = TrapCount(block[b].size, block[b].mapped)]
  BY <1>2, <1>5, <1>6 DEF Advise
<1>9. /\ block'[b] \in Block /\ block'[b].owner = "client"
      /\ block'[b].kind = block[b].kind /\ block'[b].size = block[b].size
      /\ block'[b].mapped = block[b].mapped /\ ~block'[b].damaged
      /\ block'[b].traps = TrapCount(block[b].size, block[b].mapped)
  BY <1>6, <1>7, <1>8 DEF Block
<1>10. BlocksTyped'
  BY <1>1, <1>8, <1>9 DEF BlocksTyped, Block
<1>11. TypeOK'
  BY <1>3, <1>4, <1>10, Typed DEF SizesInv, Failures, TypeOK, LocalsTyped, BlocksTyped, Block
<1>12. BlockAt(b)'
  <2>1. block[b].kind \in Asked
    BY <1>7 DEF Block, Kinds, Asked
  <2>2. QED
    BY <1>4, <1>5, <1>9, <2>1 DEF BlockAt, Learning
<1>13. CallInv' /\ HeldOnce' /\ BlockInv'
  <2>1. \A u \in Threads \ {t} : ~Holds(u, b)
    BY <1>3 DEF IInv, HeldOnce
  <2>2. \A c \in Blocks \ {b} : ~Holds(t, c)
    BY <1>2 DEF Holds
  <2>3. QED
    BY <1>4, <1>8, <1>12, <2>1, <2>2, OneBlockKeeps
<1>14. OnlyDamageFound'
  BY <1>3 DEF OnlyDamageFound
<1>15. QED
  BY <1>4, <1>11, <1>13, <1>14 DEF IInv

\* The mapping is removed after madvise has failed, if there was one.
LEMMA UnmapFullIInv ==
    ASSUME IInv, failed = "none", NEW t \in Threads, UnmapFull(t)
    PROVE  IInv'
<1>1. LocalsTyped /\ BlocksTyped /\ SizesInv /\ CallAt(t)
  BY Typed DEF IInv, CallInv
<1>2. /\ UNCHANGED sizeVars /\ failed' = failed /\ call' = call /\ ec' = ec /\ data' = data
      /\ pc[t] = "unmap" /\ pc'[t] = "raise"
      /\ DOMAIN block' = DOMAIN block \ {data[t]}
      /\ \A c \in DOMAIN block' : block'[c] = block[c]
  BY <1>1 DEF UnmapFull, Goto, LocalsTyped
<1>3. SizesInv' /\ Learning
  BY <1>1, <1>2 DEF SizesInv, SizesTypeOK, KnownFromBelow, QueryInv, QueryAt, sizeVars,
                    Learning
<1>4. TypeOK'
  <2>1. LocalsTyped'
    BY <1>1 DEF LocalsTyped, UnmapFull, Goto
  <2>2. BlocksTyped'
    BY <1>1, <1>2 DEF BlocksTyped
  <2>3. QED
    BY <1>2, <1>3, <2>1, <2>2, Typed DEF SizesInv, Failures, TypeOK, LocalsTyped,
                                          BlocksTyped, Block
<1>5. \A u \in Threads \ {t} : Undisturbed(u)
  BY <1>1, <1>2 DEF Undisturbed, UnmapFull, Goto, LocalsTyped, sizeVars
<1>6. CallAt(t)' /\ \A c \in Blocks : ~Holds(t, c)'
  BY <1>1, <1>2 DEF CallAt, Holds, sizeVars
<1>7. OnlyDamageFound'
  BY <1>2 DEF OnlyDamageFound
<1>8. CASE data[t] = FailedMap
  <2>1. \A c \in Blocks : ~Holds(t, c)
    BY <1>8, FailedMapAssumption DEF Holds
  <2>2. DOMAIN block' = DOMAIN block
    BY <1>1, <1>2, <1>8, FailedMapAssumption DEF BlocksTyped
  <2>3. QED
    BY <1>2, <1>3, <1>4, <1>5, <1>6, <1>7, <2>1, <2>2, QuietKeeps
<1>9. CASE data[t] # FailedMap
  <2>1. PICK b \in Blocks : b = data[t]
    BY <1>1, <1>9 DEF LocalsTyped
  <2>2. Holds(t, b)
    BY <1>2, <2>1 DEF Holds
  <2>3. \A u \in Threads \ {t} : ~Holds(u, b)
    BY <2>2 DEF IInv, HeldOnce
  <2>4. \A c \in Blocks \ {b} : ~Holds(t, c)
    BY <2>1 DEF Holds
  <2>5. CallInv' /\ HeldOnce' /\ BlockInv'
    BY <1>2, <1>3, <1>5, <1>6, <2>1, <2>3, <2>4, OneBlockKeeps
  <2>6. QED
    BY <1>3, <1>4, <1>7, <2>5 DEF IInv
<1>10. QED
  BY <1>8, <1>9

\* A client gives a block back.
LEMMA CallFreeIInv ==
    ASSUME IInv, failed = "none", NEW t \in Threads, NEW b \in DOMAIN block, CallFree(t, b)
    PROVE  IInv'
<1>1. LocalsTyped /\ BlocksTyped /\ SizesInv /\ SizesTypeOK
  BY Typed DEF IInv
<1>2. block[b].owner = "client" /\ b \in Blocks /\ b # FailedMap /\ block[b] \in Block
      /\ BlockAt(b)
  BY BlockFacts DEF CallFree, Block
<1>3. block[b].kind \in Kinds /\ block[b].kind \in Asked /\ block[b].size \in Requests
  BY <1>2 DEF Block, Kinds, Asked
<1>4. SizesInv' /\ Learning
  BY <1>1, <1>3, AskKeeps DEF CallFree, Ask, Learning
<1>5. /\ pc[t] = "idle" /\ pc'[t] = "check" /\ asked'[t] = block[b].kind
      /\ call'[t] = [kind |-> block[b].kind, size |-> block[b].size]
      /\ data'[t] = b /\ failed' = failed
  BY <1>1 DEF CallFree, Goto, LocalsTyped, Ask, SizesTypeOK
<1>6. /\ DOMAIN block' = DOMAIN block
      /\ \A c \in DOMAIN block \ {b} : block'[c] = block[c]
      /\ block'[b] = [block[b] EXCEPT !.owner = "call"]
  BY DEF CallFree
<1>7. /\ block'[b] \in Block /\ block'[b].owner = "call"
      /\ block'[b].kind = block[b].kind /\ block'[b].size = block[b].size
      /\ block'[b].mapped = block[b].mapped /\ block'[b].damaged = block[b].damaged
      /\ block'[b].traps = block[b].traps
  BY <1>2, <1>6 DEF Block
<1>8. TypeOK'
  <2>1. LocalsTyped'
    BY <1>1, <1>2, <1>3 DEF LocalsTyped, CallFree, Goto
  <2>2. BlocksTyped'
    BY <1>1, <1>6, <1>7 DEF BlocksTyped, Block
  <2>3. QED
    BY <1>4, <1>5, <2>1, <2>2, Typed DEF SizesInv, Failures, TypeOK, LocalsTyped,
                                          BlocksTyped, Block
<1>9. \A u \in Threads \ {t} : Undisturbed(u)
  BY <1>1 DEF Undisturbed, CallFree, Goto, LocalsTyped, Ask, SizesTypeOK
<1>10. /\ CallAt(t)' /\ Holds(t, b)' /\ HeldBy(t, b)'
       /\ \A c \in Blocks \ {b} : ~Holds(t, c) /\ ~Holds(t, c)'
  <2>1. call'[t] # NoCall
    BY <1>3, <1>5 DEF Kinds, NoCall
  <2>2. CallAt(t)' /\ Holds(t, b)' /\ \A c \in Blocks \ {b} : ~Holds(t, c) /\ ~Holds(t, c)'
    BY <1>2, <1>5, <2>1 DEF CallAt, Holds
  <2>3. HeldBy(t, b)'
    BY <1>2, <1>5, <1>6, <1>7 DEF HeldBy, BlockAt
  <2>4. QED
    BY <2>2, <2>3
<1>11. BlockAt(b)'
  BY <1>2, <1>3, <1>4, <1>7, <1>10 DEF BlockAt, Learning
<1>12. CallInv' /\ HeldOnce' /\ BlockInv'
  <2>1. ASSUME NEW u \in Threads
        PROVE  ~Holds(u, b)
    BY <1>2 DEF IInv, CallInv, HeldBy
  <2>2. QED
    BY <1>2, <1>4, <1>6, <1>9, <1>10, <1>11, <2>1, OneBlockKeeps
<1>13. OnlyDamageFound'
  BY <1>5 DEF OnlyDamageFound
<1>14. QED
  BY <1>4, <1>8, <1>12, <1>13 DEF IInv

\* The guard words looked at are those that were set: they tell damage.
LEMMA Damage ==
    ASSUME IInv, NEW t \in Threads, pc[t] = "check", Answered(t, call[t].kind)
    PROVE  /\ data[t] \in DOMAIN block /\ data[t] \in Blocks /\ Holds(t, data[t])
           /\ block[data[t]].owner = "call"
           /\ call[t].size = block[data[t]].size /\ call[t].kind = block[data[t]].kind
           /\ TrapsIntact(t) <=> ~block[data[t]].damaged
<1>1. LocalsTyped /\ CallAt(t)
  BY Typed DEF IInv, CallInv
<1>2. PICK b \in Blocks : b = data[t]
  BY <1>1 DEF CallAt, LocalsTyped
<1>3. Holds(t, b)
  BY <1>2 DEF Holds
<1>4. /\ HeldBy(t, b) /\ BlockAt(b) /\ call[t].size = block[b].size
      /\ call[t].kind = block[b].kind /\ FreedSize(t).value = block[b].mapped
  BY <1>3, HeldFacts
<1>5. /\ b \in DOMAIN block /\ block[b].owner = "call"
      /\ block[b].traps = TrapCount(block[b].size, block[b].mapped)
      /\ block[b].damaged => block[b].traps > 0
  BY <1>4 DEF HeldBy, BlockAt
<1>6. block[b].traps \in Nat
  BY <1>5, BlockFacts
<1>7. TrapsIntact(t) <=> ~block[b].damaged
  BY <1>2, <1>4, <1>5, <1>6 DEF TrapsIntact
<1>8. QED
  BY <1>2, <1>3, <1>4, <1>5, <1>7

\* munmap has succeeded, and has left something or not.
LEMMA UnmapIInv ==
    ASSUME IInv, failed = "none", NEW t \in Threads, Unmap(t)
    PROVE  IInv'
<1>1. LocalsTyped /\ BlocksTyped /\ SizesInv
  BY Typed DEF IInv
<1>2. /\ EndCall(t) /\ failed' = failed /\ pc[t] = "check" /\ Answered(t, call[t].kind)
      /\ TrapsIntact(t)
  BY DEF Unmap
<1>3. /\ SizesInv' /\ Learning /\ LocalsTyped' /\ CallAt(t)'
      /\ \A c \in Blocks : ~Holds(t, c)'
      /\ \A u \in Threads \ {t} : Undisturbed(u)
  BY <1>2, EndCallKeeps
<1>4. PICK b \in Blocks : b = data[t]
  BY <1>2, Damage
<1>5. /\ Holds(t, b) /\ b \in DOMAIN block /\ block[b].owner = "call"
      /\ call[t].size = block[b].size
  BY <1>2, <1>4, Damage
<1>6. /\ block[b] \in Block /\ block[b].mapped \in Nat /\ machine["page"] \in Sizes \ {0}
      /\ block[b].mapped \in Sizes /\ block[b].size \in Requests
  <2>1. block[b] \in Block /\ block[b].mapped \in Nat
    BY <1>5, BlockFacts DEF Block
  <2>2. machine["page"] \in Sizes \ {0}
    BY <1>1, MachineFacts DEF SizesInv, Asked
  <2>3. QED
    BY <2>1, <2>2 DEF Block
<1>7. PICK left \in Int : left = block[b].mapped - CeilingOf(block[b].size, machine["page"])
  BY <1>6, RoundedUp, <1>1
<1>8. left > 0 => left \in Sizes \ {0}
  <2>1. CeilingOf(block[b].size, machine["page"]) \in Nat
    BY <1>1, <1>6, RoundedUp
  <2>2. QED
    BY <1>6, <1>7, <2>1, MaxSizeAssumption DEF Sizes
<1>9. \/ /\ DOMAIN block' = DOMAIN block \ {b}
         /\ \A c \in DOMAIN block \ {b} : block'[c] = block[c]
      \/ /\ left > 0 /\ DOMAIN block' = DOMAIN block
         /\ \A c \in DOMAIN block \ {b} : block'[c] = block[c]
         /\ block'[b] = [block[b] EXCEPT !.mapped = left, !.owner = "nobody"]
  <2>1. CASE left <= 0
    <3>1. block' = [c \in DOMAIN block \ {b} |-> block[c]]
      BY <1>4, <1>5, <1>7, <2>1 DEF Unmap
    <3>2. QED
      BY <3>1
  <2>2. CASE ~(left <= 0)
    <3>1. block' = [block EXCEPT ![b].mapped = left, ![b].owner = "nobody"]
      BY <1>4, <1>5, <1>7, <2>2 DEF Unmap
    <3>2. QED
      BY <1>5, <1>7, <2>2, <3>1
  <2>3. QED
    BY <2>1, <2>2
<1>10. b \in DOMAIN block' => block'[b] \in Block /\ block'[b].owner = "nobody"
  <2>1. SUFFICES ASSUME b \in DOMAIN block'
                 PROVE  block'[b] \in Block /\ block'[b].owner = "nobody"
    OBVIOUS
  <2>2. left \in Sizes \ {0}
    BY <1>8, <1>9, <2>1
  <2>3. block'[b] = [block[b] EXCEPT !.mapped = left, !.owner = "nobody"]
    BY <1>9, <2>1
  <2>4. QED
    BY <1>6, <2>2, <2>3 DEF Block
<1>11. /\ \A c \in DOMAIN block \ {b} : c \in DOMAIN block' /\ block'[c] = block[c]
       /\ DOMAIN block' \subseteq DOMAIN block
  BY <1>9
<1>12. TypeOK'
  <2>1. BlocksTyped'
    BY <1>1, <1>10, <1>11 DEF BlocksTyped, Block
  <2>2. QED
    BY <1>2, <1>3, <2>1, Typed DEF SizesInv, Failures, TypeOK, LocalsTyped, BlocksTyped, Block
<1>13. CallInv' /\ HeldOnce' /\ BlockInv'
  <2>1. \A u \in Threads \ {t} : ~Holds(u, b)
    BY <1>5 DEF IInv, HeldOnce
  <2>2. \A c \in Blocks \ {b} : ~Holds(t, c)
    BY <1>4 DEF Holds
  <2>3. QED
    BY <1>3, <1>10, <1>11, <2>1, <2>2, OneBlockKeeps
<1>14. OnlyDamageFound'
  BY <1>2 DEF OnlyDamageFound
<1>15. QED
  BY <1>3, <1>12, <1>13, <1>14 DEF IInv

\* A client writes behind its block.
LEMMA WriteBehindIInv ==
    ASSUME IInv, failed = "none", NEW b \in DOMAIN block, WriteBehind(b)
    PROVE  IInv'
<1>1. LocalsTyped /\ BlocksTyped /\ SizesInv
  BY Typed DEF IInv
<1>2. block[b].owner = "client" /\ b \in Blocks /\ block[b] \in Block /\ BlockAt(b)
      /\ block[b].traps > 0
  BY BlockFacts DEF WriteBehind, Block
<1>3. UNCHANGED <<sizeVars, failed, pc, call, data, errno, ec>>
  BY DEF WriteBehind
<1>4. /\ DOMAIN block' = DOMAIN block
      /\ \A c \in DOMAIN block \ {b} : block'[c] = block[c]
      /\ block'[b] = [block[b] EXCEPT !.damaged = TRUE]
  BY DEF WriteBehind
<1>5. /\ block'[b] \in Block /\ block'[b].owner = "client"
      /\ block'[b].kind = block[b].kind /\ block'[b].size = block[b].size
      /\ block'[b].mapped = block[b].mapped /\ block'[b].traps = block[b].traps
  BY <1>2, <1>4 DEF Block
<1>6. SizesInv' /\ Learning
  BY <1>1, <1>3 DEF SizesInv, SizesTypeOK, KnownFromBelow, QueryInv, QueryAt, sizeVars,
                    Learning
<1>7. TypeOK'
  <2>1. LocalsTyped'
    BY <1>1, <1>3 DEF LocalsTyped
  <2>2. BlocksTyped'
    BY <1>1, <1>4, <1>5 DEF BlocksTyped, Block
  <2>3. QED
    BY <1>3, <1>6, <2>1, <2>2, Typed DEF SizesInv, Failures, TypeOK, LocalsTyped,
                                          BlocksTyped, Block
<1>8. ASSUME NEW u \in Threads
      PROVE  Undisturbed(u) /\ ~Holds(u, b) /\ ~Holds(u, b)'
  <2>1. ~Holds(u, b)
    BY <1>2 DEF IInv, CallInv, HeldBy
  <2>2. QED
    BY <1>3, <2>1 DEF Undisturbed, sizeVars, Holds
<1>9. ASSUME NEW u \in Threads
      PROVE  CallAt(u)' /\ \A c \in Blocks : Holds(u, c)' => HeldBy(u, c)'
  <2>1. \A c \in Blocks : Holds(u, c) => c \in DOMAIN block /\ c # b
    BY <1>8 DEF IInv, CallInv, HeldBy
  <2>2. QED
    BY <1>4, <1>8, <2>1, OthersCall
<1>10. HeldOnce' /\ CallInv'
  BY <1>3, <1>9 DEF IInv, HeldOnce, CallInv, Holds
<1>11. BlockInv'
  <2>1. BlockAt(b)'
    <3>1. block[b].kind \in Asked
      BY <1>2 DEF Block, Kinds, Asked
    <3>2. QED
      BY <1>2, <1>5, <1>6, <3>1 DEF BlockAt, Learning
  <2>2. ASSUME NEW c \in DOMAIN block \ {b}, block[c].owner # "nobody"
        PROVE  BlockAt(c)'
    <3>1. BlockAt(c) /\ c \in Blocks
      BY <2>2, BlockFacts
    <3>2. block[c].owner = "call" => \E u \in Threads : Holds(u, c)'
      BY <1>3, <3>1 DEF BlockAt, Holds
    <3>3. QED
      BY <1>4, <1>6, <2>2, <3>2, OthersBlock
  <2>3. QED
    BY <1>4, <2>1, <2>2 DEF BlockInv
<1>12. OnlyDamageFound'
  BY <1>3 DEF OnlyDamageFound
<1>13. QED
  BY <1>6, <1>7, <1>10, <1>11, <1>12 DEF IInv

\* The program ends at damage or at a failure to unmap.
LEMMA EndIInv ==
    ASSUME IInv, failed = "none", NEW t \in Threads, FindDamage(t) \/ UnmapFails(t)
    PROVE  IInv'
<1>1. LocalsTyped /\ BlocksTyped /\ SizesInv
  BY Typed DEF IInv
<1>2. /\ UNCHANGED <<sizeVars, block, pc, call, data, errno, ec>>
      /\ failed' \in {"damage", "terminated"}
  BY DEF FindDamage, UnmapFails
<1>3. SizesInv'
  BY <1>1, <1>2 DEF SizesInv, SizesTypeOK, KnownFromBelow, QueryInv, QueryAt, sizeVars
<1>4. TypeOK'
  BY <1>1, <1>2, <1>3, Typed DEF SizesInv, Failures, TypeOK, LocalsTyped, BlocksTyped, Block
<1>5. CallInv' /\ HeldOnce' /\ BlockInv'
  BY <1>2 DEF IInv, CallInv, HeldOnce, BlockInv, CallAt, Holds, HeldBy, BlockAt, Answered,
              sizeVars
<1>6. OnlyDamageFound'
  <2>1. CASE FindDamage(t)
    <3>1. pc[t] = "check" /\ data[t] \in DOMAIN block /\ block[data[t]].damaged
      <4>1. pc[t] = "check" /\ Answered(t, call[t].kind) /\ ~TrapsIntact(t)
        BY <2>1 DEF FindDamage
      <4>2. QED
        BY <4>1, Damage
    <3>2. QED
      BY <1>2, <3>1 DEF OnlyDamageFound
  <2>2. CASE UnmapFails(t)
    BY <2>2 DEF UnmapFails, OnlyDamageFound
  <2>3. QED
    BY <2>1, <2>2
<1>7. QED
  BY <1>3, <1>4, <1>5, <1>6 DEF IInv

-----------------------------------------------------------------------------
(* The theorems                                                              *)

LEMMA NextIInv == IInv /\ [Next]_vars => IInv'
<1>1. SUFFICES ASSUME IInv, [Next]_vars
               PROVE  IInv'
  OBVIOUS
<1>2. ASSUME failed = "none", NEW t \in Threads, Step(t)
      PROVE  IInv'
  <2>1. CASE SizeStep(t) /\ UNCHANGED <<block, pc, call, data, errno, ec>>
    BY <1>1, <1>2, <2>1, SizeStepIInv
  <2>2. CASE \E kind \in Kinds, bytes \in Requests : CallAlloc(t, kind, bytes)
    BY <1>1, <1>2, <2>2, CallAllocIInv
  <2>3. CASE Refuse(t) \/ Raise(t)
    BY <1>1, <1>2, <2>3, QuietEnd
  <2>4. CASE \E b \in Blocks : Map(t, b)
    BY <1>1, <1>2, <2>4, MapIInv
  <2>5. CASE MapFails(t) \/ AdviseFails(t)
    BY <1>1, <1>2, <2>5, CallFailsIInv
  <2>6. CASE Advise(t)
    BY <1>1, <1>2, <2>6, AdviseIInv
  <2>7. CASE UnmapFull(t)
    BY <1>1, <1>2, <2>7, UnmapFullIInv
  <2>8. CASE \E b \in DOMAIN block : CallFree(t, b)
    BY <1>1, <1>2, <2>8, CallFreeIInv
  <2>9. CASE FindDamage(t) \/ UnmapFails(t)
    BY <1>1, <1>2, <2>9, EndIInv
  <2>10. CASE Unmap(t)
    BY <1>1, <1>2, <2>10, UnmapIInv
  <2>11. QED
    BY <1>2, <2>1, <2>2, <2>3, <2>4, <2>5, <2>6, <2>7, <2>8, <2>9, <2>10 DEF Step
<1>3. CASE failed = "none" /\ \E b \in DOMAIN block : WriteBehind(b)
  BY <1>1, <1>3, WriteBehindIInv
<1>4. CASE UNCHANGED vars
  BY <1>1, <1>4
     DEF vars, sizeVars, IInv, TypeOK, SizesInv, SizesTypeOK, KnownFromBelow, QueryInv,
         QueryAt, CallInv, CallAt, Holds, HeldBy, HeldOnce, BlockInv, BlockAt,
         OnlyDamageFound, Answered
<1>5. QED
  BY <1>1, <1>2, <1>3, <1>4 DEF Next, Stopped

(* What a call computes anew when it frees a block is what was mapped and    *)
(* guarded, by whichever thread and however the size of a page was learnt.   *)
THEOREM Inductive == Spec => []IInv
BY Initially, NextIInv, PTL DEF Spec

(* The sizes that have become known are those of the machine, smallest       *)
(* first.                                                                    *)
THEOREM SizesKnownFromBelow == Spec => []KnownFromBelow
<1>1. IInv => KnownFromBelow
  BY DEF IInv, SizesInv
<1>2. QED
  BY <1>1, Inductive, PTL

(* A client's block has whole pages, as many as it needs, and no other call  *)
(* has hold of it.                                                           *)
THEOREM ClientsBlocks == Spec => []BlocksComplete
<1>1. IInv => BlocksComplete
  <2>1. SUFFICES ASSUME IInv, NEW b \in DOMAIN block, block[b].owner = "client"
                 PROVE  /\ block[b].mapped >= block[b].size
                        /\ block[b].mapped % machine.page = 0
                        /\ \A t \in Threads :
                              pc[t] \in {"advise", "unmap", "check"} => data[t] # b
    BY DEF BlocksComplete
  <2>2. /\ b \in Blocks /\ BlockAt(b) /\ block[b].size \in Nat
        /\ block[b].mapped \in Nat /\ block[b].size <= block[b].mapped
        /\ machine[block[b].kind] \in Nat \ {0} /\ machine["page"] \in Nat \ {0}
        /\ machine[block[b].kind] % machine["page"] = 0
    BY <2>1, BlockFacts, MaxSizeAssumption DEF Sizes
  <2>3. block[b].mapped % machine["page"] = 0
    BY <2>2, CeilingDivisible DEF BlockAt
  <2>4. ASSUME NEW t \in Threads, pc[t] \in {"advise", "unmap", "check"}
        PROVE  data[t] # b
    BY <2>1, <2>2, <2>4 DEF IInv, CallInv, Holds, HeldBy
  <2>5. QED
    BY <2>2, <2>3, <2>4
<1>2. QED
  BY <1>1, Inductive, PTL

(* A call that fails reports the first error, and what is mapped has exactly *)
(* one owner.                                                                *)
THEOREM NothingLost == Spec => []FailureLeavesNothing
<1>1. IInv => FailureLeavesNothing
  <2>1. SUFFICES ASSUME IInv
                 PROVE  FailureLeavesNothing
    OBVIOUS
  <2>2. ASSUME NEW t \in Threads, pc[t] = "raise"
        PROVE  ec[t] = "madvise"
    BY <2>1, <2>2 DEF IInv, CallInv, CallAt
  <2>3. ASSUME NEW b \in DOMAIN block, block[b].owner = "call"
        PROVE  Cardinality({t \in Threads :
                   pc[t] \in {"advise", "unmap", "check"} /\ data[t] = b}) = 1
    <3>1. b \in Blocks /\ BlockAt(b)
      BY <2>1, <2>3, BlockFacts
    <3>2. PICK t \in Threads : Holds(t, b)
      BY <2>3, <3>1 DEF BlockAt
    <3>3. \A u \in Threads : Holds(u, b) => u = t
      BY <2>1, <3>1, <3>2 DEF IInv, HeldOnce
    <3>4. {u \in Threads : pc[u] \in {"advise", "unmap", "check"} /\ data[u] = b} = {t}
      BY <3>2, <3>3 DEF Holds
    <3>5. Cardinality({t}) = 1
      BY FS_Singleton
    <3>6. QED
      BY <3>4, <3>5
  <2>4. QED
    BY <2>2, <2>3 DEF FailureLeavesNothing
<1>2. QED
  BY <1>1, Inductive, PTL

(* No block is found damaged that is not.                                    *)
THEOREM NoFalseAlarm == Spec => []OnlyDamageFound
<1>1. IInv => OnlyDamageFound
  BY DEF IInv
<1>2. QED
  BY <1>1, Inductive, PTL

(* A damaged block is never unmapped: the damage is found first.             *)
THEOREM DamageIsFound == Spec => DamageFound
<1>1. ASSUME IInv, [Next]_vars
      PROVE  [\A b \in DOMAIN block :
                  block[b].damaged =>
                      b \in DOMAIN block' /\ block'[b].mapped = block[b].mapped]_vars
  <2>1. SUFFICES ASSUME NEW b \in DOMAIN block, block[b].damaged, ~UNCHANGED vars
                 PROVE  b \in DOMAIN block' /\ block'[b].mapped = block[b].mapped
    OBVIOUS
  <2>2. CASE block' = block
    BY <2>2
  <2>3. CASE \E t \in Threads : \E c \in Blocks : Map(t, c)
    BY <2>3 DEF Map
  <2> block[b] \in Block
    BY <1>1, <2>1, Typed DEF IInv, BlocksTyped
  <2>4. CASE \E t \in Threads : Advise(t)
    <3>1. PICK t \in Threads : Advise(t)
      BY <2>4
    <3>2. CASE data[t] = b
      BY <3>1, <3>2 DEF Advise, Block
    <3>3. CASE data[t] # b
      BY <3>1, <3>3 DEF Advise
    <3>4. QED
      BY <3>2, <3>3
  <2>5. CASE \E t \in Threads : UnmapFull(t)
    <3>1. PICK t \in Threads : UnmapFull(t)
      BY <2>5
    <3>2. data[t] # b
      <4>1. b \in Blocks
        BY <1>1 DEF IInv, TypeOK
      <4>2. data[t] = b => ~block[b].damaged
        BY <1>1, <3>1, <4>1 DEF IInv, CallInv, Holds, HeldBy, UnmapFull
      <4>3. QED
        BY <2>1, <4>2
    <3>3. QED
      BY <3>1, <3>2 DEF UnmapFull
  <2>6. CASE \E t \in Threads : \E c \in DOMAIN block : CallFree(t, c)
    <3>1. PICK t \in Threads, c \in DOMAIN block : CallFree(t, c)
      BY <2>6
    <3>2. CASE c = b
      BY <3>1, <3>2 DEF CallFree, Block
    <3>3. CASE c # b
      BY <3>1, <3>3 DEF CallFree
    <3>4. QED
      BY <3>2, <3>3
  <2>7. CASE \E t \in Threads : Unmap(t)
    <3>1. PICK t \in Threads : Unmap(t)
      BY <2>7
    <3>2. ~block[data[t]].damaged
      BY <1>1, <3>1, Damage DEF Unmap
    <3>3. data[t] # b
      BY <2>1, <3>2
    <3>4. QED
      BY <3>1, <3>3 DEF Unmap
  <2>8. CASE \E c \in DOMAIN block : WriteBehind(c)
    <3>1. PICK c \in DOMAIN block : WriteBehind(c)
      BY <2>8
    <3>2. CASE c = b
      BY <3>1, <3>2 DEF WriteBehind, Block
    <3>3. CASE c # b
      BY <3>1, <3>3 DEF WriteBehind
    <3>4. QED
      BY <3>2, <3>3
  <2>9. \/ block' = block
        \/ \E t \in Threads : \/ (\E c \in Blocks : Map(t, c)) \/ Advise(t)
                              \/ UnmapFull(t) \/ Unmap(t)
                              \/ \E c \in DOMAIN block : CallFree(t, c)
        \/ \E c \in DOMAIN block : WriteBehind(c)
    BY <1>1, <2>1 DEF Next, Step, Stopped, CallAlloc, Refuse, MapFails, AdviseFails, Raise,
                      FindDamage, UnmapFails
  <2>10. QED
    BY <2>2, <2>3, <2>4, <2>5, <2>6, <2>7, <2>8, <2>9
<1>2. QED
  BY <1>1, Inductive, PTL DEF Spec, DamageFound

=============================================================================
