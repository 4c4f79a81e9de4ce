----------------------- MODULE AlignedAllocationProofs -----------------------
(*****************************************************************************)
(* Proofs about the aligned allocation, for a std::size_t of any width, any  *)
(* machine, type and alignment, and any addresses the allocator may return.  *)
(*****************************************************************************)
EXTENDS AlignedAllocation, CheckedArithmeticProofs

-----------------------------------------------------------------------------
(* Powers of two, and numbers as sets of bits                                *)

\* What its recursive definition says
LEMMA PowerDef ==
    /\ Power \in [Nat -> Nat]
    /\ Power[0] = 1
    /\ \A i \in Nat : Power[i + 1] = 2 * Power[i]
<1> DEFINE Def(f) == [i \in Nat |-> IF i = 0 THEN 1 ELSE 2 * f[i - 1]]
<1>1. PICK f \in [Nat -> Nat] : f[0] = 1 /\ \A n \in Nat : f[n + 1] = 2 * f[n]
  <2> DEFINE step == [n \in Nat |-> [k \in Nat |-> 2 * k]]
  <2>1. StepOn(Nat, step)
    BY DEF StepOn
  <2>2. \A n, k \in Nat : step[n][k] = 2 * k
    OBVIOUS
  <2> HIDE DEF step
  <2>3. PICK f : Defines(Nat, 1, step, f)
    BY <2>1, RecursionExists
  <2>4. QED
    BY <2>2, <2>3 DEF Defines
<1>2. f = Def(f)
  <2>1. ASSUME NEW i \in Nat
        PROVE  f[i] = IF i = 0 THEN 1 ELSE 2 * f[i - 1]
    <3>1. CASE i # 0
      <4>1. i - 1 \in Nat /\ i = (i - 1) + 1
        BY <3>1
      <4>2. QED
        BY <1>1, <3>1, <4>1
    <3>2. QED
      BY <1>1, <3>1
  <2>2. QED
    BY <2>1
<1>3. Power = Def(Power)
  <2>1. Power = CHOOSE g : g = Def(g)
    BY DEF Power
  <2> HIDE DEF Def
  <2>2. QED
    BY <1>2, <2>1
<1>4. \A i \in Nat : Power[i] = IF i = 0 THEN 1 ELSE 2 * Power[i - 1]
  BY <1>3
<1>5. \A i \in Nat : Power[i + 1] = 2 * Power[i]
  <2>1. ASSUME NEW i \in Nat
        PROVE  i + 1 \in Nat /\ i + 1 # 0 /\ (i + 1) - 1 = i
    OBVIOUS
  <2>2. QED
    BY <1>4, <2>1
<1>6. \A i \in Nat : Power[i] \in Nat
  <2> DEFINE good == {i \in Nat : Power[i] \in Nat}
  <2>1. 0 \in good
    BY <1>4
  <2>2. \A i \in good : i + 1 \in good
    BY <1>5
  <2>3. good = Nat
    <3>1. good \subseteq Nat
      OBVIOUS
    <3> HIDE DEF good
    <3>2. QED
      BY <2>1, <2>2, <3>1, InductionOverNat
  <2>4. QED
    BY <2>3
<1>7. DOMAIN Power = Nat /\ Power = [i \in Nat |-> Power[i]]
  BY <1>3
<1>8. QED
  BY <1>4, <1>5, <1>6, <1>7

LEMMA PowerPositive == \A i \in Nat : Power[i] \in Nat \ {0} /\ i < Power[i]
<1>1. ASSUME NEW i \in Nat
      PROVE  Power[i] \in Nat \ {0} /\ i < Power[i]
  <2> DEFINE good == {n \in Nat : Power[n] \in Nat \ {0} /\ n < Power[n]}
  <2>1. 0 \in good
    BY PowerDef
  <2>2. ASSUME NEW n \in good
        PROVE  n + 1 \in good
    BY PowerDef
  <2>3. good = Nat
    <3>1. good \subseteq Nat
      OBVIOUS
    <3> HIDE DEF good
    <3>2. QED
      BY <2>1, <2>2, <3>1, InductionOverNat
  <2>4. QED
    BY <2>3
<1>2. QED
  BY <1>1

LEMMA PowerProduct ==
    ASSUME NEW i \in Nat, NEW k \in Nat
    PROVE  Power[i + k] = Power[k] * Power[i]
<1>1. \A n \in Nat : Power[n] \in Nat
  BY PowerDef
<1>2. Power[i + k] = Power[k] * Power[i]
  <2> DEFINE good == {n \in Nat : Power[i + n] = Power[n] * Power[i]}
  <2>1. 0 \in good
    BY PowerDef, <1>1
  <2>2. ASSUME NEW n \in good
        PROVE  n + 1 \in good
    <3>1. i + (n + 1) = (i + n) + 1 /\ i + n \in Nat
      OBVIOUS
    <3>2. Power[i + (n + 1)] = 2 * (Power[n] * Power[i])
      BY <3>1, PowerDef
    <3>3. Power[n + 1] = 2 * Power[n]
      BY PowerDef
    <3>4. Power[n] \in Nat /\ Power[i] \in Nat
      BY <1>1
    <3>5. QED
      BY <3>2, <3>3, <3>4
  <2>3. good = Nat
    <3>1. good \subseteq Nat
      OBVIOUS
    <3> HIDE DEF good
    <3>2. QED
      BY <2>1, <2>2, <3>1, InductionOverNat
  <2>4. QED
    BY <2>3
<1>3. QED
  BY <1>2

\* Powers of two increase.
LEMMA PowerFacts ==
    /\ \A i \in Nat : Power[i] \in Nat \ {0}
    /\ \A i, j \in Nat : i < j => 2 * Power[i] <= Power[j]
    /\ \A i, j \in Nat : Power[i] <= Power[j] <=> i <= j
<1>3. ASSUME NEW i \in Nat, NEW j \in Nat, i < j
      PROVE  2 * Power[i] <= Power[j]
  <2>1. PICK k \in Nat : j = i + (k + 1)
    <3>1. (j - i) - 1 \in Nat /\ j = i + (((j - i) - 1) + 1)
      BY <1>3
    <3>2. QED
      BY <3>1
  <2>2. Power[j] = (2 * Power[k]) * Power[i]
    BY <2>1, PowerDef, PowerProduct
  <2>3. PICK p \in Nat \ {0}, q \in Nat \ {0} : p = Power[k] /\ q = Power[i]
    BY PowerPositive
  <2>4. 2 * q <= (2 * p) * q
    OBVIOUS
  <2>5. QED
    BY <2>2, <2>3, <2>4
<1>4. ASSUME NEW i \in Nat, NEW j \in Nat
      PROVE  Power[i] <= Power[j] <=> i <= j
  BY <1>3, PowerPositive
<1>5. QED
  BY <1>3, <1>4, PowerPositive

LEMMA PowerDivides ==
    ASSUME NEW i \in Nat, NEW j \in Nat, i <= j
    PROVE  Power[j] % Power[i] = 0
<1>1. PICK k \in Nat : j = i + k
  <2>1. j - i \in Nat /\ j = i + (j - i)
    OBVIOUS
  <2>2. QED
    BY <2>1
<1>2. Power[j] = Power[k] * Power[i] /\ Power[k] \in Nat /\ Power[i] \in Nat \ {0}
  BY <1>1, PowerPositive, PowerProduct
<1>3. QED
  BY <1>2, MultipleDivides

\* What the recursive definition in ValuesBelow says
LEMMA ValuesBelowDef ==
    ASSUME NEW x
    PROVE  /\ ValuesBelow(x) \in [Nat -> Nat]
           /\ ValuesBelow(x)[0] = 0
           /\ \A k \in Nat : ValuesBelow(x)[k + 1]
                                = ValuesBelow(x)[k] + (IF k \in x THEN Power[k] ELSE 0)
<1> DEFINE bit(k) == IF k \in x THEN Power[k] ELSE 0
           Def(f) == [k \in Nat |-> IF k = 0 THEN 0 ELSE f[k - 1] + bit(k - 1)]
           sum == ValuesBelow(x)
<1>1. \A k \in Nat : bit(k) \in Nat
  BY PowerDef
<1>2. PICK f \in [Nat -> Nat] : f[0] = 0 /\ \A n \in Nat : f[n + 1] = f[n] + bit(n)
  <2> HIDE DEF bit
  <2> DEFINE step == [n \in Nat |-> [k \in Nat |-> k + bit(n)]]
  <2>1. StepOn(Nat, step)
    BY <1>1 DEF StepOn
  <2>2. \A n, k \in Nat : step[n][k] = k + bit(n)
    OBVIOUS
  <2> HIDE DEF step
  <2>3. PICK f : Defines(Nat, 0, step, f)
    BY <2>1, RecursionExists
  <2>4. f \in [Nat -> Nat] /\ f[0] = 0 /\ \A n \in Nat : f[n + 1] = step[n][f[n]]
    BY <2>3 DEF Defines
  <2>5. \A n \in Nat : f[n + 1] = f[n] + bit(n)
    BY <2>2, <2>4
  <2>6. QED
    BY <2>4, <2>5
<1>3. f = Def(f)
  <2> HIDE DEF bit
  <2>1. ASSUME NEW k \in Nat
        PROVE  f[k] = IF k = 0 THEN 0 ELSE f[k - 1] + bit(k - 1)
    <3>1. CASE k # 0
      <4>1. k - 1 \in Nat /\ k = (k - 1) + 1
        BY <3>1
      <4>2. QED
        BY <1>2, <3>1, <4>1
    <3>2. QED
      BY <1>2, <3>1
  <2>2. QED
    BY <2>1
<1>4. sum = Def(sum)
  <2>1. sum = CHOOSE g : g = Def(g)
    BY DEF ValuesBelow
  <2> HIDE DEF Def, sum
  <2>2. QED
    BY <1>3, <2>1
<1> HIDE DEF bit, sum
<1>5. \A k \in Nat : sum[k] = IF k = 0 THEN 0 ELSE sum[k - 1] + bit(k - 1)
  BY <1>4
<1>6. \A k \in Nat : sum[k + 1] = sum[k] + bit(k)
  <2>1. ASSUME NEW k \in Nat
        PROVE  k + 1 \in Nat /\ k + 1 # 0 /\ (k + 1) - 1 = k
    OBVIOUS
  <2>2. QED
    BY <1>5, <2>1
<1>7. \A k \in Nat : sum[k] \in Nat
  <2> DEFINE good == {k \in Nat : sum[k] \in Nat}
  <2>1. 0 \in good
    BY <1>5
  <2>2. \A k \in good : k + 1 \in good
    BY <1>1, <1>6
  <2>3. good = Nat
    <3>1. good \subseteq Nat
      OBVIOUS
    <3> HIDE DEF good
    <3>2. QED
      BY <2>1, <2>2, <3>1, InductionOverNat
  <2>4. QED
    BY <2>3
<1>8. sum = [k \in Nat |-> sum[k]]
  BY <1>4
<1>9. sum \in [Nat -> Nat]
  BY <1>7, <1>8
<1>10. sum[0] = 0
  BY <1>5
<1>11. QED
  BY <1>6, <1>9, <1>10 DEF bit, sum

\* A bit is worth more than all below it, and at most what all up to it are worth.
LEMMA ValuesBelowFacts ==
    ASSUME NEW x
    PROVE  /\ \A k \in Nat : ValuesBelow(x)[k] \in Nat /\ ValuesBelow(x)[k] < Power[k]
           /\ \A j, k \in Nat : j \in x /\ j < k => Power[j] <= ValuesBelow(x)[k]
           /\ \A j, k \in Nat : j <= k /\ (\A i \in x : ~(j <= i /\ i < k)) =>
                 ValuesBelow(x)[k] = ValuesBelow(x)[j]
           /\ \A k \in Nat : (\A i \in Nat : i < k => i \in x) =>
                 ValuesBelow(x)[k] = Power[k] - 1
<1> DEFINE sum == ValuesBelow(x)
<1>1. /\ \A k \in Nat : sum[k] \in Nat
      /\ sum[0] = 0
      /\ \A k \in Nat : sum[k + 1] = sum[k] + (IF k \in x THEN Power[k] ELSE 0)
  BY ValuesBelowDef
<1>2. \A k \in Nat : Power[k] \in Nat \ {0}
  BY PowerFacts
<1> HIDE DEF sum
<1>3. \A k \in Nat : sum[k] < Power[k]
  <2> DEFINE good == {k \in Nat : sum[k] < Power[k]}
  <2>1. 0 \in good
    BY <1>1, <1>2
  <2>2. \A k \in good : k + 1 \in good
    BY <1>1, <1>2, PowerDef
  <2>3. good = Nat
    <3>1. good \subseteq Nat
      OBVIOUS
    <3> HIDE DEF good
    <3>2. QED
      BY <2>1, <2>2, <3>1, InductionOverNat
  <2>4. QED
    BY <2>3
<1>4. ASSUME NEW j \in Nat, NEW k \in Nat, j \in x, j < k
      PROVE  Power[j] <= sum[k]
  <2> DEFINE good == {n \in Nat : j < n => Power[j] <= sum[n]}
  <2>1. 0 \in good
    OBVIOUS
  <2>2. ASSUME NEW n \in good
        PROVE  n + 1 \in good
    <3>1. n \in Nat /\ sum[n + 1] = sum[n] + (IF n \in x THEN Power[n] ELSE 0)
      BY <1>1
    <3>2. CASE n = j
      BY <1>1, <1>2, <1>4, <3>1, <3>2
    <3>3. CASE n # j
      BY <1>1, <1>2, <3>1, <3>3
    <3>4. QED
      BY <3>2, <3>3
  <2>3. good = Nat
    <3>1. good \subseteq Nat
      OBVIOUS
    <3> HIDE DEF good
    <3>2. QED
      BY <2>1, <2>2, <3>1, InductionOverNat
  <2>4. QED
    BY <1>4, <2>3
<1>5. ASSUME NEW j \in Nat, NEW k \in Nat, j <= k, \A i \in x : ~(j <= i /\ i < k)
      PROVE  sum[k] = sum[j]
  <2> DEFINE good == {n \in Nat : j <= n /\ n <= k => sum[n] = sum[j]}
  <2>1. 0 \in good
    OBVIOUS
  <2>2. ASSUME NEW n \in good
        PROVE  n + 1 \in good
    <3>1. SUFFICES ASSUME j <= n + 1, n + 1 <= k
                   PROVE  sum[n + 1] = sum[j]
      OBVIOUS
    <3>2. n \in Nat /\ sum[n + 1] = sum[n] + (IF n \in x THEN Power[n] ELSE 0)
      BY <1>1
    <3>3. CASE n + 1 = j
      BY <3>3
    <3>4. CASE j <= n
      <4>1. n \notin x /\ sum[n] = sum[j]
        BY <1>5, <3>1, <3>2, <3>4
      <4>2. QED
        BY <1>1, <3>2, <4>1
    <3>5. QED
      BY <3>1, <3>2, <3>3, <3>4
  <2>3. good = Nat
    <3>1. good \subseteq Nat
      OBVIOUS
    <3> HIDE DEF good
    <3>2. QED
      BY <2>1, <2>2, <3>1, InductionOverNat
  <2>4. QED
    BY <1>5, <2>3
<1>6. ASSUME NEW k \in Nat, \A i \in Nat : i < k => i \in x
      PROVE  sum[k] = Power[k] - 1
  <2> DEFINE good == {n \in Nat : n <= k => sum[n] = Power[n] - 1}
  <2>1. 0 \in good
    BY <1>1, PowerDef
  <2>2. ASSUME NEW n \in good
        PROVE  n + 1 \in good
    <3>1. SUFFICES ASSUME n + 1 <= k
                   PROVE  sum[n + 1] = Power[n + 1] - 1
      OBVIOUS
    <3>2. n \in Nat /\ n \in x /\ sum[n] = Power[n] - 1
      BY <1>6, <3>1
    <3>3. sum[n + 1] = sum[n] + Power[n] /\ Power[n + 1] = 2 * Power[n]
      BY <1>1, <3>2, PowerDef
    <3>4. QED
      BY <1>2, <3>2, <3>3
  <2>3. good = Nat
    <3>1. good \subseteq Nat
      OBVIOUS
    <3> HIDE DEF good
    <3>2. QED
      BY <2>1, <2>2, <3>1, InductionOverNat
  <2>4. QED
    BY <1>6, <2>3
<1>7. QED
  BY <1>1, <1>3, <1>4, <1>5, <1>6 DEF sum

\* Whatever is worth at least as much has a bit as high.
LEMMA ValueCompares ==
    ASSUME NEW x \in SUBSET (0 .. Width - 1), NEW y, ValueOf(x) >= ValueOf(y),
           NEW j \in y, j \in 0 .. Width - 1
    PROVE  \E i \in x : j <= i
<1>1. SUFFICES ASSUME \A i \in x : ~(j <= i)
               PROVE  FALSE
  OBVIOUS
<1>2. j \in Nat /\ Width \in Nat /\ j < Width
  BY WidthAssumption
<1>3. Power[j] <= ValueOf(y) /\ ValueOf(y) \in Nat
  BY <1>2, ValuesBelowFacts DEF ValueOf
<1>4. \A i \in x : ~(j <= i /\ i < Width)
  BY <1>1
<1>5. ValueOf(x) = ValuesBelow(x)[j]
  <2>1. j <= Width
    BY <1>2
  <2>2. ValuesBelow(x)[Width] = ValuesBelow(x)[j]
    BY <1>2, <1>4, <2>1, ValuesBelowFacts
  <2>3. QED
    BY <2>2 DEF ValueOf
<1>6. ValuesBelow(x)[j] < Power[j] /\ ValuesBelow(x)[j] \in Nat
  BY <1>2, ValuesBelowFacts
<1>7. Power[j] \in Nat
  BY <1>2, PowerDef
<1>8. QED
  BY <1>3, <1>5, <1>6, <1>7

\* m is the highest bit of x, and the w bits from there downwards are set.
FilledFrom(x, m, w) ==
    /\ \A i \in x : i \in Nat /\ i <= m
    /\ \A i \in Nat : m - w < i /\ i <= m => i \in x

LEMMA SmearedFacts ==
    ASSUME NEW x, NEW m \in Nat, NEW w \in Nat, NEW k \in Nat, k <= w, FilledFrom(x, m, w),
           NEW v, v = w + k
    PROVE  FilledFrom(Smeared(x, k), m, v)
<1>1. ASSUME NEW i \in Smeared(x, k)
      PROVE  i \in Nat /\ i <= m
  BY <1>1 DEF Smeared, FilledFrom
<1>2. ASSUME NEW i \in Nat, m - v < i, i <= m
      PROVE  i \in Smeared(x, k)
  <2>1. CASE m - w < i
    BY <1>2, <2>1 DEF Smeared, FilledFrom
  <2>2. CASE i <= m - w
    <3>1. i + k \in Nat /\ m - w < i + k /\ i + k <= m /\ i + k >= k /\ i = (i + k) - k
      BY <1>2, <2>2
    <3>2. i + k \in x
      BY <3>1 DEF FilledFrom
    <3>3. QED
      BY <3>1, <3>2 DEF Smeared
  <2>3. QED
    BY <2>1, <2>2
<1>3. QED
  BY <1>1, <1>2 DEF FilledFrom

\* What std::max(1, floor_2p(x)) returns
LEMMA HighestBit ==
    ASSUME NEW x \in SUBSET (0 .. Width - 1), NEW m \in x, \A i \in x : i <= m, m < Width - 1
    PROVE  AtLeastOne(floor_2p(x)) = Power[m]
<1>1. m \in Nat /\ Width \in Nat /\ Width <= 64 /\ m + 1 < Width
  BY WidthAssumption
<1> DEFINE x2 == Smeared(x, 1)
           x4 == Smeared(x2, 2)
           x8 == Smeared(x4, 4)
           x16 == Smeared(x8, 8)
           x32 == Smeared(x16, 16)
           x64 == Smeared(x32, 32)
<1>2. FilledFrom(x, m, 1)
  BY <1>1 DEF FilledFrom
<1> HIDE DEF x2, x4, x8, x16, x32, x64
<1>3. FilledFrom(x2, m, 2)
  <2>1. 1 \in Nat /\ 1 <= 1 /\ 2 = 1 + 1
    OBVIOUS
  <2>2. QED
    BY <1>1, <1>2, <2>1, SmearedFacts DEF x2
<1>4. FilledFrom(x4, m, 4)
  <2>1. 2 \in Nat /\ 2 <= 2 /\ 4 = 2 + 2
    OBVIOUS
  <2>2. QED
    BY <1>1, <1>3, <2>1, SmearedFacts DEF x4
<1>5. FilledFrom(x8, m, 8)
  <2>1. 4 \in Nat /\ 4 <= 4 /\ 8 = 4 + 4
    OBVIOUS
  <2>2. QED
    BY <1>1, <1>4, <2>1, SmearedFacts DEF x8
<1>6. FilledFrom(x16, m, 16)
  <2>1. 8 \in Nat /\ 8 <= 8 /\ 16 = 8 + 8
    OBVIOUS
  <2>2. QED
    BY <1>1, <1>5, <2>1, SmearedFacts DEF x16
<1>7. FilledFrom(x32, m, 32)
  <2>1. 16 \in Nat /\ 16 <= 16 /\ 32 = 16 + 16
    OBVIOUS
  <2>2. QED
    BY <1>1, <1>6, <2>1, SmearedFacts DEF x32
<1>8. FilledFrom(x64, m, 64)
  <2>1. 32 \in Nat /\ 32 <= 32 /\ 64 = 32 + 32
    OBVIOUS
  <2>2. QED
    BY <1>1, <1>7, <2>1, SmearedFacts DEF x64
<1>9. /\ \A i \in Nat : i < m + 1 => i \in x64
      /\ \A i \in x64 : ~(m + 1 <= i /\ i < Width)
  BY <1>1, <1>8 DEF FilledFrom
<1>10. ValueOf(x64) = Power[m + 1] - 1
  <2>1. m + 1 \in Nat /\ m + 1 <= Width
    BY <1>1
  <2>2. ValuesBelow(x64)[Width] = ValuesBelow(x64)[m + 1]
    BY <1>1, <1>9, <2>1, ValuesBelowFacts
  <2>3. ValuesBelow(x64)[m + 1] = Power[m + 1] - 1
    BY <1>9, <2>1, ValuesBelowFacts
  <2>4. QED
    BY <2>2, <2>3 DEF ValueOf
<1>11. /\ Power[m + 1] = 2 * Power[m] /\ Power[m] \in Nat \ {0}
       /\ Power[m + 1] \in Nat /\ Power[Width] \in Nat /\ 2 * Power[m + 1] <= Power[Width]
  <2>1. m + 1 \in Nat
    BY <1>1
  <2>2. QED
    BY <1>1, <2>1, PowerDef, PowerFacts
<1>12. Wrapped(ValueOf(x64) + 1) = Power[m + 1]
  <2>1. Power[m + 1] \in Sizes
    BY <1>11, WidthAssumption DEF Sizes
  <2>2. ValueOf(x64) + 1 = Power[m + 1]
    BY <1>10, <1>11
  <2>3. QED
    BY <2>1, <2>2, WrappedFacts
<1>13. floor_2p(x) = Power[m + 1] \div 2
  BY <1>12 DEF floor_2p, x2, x4, x8, x16, x32, x64
<1>14. floor_2p(x) = Power[m]
  BY <1>11, <1>13
<1>15. QED
  BY <1>11, <1>14 DEF AtLeastOne

LEMMA NoBit == AtLeastOne(floor_2p({})) = 1
<1>1. Smeared({}, 1) = {} /\ Smeared({}, 2) = {} /\ Smeared({}, 4) = {}
      /\ Smeared({}, 8) = {} /\ Smeared({}, 16) = {} /\ Smeared({}, 32) = {}
  BY DEF Smeared
<1>2. ValueOf({}) = 0
  <2>1. Width \in Nat /\ 0 \in Nat /\ 0 <= Width
    BY WidthAssumption
  <2>2. ValuesBelow({})[Width] = ValuesBelow({})[0]
    BY <2>1, ValuesBelowFacts
  <2>3. QED
    BY <2>2, ValuesBelowDef DEF ValueOf
<1>3. floor_2p({}) = Wrapped(0 + 1) \div 2
  BY <1>1, <1>2 DEF floor_2p
<1>4. Wrapped(0 + 1) = 1
  <2>1. 1 \in Sizes
    BY MaxSizeAssumption DEF Sizes
  <2>2. QED
    BY <2>1, WrappedFacts
<1>5. QED
  BY <1>3, <1>4 DEF AtLeastOne

\* A set of bits that is not empty has a highest one.
LEMMA HighestExists ==
    ASSUME NEW x \in SUBSET (0 .. Width - 1), x # {}
    PROVE  \E m \in x : \A i \in x : i <= m
<1> DEFINE up == {Width - 1 - i : i \in x}
<1>1. up \subseteq Nat /\ up # {} /\ Width \in Nat
  <2>1. Width \in Nat
    BY WidthAssumption
  <2>2. ASSUME NEW i \in x
        PROVE  Width - 1 - i \in Nat
    BY <2>1
  <2>3. QED
    BY <2>1, <2>2
<1>2. PICK n \in up : \A k \in up : n <= k
  BY <1>1, LeastNat
<1>3. PICK m \in x : n = Width - 1 - m
  BY <1>2
<1>4. ASSUME NEW i \in x
      PROVE  i <= m
  <2>1. n <= Width - 1 - i
    BY <1>2
  <2>2. i \in Nat /\ m \in Nat
    BY <1>1
  <2>3. QED
    BY <1>1, <1>3, <2>1, <2>2
<1>5. QED
  BY <1>4

\* A power of two is one bit.
LEMMA BitsOfPower ==
    ASSUME NEW k \in 0 .. Width - 1
    PROVE  BitsOf(Power[k]) = {k}
<1>1. k \in Nat /\ Width \in Nat
  BY WidthAssumption
<1>2. ASSUME NEW i \in 0 .. Width - 1
      PROVE  (Power[k] \div Power[i]) % 2 = 1 <=> i = k
  <2>1. i \in Nat
    BY <1>1
  <2>2. PICK p \in Nat \ {0}, q \in Nat \ {0} : p = Power[k] /\ q = Power[i]
    BY <1>1, <2>1, PowerFacts
  <2>3. CASE i = k
    <3>1. (1 * p + 0) \div p = 1
      BY DivUnique
    <3>2. p \div p = 1
      BY <3>1
    <3>3. QED
      BY <2>2, <2>3, <3>2
  <2>4. CASE k < i
    <3>1. p < q
      BY <1>1, <2>1, <2>2, <2>4, PowerFacts
    <3>2. (0 * q + p) \div q = 0
      BY <3>1, DivUnique
    <3>3. p \div q = 0
      BY <3>2
    <3>4. QED
      BY <2>2, <2>4, <3>3, <1>1, <2>1
  <2>5. CASE i < k
    <3>1. PICK n \in Nat : k = i + (n + 1)
      <4>1. (k - i) - 1 \in Nat /\ k = i + (((k - i) - 1) + 1)
        BY <1>1, <2>1, <2>5
      <4>2. QED
        BY <4>1
    <3>2. PICK e \in Nat : e = Power[n]
      BY PowerDef
    <3>3. p = (2 * e) * q
      BY <2>1, <2>2, <3>1, <3>2, PowerDef, PowerProduct
    <3>4. ((2 * e) * q + 0) \div q = 2 * e
      BY DivUnique
    <3>5. p \div q = 2 * e
      BY <3>3, <3>4
    <3>6. (2 * e) % 2 = 0
      OBVIOUS
    <3>7. QED
      BY <2>2, <2>5, <3>5, <3>6, <1>1, <2>1
  <2>6. QED
    BY <1>1, <2>1, <2>3, <2>4, <2>5
<1>3. QED
  BY <1>2 DEF BitsOf

-----------------------------------------------------------------------------
(* Alignments                                                                *)

LEMMA WidthFacts ==
    /\ Width \in Nat /\ 4 <= Width /\ 0 \in 0 .. Width - 4
    /\ special_alignments = {Width - 3, Width - 2, Width - 1}
    /\ (0 .. Width - 1) \ special_alignments = 0 .. Width - 4
    /\ 0 .. Width - 4 \subseteq 0 .. Width - 1
<1>1. Width \in Nat /\ 4 <= Width
  BY WidthAssumption
<1>2. special_alignments = {Width - 3, Width - 2, Width - 1}
  BY <1>1 DEF special_alignments
<1>3. QED
  BY <1>1, <1>2

LEMMA AlignofFacts ==
    /\ \A k \in 0 .. Width - 4 : Power[k] \in Alignof
    /\ \A p \in Alignof : \E k \in 0 .. Width - 4 : p = Power[k] /\ BitsOf(p) = {k}
    /\ \A p \in Alignof : p \in Nat \ {0} /\ p <= Power[Width - 4]
    /\ 1 \in Alignof
<1>1. \A k \in 0 .. Width - 4 : Power[k] \in Alignof
  BY DEF Alignof
<1>2. ASSUME NEW p \in Alignof
      PROVE  \E k \in 0 .. Width - 4 : p = Power[k] /\ BitsOf(p) = {k}
  <2>1. PICK k \in 0 .. Width - 4 : p = Power[k]
    BY DEF Alignof
  <2>2. BitsOf(Power[k]) = {k}
    BY BitsOfPower, WidthFacts
  <2>3. QED
    BY <2>1, <2>2
<1>3. ASSUME NEW p \in Alignof
      PROVE  p \in Nat \ {0} /\ p <= Power[Width - 4]
  <2>1. PICK k \in 0 .. Width - 4 : p = Power[k]
    BY DEF Alignof
  <2>2. k \in Nat /\ Width - 4 \in Nat /\ k <= Width - 4
    BY WidthFacts
  <2>3. QED
    BY <2>1, <2>2, PowerFacts
<1>4. 1 \in Alignof
  BY <1>1, WidthFacts, PowerDef
<1>5. QED
  BY <1>1, <1>2, <1>3, <1>4

\* Of two alignments the smaller one divides the larger one.
LEMMA AlignofDivides ==
    ASSUME NEW p \in Alignof, NEW q \in Alignof, p <= q
    PROVE  q % p = 0
<1>1. PICK i \in 0 .. Width - 4, j \in 0 .. Width - 4 : p = Power[i] /\ q = Power[j]
  BY AlignofFacts
<1>2. i \in Nat /\ j \in Nat
  BY WidthFacts
<1>3. i <= j
  BY <1>1, <1>2, PowerFacts
<1>4. QED
  BY <1>1, <1>2, <1>3, PowerDivides

\* A multiple that is not zero is not smaller.
LEMMA MultipleNotSmaller ==
    ASSUME NEW p \in Nat \ {0}, NEW q \in Nat \ {0}, q % p = 0
    PROVE  p <= q
<1>1. PICK d \in Nat : q = d * p
  <2>1. q \div p \in Nat /\ q = (q \div p) * p + (q % p)
    BY DivMod
  <2>2. QED
    BY <2>1
<1>2. d >= 1
  BY <1>1
<1>3. 1 * p <= d * p
  BY <1>2, ProductMonotonic
<1>4. QED
  BY <1>1, <1>3

\* The value of the highest bit of x, if it has one
LEMMA HighestFacts ==
    ASSUME NEW x \in SUBSET (0 .. Width - 4)
    PROVE  /\ AtLeastOne(floor_2p(x)) \in Alignof
           /\ \A j \in x : Power[j] <= AtLeastOne(floor_2p(x))
           /\ \/ AtLeastOne(floor_2p(x)) = 1
              \/ \E m \in x : AtLeastOne(floor_2p(x)) = Power[m]
<1>1. CASE x = {}
  BY <1>1, NoBit, AlignofFacts
<1>2. CASE x # {}
  <2>1. x \in SUBSET (0 .. Width - 1)
    BY WidthFacts
  <2>2. PICK m \in x : \A i \in x : i <= m
    BY <1>2, <2>1, HighestExists
  <2>3. m < Width - 1
    BY WidthFacts
  <2>4. AtLeastOne(floor_2p(x)) = Power[m]
    BY <2>1, <2>2, <2>3, HighestBit
  <2>5. ASSUME NEW j \in x
        PROVE  Power[j] <= Power[m]
    <3>1. j \in Nat /\ m \in Nat /\ j <= m
      BY <2>2, WidthFacts
    <3>2. QED
      BY <3>1, PowerFacts
  <2>6. Power[m] \in Alignof
    BY AlignofFacts
  <2>7. QED
    BY <2>4, <2>5, <2>6
<1>3. QED
  BY <1>1, <1>2

LEMMA BitsOfABit ==
    ASSUME NEW n
    PROVE  BitsOf(n) \subseteq 0 .. Width - 1
BY DEF BitsOf

LEMMA LookupFacts ==
    ASSUME NEW m, NEW x \in SUBSET (0 .. Width - 1)
    PROVE  /\ lookup_special_alignments(m, x) \in SUBSET (0 .. Width - 4)
           /\ alignment_in_bytes(m, x) \in Alignof
<1>1. lookup_special_alignments(m, x) \subseteq (0 .. Width - 1) \ special_alignments
  BY BitsOfABit DEF lookup_special_alignments
<1>2. lookup_special_alignments(m, x) \in SUBSET (0 .. Width - 4)
  BY <1>1, WidthFacts
<1>3. QED
  BY <1>2, HighestFacts DEF alignment_in_bytes

\* The bits that a machine provides for the special ones, each at least as high as the next
LEMMA MachineFacts ==
    ASSUME NEW m \in Machines
    PROVE  \E l \in 0 .. Width - 4, g \in 0 .. Width - 4, f \in 0 .. Width - 4 :
              /\ BitsOf(m.line) = {l} /\ BitsOf(m.page) = {g} /\ BitsOf(Interference) = {f}
              /\ f <= l /\ l <= g
<1>1. /\ m.line \in Alignof /\ m.page \in Alignof /\ Interference \in Alignof
      /\ m.line % Interference = 0 /\ m.page % m.line = 0
  BY MachineAssumption, AlignAssumption
<1>2. PICK l \in 0 .. Width - 4 : m.line = Power[l] /\ BitsOf(m.line) = {l}
  BY <1>1, AlignofFacts
<1>3. PICK g \in 0 .. Width - 4 : m.page = Power[g] /\ BitsOf(m.page) = {g}
  BY <1>1, AlignofFacts
<1>4. PICK f \in 0 .. Width - 4 : Interference = Power[f] /\ BitsOf(Interference) = {f}
  BY <1>1, AlignofFacts
<1>5. m.line \in Nat \ {0} /\ m.page \in Nat \ {0} /\ Interference \in Nat \ {0}
  BY <1>1, AlignofFacts
<1>6. Interference <= m.line /\ m.line <= m.page
  BY <1>1, <1>5, MultipleNotSmaller
<1>7. l \in Nat /\ g \in Nat /\ f \in Nat
  OBVIOUS
<1>8. f <= l /\ l <= g
  BY <1>2, <1>3, <1>4, <1>6, <1>7, PowerFacts
<1>9. QED
  BY <1>2, <1>3, <1>4, <1>8

\* Where a bit of the result of lookup_special_alignments comes from
LEMMA LookupBits ==
    ASSUME NEW m, NEW x \in SUBSET (0 .. Width - 1), NEW j
    PROVE  j \in lookup_special_alignments(m, x) <=>
               /\ j \notin special_alignments
               /\ \/ j \in x
                  \/ Width - 1 \in x /\ j \in BitsOf(m.large)
                  \/ (Width - 1 \in x \/ Width - 2 \in x) /\ j \in BitsOf(m.page)
                  \/ Width - 3 \in x /\ j \in BitsOf(m.line)
<1>1. /\ large_page_alignment \subseteq x <=> Width - 1 \in x
      /\ cache_line_alignment \subseteq x <=> Width - 3 \in x
  BY DEF large_page_alignment, cache_line_alignment
<1>2. (large_page_alignment \cup page_alignment) \cap x # {}
          <=> Width - 1 \in x \/ Width - 2 \in x
  BY DEF large_page_alignment, page_alignment
<1>3. QED
  BY <1>1, <1>2 DEF lookup_special_alignments

\* Whatever is promised statically holds on every machine.
LEMMA StaticIsDynamic ==
    ASSUME NEW m \in Machines, NEW p \in SUBSET (0 .. Width - 1),
           NEW r \in SUBSET (0 .. Width - 1), provides_static_alignment(p, r)
    PROVE  alignment_in_bytes(m, r) <= alignment_in_bytes(m, p)
<1> DEFINE Lp == lookup_special_alignments(m, p)
           Lr == lookup_special_alignments(m, r)
           Bp == BasicProvided(p)
           Br == r \ special_alignments
           Bytes_(x) == AtLeastOne(floor_2p(x))
<1>1. PICK l \in 0 .. Width - 4, g \in 0 .. Width - 4, f \in 0 .. Width - 4 :
              /\ BitsOf(m.line) = {l} /\ BitsOf(m.page) = {g} /\ BitsOf(Interference) = {f}
              /\ f <= l /\ l <= g
  BY MachineFacts
<1>2. /\ Lp \in SUBSET (0 .. Width - 4) /\ Lr \in SUBSET (0 .. Width - 4)
      /\ alignment_in_bytes(m, p) = Bytes_(Lp) /\ alignment_in_bytes(m, r) = Bytes_(Lr)
  BY LookupFacts DEF alignment_in_bytes
<1>3. Bp \in SUBSET (0 .. Width - 4) /\ Br \in SUBSET (0 .. Width - 4)
  BY <1>1, WidthFacts DEF BasicProvided
<1>4. /\ Bytes_(Bp) >= Bytes_(Br)
      /\ ValueOf(p \cap special_alignments) >= ValueOf(r \cap special_alignments)
  BY DEF provides_static_alignment, raw_alignment_in_bytes
<1> HIDE DEF Lp, Lr, Bp, Br, Bytes_
<1>5. \A x \in SUBSET (0 .. Width - 4) :
          /\ Bytes_(x) \in Nat \ {0}
          /\ \A j \in x : Power[j] <= Bytes_(x)
          /\ Bytes_(x) = 1 \/ \E k \in x : Bytes_(x) = Power[k]
  BY HighestFacts, AlignofFacts DEF Bytes_
<1>6. \A i, j \in 0 .. Width - 4 : Power[i] \in Nat /\ (i <= j => Power[i] <= Power[j])
  BY WidthFacts, PowerFacts
\* Whoever provides anything special provides a cache line.
<1>7. ASSUME p \cap special_alignments # {}
      PROVE  Power[l] <= Bytes_(Lp)
  <2>1. l \in Lp \/ g \in Lp
    <3>1. l \notin special_alignments /\ g \notin special_alignments
      BY WidthFacts
    <3>2. Width - 1 \in p \/ Width - 2 \in p \/ Width - 3 \in p
      BY <1>7, WidthFacts
    <3>3. QED
      BY <1>1, <3>1, <3>2, LookupBits DEF Lp
  <2>2. QED
    BY <1>1, <1>2, <1>5, <1>6, <2>1
<1>8. Bytes_(Bp) <= Bytes_(Lp)
  <2>1. CASE Bytes_(Bp) = 1
    BY <1>2, <1>5, <2>1
  <2>2. ASSUME NEW k \in Bp, Bytes_(Bp) = Power[k]
        PROVE  Bytes_(Bp) <= Bytes_(Lp)
    <3>1. CASE k \in p \ special_alignments
      <4>1. k \in Lp
        BY <3>1, LookupBits DEF Lp
      <4>2. QED
        BY <1>2, <1>5, <2>2, <4>1
    <3>2. CASE p \cap special_alignments # {} /\ k = f
      <4>1. Power[f] <= Power[l] /\ Power[f] \in Nat /\ Power[l] \in Nat
        BY <1>1, <1>6
      <4>2. QED
        BY <1>2, <1>5, <1>7, <2>2, <3>2, <4>1
    <3>3. QED
      BY <1>1, <3>1, <3>2 DEF Bp, BasicProvided
  <2>3. QED
    BY <1>3, <1>5, <2>1, <2>2
\* Whatever special is requested, something as high is provided.
<1>9. ASSUME NEW j \in r \cap special_alignments
      PROVE  \E i \in p \cap special_alignments : j <= i
  <2>1. p \cap special_alignments \in SUBSET (0 .. Width - 1) /\ j \in 0 .. Width - 1
    OBVIOUS
  <2>2. QED
    BY <1>4, <2>1, ValueCompares
<1>10. ASSUME NEW k \in Lr
       PROVE  Power[k] <= Bytes_(Lp)
  <2>1. k \in 0 .. Width - 4 /\ k \notin special_alignments
    BY <1>2, WidthFacts
  <2>2. CASE k \in r
    <3>1. k \in Br
      BY <2>1, <2>2 DEF Br
    <3>2. Power[k] <= Bytes_(Br) /\ Power[k] \in Nat
      BY <1>3, <1>5, <1>6, <2>1, <3>1
    <3>3. QED
      BY <1>2, <1>3, <1>4, <1>5, <1>8, <3>2
  <2>3. CASE Width - 1 \in r /\ k \in BitsOf(m.large)
    <3>1. Width - 1 \in special_alignments
      BY WidthFacts
    <3>2. Width - 1 \in p
      <4>1. PICK i \in p \cap special_alignments : Width - 1 <= i
        BY <1>9, <2>3, <3>1
      <4>2. i = Width - 1
        BY <4>1, WidthFacts
      <4>3. QED
        BY <4>1, <4>2
    <3>3. k \in Lp
      BY <2>1, <2>3, <3>2, LookupBits DEF Lp
    <3>4. QED
      BY <1>2, <1>5, <3>3
  <2>4. CASE (Width - 1 \in r \/ Width - 2 \in r) /\ k \in BitsOf(m.page)
    <3>1. Width - 1 \in special_alignments /\ Width - 2 \in special_alignments
      BY WidthFacts
    <3>2. Width - 1 \in p \/ Width - 2 \in p
      <4>1. PICK i \in p \cap special_alignments : Width - 2 <= i
        <5>1. Width - 2 <= Width - 1 /\ \A i \in special_alignments : i \in Nat
          BY WidthFacts
        <5>2. PICK j \in r \cap special_alignments : Width - 2 <= j
          BY <2>4, <3>1, <5>1
        <5>3. PICK i \in p \cap special_alignments : j <= i
          BY <1>9
        <5>4. i \in Nat /\ j \in Nat /\ Width - 2 \in Nat
          BY <5>1, WidthFacts
        <5>5. QED
          BY <5>2, <5>3, <5>4
      <4>2. i = Width - 1 \/ i = Width - 2
        BY <4>1, WidthFacts
      <4>3. QED
        BY <4>1, <4>2
    <3>3. k \in Lp
      BY <2>1, <2>4, <3>2, LookupBits DEF Lp
    <3>4. QED
      BY <1>2, <1>5, <3>3
  <2>5. CASE Width - 3 \in r /\ k \in BitsOf(m.line)
    <3>1. Width - 3 \in special_alignments
      BY WidthFacts
    <3>2. p \cap special_alignments # {}
      BY <1>9, <2>5, <3>1
    <3>3. k = l
      BY <1>1, <2>5
    <3>4. QED
      BY <1>7, <3>2, <3>3
  <2>6. QED
    BY <2>2, <2>3, <2>4, <2>5, LookupBits DEF Lr
<1>11. Bytes_(Lr) <= Bytes_(Lp)
  BY <1>2, <1>5, <1>10
<1>12. QED
  BY <1>2, <1>11

\* The alignment for a set of bits is the highest of those for each of them.
LEMMA BitsCombine ==
    ASSUME NEW m \in Machines, NEW x \in SUBSET (0 .. Width - 1)
    PROVE  /\ \A i \in x : alignment_in_bytes(m, x) % alignment_in_bytes(m, {i}) = 0
           /\ \/ alignment_in_bytes(m, x) = 1
              \/ \E i \in x : alignment_in_bytes(m, x) = alignment_in_bytes(m, {i})
           /\ \A i \in x \ special_alignments : alignment_in_bytes(m, {i}) = Power[i]
<1> DEFINE L(y) == lookup_special_alignments(m, y)
           Bytes_(y) == AtLeastOne(floor_2p(y))
<1>1. \A y \in SUBSET (0 .. Width - 1) :
          /\ L(y) \in SUBSET (0 .. Width - 4)
          /\ alignment_in_bytes(m, y) = Bytes_(L(y)) /\ alignment_in_bytes(m, y) \in Alignof
  BY LookupFacts DEF alignment_in_bytes
<1>2. \A i \in x : {i} \in SUBSET (0 .. Width - 1)
  OBVIOUS
<1>3. \A j : j \in L(x) <=> \E i \in x : j \in L({i})
  <2>1. ASSUME NEW i \in x, NEW j
        PROVE  j \in L({i}) <=>
                   /\ j \notin special_alignments
                   /\ \/ j = i
                      \/ Width - 1 = i /\ j \in BitsOf(m.large)
                      \/ (Width - 1 = i \/ Width - 2 = i) /\ j \in BitsOf(m.page)
                      \/ Width - 3 = i /\ j \in BitsOf(m.line)
    BY <1>2, LookupBits
  <2>2. ASSUME NEW j
        PROVE  j \in L(x) <=>
                   /\ j \notin special_alignments
                   /\ \/ j \in x
                      \/ Width - 1 \in x /\ j \in BitsOf(m.large)
                      \/ (Width - 1 \in x \/ Width - 2 \in x) /\ j \in BitsOf(m.page)
                      \/ Width - 3 \in x /\ j \in BitsOf(m.line)
    BY LookupBits
  <2> HIDE DEF L
  <2>3. ASSUME NEW i \in x, NEW j, j \in L({i})
        PROVE  j \in L(x)
    BY <2>1, <2>2, <2>3
  <2>4. ASSUME NEW j, j \in L(x)
        PROVE  \E i \in x : j \in L({i})
    <3>1. CASE j \in x /\ j \notin special_alignments
      BY <2>1, <3>1
    <3>2. CASE Width - 1 \in x /\ j \in BitsOf(m.large) /\ j \notin special_alignments
      BY <2>1, <3>2
    <3>3. CASE Width - 1 \in x /\ j \in BitsOf(m.page) /\ j \notin special_alignments
      BY <2>1, <3>3
    <3>4. CASE Width - 2 \in x /\ j \in BitsOf(m.page) /\ j \notin special_alignments
      BY <2>1, <3>4
    <3>5. CASE Width - 3 \in x /\ j \in BitsOf(m.line) /\ j \notin special_alignments
      BY <2>1, <3>5
    <3>6. QED
      BY <2>2, <2>4, <3>1, <3>2, <3>3, <3>4, <3>5
  <2>5. QED
    BY <2>3, <2>4
<1> HIDE DEF L, Bytes_
<1>4. \A y \in SUBSET (0 .. Width - 4) :
          /\ Bytes_(y) \in Nat \ {0}
          /\ \A j \in y : Power[j] <= Bytes_(y)
          /\ Bytes_(y) = 1 \/ \E k \in y : Bytes_(y) = Power[k]
  BY HighestFacts, AlignofFacts DEF Bytes_
<1>5. ASSUME NEW i \in x
      PROVE  Bytes_(L({i})) <= Bytes_(L(x))
  <2>1. CASE Bytes_(L({i})) = 1
    BY <1>1, <1>4, <2>1
  <2>2. ASSUME NEW k \in L({i}), Bytes_(L({i})) = Power[k]
        PROVE  Bytes_(L({i})) <= Bytes_(L(x))
    BY <1>1, <1>3, <1>4, <2>2
  <2>3. QED
    BY <1>1, <1>2, <1>4, <2>1, <2>2
<1>6. ASSUME NEW i \in x
      PROVE  alignment_in_bytes(m, x) % alignment_in_bytes(m, {i}) = 0
  BY <1>1, <1>2, <1>5, AlignofDivides
<1>7. \/ alignment_in_bytes(m, x) = 1
      \/ \E i \in x : alignment_in_bytes(m, x) = alignment_in_bytes(m, {i})
  <2>1. ASSUME NEW k \in L(x), Bytes_(L(x)) = Power[k]
        PROVE  \E i \in x : Bytes_(L(x)) = Bytes_(L({i}))
    <3>1. PICK i \in x : k \in L({i})
      BY <1>3
    <3>2. Power[k] <= Bytes_(L({i})) /\ Bytes_(L({i})) \in Nat
      BY <1>1, <1>2, <1>4, <3>1
    <3>3. Bytes_(L(x)) \in Nat
      BY <1>1, <1>4
    <3>4. Bytes_(L({i})) <= Bytes_(L(x)) /\ Bytes_(L(x)) <= Bytes_(L({i}))
      BY <1>5, <2>1, <3>2
    <3>5. QED
      BY <3>2, <3>3, <3>4
  <2>2. QED
    BY <1>1, <1>2, <1>4, <2>1
<1>8. ASSUME NEW i \in x \ special_alignments
      PROVE  alignment_in_bytes(m, {i}) = Power[i]
  <2>1. i \in 0 .. Width - 4 /\ i # Width - 1 /\ i # Width - 2 /\ i # Width - 3
    BY WidthFacts
  <2>2. L({i}) = {i}
    <3>1. \A j : j \in L({i}) <=> j = i
      BY <1>2, <2>1, LookupBits DEF L
    <3>2. QED
      BY <3>1
  <2>3. PICK p \in Nat : p = Power[i]
    BY <2>1, WidthFacts, PowerDef
  <2>4. p >= 1
    BY <2>1, <2>3, WidthFacts, PowerFacts
  <2>5. Bytes_({i}) = 1 \/ Bytes_({i}) = p
    BY <1>4, <2>1, <2>3
  <2>6. p <= Bytes_({i}) /\ Bytes_({i}) \in Nat
    BY <1>4, <2>1, <2>3
  <2>7. Bytes_({i}) = p
    BY <2>4, <2>5, <2>6
  <2>8. {i} \in SUBSET (0 .. Width - 1)
    BY <1>2
  <2>9. QED
    BY <1>1, <2>2, <2>3, <2>7, <2>8
<1>9. QED
  BY <1>6, <1>7, <1>8

-----------------------------------------------------------------------------
(* Sizes                                                                     *)

\* What goes with an allocation
LEMMA OverheadFacts ==
    ASSUME TypeOK
    PROVE  /\ a \in Nat \ {0} /\ PointerSize \in Nat /\ TrapSize \in Nat /\ MaxSize \in Nat
           /\ a + PointerSize + 2 * TrapSize <= MaxSize
           /\ type.size \in Nat \ {0} /\ type.size \in Sizes
<1>1. Requested \in SUBSET (0 .. Width - 1)
  BY BitsOfABit, TypesAssumption DEF TypeOK, Requested
<1>2. a \in Nat \ {0} /\ a <= Power[Width - 4]
  BY <1>1, LookupFacts, AlignofFacts DEF a
<1>3. PointerSize \in Nat /\ TrapSize \in Nat /\ MaxSize \in Nat
  BY OverheadAssumption, MaxSizeAssumption
<1>4. type.size \in Sizes \ {0}
  BY TypesAssumption DEF TypeOK
<1>5. a + PointerSize + 2 * TrapSize <= MaxSize
  <2>1. Width - 4 \in Nat /\ Width - 1 \in Nat /\ Width = (Width - 1) + 1
    BY WidthFacts
  <2>2. /\ Power[Width - 4] \in Nat /\ Power[Width - 1] \in Nat
        /\ Power[Width - 4] <= Power[Width - 1]
    BY <2>1, PowerFacts
  <2>3. MaxSize = 2 * Power[Width - 1] - 1
    BY <2>1, PowerDef, WidthAssumption
  <2>4. QED
    BY <1>2, <1>3, <2>2, <2>3, OverheadAssumption
<1>6. QED
  BY <1>2, <1>3, <1>4, <1>5 DEF Sizes

\* The data do not wrap, whatever the type.
LEMMA DataFits ==
    ASSUME TypeOK, NEW n \in Nat, n < MaxSize \div type.size
    PROVE  nbData(n) = n * type.size /\ n * type.size \in Sizes
<1>1. type.size \in Nat \ {0} /\ MaxSize \in Nat
  BY OverheadFacts
<1>2. PICK size \in Nat \ {0} : size = type.size
  BY <1>1
<1>3. PICK q \in Nat : q = MaxSize \div size /\ q * size <= MaxSize /\ q * size \in Nat
  <2>1. /\ MaxSize \div size \in Nat /\ MaxSize % size \in 0 .. size - 1
        /\ MaxSize = (MaxSize \div size) * size + (MaxSize % size)
    BY <1>1, DivMod
  <2>2. QED
    BY <1>1, <2>1
<1>4. n * size <= q * size
  BY <1>2, <1>3, ProductMonotonic
<1>5. n * size \in Sizes
  BY <1>1, <1>3, <1>4 DEF Sizes
<1>6. QED
  BY <1>2, <1>5, WrappedFacts DEF nbData

\* A sum that wraps is less than each of its parts.
LEMMA SumWraps ==
    ASSUME NEW d \in Sizes, NEW c \in Sizes, ~(Wrapped(d + c) < d)
    PROVE  Wrapped(d + c) = d + c
<1>1. MaxSize \in Nat /\ d \in Nat /\ c \in Nat /\ d <= MaxSize /\ c <= MaxSize
  BY MaxSizeAssumption DEF Sizes
<1>2. CASE d + c <= MaxSize
  <2>1. d + c \in Sizes
    BY <1>1, <1>2 DEF Sizes
  <2>2. QED
    BY <2>1, WrappedFacts
<1>3. CASE d + c > MaxSize
  <2>1. d + c - (MaxSize + 1) \in Sizes /\ d + c - (MaxSize + 1) < d
    BY <1>1, <1>3 DEF Sizes
  <2>2. Wrapped(d + c) = d + c - (MaxSize + 1)
    <3>1. PICK m \in Sizes : m = d + c - (MaxSize + 1)
      BY <2>1
    <3>2. PICK s \in Int : s = d + c
      BY <1>1
    <3>3. Wrapped(s - (MaxSize + 1)) = Wrapped(s)
      BY WrappedFacts
    <3>4. Wrapped(m) = m
      BY WrappedFacts
    <3>5. s - (MaxSize + 1) = m
      BY <1>1, <3>1, <3>2
    <3>6. QED
      BY <3>1, <3>2, <3>3, <3>4, <3>5
  <2>3. QED
    BY <1>1, <2>1, <2>2
<1>4. QED
  BY <1>1, <1>2, <1>3

\* Nor does what is allocated for them.
LEMMA AllocationFits ==
    ASSUME TypeOK, NEW n \in Nat, ~TooMany(n)
    PROVE  /\ nbData(n) = n * type.size /\ n * type.size \in Nat
           /\ NeedAlignment =>
                 Bytes(n) = n * type.size + a + PointerSize - 1 + 2 * TrapSize
           /\ ~NeedAlignment => Bytes(n) = n * type.size
<1>1. /\ a \in Nat \ {0} /\ PointerSize \in Nat /\ TrapSize \in Nat /\ MaxSize \in Nat
      /\ a + PointerSize + 2 * TrapSize <= MaxSize
      /\ type.size \in Nat \ {0}
  BY OverheadFacts
<1>2. n < MaxSize \div type.size
  <2>1. ~(n >= MaxSize \div type.size)
    BY DEF TooMany
  <2>2. MaxSize \div type.size \in Nat
    BY <1>1, DivMod
  <2>3. QED
    BY <2>1, <2>2
<1>3. nbData(n) = n * type.size /\ n * type.size \in Sizes
  BY <1>2, DataFits
<1>4. PICK d \in Sizes : d = n * type.size
  BY <1>3
<1>5. PICK c \in Sizes : c = a + PointerSize - 1 + 2 * TrapSize
  BY <1>1 DEF Sizes
<1>6. d \in Nat /\ c \in Nat
  BY <1>1 DEF Sizes
<1>7. CASE NeedAlignment
  <2>1. ~(nbAlloc(nbData(n)) < nbData(n))
    BY <1>7 DEF TooMany
  <2>2. d + a + PointerSize - 1 + 2 * TrapSize = d + c
    BY <1>1, <1>5, <1>6
  <2>3. nbAlloc(d) = Wrapped(d + c)
    BY <2>2 DEF nbAlloc
  <2>4. Wrapped(d + c) = d + c
    BY <1>3, <1>4, <2>1, <2>3, SumWraps
  <2>5. QED
    BY <1>3, <1>4, <1>6, <1>7, <2>2, <2>3, <2>4 DEF Bytes
<1>8. CASE ~NeedAlignment
  BY <1>3, <1>4, <1>6, <1>8 DEF Bytes
<1>9. QED
  BY <1>7, <1>8

-----------------------------------------------------------------------------
(* The invariant                                                             *)

\* Nobody changes what the run is about.
LEMMA SettingStays ==
    ASSUME UNCHANGED <<machine, type, alignment, base>>
    PROVE  /\ NeedAlignment' = NeedAlignment /\ Delivered' = Delivered /\ a' = a
           /\ \A n : Bytes(n)' = Bytes(n) /\ nbData(n)' = nbData(n) /\ AlignedUp(n)' = AlignedUp(n)
BY DEF NeedAlignment, Promised, Requested, Delivered, a, Bytes, nbAlloc, nbData, AlignedUp

LEMMA InitIInv == Init => IInv
<1>1. SUFFICES ASSUME Init
               PROVE  IInv
  OBVIOUS
<1>2. TypeOK /\ BlockInv /\ FreedAsAllocated
  BY <1>1 DEF Init, TypeOK, BlockInv, FreedAsAllocated
<1>3. QED
  BY <1>2 DEF IInv

LEMMA AllocateIInv ==
    ASSUME IInv, NEW n \in Counts, NEW mem \in Addresses, Allocate(n, mem)
    PROVE  IInv'
<1>1. /\ ~TooMany(n) /\ phase' = "allocated" /\ mem % Delivered = 0
      /\ UNCHANGED <<machine, type, alignment, base, damaged, released>>
  BY DEF Allocate
<1>2. n \in Nat /\ mem \in Nat
  BY TypesAssumption DEF Sizes
<1>3. TypeOK' /\ FreedAsAllocated'
  BY <1>1 DEF IInv, TypeOK, FreedAsAllocated
<1>4. /\ nbData(n) = n * type.size
      /\ NeedAlignment => Bytes(n) = n * type.size + a + PointerSize - 1 + 2 * TrapSize
  BY <1>1, <1>2, AllocationFits DEF IInv
<1>5. /\ block'.n = n /\ block'.mem = mem /\ block'.bytes = Bytes(n)
      /\ NeedAlignment => /\ block'.result = AlignedUp(mem)
                          /\ block'.storedAt = AlignedUp(mem) + nbData(n) + 2 * TrapSize
      /\ ~NeedAlignment => block'.result = mem
  BY DEF Allocate
<1>6. /\ NeedAlignment' = NeedAlignment /\ Delivered' = Delivered /\ a' = a /\ type' = type
      /\ Bytes(n)' = Bytes(n) /\ nbData(n)' = nbData(n) /\ AlignedUp(mem)' = AlignedUp(mem)
  BY <1>1, SettingStays
<1>7. BlockInv'
  <2>1. nbData(block.n)' = nbData(n) /\ Bytes(block.n)' = Bytes(n)
        /\ AlignedUp(block.mem)' = AlignedUp(mem)
    BY <1>1, <1>5 DEF Bytes, nbAlloc, nbData, AlignedUp, NeedAlignment, Promised, Requested, a
  <2>2. StoredBehindTraps' = block'.result + nbData(n) + 2 * TrapSize
    BY <2>1 DEF StoredBehindTraps
  <2>3. QED
    BY <1>1, <1>2, <1>4, <1>5, <1>6, <2>1, <2>2 DEF BlockInv
<1>8. QED
  BY <1>3, <1>7 DEF IInv

\* Whatever happens to a block, it stays the block it is.
LEMMA BlockStays ==
    ASSUME IInv, UNCHANGED <<machine, type, alignment, base, block>>,
           phase' \in {"allocated", "released", "failed"} =>
               phase \in {"allocated", "released", "failed"}
    PROVE  BlockInv'
<1>1. /\ NeedAlignment' = NeedAlignment /\ Delivered' = Delivered /\ a' = a
      /\ block' = block /\ type' = type
      /\ nbData(block.n)' = nbData(block.n) /\ Bytes(block.n)' = Bytes(block.n)
      /\ AlignedUp(block.mem)' = AlignedUp(block.mem)
      /\ StoredBehindTraps' = StoredBehindTraps
  BY DEF NeedAlignment, Promised, Requested, Delivered, a, Bytes, nbAlloc, nbData, AlignedUp,
         StoredBehindTraps
<1>2. QED
  BY <1>1 DEF IInv, BlockInv

\* deallocate finds the address and the size of what was allocated.
LEMMA GivenBackFacts ==
    ASSUME IInv, phase = "allocated"
    PROVE  GivenBack = block.mem /\ Bytes(block.n) = block.bytes
BY DEF IInv, BlockInv, GivenBack

LEMMA NextIInv ==
    ASSUME IInv, [Next]_vars
    PROVE  IInv'
<1>1. ASSUME NEW n \in Counts, NEW mem \in Addresses, Allocate(n, mem)
      PROVE  IInv'
  BY <1>1, AllocateIInv
<1>2. CASE Throw
  <2>1. TypeOK' /\ FreedAsAllocated'
    BY <1>2 DEF IInv, TypeOK, Throw, FreedAsAllocated
  <2>2. BlockInv'
    BY <1>2, BlockStays DEF Throw
  <2>3. QED
    BY <2>1, <2>2 DEF IInv
<1>3. CASE WriteBehind
  <2>1. TypeOK' /\ FreedAsAllocated'
    BY <1>3 DEF IInv, TypeOK, WriteBehind, FreedAsAllocated
  <2>2. BlockInv'
    BY <1>3, BlockStays DEF WriteBehind
  <2>3. QED
    BY <2>1, <2>2 DEF IInv
<1>4. CASE Deallocate
  <2>1. /\ phase = "allocated" /\ phase' = "released" /\ block' = block
        /\ released' = [mem |-> GivenBack, bytes |-> Bytes(block.n)]
    BY <1>4 DEF Deallocate
  <2>2. FreedAsAllocated'
    BY <2>1, GivenBackFacts DEF FreedAsAllocated
  <2>3. TypeOK'
    BY <1>4 DEF IInv, TypeOK, Deallocate
  <2>4. BlockInv'
    BY <1>4, BlockStays DEF Deallocate
  <2>5. QED
    BY <2>2, <2>3, <2>4 DEF IInv
<1>5. CASE FindDamage
  <2>1. TypeOK' /\ FreedAsAllocated'
    BY <1>5 DEF IInv, TypeOK, FindDamage, FreedAsAllocated
  <2>2. BlockInv'
    BY <1>5, BlockStays DEF FindDamage
  <2>3. QED
    BY <2>1, <2>2 DEF IInv
<1>6. CASE UNCHANGED vars
  <2>1. TypeOK' /\ FreedAsAllocated'
    BY <1>6 DEF IInv, TypeOK, vars, FreedAsAllocated
  <2>2. BlockInv'
    BY <1>6, BlockStays DEF vars
  <2>3. QED
    BY <2>1, <2>2 DEF IInv
<1>7. QED
  BY <1>1, <1>2, <1>3, <1>4, <1>5, <1>6 DEF Next, Ended

(* What deallocate computes of a block is what allocate has computed, and no *)
(* size has wrapped.                                                         *)
THEOREM Inductive == Spec => []IInv
<1>1. QED
  BY InitIInv, NextIInv, PTL DEF Spec

LEMMA FitsHolds ==
    ASSUME IInv
    PROVE  FitsIntoAllocation
<1>1. SUFFICES ASSUME phase = "allocated"
               PROVE  LET end == block.result + block.n * type.size
                      IN  /\ block.mem <= block.result
                          /\ IF NeedAlignment
                               THEN /\ end + 2 * TrapSize <= block.storedAt
                                    /\ block.storedAt + PointerSize <= block.mem + block.bytes
                               ELSE end <= block.mem + block.bytes
  BY DEF FitsIntoAllocation
<1>2. /\ a \in Nat \ {0} /\ PointerSize \in Nat /\ TrapSize \in Nat
      /\ type.size \in Nat \ {0}
  BY OverheadFacts DEF IInv
<1>3. PICK n \in Nat, mem \in Nat : n = block.n /\ mem = block.mem
  BY <1>1 DEF IInv, BlockInv
<1>4. PICK d \in Nat : d = n * type.size
  BY <1>2
<1>5. nbData(block.n) = d /\ block.bytes = Bytes(block.n)
  BY <1>1, <1>3, <1>4 DEF IInv, BlockInv
<1>6. CASE NeedAlignment
  <2>1. /\ block.bytes = d + a + PointerSize - 1 + 2 * TrapSize
        /\ block.result = CeilingOf(mem, a)
        /\ block.storedAt = block.result + d + 2 * TrapSize
    BY <1>1, <1>3, <1>4, <1>5, <1>6 DEF IInv, BlockInv, AlignedUp, StoredBehindTraps
  <2>2. CeilingOf(mem, a) \in Nat /\ mem <= CeilingOf(mem, a) /\ CeilingOf(mem, a) < mem + a
    BY <1>2, CeilingFacts
  <2>3. PICK result \in Nat : result = block.result /\ mem <= result /\ result < mem + a
    BY <2>1, <2>2
  <2>4. /\ result + d + 2 * TrapSize <= result + d + 2 * TrapSize
        /\ result + d + 2 * TrapSize + PointerSize
              <= mem + (d + a + PointerSize - 1 + 2 * TrapSize)
    BY <1>2, <2>3
  <2>5. QED
    BY <1>3, <1>4, <1>6, <2>1, <2>3, <2>4
<1>7. CASE ~NeedAlignment
  <2>1. block.bytes = d /\ block.result = mem
    BY <1>1, <1>3, <1>5, <1>7 DEF IInv, BlockInv, Bytes
  <2>2. QED
    BY <1>3, <1>4, <1>7, <2>1
<1>8. QED
  BY <1>6, <1>7

(* The data, the guard bytes and the address behind them lie one after the   *)
(* other within what was allocated; no size has wrapped.                     *)
THEOREM AllIsWithin == Spec => []FitsIntoAllocation
BY Inductive, FitsHolds, PTL

(* deallocate, which knows neither address nor size, finds both.             *)
THEOREM FoundAgain == Spec => []FreedAsAllocated
<1>1. IInv => FreedAsAllocated
  BY DEF IInv
<1>2. QED
  BY <1>1, Inductive, PTL

\* What the base allocator delivers, if it need not be adapted, has the alignment asked for.
LEMMA DeliveredFacts ==
    ASSUME TypeOK, ~NeedAlignment
    PROVE  /\ Delivered \in Nat \ {0} /\ a \in Nat \ {0}
           /\ Delivered % a = 0
<1>1. /\ machine \in Machines /\ base \in Bases
      /\ Requested \in SUBSET (0 .. Width - 1)
  BY BitsOfABit, TypesAssumption DEF TypeOK, Requested
<1>2. provides_static_alignment(Promised, Requested)
  BY DEF NeedAlignment
<1>3. a \in Alignof
  BY <1>1, LookupFacts DEF a
<1>4. SUFFICES /\ Delivered \in Alignof
               /\ a <= Delivered
  BY <1>3, AlignofDivides, AlignofFacts
<1>5. CASE base.kind = "std"
  <2>1. Promised = BitsOf(MaxAlign) /\ Delivered = MaxAlign /\ MaxAlign \in Alignof
    BY <1>5, AlignAssumption DEF Promised, Delivered
  <2>2. PICK k \in 0 .. Width - 4 : MaxAlign = Power[k] /\ BitsOf(MaxAlign) = {k}
    BY <2>1, AlignofFacts
  <2>3. Promised \in SUBSET (0 .. Width - 1)
    BY <2>1, BitsOfABit
  <2>4. a <= alignment_in_bytes(machine, Promised)
    BY <1>1, <1>2, <2>3, StaticIsDynamic DEF a
  <2>5. k \notin special_alignments /\ k \in 0 .. Width - 1
    BY WidthFacts
  <2>6. alignment_in_bytes(machine, {k}) = Power[k]
    BY <1>1, <2>5, BitsCombine
  <2>7. QED
    BY <2>1, <2>2, <2>4, <2>6
<1>6. CASE base.kind = "aligned"
  <2>1. Promised = base.own \cup BitsOf(type.align)
    BY <1>6 DEF Promised
  <2>2. Delivered = alignment_in_bytes(machine, Promised)
    BY <1>6, <2>1 DEF Delivered
  <2>3. base.own \in Alignments
    BY <1>1, <1>6 DEF Bases
  <2>4. Promised \in SUBSET (0 .. Width - 1)
    BY <2>1, <2>3, BitsOfABit, TypesAssumption
  <2>5. QED
    BY <1>1, <1>2, <2>2, <2>4, StaticIsDynamic, LookupFacts DEF a
<1>7. CASE base.kind \notin {"std", "aligned"}
  <2>1. Promised = {Width - 2} /\ Delivered = machine.page /\ machine.page \in Alignof
    BY <1>1, <1>7, MachineAssumption DEF Promised, Delivered, page_alignment
  <2>2. PICK g \in 0 .. Width - 4 : machine.page = Power[g] /\ BitsOf(machine.page) = {g}
    BY <2>1, AlignofFacts
  <2>3. Width - 2 \in 0 .. Width - 1 /\ Promised \in SUBSET (0 .. Width - 1)
    BY <2>1, WidthFacts
  <2>4. a <= alignment_in_bytes(machine, Promised)
    BY <1>1, <1>2, <2>3, StaticIsDynamic DEF a
  <2>5. lookup_special_alignments(machine, {Width - 2}) = {g}
    <3>1. ASSUME NEW j
          PROVE  j \in lookup_special_alignments(machine, {Width - 2}) <=> j = g
      <4>1. g \notin special_alignments /\ Width - 2 \in special_alignments
            /\ Width - 1 # Width - 2 /\ Width - 3 # Width - 2
        BY WidthFacts
      <4>2. QED
        BY <2>1, <2>2, <2>3, <4>1, LookupBits
    <3>2. QED
      BY <3>1
  <2>6. alignment_in_bytes(machine, Promised) = Power[g]
    <3>1. lookup_special_alignments(machine, {g}) = {g}
      <4>1. ASSUME NEW j
            PROVE  j \in lookup_special_alignments(machine, {g}) <=> j = g
        <5>1. g \notin special_alignments /\ g \in 0 .. Width - 1
              /\ g # Width - 1 /\ g # Width - 2 /\ g # Width - 3
          BY WidthFacts
        <5>2. QED
          BY <5>1, LookupBits
      <4>2. QED
        BY <4>1
    <3>2. g \notin special_alignments /\ g \in 0 .. Width - 1
      BY WidthFacts
    <3>3. alignment_in_bytes(machine, {g}) = Power[g]
      BY <1>1, <3>2, BitsCombine
    <3>4. QED
      BY <2>1, <2>5, <3>1, <3>3 DEF alignment_in_bytes
  <2>7. Power[g] <= Power[g]
    BY <2>2, WidthFacts, PowerFacts
  <2>8. QED
    BY <2>1, <2>2, <2>4, <2>6
<1>8. QED
  BY <1>5, <1>6, <1>7

\* What is a multiple of a multiple is a multiple.
LEMMA MultiplesOfMultiples ==
    ASSUME NEW n \in Nat, NEW d \in Nat \ {0}, NEW e \in Nat \ {0}, n % d = 0, d % e = 0
    PROVE  n % e = 0
<1>1. PICK k \in Nat : n = k * d
  <2>1. PICK q \in Nat : q = n \div d
    BY DivMod
  <2>2. PICK p \in Nat : p = q * d
    OBVIOUS
  <2>3. n = p + (n % d)
    BY <2>1, <2>2, DivMod
  <2>4. QED
    BY <2>2, <2>3
<1>2. PICK m \in Nat : d = m * e
  <2>1. PICK q \in Nat : q = d \div e
    BY DivMod
  <2>2. PICK p \in Nat : p = q * e
    OBVIOUS
  <2>3. d = p + (d % e)
    BY <2>1, <2>2, DivMod
  <2>4. QED
    BY <2>2, <2>3
<1>3. PICK q \in Nat : q = k * m
  OBVIOUS
<1>4. (k * m) * e = k * (m * e)
  OBVIOUS
<1>5. n = q * e
  BY <1>1, <1>2, <1>3, <1>4
<1>6. QED
  BY <1>5, MultipleDivides

LEMMA ResultHolds ==
    ASSUME IInv
    PROVE  ResultAligned
<1>1. SUFFICES ASSUME phase = "allocated"
               PROVE  block.result % a = 0
  BY DEF ResultAligned, a
<1>2. a \in Nat \ {0} /\ block.mem \in Nat /\ block.mem % Delivered = 0
  BY <1>1, OverheadFacts DEF IInv, BlockInv
<1>3. CASE NeedAlignment
  <2>1. block.result = CeilingOf(block.mem, a)
    BY <1>1, <1>3 DEF IInv, BlockInv, AlignedUp
  <2>2. a % a = 0
    BY <1>2
  <2>3. QED
    BY <1>2, <2>1, <2>2, CeilingDivisible
<1>4. CASE ~NeedAlignment
  <2>1. block.result = block.mem
    BY <1>1, <1>4 DEF IInv, BlockInv
  <2>2. QED
    BY <1>2, <1>4, <2>1, DeliveredFacts, MultiplesOfMultiples DEF IInv
<1>5. QED
  BY <1>3, <1>4

(* Whatever allocator is below, whether it promises the alignment or has to  *)
(* be adapted, and whatever the machine: what the client gets is aligned as  *)
(* it asked for, combined with the alignment of its type.                    *)
THEOREM ResultsAligned == Spec => []ResultAligned
BY Inductive, ResultHolds, PTL

(* What is promised without knowing the machine holds on each.               *)
THEOREM PromisesKept == Spec => []PromiseKept
<1>1. IInv => PromiseKept
  <2>1. SUFFICES ASSUME IInv, NEW requested \in Alignments,
                        provides_static_alignment(alignment, requested)
                 PROVE  provides_dynamic_alignment(machine, alignment, requested)
    BY DEF PromiseKept
  <2>2. /\ machine \in Machines
        /\ alignment \in SUBSET (0 .. Width - 1) /\ requested \in SUBSET (0 .. Width - 1)
    BY <2>1, TypesAssumption DEF IInv, TypeOK
  <2>3. alignment_in_bytes(machine, requested) <= alignment_in_bytes(machine, alignment)
    BY <2>1, <2>2, StaticIsDynamic
  <2>4. /\ alignment_in_bytes(machine, requested) \in Nat
        /\ alignment_in_bytes(machine, alignment) \in Nat
    BY <2>2, LookupFacts, AlignofFacts
  <2>5. QED
    BY <2>3, <2>4 DEF provides_dynamic_alignment
<1>2. QED
  BY <1>1, Inductive, PTL

(* Combined requirements are all satisfied, and by no more than one of them  *)
(* asks for.                                                                 *)
THEOREM RequirementsCombine == Spec => []CombinesRequirements
<1>1. IInv => CombinesRequirements
  <2>1. SUFFICES ASSUME IInv
                 PROVE  CombinesRequirements
    OBVIOUS
  <2>2. machine \in Machines /\ alignment \in SUBSET (0 .. Width - 1)
    BY <2>1, TypesAssumption DEF IInv, TypeOK
  <2>3. QED
    BY <2>2, BitsCombine DEF CombinesRequirements
<1>2. QED
  BY <1>1, Inductive, PTL

=============================================================================
