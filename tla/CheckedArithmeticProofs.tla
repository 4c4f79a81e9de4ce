----------------------- MODULE CheckedArithmeticProofs -----------------------
(*****************************************************************************)
(* The checked arithmetic is right for unsigned types of every width.        *)
(* Before that, what the proofs need of natural numbers.                     *)
(*****************************************************************************)
EXTENDS CheckedArithmetic, NaturalsInduction, WellFoundedInduction, TLAPS

LEMMA LeastNat ==
    ASSUME NEW S, S \subseteq Nat, S # {}
    PROVE  \E m \in S : \A k \in S : m <= k
  <1> DEFINE R == OpToRel(<, Nat)
  <1>1. IsWellFoundedOn(R, Nat)
    BY NatLessThanWellFounded
  <1>2. \A x, y \in Nat : y < x => <<y, x>> \in R
    BY DEF OpToRel
  <1> HIDE DEF R
  <1>3. PICK m \in S : \A k \in S : ~ (<<k, m>> \in R)
    BY <1>1, WFMin
  <1>4. \A k \in S : m \in Nat /\ k \in Nat /\ ~(k < m)
    BY <1>2, <1>3
  <1> QED
    BY <1>4

\* Induction, over a set of numbers
LEMMA InductionOverNat ==
    ASSUME NEW good, good \subseteq Nat, 0 \in good, \A n \in good : n + 1 \in good
    PROVE  good = Nat
  <1> DEFINE bad == Nat \ good
  <1>1. SUFFICES ASSUME bad # {}
                 PROVE  FALSE
    OBVIOUS
  <1>2. PICK m \in bad : \A k \in bad : m <= k
    BY <1>1, LeastNat
  <1>3. m - 1 \in Nat /\ m = (m - 1) + 1 /\ m - 1 \notin bad
    BY <1>2
  <1> QED
    BY <1>2, <1>3

\* A recursion from each number to the next, and the function that it defines
StepOn(S, step) == step \in [Nat -> [S -> S]]

Defines(S, base, step, f) ==
    f \in [Nat -> S] /\ f[0] = base /\ \A n \in Nat : f[n + 1] = step[n][f[n]]

\* There is one.
LEMMA RecursionExists ==
    ASSUME NEW S, NEW base \in S, NEW step, StepOn(S, step)
    PROVE  \E f : Defines(S, base, step, f)
  <1> USE DEF StepOn
  <1> DEFINE UpTo(n, g) == /\ g \in [0 .. n -> S] /\ g[0] = base
                           /\ \A i \in 0 .. n - 1 : g[i + 1] = step[i][g[i]]
  <1>1. \A n \in Nat : \E g : UpTo(n, g)
    <2> DEFINE good == {n \in Nat : \E g : UpTo(n, g)}
    <2>1. 0 \in good
      <3>1. UpTo(0, [i \in 0 .. 0 |-> base])
        OBVIOUS
      <3> QED
        BY <3>1
    <2>2. ASSUME NEW n \in good
          PROVE  n + 1 \in good
      <3>1. PICK g : UpTo(n, g)
        OBVIOUS
      <3> DEFINE h == [i \in 0 .. n + 1 |-> IF i = n + 1 THEN step[n][g[n]] ELSE g[i]]
      <3>2. n \in Nat /\ g[n] \in S /\ step[n][g[n]] \in S
        BY <3>1
      <3>3. h \in [0 .. n + 1 -> S] /\ h[0] = base
        BY <3>1, <3>2
      <3>4. ASSUME NEW i \in 0 .. n
            PROVE  h[i + 1] = step[i][h[i]]
        <4>1. CASE i = n
          <5>1. n + 1 \in 0 .. n + 1 /\ n \in 0 .. n + 1 /\ n # n + 1
            BY <3>2
          <5>2. h[n + 1] = step[n][g[n]] /\ h[n] = g[n]
            BY <5>1
          <5> QED
            BY <4>1, <5>2
        <4>2. CASE i # n
          <5>1. i \in 0 .. n - 1 /\ h[i] = g[i] /\ h[i + 1] = g[i + 1]
            BY <3>2, <4>2
          <5> QED
            BY <3>1, <5>1
        <4> QED
          BY <4>1, <4>2
      <3>5. UpTo(n + 1, h)
        <4> HIDE DEF h
        <4>1. (n + 1) - 1 = n
          BY <3>2
        <4> QED
          BY <3>3, <3>4, <4>1
      <3> HIDE DEF h, UpTo
      <3> QED
        BY <3>2, <3>5
    <2>3. good = Nat
      <3> HIDE DEF good
      <3>1. good \subseteq Nat
        BY DEF good
      <3> QED
        BY <2>1, <2>2, <3>1, InductionOverNat
    <2> QED
      BY <2>3
  <1>2. ASSUME NEW m \in Nat, NEW n \in Nat, NEW g, NEW h, UpTo(m, g), UpTo(n, h),
               NEW i \in Nat, i <= m, i <= n
        PROVE  g[i] = h[i]
    <2> DEFINE good == {k \in Nat : k <= m /\ k <= n => g[k] = h[k]}
    <2>1. 0 \in good
      BY <1>2
    <2>2. ASSUME NEW k \in good
          PROVE  k + 1 \in good
      <3>1. SUFFICES ASSUME k + 1 <= m, k + 1 <= n
                     PROVE  g[k + 1] = h[k + 1]
        OBVIOUS
      <3>2. k \in Nat /\ k \in 0 .. m - 1 /\ k \in 0 .. n - 1 /\ g[k] = h[k]
        BY <3>1
      <3> QED
        BY <1>2, <3>2
    <2>3. good = Nat
      <3> HIDE DEF good
      <3>1. good \subseteq Nat
        BY DEF good
      <3> QED
        BY <2>1, <2>2, <3>1, InductionOverNat
    <2> QED
      BY <1>2, <2>3
  <1> DEFINE G(n) == CHOOSE g : UpTo(n, g)
             f == [n \in Nat |-> G(n)[n]]
  <1>3. ASSUME NEW n \in Nat
        PROVE  UpTo(n, G(n))
    BY <1>1
  <1>4. f \in [Nat -> S]
    <2>1. ASSUME NEW n \in Nat
          PROVE  G(n)[n] \in S
      <3> HIDE DEF G
      <3> QED
        BY <1>3
    <2> QED
      BY <2>1
  <1>5. f[0] = base
    <2> HIDE DEF G
    <2> QED
      BY <1>3
  <1>6. ASSUME NEW n \in Nat
        PROVE  f[n + 1] = step[n][f[n]]
    <2> HIDE DEF G
    <2>1. UpTo(n, G(n)) /\ UpTo(n + 1, G(n + 1))
      BY <1>3
    <2>2. G(n + 1)[n + 1] = step[n][G(n + 1)[n]]
      BY <2>1
    <2>3. G(n + 1)[n] = G(n)[n]
      <3> HIDE DEF UpTo
      <3> QED
        BY <1>2, <2>1
    <2> QED
      BY <2>2, <2>3
  <1> HIDE DEF f
  <1>7. Defines(S, base, step, f)
    BY <1>4, <1>5, <1>6 DEF Defines
  <1> QED
    BY <1>7

-----------------------------------------------------------------------------

\* Division with remainder: what it is ...
LEMMA DivMod ==
    ASSUME NEW n \in Nat, NEW d \in Nat \ {0}
    PROVE  /\ n \div d \in Nat
           /\ n % d \in 0 .. d - 1
           /\ n = (n \div d) * d + (n % d)
  OBVIOUS

\* ... and that there is only one.
LEMMA DivUnique ==
    ASSUME NEW q \in Int, NEW r \in Int, NEW d \in Nat \ {0}, 0 <= r, r < d
    PROVE  (q * d + r) \div d = q
  OBVIOUS

(* try_ceili: whoever rounds a size up to pages or to an alignment gets the  *)
(* next multiple, or an error exactly if that multiple does not fit.         *)
THEOREM CeilingReported ==
    ASSUME NEW x \in Sizes, NEW d \in Sizes \ {0}
    PROVE  try_ceili(x, d) = Reported(CeilingOf(x, d))
  <1>1. x \in Nat /\ d \in Nat \ {0} /\ MaxSize \in Nat
    BY MaxSizeAssumption DEF Sizes
  <1>2. CASE x = 0
    <2>1. CeilingOf(x, d) = 0
      <3>1. (0 * d + (d - 1)) \div d = 0
        BY <1>1, DivUnique
      <3> QED
        BY <1>1, <1>2, <3>1 DEF CeilingOf
    <2> QED
      BY <1>1, <1>2, <2>1 DEF try_ceili, Reported
  <1>3. CASE x # 0
    <2> DEFINE q == (x - 1) \div d
               r == (x - 1) % d
    <2>1. q \in Nat /\ r \in 0 .. d - 1 /\ x - 1 = q * d + r
      <3>1. x - 1 \in Nat
        BY <1>1, <1>3
      <3> QED
        BY <1>1, <3>1, DivMod
    <2> HIDE DEF q, r
    <2>2. (x + d - 1) = (q + 1) * d + r
      BY <1>1, <2>1
    <2>3. (x + d - 1) \div d = q + 1
      BY <1>1, <2>1, <2>2, DivUnique
    <2>4. CeilingOf(x, d) = x + (d - r - 1)
      BY <1>1, <2>1, <2>3 DEF CeilingOf
    <2>5. x + (d - r - 1) \in Nat
      BY <1>1, <2>1
    <2>6. ASSUME x + (d - r - 1) <= MaxSize
          PROVE  Wrapped(x + (d - r - 1)) = x + (d - r - 1)
      BY <1>1, <2>5, <2>6 DEF Wrapped
    <2>7. try_ceili(x, d) = IF x > MaxSize - (d - r - 1) THEN TooLarge
                            ELSE Exactly(Wrapped(x + (d - r - 1)))
      BY <1>3 DEF try_ceili, r
    <2> QED
      BY <1>1, <2>1, <2>4, <2>5, <2>6, <2>7 DEF Reported
  <1> QED
    BY <1>2, <1>3

\* What rounding up gives: a multiple, less than one unit further.
LEMMA CeilingFacts ==
    ASSUME NEW x \in Nat, NEW d \in Nat \ {0}
    PROVE  /\ CeilingOf(x, d) \in Nat /\ x <= CeilingOf(x, d)
           /\ CeilingOf(x, d) < x + d
           /\ \E k \in Nat : CeilingOf(x, d) = k * d
  <1> DEFINE k == (x + d - 1) \div d
             r == (x + d - 1) % d
  <1>1. x + d - 1 \in Nat
    OBVIOUS
  <1>2. k \in Nat /\ r \in 0 .. d - 1 /\ x + d - 1 = k * d + r
    BY <1>1, DivMod
  <1> HIDE DEF k, r
  <1>3. k * d \in Nat /\ x <= k * d /\ k * d < x + d
    BY <1>2
  <1>4. CeilingOf(x, d) = k * d
    BY DEF CeilingOf, k
  <1> QED
    BY <1>2, <1>3, <1>4

\* A multiple leaves no remainder.
LEMMA MultipleDivides ==
    ASSUME NEW k \in Nat, NEW d \in Nat \ {0}
    PROVE  (k * d) % d = 0
  <1>1. PICK n \in Nat : n = k * d
    OBVIOUS
  <1>2. n % d \in 0 .. d - 1 /\ n = (n \div d) * d + (n % d)
    BY DivMod
  <1>3. n \div d = k
    <2>1. (k * d + 0) \div d = k
      BY DivUnique
    <2>2. n = k * d + 0
      BY <1>1
    <2> QED
      BY <2>1, <2>2
  <1>4. n % d = 0
    BY <1>1, <1>2, <1>3
  <1> QED
    BY <1>1, <1>4

\* What is rounded up to d is a multiple of whatever divides d.
LEMMA CeilingDivisible ==
    ASSUME NEW x \in Nat, NEW d \in Nat \ {0}, NEW e \in Nat \ {0}, d % e = 0
    PROVE  CeilingOf(x, d) % e = 0
  <1> DEFINE m == d \div e
  <1>1. m \in Nat /\ d = m * e
    BY DivMod
  <1> HIDE DEF m
  <1>2. PICK k \in Nat : CeilingOf(x, d) = k * d
    BY CeilingFacts
  <1>3. CeilingOf(x, d) = (k * m) * e /\ k * m \in Nat
    BY <1>1, <1>2
  <1> QED
    BY <1>3, MultipleDivides

\* Multiplication is monotonic.
LEMMA ProductMonotonic ==
    ASSUME NEW a \in Nat, NEW b \in Nat, NEW c \in Nat, a <= c
    PROVE  a * b <= c * b
  OBVIOUS

(* try_multiply_unsigned: whoever computes the bytes of a buffer gets the    *)
(* product, or an error exactly if it does not fit.                          *)
THEOREM ProductReported ==
    ASSUME NEW a \in Sizes, NEW b \in Sizes
    PROVE  try_multiply_unsigned(a, b) = Reported(a * b)
  <1>1. a \in Nat /\ b \in Nat /\ MaxSize \in Nat /\ a * b \in Nat
    BY MaxSizeAssumption DEF Sizes
  <1>2. ASSUME a * b <= MaxSize
        PROVE  Wrapped(a * b) = a * b
    BY <1>1, <1>2 DEF Wrapped
  <1>3. CASE b = 0
    <2>1. a * b = 0
      BY <1>1, <1>3
    <2> QED
      BY <1>1, <1>2, <1>3, <2>1 DEF try_multiply_unsigned, Reported
  <1>4. CASE b # 0
    <2> DEFINE q == MaxSize \div b
               r == MaxSize % b
    <2>1. q \in Nat /\ r \in 0 .. b - 1 /\ MaxSize = q * b + r
      BY <1>1, <1>4, DivMod
    <2> HIDE DEF q, r
    <2>2. CASE a <= q
      <3>1. a * b <= q * b
        BY <1>1, <2>1, <2>2, ProductMonotonic
      <3>2. q * b \in Nat
        BY <1>1, <2>1
      <3>3. a * b <= MaxSize
        BY <1>1, <2>1, <3>1, <3>2
      <3> QED
        BY <1>1, <1>2, <2>1, <2>2, <3>3 DEF try_multiply_unsigned, Reported, q
    <2>3. CASE q < a
      <3>1. (q + 1) * b <= a * b
        BY <1>1, <2>1, <2>3, ProductMonotonic
      <3>2. (q + 1) * b = q * b + b /\ q * b \in Nat
        BY <1>1, <2>1
      <3>3. a * b > MaxSize
        BY <1>1, <2>1, <3>1, <3>2
      <3> QED
        BY <1>1, <1>4, <2>1, <2>3, <3>3 DEF try_multiply_unsigned, Reported, q
    <2> QED
      BY <1>1, <2>1, <2>2, <2>3
  <1> QED
    BY <1>3, <1>4

\* The remainder, too, is unique.
LEMMA ModUnique ==
    ASSUME NEW q \in Int, NEW r \in Int, NEW d \in Nat \ {0}, 0 <= r, r < d
    PROVE  (q * d + r) % d = r
  OBVIOUS

\* Unsigned numbers wrap.
LEMMA WrappedFacts ==
    /\ \A n \in Sizes : Wrapped(n) = n
    /\ \A n \in Int : Wrapped(n) \in Sizes
    /\ \A m \in Int, n \in Int : Wrapped(m + Wrapped(n)) = Wrapped(m + n)
    /\ \A m \in Int, n \in Int : Wrapped(m - Wrapped(n)) = Wrapped(m - n)
    /\ \A n \in Int : Wrapped(n - (MaxSize + 1)) = Wrapped(n)
  <1> DEFINE M == MaxSize + 1
  <1>1. M \in Nat \ {0} /\ Sizes = 0 .. M - 1
    BY MaxSizeAssumption DEF Sizes
  <1> HIDE DEF M
  <1>2. ASSUME NEW n \in Int
        PROVE  /\ n % M \in 0 .. M - 1 /\ n \div M \in Int
               /\ n = (n \div M) * M + (n % M)
    BY <1>1
  <1>3. ASSUME NEW n \in Int, NEW k \in Int
        PROVE  (n + k * M) % M = n % M
    <2> DEFINE q == n \div M
               r == n % M
    <2>1. r \in 0 .. M - 1 /\ q \in Int /\ n = q * M + r
      BY <1>2
    <2> HIDE DEF q, r
    <2>2. n + k * M = (q + k) * M + r
      BY <1>1, <2>1
    <2>3. ((q + k) * M + r) % M = r
      BY <1>1, <2>1, ModUnique
    <2> QED
      BY <2>2, <2>3 DEF r
  <1>4. ASSUME NEW n \in Sizes
        PROVE  n % M = n
    <2>1. (0 * M + n) % M = n
      BY <1>1, ModUnique
    <2>2. 0 * M + n = n
      BY <1>1
    <2> QED
      BY <2>1, <2>2
  <1>5. ASSUME NEW m \in Int, NEW n \in Int
        PROVE  /\ (m + (n % M)) % M = (m + n) % M
               /\ (m - (n % M)) % M = (m - n) % M
    <2> DEFINE q == n \div M
               r == n % M
    <2>1. r \in 0 .. M - 1 /\ q \in Int /\ n = q * M + r
      BY <1>2
    <2> HIDE DEF q, r
    <2>2. m + n = (m + r) + q * M /\ m - n = (m - r) + (-q) * M
      BY <1>1, <2>1
    <2>3. m + r \in Int /\ m - r \in Int /\ -q \in Int
      BY <1>1, <2>1
    <2>4. ((m + r) + q * M) % M = (m + r) % M
      BY <1>3, <2>1, <2>3
    <2>5. ((m - r) + (-q) * M) % M = (m - r) % M
      BY <1>3, <2>3
    <2> QED
      BY <2>2, <2>4, <2>5 DEF r
  <1>6. ASSUME NEW n \in Int
        PROVE  (n - M) % M = n % M
    <2>1. PICK k \in Int : k = -1
      OBVIOUS
    <2>2. n - M = n + k * M
      BY <1>1, <2>1
    <2>3. (n + k * M) % M = n % M
      BY <1>3
    <2> QED
      BY <2>2, <2>3
  <1> QED
    BY <1>1, <1>2, <1>4, <1>5, <1>6 DEF Wrapped, M

=============================================================================
