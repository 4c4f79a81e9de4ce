-------------------------- MODULE CheckedArithmetic --------------------------
(*****************************************************************************)
(* The arithmetic of detail/arithmetic.hpp on an unsigned type: results that *)
(* do not fit are reported, by comparing before the operation could wrap.    *)
(*****************************************************************************)
EXTENDS Integers

CONSTANT MaxSize        \* std::numeric_limits<V>::max()

ASSUME MaxSizeAssumption == MaxSize \in Nat \ {0}

Sizes == 0 .. MaxSize

\* arithmetic_result: a value, or std::errc::value_too_large and zero
Exactly(n) == [value |-> n, tooLarge |-> FALSE]
TooLarge == [value |-> 0, tooLarge |-> TRUE]

\* An unsigned operation in C++.
Wrapped(n) == n % (MaxSize + 1)

try_multiply_unsigned(a, b) ==
    IF b > 0 /\ a > MaxSize \div b THEN TooLarge ELSE Exactly(Wrapped(a * b))

\* x rounded up to a multiple of d # 0
try_ceili(x, d) ==
    LET dx == d - ((x - 1) % d) - 1
    IN  IF x = 0 THEN Exactly(0)
        ELSE IF x > MaxSize - dx THEN TooLarge
        ELSE Exactly(Wrapped(x + dx))

\* What the two compute, where size is no object.
CeilingOf(x, d) == ((x + d - 1) \div d) * d

Reported(n) == IF n <= MaxSize THEN Exactly(n) ELSE TooLarge

=============================================================================
