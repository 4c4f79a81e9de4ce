------------------------------ MODULE Alignment ------------------------------
(*****************************************************************************)
(* Alignments of patton/memory.hpp: a std::size_t in which each set bit is a *)
(* requirement, and the three highest bits stand for sizes that only the     *)
(* machine knows.  A value is the set of the positions of its bits, so that  *)
(* the operators | and & of the code are \cup and \cap.                      *)
(*****************************************************************************)
EXTENDS CheckedArithmetic

CONSTANTS
    Width,          \* the number of bits of std::size_t
    MaxAlign,       \* alignof(std::max_align_t)
    Interference    \* std::hardware_constructive_interference_size

\* 2 ^ i, by its recursive definition
Power[i \in Nat] == IF i = 0 THEN 1 ELSE 2 * Power[i - 1]

ASSUME WidthAssumption == Width \in 4 .. 64 /\ MaxSize = Power[Width] - 1

\* The alignments of C++ types are powers of two, and so are the sizes that the code uses
\* as bit masks; all of them are far below the bits that have a special meaning.
Alignof == {Power[i] : i \in 0 .. Width - 4}

ASSUME AlignAssumption == MaxAlign \in Alignof /\ Interference \in Alignof

BitsOf(n) == {i \in 0 .. Width - 1 : (n \div Power[i]) % 2 = 1}

\* For each k, the value of the bits of a below the k-th
ValuesBelow(a) ==
    LET below[k \in Nat] ==
            IF k = 0 THEN 0
            ELSE below[k - 1] + (IF k - 1 \in a THEN Power[k - 1] ELSE 0)
    IN  below

ValueOf(a) == ValuesBelow(a)[Width]

large_page_alignment == {Width - 1}
page_alignment == {Width - 2}
cache_line_alignment == {Width - 3}

special_alignments == (Width - 3) .. (Width - 1)

-----------------------------------------------------------------------------

\* x |= x >> k
Smeared(x, k) == x \cup {i - k : i \in {j \in x : j >= k}}

\* Fault: one of the shifts is missing.
floor_2p_short(x) ==
    LET smeared == Smeared(Smeared(Smeared(Smeared(Smeared(x, 1), 4), 8), 16), 32)
    IN  Wrapped(ValueOf(smeared) + 1) \div 2

\* The highest bit
floor_2p(x) ==
    LET low == Smeared(Smeared(Smeared(x, 1), 2), 4)
        smeared == Smeared(Smeared(Smeared(low, 8), 16), 32)
    IN  Wrapped(ValueOf(smeared) + 1) \div 2

AtLeastOne(n) == IF n = 0 THEN 1 ELSE n

raw_alignment_in_bytes(a) == AtLeastOne(floor_2p(a))

\* Fault: large pages do not ask for page alignment.
lookup_no_pages(m, a) ==
    (a \cup (IF large_page_alignment \subseteq a THEN BitsOf(m.large) ELSE {})
       \cup (IF page_alignment \subseteq a THEN BitsOf(m.page) ELSE {})
       \cup (IF cache_line_alignment \subseteq a THEN BitsOf(m.line) ELSE {}))
    \ special_alignments

\* The special bits replaced by the sizes of machine m; m.large may be 0.
lookup_special_alignments(m, a) ==
    (a \cup (IF large_page_alignment \subseteq a THEN BitsOf(m.large) ELSE {})
       \cup (IF (large_page_alignment \cup page_alignment) \cap a # {}
               THEN BitsOf(m.page) ELSE {})
       \cup (IF cache_line_alignment \subseteq a THEN BitsOf(m.line) ELSE {}))
    \ special_alignments

alignment_in_bytes(m, a) == AtLeastOne(floor_2p(lookup_special_alignments(m, a)))

\* A special alignment provides that of cache lines, too.
BasicProvided(a) ==
    (a \ special_alignments)
        \cup (IF a \cap special_alignments # {} THEN BitsOf(Interference) ELSE {})

\* Fault: the special parts are not compared.
provides_basic_alignment(provided, requested) ==
    raw_alignment_in_bytes(BasicProvided(provided))
        >= raw_alignment_in_bytes(requested \ special_alignments)

\* What can be promised without knowing the machine
provides_static_alignment(provided, requested) ==
    /\ raw_alignment_in_bytes(BasicProvided(provided))
           >= raw_alignment_in_bytes(requested \ special_alignments)
    /\ ValueOf(provided \cap special_alignments)
           >= ValueOf(requested \cap special_alignments)

provides_dynamic_alignment(m, provided, requested) ==
    alignment_in_bytes(m, provided) >= alignment_in_bytes(m, requested)

=============================================================================
