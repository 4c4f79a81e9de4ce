----------------------------- MODULE BuffersProofs -----------------------------
(*****************************************************************************)
(* Proofs about the owners of memory, for any number of objects and blocks,  *)
(* any shapes, and sizes of every width.                                     *)
(*****************************************************************************)
EXTENDS Buffers, CheckedArithmeticProofs

-----------------------------------------------------------------------------
(* Arithmetic                                                                *)

\* The next multiple
LEMMA NextMultiple ==
    ASSUME NEW q \in Nat, NEW d \in Nat
    PROVE  (q + 1) * d = q * d + d /\ q * d \in Nat
OBVIOUS

\* Row and column of element k
LEMMA RowAndColumn ==
    ASSUME NEW k \in Nat, NEW cols \in Nat \ {0}, NEW rows \in Nat, k < rows * cols
    PROVE  /\ k \div cols \in 0 .. rows - 1 /\ k % cols \in 0 .. cols - 1
           /\ k = (k \div cols) * cols + (k % cols)
  <1> DEFINE q == k \div cols
             r == k % cols
  <1>1. q \in Nat /\ r \in 0 .. cols - 1 /\ k = q * cols + r
    BY DivMod
  <1> HIDE DEF q, r
  <1>2. q < rows
    <2>1. SUFFICES ASSUME rows <= q
                   PROVE  FALSE
      BY <1>1
    <2>2. rows * cols <= q * cols
      BY <1>1, <2>1, ProductMonotonic
    <2> QED
      BY <1>1, <2>2
  <1> QED
    BY <1>1, <1>2 DEF q, r

-----------------------------------------------------------------------------
(* Where elements are                                                        *)

\* The sizes of an object go together, and its bytes can be addressed.
Laid(x) ==
    /\ x.rows \in Nat /\ x.cols \in Nat \ {0} /\ x.per \in Nat
    /\ x.cols * SizeOfT <= x.per /\ x.rows * x.per <= MaxSize

\* An element is within its row, which is within the block.
LEMMA PlaceFacts ==
    ASSUME NEW x, Laid(x), NEW k \in Nat, k < Total(x)
    PROVE  /\ k \div x.cols \in 0 .. x.rows - 1 /\ k % x.cols \in 0 .. x.cols - 1
           /\ k = (k \div x.cols) * x.cols + (k % x.cols)
           /\ Place(x, k) = (k \div x.cols) * x.per + (k % x.cols) * SizeOfT
           /\ Place(x, k) \in Nat /\ (k \div x.cols) * x.per \in Nat
           /\ Place(x, k) + SizeOfT <= (k \div x.cols + 1) * x.per
           /\ Place(x, k) + SizeOfT <= x.rows * x.per
<1> DEFINE q == k \div x.cols
           r == k % x.cols
<1>1. /\ x.rows \in Nat /\ x.cols \in Nat \ {0} /\ x.per \in Nat
      /\ x.cols * SizeOfT <= x.per /\ x.rows * x.per <= MaxSize
      /\ k < x.rows * x.cols /\ SizeOfT \in Nat \ {0}
      /\ MaxSize \in Nat
  BY ElementAssumption, MaxSizeAssumption DEF Laid, Total, Sizes
<1>2. q \in 0 .. x.rows - 1 /\ r \in 0 .. x.cols - 1 /\ k = q * x.cols + r
  BY <1>1, RowAndColumn
<1>3. Place(x, k) = Wrapped(q * x.per + r * SizeOfT)
  BY DEF Place
<1> HIDE DEF q, r
<1>4. r * SizeOfT + SizeOfT <= x.per /\ r * SizeOfT \in Nat
  <2>1. r + 1 \in Nat /\ r + 1 <= x.cols /\ r \in Nat
    BY <1>1, <1>2
  <2>2. (r + 1) * SizeOfT <= x.cols * SizeOfT
    BY <1>1, <2>1, ProductMonotonic
  <2>3. (r + 1) * SizeOfT = r * SizeOfT + SizeOfT /\ r * SizeOfT \in Nat
    BY <1>1, <2>1
  <2>4. x.cols * SizeOfT \in Nat
    BY <1>1
  <2>5. QED
    BY <1>1, <2>2, <2>3, <2>4
<1>5. (q + 1) * x.per <= x.rows * x.per /\ q * x.per \in Nat
      /\ (q + 1) * x.per = q * x.per + x.per /\ x.rows * x.per \in Nat
  <2>1. q + 1 \in Nat /\ q + 1 <= x.rows /\ q \in Nat
    BY <1>1, <1>2
  <2>2. (q + 1) * x.per <= x.rows * x.per
    BY <1>1, <2>1, ProductMonotonic
  <2>3. (q + 1) * x.per = q * x.per + x.per /\ q * x.per \in Nat
    BY <1>1, <2>1, NextMultiple
  <2>4. x.rows * x.per \in Nat
    BY <1>1
  <2>5. QED
    BY <2>2, <2>3, <2>4
<1>6. /\ q * x.per + r * SizeOfT \in Nat
      /\ q * x.per + r * SizeOfT + SizeOfT <= (q + 1) * x.per
      /\ q * x.per + r * SizeOfT + SizeOfT <= x.rows * x.per
  BY <1>1, <1>4, <1>5
<1>7. q * x.per + r * SizeOfT \in Sizes
  BY <1>1, <1>5, <1>6 DEF Sizes
<1>8. Place(x, k) = q * x.per + r * SizeOfT
  BY <1>3, <1>7, WrappedFacts
<1>9. QED
  BY <1>2, <1>5, <1>6, <1>8 DEF q, r

\* Elements follow each other without overlapping, rows as a whole.
LEMMA PlacesApart ==
    ASSUME NEW x, Laid(x), NEW j \in Nat, NEW k \in Nat, j < k, k < Total(x)
    PROVE  /\ Place(x, j) + SizeOfT <= Place(x, k)
           /\ Place(x, j) \in Nat /\ Place(x, k) \in Nat
<1> DEFINE qj == j \div x.cols
           rj == j % x.cols
           qk == k \div x.cols
           rk == k % x.cols
<1>1. /\ x.rows \in Nat /\ x.cols \in Nat \ {0} /\ x.per \in Nat
      /\ SizeOfT \in Nat \ {0} /\ Total(x) \in Nat
  BY ElementAssumption DEF Laid, Sizes, Total
<1>2. /\ qj \in Nat /\ rj \in 0 .. x.cols - 1 /\ j = qj * x.cols + rj
      /\ Place(x, j) = qj * x.per + rj * SizeOfT
      /\ Place(x, j) + SizeOfT <= (qj + 1) * x.per /\ Place(x, j) \in Nat
  BY <1>1, PlaceFacts
<1>3. /\ qk \in Nat /\ rk \in 0 .. x.cols - 1 /\ k = qk * x.cols + rk
      /\ Place(x, k) = qk * x.per + rk * SizeOfT /\ Place(x, k) \in Nat
  BY <1>1, PlaceFacts
<1> HIDE DEF qj, rj, qk, rk
<1>4. qj <= qk
  <2>1. SUFFICES ASSUME qk + 1 <= qj
                 PROVE  FALSE
    BY <1>2, <1>3
  <2>2. (qk + 1) * x.cols <= qj * x.cols
    BY <1>1, <1>2, <1>3, <2>1, ProductMonotonic
  <2>3. (qk + 1) * x.cols = qk * x.cols + x.cols
    BY <1>1, <1>3, NextMultiple
  <2>4. qk * x.cols \in Nat /\ qj * x.cols \in Nat
    BY <1>1, <1>2, <1>3
  <2>5. QED
    BY <1>1, <1>2, <1>3, <2>2, <2>3, <2>4
<1>5. CASE qj = qk
  <2>1. rj + 1 \in Nat /\ rj + 1 <= rk /\ rk \in Nat /\ rj \in Nat
    <3>1. qj * x.cols \in Nat /\ qj * x.cols = qk * x.cols
      BY <1>1, <1>2, <1>5
    <3>2. QED
      BY <1>1, <1>2, <1>3, <3>1
  <2>2. (rj + 1) * SizeOfT <= rk * SizeOfT
    BY <1>1, <2>1, ProductMonotonic
  <2>3. (rj + 1) * SizeOfT = rj * SizeOfT + SizeOfT /\ rj * SizeOfT \in Nat
        /\ rk * SizeOfT \in Nat
    BY <1>1, <2>1
  <2>4. qj * x.per = qk * x.per /\ qk * x.per \in Nat
    BY <1>1, <1>3, <1>5
  <2>5. QED
    BY <1>1, <1>2, <1>3, <2>2, <2>3, <2>4
<1>6. CASE qj # qk
  <2>1. qj + 1 <= qk /\ qj + 1 \in Nat
    BY <1>2, <1>3, <1>4, <1>6
  <2>2. (qj + 1) * x.per <= qk * x.per
    BY <1>1, <1>3, <2>1, ProductMonotonic
  <2>3. rk * SizeOfT \in Nat /\ qk * x.per \in Nat /\ (qj + 1) * x.per \in Nat
    BY <1>1, <1>2, <1>3
  <2>4. QED
    BY <1>1, <1>2, <1>3, <2>2, <2>3
<1>7. QED
  BY <1>2, <1>3, <1>5, <1>6

\* Different elements are in different places.
LEMMA PlacesDiffer ==
    ASSUME NEW x, Laid(x), NEW j \in Nat, NEW k \in Nat, j < Total(x), k < Total(x),
           Place(x, j) = Place(x, k)
    PROVE  j = k
<1>1. SizeOfT \in Nat \ {0}
  BY ElementAssumption DEF Sizes
<1>2. ASSUME NEW a \in Nat, NEW b \in Nat, a < b, b < Total(x)
      PROVE  Place(x, a) # Place(x, b)
  BY <1>1, <1>2, PlacesApart
<1>3. QED
  BY <1>2

\* One element more or less
LEMMA PlacesStep ==
    ASSUME NEW x, Laid(x), NEW a \in Nat, NEW b \in Nat, a < b, b <= Total(x)
    PROVE  /\ Places(x, a, b) \ {Place(x, a)} = Places(x, a + 1, b)
           /\ Places(x, a, b) \ {Place(x, b - 1)} = Places(x, a, b - 1)
           /\ Places(x, a, b - 1) \cup {Place(x, b - 1)} = Places(x, a, b)
           /\ Place(x, a) \in Places(x, a, b) /\ Place(x, b - 1) \in Places(x, a, b)
<1>1. Total(x) \in Nat
  BY DEF Laid, Total
<1>2. \A j, k \in a .. b - 1 : Place(x, j) = Place(x, k) => j = k
  <2>1. ASSUME NEW j \in a .. b - 1, NEW k \in a .. b - 1, Place(x, j) = Place(x, k)
        PROVE  j = k
    <3>1. j \in Nat /\ k \in Nat /\ j < Total(x) /\ k < Total(x)
      BY <1>1
    <3>2. QED
      BY <2>1, <3>1, PlacesDiffer
  <2>2. QED
    BY <2>1
<1>3. a \in a .. b - 1 /\ b - 1 \in a .. b - 1
  OBVIOUS
<1>4. /\ \A k \in a .. b - 1 : k # a <=> k \in a + 1 .. b - 1
      /\ \A k \in a .. b - 1 : k # b - 1 <=> k \in a .. b - 1 - 1
      /\ a + 1 .. b - 1 \subseteq a .. b - 1 /\ a .. b - 1 - 1 \subseteq a .. b - 1
  OBVIOUS
<1> DEFINE At(k) == Place(x, k)
<1>5. \A j, k \in a .. b - 1 : At(j) = At(k) => j = k
  BY <1>2
<1> HIDE DEF At
<1>6. {At(k) : k \in a .. b - 1} \ {At(a)} = {At(k) : k \in a + 1 .. b - 1}
  BY <1>3, <1>4, <1>5
<1>7. {At(k) : k \in a .. b - 1} \ {At(b - 1)} = {At(k) : k \in a .. b - 1 - 1}
  BY <1>3, <1>4, <1>5
<1>8. {At(k) : k \in a .. b - 1 - 1} \cup {At(b - 1)} = {At(k) : k \in a .. b - 1}
  BY <1>3, <1>4
<1>9. /\ At(a) \in {At(k) : k \in a .. b - 1} /\ At(b - 1) \in {At(k) : k \in a .. b - 1}
  BY <1>3
<1>10. QED
  BY <1>6, <1>7, <1>8, <1>9 DEF Places, At

-----------------------------------------------------------------------------
(* Sizes                                                                     *)

LEMMA PerIsSize ==
    ASSUME NEW kind \in Kinds, NEW cols \in Sizes, ~Per(kind, cols).tooLarge
    PROVE  /\ Per(kind, cols).value \in Sizes
           /\ kind = "buffer" => Per(kind, cols).value = CeilingOf(SizeOfT, Alignment)
           /\ kind = "rows" => Per(kind, cols).value = CeilingOf(SizeOfT * cols, Alignment)
           /\ kind = "rows" => SizeOfT * cols \in Nat
           /\ kind = "array" => Per(kind, cols).value = SizeOfT
<1>1. /\ SizeOfT \in Sizes /\ SizeOfT \in Nat \ {0} /\ Alignment \in Sizes \ {0}
      /\ Alignment \in Nat \ {0} /\ cols \in Nat /\ MaxSize \in Nat
  BY ElementAssumption, MaxSizeAssumption DEF Sizes
<1>2. ASSUME NEW n \in Sizes, ~try_ceili(n, Alignment).tooLarge
      PROVE  /\ try_ceili(n, Alignment).value = CeilingOf(n, Alignment)
             /\ try_ceili(n, Alignment).value \in Sizes
  <2>1. n \in Nat
    BY <1>1 DEF Sizes
  <2>2. CeilingOf(n, Alignment) \in Nat
    BY <1>1, <2>1, CeilingFacts
  <2>3. try_ceili(n, Alignment) = Reported(CeilingOf(n, Alignment))
    BY <1>1, CeilingReported
  <2>4. CeilingOf(n, Alignment) <= MaxSize
    BY <1>2, <2>3 DEF Reported, TooLarge
  <2>5. QED
    BY <1>1, <2>2, <2>3, <2>4 DEF Reported, Exactly, Sizes
<1>3. CASE kind = "buffer"
  <2>1. Per(kind, cols) = try_ceili(SizeOfT, Alignment)
    BY <1>3 DEF Per
  <2>2. QED
    BY <1>1, <1>2, <1>3, <2>1
<1>4. CASE kind = "rows"
  <2>1. try_multiply_unsigned(SizeOfT, cols) = Reported(SizeOfT * cols)
    BY <1>1, ProductReported
  <2>2. SizeOfT * cols \in Nat
    BY <1>1
  <2>3. SizeOfT * cols <= MaxSize
    BY <1>4, <2>1 DEF Per, Reported, TooLarge
  <2>4. Reported(SizeOfT * cols) = Exactly(SizeOfT * cols)
    BY <2>3 DEF Reported
  <2>5. Per(kind, cols) = try_ceili(SizeOfT * cols, Alignment)
    BY <1>4, <2>1, <2>4 DEF Per, Exactly
  <2>6. SizeOfT * cols \in Sizes
    BY <1>1, <2>2, <2>3 DEF Sizes
  <2>7. QED
    BY <1>2, <1>4, <2>2, <2>5, <2>6
<1>5. CASE kind = "array"
  BY <1>1, <1>5 DEF Per, Exactly
<1>6. QED
  BY <1>3, <1>4, <1>5 DEF Kinds

\* Rows are no shorter than their elements, and aligned; the bytes of all of them fit.
LEMMA ShapeFacts ==
    ASSUME NEW kind \in Kinds, NEW rows \in Sizes, NEW cols \in Sizes,
           ~NumBytes(kind, rows, cols).tooLarge,
           kind # "rows" => cols = 1, kind # "array" => rows * cols # 0
    PROVE  /\ Per(kind, cols).value \in Sizes
           /\ cols # 0 /\ cols * SizeOfT <= Per(kind, cols).value
           /\ kind # "array" => Per(kind, cols).value % Alignment = 0
           /\ NumBytes(kind, rows, cols).value = rows * Per(kind, cols).value
<1>1. /\ SizeOfT \in Sizes /\ SizeOfT \in Nat \ {0}
      /\ Alignment \in Nat \ {0} /\ cols \in Nat /\ rows \in Nat /\ MaxSize \in Nat
  BY ElementAssumption, MaxSizeAssumption DEF Sizes
<1>2. ~Per(kind, cols).tooLarge
  BY DEF NumBytes, TooLarge, Kinds, Per, Exactly
<1>3. PICK per \in Sizes : per = Per(kind, cols).value
  BY <1>2, PerIsSize
<1>4. CASE kind # "array"
  <2>1. NumBytes(kind, rows, cols) = Reported(rows * per)
    <3>1. NumBytes(kind, rows, cols) = try_multiply_unsigned(rows, per)
      BY <1>2, <1>3, <1>4 DEF NumBytes
    <3>2. QED
      BY <3>1, ProductReported
  <2>2. NumBytes(kind, rows, cols).value = rows * per
    BY <2>1 DEF Reported, Exactly, TooLarge
  <2>3. cols # 0
    BY <1>1, <1>4
  <2>4. CASE kind = "buffer"
    <3>1. per = CeilingOf(SizeOfT, Alignment)
      BY <1>2, <1>3, <2>4, PerIsSize
    <3>2. SizeOfT <= per /\ per % Alignment = 0
      <4>1. PICK k \in Nat : CeilingOf(SizeOfT, Alignment) = k * Alignment
        BY <1>1, CeilingFacts
      <4>2. SizeOfT <= CeilingOf(SizeOfT, Alignment)
        BY <1>1, CeilingFacts
      <4>3. QED
        BY <1>1, <3>1, <4>1, <4>2, MultipleDivides
    <3>3. cols * SizeOfT = SizeOfT
      BY <1>1, <2>4
    <3>4. QED
      BY <1>3, <2>2, <2>3, <3>2, <3>3
  <2>5. CASE kind = "rows"
    <3>1. per = CeilingOf(SizeOfT * cols, Alignment) /\ SizeOfT * cols \in Nat
      BY <1>2, <1>3, <2>5, PerIsSize
    <3>2. SizeOfT * cols <= per /\ per % Alignment = 0
      <4>1. PICK n \in Nat : n = SizeOfT * cols
        BY <3>1
      <4>2. PICK k \in Nat : CeilingOf(n, Alignment) = k * Alignment
        BY <1>1, CeilingFacts
      <4>3. n <= CeilingOf(n, Alignment)
        BY <1>1, CeilingFacts
      <4>4. QED
        BY <1>1, <3>1, <4>1, <4>2, <4>3, MultipleDivides
    <3>3. cols * SizeOfT = SizeOfT * cols
      BY <1>1
    <3>4. QED
      BY <1>3, <2>2, <2>3, <3>2, <3>3
  <2>6. QED
    BY <1>4, <2>4, <2>5 DEF Kinds
<1>5. CASE kind = "array"
  <2>1. per = SizeOfT /\ cols = 1
    BY <1>2, <1>3, <1>5, PerIsSize
  <2>2. /\ rows < MaxSize \div SizeOfT
        /\ NumBytes(kind, rows, cols) = Exactly(Wrapped(rows * SizeOfT))
    <3>1. NumBytes(kind, rows, cols) = IF rows >= MaxSize \div SizeOfT THEN TooLarge
                                       ELSE Exactly(Wrapped(rows * SizeOfT))
      BY <1>5 DEF NumBytes
    <3>2. rows < MaxSize \div SizeOfT
      BY <1>1, <3>1 DEF TooLarge
    <3>3. QED
      BY <1>1, <3>1, <3>2
  <2>3. rows * SizeOfT \in Sizes
    <3>1. /\ MaxSize \div SizeOfT \in Nat
          /\ (MaxSize \div SizeOfT) * SizeOfT <= MaxSize
      <4>1. MaxSize = (MaxSize \div SizeOfT) * SizeOfT + (MaxSize % SizeOfT)
            /\ MaxSize \div SizeOfT \in Nat /\ MaxSize % SizeOfT \in 0 .. SizeOfT - 1
        BY <1>1, DivMod
      <4>2. QED
        BY <1>1, <4>1
    <3>2. PICK q \in Nat : q = MaxSize \div SizeOfT
      BY <3>1
    <3>3. rows * SizeOfT <= q * SizeOfT
      BY <1>1, <2>2, <3>2, ProductMonotonic
    <3>4. rows * SizeOfT \in Nat /\ q * SizeOfT \in Nat /\ q * SizeOfT <= MaxSize
      BY <1>1, <3>1, <3>2
    <3>5. QED
      BY <1>1, <3>3, <3>4 DEF Sizes
  <2>4. NumBytes(kind, rows, cols).value = rows * SizeOfT
    BY <2>2, <2>3, WrappedFacts DEF Exactly
  <2>5. cols * SizeOfT = SizeOfT
    BY <1>1, <2>1
  <2>6. QED
    BY <1>1, <1>3, <1>5, <2>1, <2>4, <2>5
<1>6. QED
  BY <1>4, <1>5

-----------------------------------------------------------------------------
(* Objects and blocks                                                        *)

\* Whatever has a block is laid out in it.
LEMMA ObjectFacts ==
    ASSUME IInv, NEW o \in Objects, obj[o].data # Null
    PROVE  /\ Laid(obj[o]) /\ Fits(obj[o]) /\ obj[o].data \in Blocks
           /\ heap[obj[o].data].live = Alive(o)
           /\ heap[obj[o].data].bytes = obj[o].rows * obj[o].per
           /\ heap[obj[o].data].bytes \in 0 .. MaxSize \div 2
           /\ Total(obj[o]) \in Nat
<1>1. /\ obj[o] \in [kind : Kinds, data : Blocks \cup {Null},
                     rows : Sizes, cols : Sizes, per : Sizes]
      /\ Fits(obj[o]) /\ heap[obj[o].data].live = Alive(o)
  BY DEF IInv, TypeOK, OwnerInv, NoObject
<1>2. /\ obj[o].rows \in Nat /\ obj[o].cols \in Nat /\ obj[o].per \in Nat
      /\ obj[o].data \in Blocks
  BY <1>1 DEF Sizes
<1>3. /\ heap[obj[o].data].bytes = obj[o].rows * obj[o].per
      /\ obj[o].data \in DOMAIN heap /\ obj[o].cols # 0
      /\ obj[o].cols * SizeOfT <= obj[o].per
  BY <1>1 DEF Fits
<1>4. heap[obj[o].data].bytes \in 0 .. MaxSize \div 2
  BY <1>3 DEF IInv, TypeOK
<1>5. heap[obj[o].data].bytes <= MaxSize
  BY <1>4, MaxSizeAssumption
<1>6. Laid(obj[o])
  BY <1>2, <1>3, <1>5 DEF Laid
<1>7. Total(obj[o]) \in Nat
  BY <1>2 DEF Total
<1>8. QED
  BY <1>1, <1>2, <1>3, <1>4, <1>6, <1>7

\* No two objects share a block.
LEMMA OwnersDiffer ==
    ASSUME IInv, NEW o \in Objects, NEW p \in Objects, obj[o].data # Null, o # p
    PROVE  obj[p].data # obj[o].data
BY DEF IInv, OwnerInv

LEMMA Initially == Init => IInv
<1>1. SUFFICES ASSUME Init
               PROVE  IInv
  OBVIOUS
<1>2. 0 \in Sizes /\ MaxSize \in Nat
  BY MaxSizeAssumption DEF Sizes
<1>3. /\ DOMAIN heap = {} /\ obj = [o \in Objects |-> NoObject] /\ op = NoOp
      /\ it = NoIterator
  BY <1>1 DEF Init
<1>4. \A o \in Objects : obj[o].data = Null
  BY <1>3 DEF NoObject
<1>5. TypeOK
  BY <1>2, <1>3 DEF TypeOK, NoObject, NoOp, NoIterator
<1>6. OwnerInv
  BY <1>3, <1>4 DEF OwnerInv
<1>7. OpInv /\ IteratorInv
  BY <1>3 DEF OpInv, IteratorInv, NoOp
<1>8. QED
  BY <1>5, <1>6, <1>7 DEF IInv

\* Between operations, or at the end of one that gives up a block, objects that nothing
\* was done to change hands.
LEMMA Rearranged ==
    ASSUME IInv, TypeOK', op'.on = Null, op'.pc \in {"idle", "undefined"},
           NEW gone \in Blocks \cup {Null},
           DOMAIN heap' = DOMAIN heap \ {gone},
           \A b \in DOMAIN heap' : heap'[b] = heap[b],
           \A o \in Objects : obj'[o].data # Null =>
               /\ obj'[o].data # gone
               /\ \E p \in Objects : obj'[o] = obj[p] /\ op.on # p,
           \A o, p \in Objects :
               obj'[o].data # Null /\ obj'[o].data = obj'[p].data => o = p,
           \A p \in Objects : obj[p].data \notin {Null, gone} =>
               \E o \in Objects : obj'[o].data = obj[p].data,
           \/ it' = it /\ (it # NoIterator => it.data # gone)
           \/ it' = NoIterator
    PROVE  IInv'
<1>1. ASSUME NEW o \in Objects, obj'[o].data # Null
      PROVE  Fits(obj[o])' /\ heap'[obj'[o].data].live = Alive(o)'
  <2>1. PICK p \in Objects : obj'[o] = obj[p] /\ op.on # p
    BY <1>1
  <2>2. Fits(obj[p]) /\ heap[obj[p].data].live = Alive(p)
    BY <1>1, <2>1, ObjectFacts
  <2>3. obj'[o].data \in DOMAIN heap' /\ heap'[obj'[o].data] = heap[obj[p].data]
    BY <1>1, <2>1, <2>2 DEF Fits
  <2>4. Fits(obj[o])'
    BY <2>1, <2>2, <2>3 DEF Fits
  <2>5. Alive(p) = Places(obj[p], 0, Total(obj[p]))
    BY <2>1 DEF Alive
  <2>6. op'.on # o
    BY NullAssumption
  <2>7. Alive(o)' = Places(obj'[o], 0, Total(obj'[o]))
    BY <2>6 DEF Alive, Places, Place, Total
  <2>8. QED
    BY <2>1, <2>2, <2>3, <2>4, <2>5, <2>7
<1>2. ASSUME NEW b \in DOMAIN heap'
      PROVE  \E o \in Objects : obj'[o].data = b
  <2>1. b \in DOMAIN heap /\ b # gone /\ b # Null
    BY NullAssumption DEF IInv, TypeOK
  <2>2. PICK p \in Objects : obj[p].data = b
    BY <2>1 DEF IInv, OwnerInv
  <2>3. QED
    BY <2>1, <2>2
<1>3. OwnerInv'
  BY <1>1, <1>2 DEF OwnerInv
<1>4. OpInv'
  BY DEF OpInv
<1>5. IteratorInv'
  <2>1. SUFFICES ASSUME it' # NoIterator
                 PROVE  it'.data # Null /\ \E o \in Objects : PointsInto(o)'
    BY DEF IteratorInv
  <2>2. it' = it /\ it # NoIterator /\ it.data # gone
    BY <2>1
  <2>3. PICK p \in Objects : PointsInto(p) /\ it.data # Null
    BY <2>2 DEF IInv, IteratorInv
  <2>4. obj[p].data = it.data /\ obj[p].data \notin {Null, gone}
    BY <2>2, <2>3 DEF PointsInto
  <2>5. PICK o \in Objects : obj'[o].data = obj[p].data
    BY <2>4
  <2>6. PICK q \in Objects : obj'[o] = obj[q]
    BY <2>4, <2>5
  <2>7. q = p
    BY <2>4, <2>5, <2>6, OwnersDiffer
  <2>8. PointsInto(o)'
    BY <2>2, <2>3, <2>6, <2>7 DEF PointsInto
  <2>9. QED
    BY <2>2, <2>3, <2>8
<1>6. QED
  BY <1>3, <1>4, <1>5 DEF IInv

\* One step of an operation on an object
LEMMA Stepped ==
    ASSUME IInv, TypeOK', OpInv', obj' = obj, it' = it, DOMAIN heap' = DOMAIN heap,
           \A b \in DOMAIN heap : heap'[b].bytes = heap[b].bytes,
           \A o \in Objects : obj[o].data # Null => heap'[obj[o].data].live = Alive(o)',
           op'.pc \in {"construct", "rollback"} =>
               op.pc \in {"construct", "rollback"} /\ op'.on = op.on
    PROVE  IInv'
<1>1. ASSUME NEW o \in Objects, obj[o].data # Null
      PROVE  Fits(obj[o])'
  BY <1>1, ObjectFacts DEF Fits
<1>2. OwnerInv'
  BY <1>1 DEF IInv, OwnerInv
<1>3. IteratorInv'
  BY DEF IInv, IteratorInv, PointsInto
<1>4. QED
  BY <1>2, <1>3 DEF IInv

\* The types of a construction's or destruction's steps
OpType == [pc : {"idle", "undefined", "construct", "rollback", "destroy"},
           on : Objects \cup {Null}, from : Objects \cup {Null},
           done : Nat, total : Nat, throws : BOOLEAN]

ObjectType == [kind : Kinds, data : Blocks \cup {Null},
               rows : Sizes, cols : Sizes, per : Sizes]

LEMMA Typed ==
    TypeOK <=> /\ DOMAIN heap \subseteq Blocks
               /\ \A b \in DOMAIN heap :
                     heap[b] \in [bytes : 0 .. MaxSize \div 2, live : SUBSET Nat]
               /\ obj \in [Objects -> ObjectType \cup {NoObject}]
               /\ op \in OpType
               /\ it \in [data : Blocks \cup {Null}, index : Nat, cols : Nat, per : Nat]
BY DEF TypeOK, ObjectType, OpType

\* Nothing is in progress.
LEMMA IdleFacts ==
    ASSUME IInv, op.pc = "idle"
    PROVE  op.on = Null /\ \A o \in Objects : op.on # o
BY NullAssumption DEF IInv, OpInv

LEMMA NothingOfNull ==
    ASSUME IInv
    PROVE  DOMAIN heap = DOMAIN heap \ {Null} /\ (it # NoIterator => it.data # Null)
<1>1. DOMAIN heap \subseteq Blocks
  BY DEF IInv, TypeOK
<1>2. Null \notin DOMAIN heap
  BY <1>1, NullAssumption
<1>3. it # NoIterator => it.data # Null
  BY DEF IInv, IteratorInv
<1>4. QED
  BY <1>2, <1>3

\* An object without memory comes or goes.
LEMMA EmptyPlaced ==
    ASSUME IInv, op.pc = "idle", NEW o \in Objects, NEW x \in ObjectType \cup {NoObject},
           x.data = Null, obj[o].data = Null, obj' = [obj EXCEPT ![o] = x],
           UNCHANGED <<heap, op, it>>
    PROVE  IInv'
<1>1. op.on = Null /\ \A p \in Objects : op.on # p
  BY IdleFacts
<1>2. TypeOK /\ obj \in [Objects -> ObjectType \cup {NoObject}]
  BY Typed DEF IInv
<1>3. TypeOK'
  BY <1>2 DEF TypeOK, ObjectType
<1>4. obj'[o].data = Null /\ \A p \in Objects \ {o} : obj'[p] = obj[p]
  BY <1>2
<1>5. \A p, q \in Objects :
          obj'[p].data # Null /\ obj'[p].data = obj'[q].data => p = q
  BY <1>4, OwnersDiffer
<1>6. DOMAIN heap' = DOMAIN heap \ {Null} /\ (it # NoIterator => it.data # Null)
  BY NothingOfNull
<1>7. QED
  BY <1>1, <1>3, <1>4, <1>5, <1>6, Rearranged

LEMMA EmptyIInv ==
    ASSUME IInv, NEW o \in Objects
    PROVE  /\ \A kind \in Kinds : DefaultConstruct(o, kind) => IInv'
           /\ \A kind \in Kinds, rows \in Sizes, cols \in Sizes :
                 ConstructEmpty(o, kind, rows, cols) => IInv'
<1>1. 0 \in Sizes /\ 1 \in Sizes
  BY MaxSizeAssumption DEF Sizes
<1>2. ASSUME NEW kind \in Kinds, DefaultConstruct(o, kind)
      PROVE  IInv'
  <2>1. Empty(kind) \in ObjectType /\ Empty(kind).data = Null
    BY <1>1 DEF Empty, Object, ObjectType
  <2>2. obj[o].data = Null /\ op.pc = "idle"
    BY <1>2 DEF DefaultConstruct, Idle, NoObject
  <2>3. QED
    BY <1>2, <2>1, <2>2, EmptyPlaced DEF DefaultConstruct
<1>3. ASSUME NEW kind \in Kinds, NEW rows \in Sizes, NEW cols \in Sizes,
             ConstructEmpty(o, kind, rows, cols)
      PROVE  IInv'
  <2> DEFINE x == Object(kind, Null, rows, cols, Per(kind, cols).value)
  <2>1. Per(kind, cols).value \in Sizes
    BY <1>3, PerIsSize DEF ConstructEmpty
  <2>2. x \in ObjectType /\ x.data = Null
    BY <2>1 DEF Object, ObjectType
  <2>3. obj[o].data = Null /\ op.pc = "idle"
    BY <1>3 DEF ConstructEmpty, Idle, NoObject
  <2>4. obj' = [obj EXCEPT ![o] = x] /\ UNCHANGED <<heap, op, it>>
    BY <1>3 DEF ConstructEmpty
  <2> HIDE DEF x
  <2>5. QED
    BY <2>2, <2>3, <2>4, EmptyPlaced
<1>4. QED
  BY <1>2, <1>3

\* What moving leaves has no memory.
LEMMA MovedFromFacts ==
    ASSUME NEW x \in ObjectType, NEW assigned \in BOOLEAN
    PROVE  MovedFrom(x, assigned) \in ObjectType /\ MovedFrom(x, assigned).data = Null
<1>1. 0 \in Sizes /\ 1 \in Sizes
  BY MaxSizeAssumption DEF Sizes
<1>2. CASE x.kind = "buffer"
  BY <1>1, <1>2 DEF MovedFrom, Object, ObjectType, Kinds
<1>3. CASE x.kind = "rows"
  BY <1>1, <1>3 DEF MovedFrom, Empty, Object, ObjectType, Kinds
<1>4. CASE x.kind = "array"
  BY <1>4 DEF MovedFrom, ObjectType
<1>5. QED
  BY <1>2, <1>3, <1>4 DEF ObjectType, Kinds

\* Object o, which has no memory or loses it, takes over that of p.
LEMMA HandedOver ==
    ASSUME IInv, NEW o \in Objects, NEW p \in Objects, o # p,
           NEW x \in ObjectType, x.data = Null,
           obj[p] \in ObjectType, obj' = [obj EXCEPT ![p] = x, ![o] = obj[p]],
           op' \in OpType, op'.on = Null, op'.pc \in {"idle", "undefined"},
           op.on # p, \A q \in Objects \ {o} : op.on # q,
           DOMAIN heap' = DOMAIN heap \ {obj[o].data},
           \A b \in DOMAIN heap' : heap'[b] = heap[b],
           \/ it' = it /\ (it # NoIterator => it.data # obj[o].data)
           \/ it' = NoIterator
    PROVE  IInv'
<1>1. TypeOK /\ obj \in [Objects -> ObjectType \cup {NoObject}]
  BY Typed DEF IInv
<1>2. obj'[o] = obj[p] /\ obj'[p] = x /\ \A q \in Objects \ {o, p} : obj'[q] = obj[q]
  BY <1>1
<1>3. obj[o].data \in Blocks \cup {Null}
  BY <1>1 DEF ObjectType, NoObject
<1>4. TypeOK'
  <2>1. NoIterator \in [data : Blocks \cup {Null}, index : Nat, cols : Nat, per : Nat]
    BY DEF NoIterator
  <2>2. it' \in [data : Blocks \cup {Null}, index : Nat, cols : Nat, per : Nat]
    BY <1>1, <2>1 DEF TypeOK
  <2>3. obj' \in [Objects -> ObjectType \cup {NoObject}]
    BY <1>1
  <2>4. /\ DOMAIN heap' \subseteq Blocks
        /\ \A b \in DOMAIN heap' :
              heap'[b] \in [bytes : 0 .. MaxSize \div 2, live : SUBSET Nat]
    BY <1>1 DEF TypeOK
  <2>5. QED
    BY <2>2, <2>3, <2>4 DEF TypeOK, ObjectType, OpType
<1>5. \A q, r \in Objects : obj'[q].data # Null /\ obj'[q].data = obj'[r].data => q = r
  BY <1>2, OwnersDiffer
<1>6. ASSUME NEW q \in Objects, obj'[q].data # Null
      PROVE  /\ obj'[q].data # obj[o].data
             /\ \E r \in Objects : obj'[q] = obj[r] /\ op.on # r
  <2>1. CASE q = o
    <3>1. obj[p].data # Null
      BY <1>2, <1>6, <2>1
    <3>2. obj[o].data # obj[p].data
      BY <3>1, OwnersDiffer
    <3>3. QED
      BY <1>2, <2>1, <3>2
  <2>2. CASE q # o
    <3>1. q # p /\ obj'[q] = obj[q]
      BY <1>2, <1>6, <2>2
    <3>2. obj[o].data # obj[q].data
      BY <1>6, <2>2, <3>1, OwnersDiffer
    <3>3. QED
      BY <2>2, <3>1, <3>2
  <2>3. QED
    BY <2>1, <2>2
<1>7. ASSUME NEW q \in Objects, obj[q].data \notin {Null, obj[o].data}
      PROVE  \E r \in Objects : obj'[r].data = obj[q].data
  <2>1. q # o
    BY <1>7
  <2>2. CASE q = p
    BY <1>2, <2>2
  <2>3. CASE q # p
    BY <1>2, <2>1, <2>3
  <2>4. QED
    BY <2>2, <2>3
<1>8. QED
  BY <1>3, <1>4, <1>5, <1>6, <1>7, Rearranged

\* TakeOver, at the end of an assignment
LEMMA TakeOverIInv ==
    ASSUME IInv, NEW o \in Objects, NEW p \in Objects, o # p,
           obj[p].kind \in Kinds, TakeOver(o, p),
           op.on # p, \A q \in Objects \ {o} : op.on # q,
           DOMAIN heap' = DOMAIN heap \ {obj[o].data},
           \A b \in DOMAIN heap' : heap'[b] = heap[b],
           \/ it' = it /\ (it # NoIterator => it.data # obj[o].data)
           \/ it' = NoIterator
    PROVE  IInv'
<1>1. obj[p] \in ObjectType
  BY Typed DEF IInv, NoObject, Kinds
<1>2. MovedFrom(obj[p], TRUE) \in ObjectType /\ MovedFrom(obj[p], TRUE).data = Null
  BY <1>1, MovedFromFacts
<1>3. PICK pc \in {"idle", "undefined"} : op' = [NoOp EXCEPT !.pc = pc]
  BY DEF TakeOver
<1>4. op' \in OpType /\ op'.on = Null /\ op'.pc \in {"idle", "undefined"}
  BY <1>3 DEF NoOp, OpType
<1>5. obj' = [obj EXCEPT ![p] = MovedFrom(obj[p], TRUE), ![o] = obj[p]]
  BY DEF TakeOver
<1>6. QED
  BY <1>1, <1>2, <1>4, <1>5, HandedOver

LEMMA MoveConstructIInv ==
    ASSUME IInv, NEW o \in Objects, NEW p \in Objects, MoveConstruct(o, p)
    PROVE  IInv'
<1>1. /\ op.pc = "idle" /\ obj[o] = NoObject /\ obj[p] # NoObject /\ o # p
      /\ UNCHANGED <<heap, op, it>>
      /\ obj' = [obj EXCEPT ![o] = obj[p], ![p] = MovedFrom(obj[p], FALSE)]
  BY DEF MoveConstruct, Idle
<1>2. op.on = Null /\ \A q \in Objects : op.on # q
  BY <1>1, IdleFacts
<1>3. obj \in [Objects -> ObjectType \cup {NoObject}] /\ op \in OpType
  BY Typed DEF IInv
<1>4. obj[p] \in ObjectType /\ obj[o].data = Null
  BY <1>1, <1>3 DEF NoObject
<1>5. MovedFrom(obj[p], FALSE) \in ObjectType /\ MovedFrom(obj[p], FALSE).data = Null
  BY <1>4, MovedFromFacts
<1>6. obj' = [obj EXCEPT ![p] = MovedFrom(obj[p], FALSE), ![o] = obj[p]]
  BY <1>1, <1>3
<1>7. DOMAIN heap' = DOMAIN heap \ {obj[o].data} /\ (it # NoIterator => it.data # obj[o].data)
  BY <1>1, <1>4, NothingOfNull
<1>8. op' \in OpType /\ op'.on = Null /\ op'.pc = "idle" /\ it' = it /\ heap' = heap
  BY <1>1, <1>2, <1>3
<1>9. PICK x \in ObjectType : x = MovedFrom(obj[p], FALSE)
  BY <1>5
<1>10. x.data = Null /\ obj' = [obj EXCEPT ![p] = x, ![o] = obj[p]]
  BY <1>5, <1>6, <1>9
<1>11. /\ \A b \in DOMAIN heap' : heap'[b] = heap[b]
       /\ op'.pc \in {"idle", "undefined"} /\ op.on # p /\ o # p
       /\ \A q \in Objects \ {o} : op.on # q
  BY <1>1, <1>2, <1>8
<1>12. QED
  BY <1>4, <1>7, <1>8, <1>10, <1>11, HandedOver

\* An object that has memory begins to give it up.
LEMMA BeginsToDestroy ==
    ASSUME IInv, op.pc = "idle", NEW o \in Objects, obj[o].data # Null,
           NEW from \in Objects \cup {Null},
           from # Null => from # o /\ obj[from].kind = obj[o].kind,
           BeginDestroy(o, from), UNCHANGED <<heap, obj, it>>
    PROVE  IInv'
<1>1. op.on = Null /\ \A q \in Objects : op.on # q
  BY IdleFacts
<1>2. PICK total \in Nat : total = Total(obj[o])
  BY ObjectFacts
<1>3. op' = [pc |-> "destroy", on |-> o, from |-> from, done |-> 0, total |-> total,
             throws |-> FALSE]
  BY <1>2 DEF BeginDestroy, NoOp
<1>4. TypeOK'
  <2>1. op' \in OpType
    BY <1>3 DEF OpType
  <2>2. QED
    BY <2>1 DEF IInv, TypeOK, OpType
<1>5. OpInv'
  BY <1>2, <1>3, NullAssumption DEF OpInv, Total
<1>6. ASSUME NEW q \in Objects, obj[q].data # Null
      PROVE  heap'[obj[q].data].live = Alive(q)'
  <2>1. heap[obj[q].data].live = Places(obj[q], 0, Total(obj[q]))
    BY <1>1, <1>6, ObjectFacts DEF Alive
  <2>2. CASE q # o
    BY <1>3, <2>1, <2>2 DEF Alive, Places, Place, Total
  <2>3. CASE q = o
    BY <1>2, <1>3, <2>1, <2>3 DEF Alive, Places, Place, Total
  <2>4. QED
    BY <2>2, <2>3
<1>7. QED
  BY <1>3, <1>4, <1>5, <1>6, Stepped

LEMMA DestroyIInv ==
    ASSUME IInv, NEW o \in Objects, Destroy(o)
    PROVE  IInv'
<1>1. op.pc = "idle" /\ UNCHANGED <<heap, it>>
  BY DEF Destroy
<1>2. CASE obj[o].data = Null
  <2>1. obj' = [obj EXCEPT ![o] = NoObject] /\ op' = op /\ NoObject.data = Null
    BY <1>2 DEF Destroy, NoObject
  <2>2. QED
    BY <1>1, <1>2, <2>1, EmptyPlaced
<1>3. CASE obj[o].data # Null
  <2>1. BeginDestroy(o, Null) /\ obj' = obj
    BY <1>3 DEF Destroy
  <2>2. QED
    BY <1>1, <1>3, <2>1, BeginsToDestroy
<1>4. QED
  BY <1>2, <1>3

LEMMA MoveAssignIInv ==
    ASSUME IInv, NEW o \in Objects, NEW p \in Objects, MoveAssign(o, p)
    PROVE  IInv'
<1>1. /\ op.pc = "idle" /\ obj[o] # NoObject /\ obj[o].kind = obj[p].kind /\ o # p
      /\ UNCHANGED <<heap, it>>
  BY DEF MoveAssign
<1>2. op.on = Null /\ \A q \in Objects : op.on # q
  BY <1>1, IdleFacts
<1>3. obj[p].kind \in Kinds
  <2>1. obj[o] \in ObjectType
    BY <1>1, Typed DEF IInv
  <2>2. QED
    BY <1>1, <2>1 DEF ObjectType
<1>4. CASE obj[o].data = Null
  <2>1. TakeOver(o, p)
    BY <1>4 DEF MoveAssign
  <2>2. DOMAIN heap' = DOMAIN heap \ {obj[o].data} /\ (it # NoIterator => it.data # obj[o].data)
    BY <1>1, <1>4, NothingOfNull
  <2>3. it' = it /\ \A b \in DOMAIN heap' : heap'[b] = heap[b]
    BY <1>1
  <2>4. QED
    BY <1>1, <1>2, <1>3, <2>1, <2>2, <2>3, TakeOverIInv
<1>5. CASE obj[o].data # Null
  <2>1. BeginDestroy(o, p) /\ obj' = obj
    BY <1>5 DEF MoveAssign
  <2>2. QED
    BY <1>1, <1>5, <2>1, BeginsToDestroy
<1>6. QED
  BY <1>4, <1>5

\* A block is allocated for an object, which has no elements yet.
LEMMA ConstructIInv ==
    ASSUME IInv, NEW o \in Objects, NEW kind \in Kinds, NEW rows \in Sizes,
           NEW cols \in Sizes, NEW b \in Blocks, NEW throws \in BOOLEAN,
           kind # "rows" => cols = 1, Construct(o, kind, rows, cols, b, throws)
    PROVE  IInv'
<1>1. op.pc = "idle" /\ obj[o] = NoObject /\ b \notin DOMAIN heap /\ it' = it
  BY DEF Construct, Idle
<1>2. op.on = Null /\ \A q \in Objects : op.on # q
  BY <1>1, IdleFacts
<1>3. PICK per \in Sizes : per = Per(kind, cols).value
  BY ShapeFacts DEF Construct, Total
<1>4. PICK bytes \in 0 .. MaxSize \div 2 :
          bytes = NumBytes(kind, rows, cols).value /\ bytes = rows * per
  <2>1. NumBytes(kind, rows, cols).value = rows * per
    BY <1>3, ShapeFacts DEF Construct, Total
  <2>2. NumBytes(kind, rows, cols).value <= MaxSize \div 2
    BY DEF Construct
  <2>3. rows * per \in Nat
    BY DEF Sizes
  <2>4. QED
    BY <2>1, <2>2, <2>3, MaxSizeAssumption
<1>5. PICK total \in Nat : total = rows * cols
  BY DEF Sizes
<1>6. PICK x \in ObjectType :
          x = [kind |-> kind, data |-> b, rows |-> rows, cols |-> cols, per |-> per]
  BY DEF ObjectType
<1>7. obj' = [obj EXCEPT ![o] = x]
  BY <1>3, <1>6 DEF Construct, Object
<1>8. heap' = [c \in DOMAIN heap \cup {b} |->
                 IF c = b THEN [bytes |-> bytes, live |-> {}] ELSE heap[c]]
  BY <1>4 DEF Construct
<1>9. op' = [pc |-> "construct", on |-> o, from |-> Null, done |-> 0, total |-> total,
             throws |-> throws]
  BY <1>5 DEF Construct, NoOp
<1>10. throws => kind # "buffer"
  BY ThrowingAssumption DEF Construct
<1>11. TypeOK /\ obj \in [Objects -> ObjectType \cup {NoObject}]
  BY Typed DEF IInv
<1>12. /\ obj'[o] = x /\ \A q \in Objects \ {o} : obj'[q] = obj[q]
       /\ heap'[b] = [bytes |-> bytes, live |-> {}]
       /\ \A c \in DOMAIN heap : c # b /\ heap'[c] = heap[c]
       /\ DOMAIN heap' = DOMAIN heap \cup {b}
  BY <1>1, <1>7, <1>8, <1>11
<1>13. TypeOK'
  <2>1. /\ DOMAIN heap' \subseteq Blocks
        /\ \A c \in DOMAIN heap' :
              heap'[c] \in [bytes : 0 .. MaxSize \div 2, live : SUBSET Nat]
    BY <1>11, <1>12 DEF TypeOK
  <2>2. obj' \in [Objects -> ObjectType \cup {NoObject}]
    BY <1>7, <1>11
  <2>3. op' \in OpType
    BY <1>9 DEF OpType
  <2>4. it' \in [data : Blocks \cup {Null}, index : Nat, cols : Nat, per : Nat]
    BY <1>1, <1>11 DEF TypeOK
  <2>5. QED
    BY <2>1, <2>2, <2>3, <2>4 DEF TypeOK, ObjectType, OpType
<1>14. ASSUME NEW q \in Objects, q # o, obj'[q].data # Null
       PROVE  /\ obj'[q].data \in DOMAIN heap /\ obj'[q].data # b
              /\ Fits(obj[q])' /\ heap'[obj'[q].data].live = Alive(q)'
  <2>1. obj'[q] = obj[q]
    BY <1>12, <1>14
  <2>2. /\ Fits(obj[q]) /\ heap[obj[q].data].live = Alive(q)
        /\ Alive(q) = Places(obj[q], 0, Total(obj[q]))
    BY <1>2, <1>14, <2>1, ObjectFacts DEF Alive
  <2>3. /\ obj[q].data \in DOMAIN heap /\ obj[q].data # b
        /\ heap'[obj[q].data] = heap[obj[q].data]
    BY <1>12, <2>2 DEF Fits
  <2>4. Fits(obj[q])'
    BY <1>12, <2>1, <2>2, <2>3 DEF Fits
  <2>5. Alive(q)' = Places(obj[q], 0, Total(obj[q]))
    BY <1>9, <1>14, <2>1 DEF Alive, Places, Place, Total
  <2>6. QED
    BY <2>1, <2>2, <2>3, <2>4, <2>5
<1>15. Fits(obj[o])' /\ heap'[obj'[o].data].live = Alive(o)'
  <2>1. /\ cols # 0 /\ cols * SizeOfT <= per
        /\ kind # "array" => per % Alignment = 0
    BY <1>3, ShapeFacts DEF Construct, Total
  <2>2. Fits(obj[o])'
    BY <1>4, <1>6, <1>12, <2>1 DEF Fits
  <2>3. Alive(o)' = {}
    BY <1>9 DEF Alive, Places
  <2>4. QED
    BY <1>6, <1>12, <2>2, <2>3
<1>16. obj'[o].data = b
  BY <1>6, <1>12
<1>17. OwnerInv'
  <2>1. \A q \in Objects : obj'[q].data # Null =>
            Fits(obj[q])' /\ heap'[obj'[q].data].live = Alive(q)'
    BY <1>14, <1>15
  <2>2. ASSUME NEW c \in DOMAIN heap'
        PROVE  \E q \in Objects : obj'[q].data = c
    <3>1. CASE c = b
      BY <1>16, <3>1
    <3>2. CASE c # b
      <4>1. c \in DOMAIN heap /\ c # Null
        BY <1>11, <1>12, <3>2, NullAssumption DEF TypeOK
      <4>2. PICK q \in Objects : obj[q].data = c
        BY <4>1 DEF IInv, OwnerInv
      <4>3. q # o
        BY <1>1, <4>1, <4>2 DEF NoObject
      <4>4. QED
        BY <1>12, <4>2, <4>3
    <3>3. QED
      BY <3>1, <3>2
  <2>3. ASSUME NEW q \in Objects, NEW r \in Objects,
               obj'[q].data # Null, obj'[q].data = obj'[r].data
        PROVE  q = r
    <3>1. CASE q # o /\ r # o
      BY <1>12, <2>3, <3>1, OwnersDiffer
    <3>2. CASE q = o \/ r = o
      BY <1>14, <1>16, <2>3, <3>2
    <3>3. QED
      BY <3>1, <3>2
  <2>4. QED
    BY <2>1, <2>2, <2>3 DEF OwnerInv
<1>18. OpInv'
  <2>1. b # Null
    BY NullAssumption
  <2>2. Total(x) = total
    BY <1>5, <1>6 DEF Total
  <2>3. OpInv' <=> /\ op'.on \in Objects /\ obj'[op'.on].data # Null
                   /\ op'.done <= op'.total /\ op'.total <= Total(obj'[op'.on])
                   /\ op'.pc # "rollback" => op'.total = Total(obj'[op'.on])
                   /\ op'.throws => obj'[op'.on].kind # "buffer"
                   /\ op'.from # Null =>
                         op'.from # op'.on /\ obj'[op'.from].kind = obj'[op'.on].kind
    BY <1>9 DEF OpInv, Total
  <2>4. QED
    BY <1>6, <1>9, <1>10, <1>12, <2>1, <2>2, <2>3
<1>19. IteratorInv'
  <2>1. SUFFICES ASSUME it # NoIterator
                 PROVE  it'.data # Null /\ \E q \in Objects : PointsInto(q)'
    BY <1>1 DEF IteratorInv
  <2>2. PICK q \in Objects : PointsInto(q) /\ it.data # Null
    BY <2>1 DEF IInv, IteratorInv
  <2>3. q # o
    BY <1>1, <2>2 DEF PointsInto, NoObject
  <2>4. PointsInto(q)'
    BY <1>1, <1>9, <1>12, <2>2, <2>3 DEF PointsInto
  <2>5. QED
    BY <1>1, <2>2, <2>4
<1>20. QED
  BY <1>13, <1>17, <1>18, <1>19 DEF IInv

-----------------------------------------------------------------------------
(* Steps of a construction or destruction                                    *)

\* The object in progress
LEMMA InProgress ==
    ASSUME IInv, op.pc \in {"construct", "rollback", "destroy"}
    PROVE  /\ op.on \in Objects /\ obj[op.on].data # Null /\ Laid(obj[op.on])
           /\ obj[op.on].data \in DOMAIN heap /\ Total(obj[op.on]) \in Nat
           /\ heap[obj[op.on].data].live = Alive(op.on)
           /\ op \in OpType /\ op.done \in Nat /\ op.total \in Nat
           /\ op.done <= op.total /\ op.total <= Total(obj[op.on])
           /\ op.pc # "rollback" => op.total = Total(obj[op.on])
           /\ op.throws => obj[op.on].kind # "buffer"
           /\ op.from # Null => op.from # op.on /\ obj[op.from].kind = obj[op.on].kind
<1>1. op \in OpType
  BY Typed DEF IInv
<1>2. /\ op.on \in Objects /\ obj[op.on].data # Null
      /\ op.done <= op.total /\ op.total <= Total(obj[op.on])
      /\ op.pc # "rollback" => op.total = Total(obj[op.on])
      /\ op.throws => obj[op.on].kind # "buffer"
      /\ op.from # Null => op.from # op.on /\ obj[op.from].kind = obj[op.on].kind
  BY DEF IInv, OpInv
<1>3. /\ Laid(obj[op.on]) /\ Fits(obj[op.on]) /\ Total(obj[op.on]) \in Nat
      /\ heap[obj[op.on].data].live = Alive(op.on)
  BY <1>2, ObjectFacts
<1>4. obj[op.on].data \in DOMAIN heap
  BY <1>3 DEF Fits
<1>5. op.done \in Nat /\ op.total \in Nat
  BY <1>1 DEF OpType
<1>6. QED
  BY <1>1, <1>2, <1>3, <1>4, <1>5

\* One element more or less in the block of the object in progress
LEMMA ElementStep ==
    ASSUME IInv, op.pc \in {"construct", "rollback", "destroy"}, op.done < op.total,
           op' = [op EXCEPT !.done = @ + 1], UNCHANGED <<obj, it>>,
           NEW live \in SUBSET Nat, heap' = [heap EXCEPT ![obj[op.on].data].live = live],
           live = Alive(op.on)'
    PROVE  IInv'
<1>1. /\ op.on \in Objects /\ obj[op.on].data # Null /\ op \in OpType
      /\ obj[op.on].data \in DOMAIN heap
      /\ op.done \in Nat /\ op.total \in Nat
  BY InProgress
<1>2. /\ op'.pc = op.pc /\ op'.on = op.on /\ op'.from = op.from /\ op'.total = op.total
      /\ op'.throws = op.throws /\ op'.done = op.done + 1 /\ op' \in OpType
  BY <1>1 DEF OpType
<1>3. TypeOK /\ \A b \in DOMAIN heap :
          heap[b] \in [bytes : 0 .. MaxSize \div 2, live : SUBSET Nat]
  BY DEF IInv, TypeOK
<1>4. /\ DOMAIN heap' = DOMAIN heap
      /\ \A b \in DOMAIN heap : b # obj[op.on].data => heap'[b] = heap[b]
  BY <1>1
<1>5. heap'[obj[op.on].data] = [bytes |-> heap[obj[op.on].data].bytes, live |-> live]
  BY <1>1, <1>3
<1>6. \A b \in DOMAIN heap : heap'[b].bytes = heap[b].bytes
  BY <1>4, <1>5
<1>7. TypeOK'
  <2>1. \A b \in DOMAIN heap' :
            heap'[b] \in [bytes : 0 .. MaxSize \div 2, live : SUBSET Nat]
    BY <1>1, <1>3, <1>4, <1>5
  <2>2. QED
    BY <1>2, <1>3, <1>4, <2>1 DEF TypeOK, OpType
<1>8. OpInv'
  <2>1. op.done + 1 <= op.total
    BY <1>1
  <2>2. QED
    BY <1>1, <1>2, <2>1 DEF IInv, OpInv, Total
<1>9. ASSUME NEW q \in Objects, obj[q].data # Null
      PROVE  heap'[obj[q].data].live = Alive(q)'
  <2>1. CASE q = op.on
    BY <1>5, <2>1
  <2>2. CASE q # op.on
    <3>1. obj[q].data # obj[op.on].data
      BY <1>1, <2>2, OwnersDiffer
    <3>2. heap[obj[q].data].live = Alive(q) /\ obj[q].data \in DOMAIN heap
      BY <1>9, ObjectFacts DEF Fits
    <3>3. Alive(q)' = Alive(q)
      BY <1>2, <2>2 DEF Alive, Places, Place, Total
    <3>4. QED
      BY <1>4, <3>1, <3>2, <3>3
  <2>3. QED
    BY <2>1, <2>2
<1>10. QED
  BY <1>2, <1>4, <1>6, <1>7, <1>8, <1>9, Stepped

LEMMA ConstructElementIInv ==
    ASSUME IInv, ConstructElement
    PROVE  IInv'
<1>1. /\ op.pc = "construct" /\ op.done < op.total
      /\ op' = [op EXCEPT !.done = @ + 1] /\ UNCHANGED <<obj, it>>
      /\ heap' = [heap EXCEPT ![obj[op.on].data].live = @ \cup {PlaceOfNext}]
  BY DEF ConstructElement
<1>2. /\ op.on \in Objects /\ obj[op.on].data # Null /\ Laid(obj[op.on])
      /\ obj[op.on].data \in DOMAIN heap /\ heap[obj[op.on].data].live = Alive(op.on)
      /\ op \in OpType /\ op.done \in Nat /\ op.total \in Nat
      /\ op.total <= Total(obj[op.on]) /\ Total(obj[op.on]) \in Nat
  BY <1>1, InProgress
<1>3. PICK x : x = obj[op.on]
  OBVIOUS
<1>4. PICK k \in Nat : k = op.done + 1
  BY <1>2
<1>5. k - 1 = op.done /\ 0 < k /\ k <= Total(x) /\ Laid(x) /\ Total(x) \in Nat
  BY <1>1, <1>2, <1>3, <1>4
<1>6. Places(x, 0, k - 1) \cup {Place(x, k - 1)} = Places(x, 0, k)
  BY <1>5, PlacesStep
<1>7. PlaceOfNext = Place(x, k - 1)
  BY <1>1, <1>3, <1>5 DEF PlaceOfNext
<1>8. Alive(op.on) = Places(x, 0, k - 1)
  BY <1>1, <1>3, <1>5 DEF Alive
<1>9. Alive(op.on)' = Places(x, 0, k)
  <2>1. op'.on = op.on /\ op'.pc = "construct" /\ op'.done = k /\ obj' = obj
    BY <1>1, <1>2, <1>4 DEF OpType
  <2>2. QED
    BY <1>3, <2>1 DEF Alive, Places, Place
<1>10. PICK live : live = Places(x, 0, k)
  OBVIOUS
<1>11. live \in SUBSET Nat
  <2>1. ASSUME NEW j \in 0 .. k - 1
        PROVE  Place(x, j) \in Nat
    <3>1. j \in Nat /\ j < Total(x)
      BY <1>5, <1>4
    <3>2. QED
      BY <1>5, <3>1, PlaceFacts
  <2>2. QED
    BY <1>10, <2>1 DEF Places
<1>12. heap' = [heap EXCEPT ![obj[op.on].data].live = live]
  <2>1. heap[obj[op.on].data].live \cup {PlaceOfNext} = live
    BY <1>2, <1>6, <1>7, <1>8, <1>10
  <2>2. QED
    BY <1>1, <2>1
<1>13. QED
  BY <1>1, <1>9, <1>10, <1>11, <1>12, ElementStep

\* What is alive, and what will be, while elements are destroyed
LEMMA DestroyFacts ==
    ASSUME IInv, op.pc \in {"rollback", "destroy"}, op.done < op.total
    PROVE  \E a \in Nat, b \in Nat :
              /\ a < b /\ b <= Total(obj[op.on])
              /\ Alive(op.on) = Places(obj[op.on], a, b)
              /\ \/ /\ op.pc = "rollback" /\ obj[op.on].kind = "array"
                    /\ PlaceOfNext = Place(obj[op.on], b - 1)
                    /\ a = 0 /\ b - 1 = op.total - (op.done + 1)
                 \/ /\ ~(op.pc = "rollback" /\ obj[op.on].kind = "array")
                    /\ PlaceOfNext = Place(obj[op.on], a)
                    /\ a + 1 = op.done + 1 /\ b = op.total
<1>1. /\ op.done \in Nat /\ op.total \in Nat
      /\ op.total <= Total(obj[op.on]) /\ Total(obj[op.on]) \in Nat
  BY InProgress
<1>2. CASE op.pc = "rollback" /\ obj[op.on].kind = "array"
  <2>1. PICK b \in Nat : b = op.total - op.done
    BY <1>1
  <2>2. 0 < b /\ b <= Total(obj[op.on]) /\ b - 1 = op.total - (op.done + 1)
        /\ b - 1 = op.total - 1 - op.done
    BY <1>1, <2>1
  <2>3. Alive(op.on) = Places(obj[op.on], 0, b)
    BY <1>2, <2>1 DEF Alive
  <2>4. PlaceOfNext = Place(obj[op.on], b - 1)
    BY <1>2, <2>2 DEF PlaceOfNext
  <2>5. QED
    BY <1>2, <2>2, <2>3, <2>4
<1>3. CASE ~(op.pc = "rollback" /\ obj[op.on].kind = "array")
  <2>1. Alive(op.on) = Places(obj[op.on], op.done, op.total)
    BY <1>3 DEF Alive
  <2>2. PlaceOfNext = Place(obj[op.on], op.done)
    BY <1>3 DEF PlaceOfNext
  <2>3. QED
    BY <1>1, <1>3, <2>1, <2>2
<1>4. QED
  BY <1>2, <1>3

LEMMA DestroyElementIInv ==
    ASSUME IInv, DestroyElement
    PROVE  IInv'
<1>1. /\ op.pc \in {"rollback", "destroy"} /\ op.done < op.total
      /\ op' = [op EXCEPT !.done = @ + 1] /\ UNCHANGED <<obj, it>>
      /\ heap' = [heap EXCEPT ![obj[op.on].data].live = @ \ {PlaceOfNext}]
  BY DEF DestroyElement
<1>2. /\ op.on \in Objects /\ obj[op.on].data # Null /\ Laid(obj[op.on])
      /\ obj[op.on].data \in DOMAIN heap /\ heap[obj[op.on].data].live = Alive(op.on)
      /\ op \in OpType /\ op.done \in Nat /\ op.total \in Nat
  BY <1>1, InProgress
<1>3. PICK x : x = obj[op.on]
  OBVIOUS
<1>4. /\ op'.on = op.on /\ op'.pc = op.pc /\ op'.done = op.done + 1
      /\ op'.total = op.total /\ obj' = obj
  BY <1>1, <1>2 DEF OpType
<1>5. Alive(op.on) \ {PlaceOfNext} = Alive(op.on)'
  <2>1. PICK a \in Nat, b \in Nat :
              /\ a < b /\ b <= Total(x)
              /\ Alive(op.on) = Places(x, a, b)
              /\ \/ /\ op.pc = "rollback" /\ x.kind = "array"
                    /\ PlaceOfNext = Place(x, b - 1)
                    /\ a = 0 /\ b - 1 = op.total - (op.done + 1)
                 \/ /\ ~(op.pc = "rollback" /\ x.kind = "array")
                    /\ PlaceOfNext = Place(x, a)
                    /\ a + 1 = op.done + 1 /\ b = op.total
    BY <1>1, <1>3, DestroyFacts
  <2>2. /\ Places(x, a, b) \ {Place(x, a)} = Places(x, a + 1, b)
        /\ Places(x, a, b) \ {Place(x, b - 1)} = Places(x, a, b - 1)
    BY <1>2, <1>3, <2>1, PlacesStep
  <2>3. CASE op.pc = "rollback" /\ x.kind = "array"
    <3>1. Alive(op.on)' = Places(x, 0, op.total - (op.done + 1))
      BY <1>3, <1>4, <2>3 DEF Alive, Places, Place
    <3>2. QED
      BY <2>1, <2>2, <2>3, <3>1
  <2>4. CASE ~(op.pc = "rollback" /\ x.kind = "array")
    <3>1. Alive(op.on)' = Places(x, op.done + 1, op.total)
      BY <1>1, <1>3, <1>4, <2>4 DEF Alive, Places, Place
    <3>2. QED
      BY <2>1, <2>2, <2>4, <3>1
  <2>5. QED
    BY <2>3, <2>4
<1>6. PICK live : live = heap[obj[op.on].data].live \ {PlaceOfNext}
  OBVIOUS
<1>7. live \in SUBSET Nat
  BY <1>2, <1>6 DEF IInv, TypeOK
<1>8. heap' = [heap EXCEPT ![obj[op.on].data].live = live] /\ live = Alive(op.on)'
  BY <1>1, <1>2, <1>5, <1>6
<1>9. QED
  BY <1>1, <1>7, <1>8, ElementStep

\* The constructor is done, or an element throws.
LEMMA ConstructedIInv ==
    ASSUME IInv, Commit \/ ElementThrows
    PROVE  IInv'
<1>1. op.pc = "construct" /\ UNCHANGED <<heap, obj, it>>
  BY DEF Commit, ElementThrows
<1>2. /\ op.on \in Objects /\ obj[op.on].data # Null /\ op \in OpType
      /\ op.done \in Nat /\ op.total \in Nat /\ op.done <= op.total
      /\ op.total <= Total(obj[op.on]) /\ op.total = Total(obj[op.on])
      /\ Total(obj[op.on]) \in Nat /\ op.throws => obj[op.on].kind # "buffer"
      /\ op.from # Null => op.from # op.on /\ obj[op.from].kind = obj[op.on].kind
  BY <1>1, InProgress
<1>3. CASE Commit
  <2>1. op.done = op.total /\ op' = NoOp
    BY <1>3 DEF Commit
  <2>2. op'.on = Null /\ op'.pc = "idle" /\ op' \in OpType
    BY <2>1 DEF NoOp, OpType
  <2>3. TypeOK' /\ OpInv'
    BY <1>1, <2>2 DEF IInv, TypeOK, OpInv, OpType
  <2>4. ASSUME NEW q \in Objects, obj[q].data # Null
        PROVE  heap'[obj[q].data].live = Alive(q)'
    <3>1. Alive(q)' = Places(obj[q], 0, Total(obj[q]))
      BY <1>1, <2>2, NullAssumption DEF Alive, Places, Place, Total
    <3>2. Alive(q) = Places(obj[q], 0, Total(obj[q]))
      BY <1>1, <1>2, <2>1 DEF Alive
    <3>3. QED
      BY <1>1, <2>4, <3>1, <3>2, ObjectFacts
  <2>5. QED
    BY <1>1, <2>2, <2>3, <2>4, Stepped
<1>4. CASE ElementThrows
  <2>1. op.throws /\ op.done < op.total
    BY <1>4 DEF ElementThrows
  <2>2. op' = [op EXCEPT !.pc = "rollback", !.done = 0, !.total = op.done]
    BY <1>2, <1>4, <2>1 DEF ElementThrows, Counted
  <2>3. /\ op'.pc = "rollback" /\ op'.on = op.on /\ op'.from = op.from /\ op'.done = 0
        /\ op'.total = op.done /\ op'.throws = op.throws /\ op' \in OpType
    BY <1>2, <2>2 DEF OpType
  <2>4. TypeOK'
    BY <1>1, <2>3 DEF IInv, TypeOK, OpType
  <2>5. OpInv'
    <3>1. op.done <= Total(obj[op.on])
      BY <1>2
    <3>2. QED
      BY <1>1, <1>2, <2>1, <2>3, <3>1 DEF OpInv, Total
  <2>6. ASSUME NEW q \in Objects, obj[q].data # Null
        PROVE  heap'[obj[q].data].live = Alive(q)'
    <3>1. CASE q # op.on
      <4>1. Alive(q)' = Alive(q)
        BY <1>1, <2>3, <3>1 DEF Alive, Places, Place, Total
      <4>2. QED
        BY <1>1, <2>6, <4>1, ObjectFacts
    <3>2. CASE q = op.on
      <4>1. Alive(q) = Places(obj[q], 0, op.done)
        BY <1>1, <3>2 DEF Alive
      <4>2. op.done - 0 = op.done
        BY <1>2
      <4>3. Alive(q)' = Places(obj[q], 0, op.done)
        BY <1>1, <2>3, <3>2, <4>2 DEF Alive, Places, Place
      <4>4. QED
        BY <1>1, <2>6, <4>1, <4>3, ObjectFacts
    <3>3. QED
      BY <3>1, <3>2
  <2>7. QED
    BY <1>1, <2>3, <2>4, <2>5, <2>6, Stepped
<1>5. QED
  BY <1>3, <1>4

\* The memory of an object whose construction failed is freed.
LEMMA FreeRolledBackIInv ==
    ASSUME IInv, FreeRolledBack
    PROVE  IInv'
<1>1. /\ op.pc = "rollback" /\ heap' = Deallocated /\ it' = it
      /\ obj' = [obj EXCEPT ![op.on] = NoObject] /\ op' = NoOp
  BY DEF FreeRolledBack
<1>2. op.on \in Objects /\ obj[op.on].data # Null /\ obj[op.on].data \in DOMAIN heap
  BY <1>1, InProgress
<1>3. PICK gone \in Blocks : gone = obj[op.on].data
  BY <1>2 DEF IInv, TypeOK
<1>4. TypeOK /\ obj \in [Objects -> ObjectType \cup {NoObject}]
  BY Typed DEF IInv
<1>5. /\ obj'[op.on].data = Null
      /\ \A q \in Objects : q # op.on => obj'[q] = obj[q] /\ obj[q].data # gone
  BY <1>1, <1>2, <1>3, <1>4, OwnersDiffer DEF NoObject
<1>6. DOMAIN heap' = DOMAIN heap \ {gone} /\ \A b \in DOMAIN heap' : heap'[b] = heap[b]
  BY <1>1, <1>3 DEF Deallocated
<1>7. op'.on = Null /\ op'.pc = "idle" /\ op' \in OpType
  BY <1>1 DEF NoOp, OpType
<1>8. TypeOK'
  <2>1. obj' \in [Objects -> ObjectType \cup {NoObject}]
    BY <1>1, <1>4
  <2>2. /\ DOMAIN heap' \subseteq Blocks
        /\ \A b \in DOMAIN heap' :
              heap'[b] \in [bytes : 0 .. MaxSize \div 2, live : SUBSET Nat]
    BY <1>4, <1>6 DEF TypeOK
  <2>3. QED
    BY <1>1, <1>4, <1>7, <2>1, <2>2 DEF TypeOK, OpType, ObjectType
<1>9. it # NoIterator => it.data # gone
  <2>1. SUFFICES ASSUME it # NoIterator
                 PROVE  it.data # gone
    OBVIOUS
  <2>2. PICK q \in Objects : PointsInto(q) /\ it.data # Null
    BY <2>1 DEF IInv, IteratorInv
  <2>3. q # op.on /\ obj[q].data = it.data
    BY <1>1, <2>2 DEF PointsInto
  <2>4. QED
    BY <1>5, <2>3
<1>10. \A q, r \in Objects : obj'[q].data # Null /\ obj'[q].data = obj'[r].data => q = r
  BY <1>5, OwnersDiffer
<1>11. ASSUME NEW q \in Objects, obj'[q].data # Null
       PROVE  obj'[q].data # gone /\ \E r \in Objects : obj'[q] = obj[r] /\ op.on # r
  BY <1>5, <1>11
<1>12. ASSUME NEW q \in Objects, obj[q].data \notin {Null, gone}
       PROVE  \E r \in Objects : obj'[r].data = obj[q].data
  BY <1>3, <1>5, <1>12
<1>13. QED
  BY <1>1, <1>3, <1>6, <1>7, <1>8, <1>9, <1>10, <1>11, <1>12, Rearranged

\* The memory of an object is freed, which may take over that of another.
LEMMA FreeIInv ==
    ASSUME IInv, Free
    PROVE  IInv'
<1>1. /\ op.pc = "destroy" /\ heap' = Deallocated
      /\ it' = IF it.data = obj[op.on].data THEN NoIterator ELSE it
  BY DEF Free
<1>2. /\ op.on \in Objects /\ obj[op.on].data # Null /\ obj[op.on].data \in DOMAIN heap
      /\ op \in OpType
      /\ op.from # Null => op.from # op.on /\ obj[op.from].kind = obj[op.on].kind
  BY <1>1, InProgress
<1>3. PICK gone \in Blocks : gone = obj[op.on].data
  BY <1>2 DEF IInv, TypeOK
<1>4. TypeOK /\ obj \in [Objects -> ObjectType \cup {NoObject}]
  BY Typed DEF IInv
<1>5. DOMAIN heap' = DOMAIN heap \ {gone} /\ \A b \in DOMAIN heap' : heap'[b] = heap[b]
  BY <1>1, <1>3 DEF Deallocated
<1>6. \/ it' = it /\ (it # NoIterator => it.data # gone)
      \/ it' = NoIterator
  BY <1>1, <1>3
<1>7. CASE op.from = Null
  <2>1. obj' = [obj EXCEPT ![op.on] = NoObject] /\ op' = NoOp
    BY <1>7 DEF Free
  <2>2. /\ obj'[op.on].data = Null
        /\ \A q \in Objects : q # op.on => obj'[q] = obj[q] /\ obj[q].data # gone
    BY <1>2, <1>3, <1>4, <2>1, OwnersDiffer DEF NoObject
  <2>3. op'.on = Null /\ op'.pc = "idle" /\ op' \in OpType
    BY <2>1 DEF NoOp, OpType
  <2>4. TypeOK'
    <3>1. obj' \in [Objects -> ObjectType \cup {NoObject}]
      BY <1>4, <2>1
    <3>2. /\ DOMAIN heap' \subseteq Blocks
          /\ \A b \in DOMAIN heap' :
                heap'[b] \in [bytes : 0 .. MaxSize \div 2, live : SUBSET Nat]
      BY <1>4, <1>5 DEF TypeOK
    <3>3. it' \in [data : Blocks \cup {Null}, index : Nat, cols : Nat, per : Nat]
      BY <1>4, <1>6 DEF TypeOK, NoIterator
    <3>4. QED
      BY <2>3, <3>1, <3>2, <3>3 DEF TypeOK, OpType, ObjectType
  <2>5. \A q, r \in Objects : obj'[q].data # Null /\ obj'[q].data = obj'[r].data => q = r
    BY <2>2, OwnersDiffer
  <2>6. ASSUME NEW q \in Objects, obj'[q].data # Null
        PROVE  obj'[q].data # gone /\ \E r \in Objects : obj'[q] = obj[r] /\ op.on # r
    BY <2>2, <2>6
  <2>7. ASSUME NEW q \in Objects, obj[q].data \notin {Null, gone}
        PROVE  \E r \in Objects : obj'[r].data = obj[q].data
    BY <1>3, <2>2, <2>7
  <2>8. QED
    BY <1>3, <1>5, <1>6, <2>3, <2>4, <2>5, <2>6, <2>7, Rearranged
<1>8. CASE op.from # Null
  <2>1. TakeOver(op.on, op.from)
    BY <1>8 DEF Free
  <2>2. op.from \in Objects /\ op.from # op.on
    BY <1>2, <1>8 DEF OpType
  <2>3. obj[op.from].kind \in Kinds
    <3>1. obj[op.on].kind \in Kinds
      BY <1>2, ObjectFacts DEF Fits
    <3>2. QED
      BY <1>2, <1>8, <3>1
  <2>4. PICK o \in Objects : o = op.on
    BY <1>2
  <2>5. PICK p \in Objects : p = op.from
    BY <2>2
  <2>6. /\ o # p /\ obj[p].kind \in Kinds /\ TakeOver(o, p) /\ op.on # p
        /\ \A q \in Objects \ {o} : op.on # q
        /\ gone = obj[o].data
    BY <1>3, <2>1, <2>2, <2>3, <2>4, <2>5
  <2>7. QED
    BY <1>5, <1>6, <2>6, TakeOverIInv
<1>9. QED
  BY <1>7, <1>8

-----------------------------------------------------------------------------
(* Iterators                                                                 *)

\* The object an iterator leads into
LEMMA OwnerFacts ==
    ASSUME IInv, it # NoIterator
    PROVE  /\ Owner \in Objects /\ PointsInto(Owner) /\ it.data # Null
           /\ obj[Owner].data = it.data /\ Laid(obj[Owner])
           /\ \A p \in Objects : PointsInto(p) => p = Owner
<1>1. PICK p \in Objects : PointsInto(p) /\ it.data # Null
  BY DEF IInv, IteratorInv
<1>2. Owner \in Objects /\ obj[Owner].data = it.data
  BY <1>1 DEF Owner, PointsInto
<1>3. \A q \in Objects : obj[q].data = it.data => q = p
  BY <1>1, OwnersDiffer DEF PointsInto
<1>4. Owner = p
  BY <1>2, <1>3
<1>5. QED
  BY <1>1, <1>2, <1>3, <1>4, ObjectFacts DEF PointsInto

\* Nothing happens to the objects.
LEMMA NothingDone ==
    ASSUME IInv, UNCHANGED <<heap, obj, op>>
    PROVE  OwnerInv' /\ OpInv'
<1>1. ASSUME NEW o \in Objects
      PROVE  Alive(o)' = Alive(o) /\ Fits(obj[o])' = Fits(obj[o])
  BY DEF Alive, Places, Place, Total, Fits
<1>2. OwnerInv'
  BY <1>1 DEF IInv, OwnerInv
<1>3. OpInv'
  BY DEF IInv, OpInv, Total
<1>4. QED
  BY <1>2, <1>3

\* An iterator is moved within its buffer.
LEMMA IteratorMoved ==
    ASSUME IInv, UNCHANGED <<heap, obj, op>>, op.pc = "idle", NEW o \in Objects,
           obj[o].data # Null, NEW index \in Nat, index <= obj[o].rows,
           it' = [data |-> obj[o].data, index |-> index,
                  cols |-> obj[o].cols, per |-> obj[o].per]
    PROVE  IInv'
<1>1. Laid(obj[o]) /\ obj[o].data \in Blocks
  BY ObjectFacts
<1>2. it' \in [data : Blocks \cup {Null}, index : Nat, cols : Nat, per : Nat]
  BY <1>1 DEF Laid
<1>3. TypeOK'
  BY <1>2 DEF IInv, TypeOK
<1>4. OwnerInv' /\ OpInv'
  BY NothingDone
<1>5. PointsInto(o)' /\ it'.data # Null
  BY DEF PointsInto
<1>6. IteratorInv'
  BY <1>5 DEF IteratorInv
<1>7. QED
  BY <1>3, <1>4, <1>6 DEF IInv

LEMMA BeginEndIInv ==
    ASSUME IInv, NEW o \in Objects, Begin(o) \/ End(o)
    PROVE  IInv'
<1>1. op.pc = "idle" /\ obj[o].data # Null /\ UNCHANGED <<heap, obj, op>>
  BY DEF Begin, End, Iterable
<1>2. obj[o].rows \in Nat
  BY <1>1, ObjectFacts DEF Laid
<1>3. PICK index \in {0, obj[o].rows} :
          it' = [data |-> obj[o].data, index |-> index,
                 cols |-> obj[o].cols, per |-> obj[o].per]
  BY DEF Begin, End
<1>4. index \in Nat /\ index <= obj[o].rows
  BY <1>2, <1>3
<1>5. QED
  BY <1>1, <1>3, <1>4, IteratorMoved

LEMMA AdvanceIInv ==
    ASSUME IInv, NEW d \in Int, Advance(d) \/ Retreat(d)
    PROVE  IInv'
<1>1. op.pc = "idle" /\ it # NoIterator /\ UNCHANGED <<heap, obj, op>>
  BY DEF Advance, Retreat, MayAdvance
<1>2. /\ Owner \in Objects /\ obj[Owner].data # Null /\ PointsInto(Owner)
      /\ Laid(obj[Owner]) /\ obj[Owner].data = it.data
  BY <1>1, OwnerFacts
<1>3. it \in [data : Blocks \cup {Null}, index : Nat, cols : Nat, per : Nat]
  BY DEF IInv, TypeOK
<1>4. it.cols = obj[Owner].cols /\ it.per = obj[Owner].per /\ it.index \in Nat
  BY <1>2, <1>3 DEF PointsInto
<1>5. obj[Owner].rows \in Sizes
  BY <1>2, Typed, MaxSizeAssumption DEF IInv, ObjectType, NoObject
<1>6. PICK e \in Int : /\ it.index + e \in 0 .. obj[Owner].rows
                       /\ it' = [it EXCEPT !.index = Wrapped(it.index + e)]
  <2>1. CASE Advance(d)
    <3>1. it.index + d \in 0 .. obj[Owner].rows
      BY <2>1 DEF Advance, MayAdvance
    <3>2. Wrapped(it.index + Wrapped(d)) = Wrapped(it.index + d)
      <4>1. PICK i \in Int : i = it.index
        BY <1>4
      <4>2. Wrapped(i + Wrapped(d)) = Wrapped(i + d)
        BY WrappedFacts
      <4>3. QED
        BY <4>1, <4>2
    <3>3. QED
      BY <2>1, <3>1, <3>2 DEF Advance
  <2>2. CASE Retreat(d)
    <3>1. it.index + (-d) \in 0 .. obj[Owner].rows
      BY <2>2 DEF Retreat, MayAdvance
    <3>2. Wrapped(it.index - Wrapped(d)) = Wrapped(it.index + (-d))
      <4>1. PICK i \in Int : i = it.index
        BY <1>4
      <4>2. Wrapped(i - Wrapped(d)) = Wrapped(i - d)
        BY WrappedFacts
      <4>3. i - d = i + (-d)
        OBVIOUS
      <4>4. QED
        BY <4>1, <4>2, <4>3
    <3>3. QED
      BY <2>2, <3>1, <3>2 DEF Retreat
  <2>3. QED
    BY <2>1, <2>2
<1>7. PICK index \in Nat : index = it.index + e /\ index <= obj[Owner].rows
  BY <1>4, <1>5, <1>6 DEF Sizes
<1>8. Wrapped(index) = index
  <2>1. index \in Sizes
    BY <1>5, <1>7, MaxSizeAssumption DEF Sizes
  <2>2. QED
    BY <2>1, WrappedFacts
<1>9. it' = [data |-> obj[Owner].data, index |-> index,
             cols |-> obj[Owner].cols, per |-> obj[Owner].per]
  BY <1>2, <1>3, <1>4, <1>6, <1>7, <1>8
<1>10. PICK o \in Objects : o = Owner
  BY <1>2
<1>11. QED
  BY <1>1, <1>2, <1>7, <1>9, <1>10, IteratorMoved

-----------------------------------------------------------------------------
(* The invariant                                                             *)

LEMMA UnchangedIInv ==
    ASSUME IInv, UNCHANGED vars
    PROVE  IInv'
<1>1. OwnerInv' /\ OpInv'
  BY NothingDone DEF vars
<1>2. TypeOK' /\ IteratorInv'
  BY DEF vars, IInv, TypeOK, IteratorInv, PointsInto
<1>3. QED
  BY <1>1, <1>2 DEF IInv

LEMMA NextIInv ==
    ASSUME IInv, [Next]_vars
    PROVE  IInv'
<1>1. 1 \in Sizes
  BY MaxSizeAssumption DEF Sizes
<1>2. ASSUME NEW s \in Shapes
      PROVE  s[1] \in Sizes /\ s[2] \in Sizes
  BY ShapesAssumption
<1>3. ASSUME NEW o \in Objects, NEW kind \in Kinds, DefaultConstruct(o, kind)
      PROVE  IInv'
  BY <1>3, EmptyIInv
<1>4. ASSUME NEW o \in Objects, NEW kind \in Kinds, NEW s \in Shapes,
             ConstructEmpty(o, kind, s[1], IF kind = "buffer" THEN 1 ELSE s[2])
      PROVE  IInv'
  <2>1. PICK cols \in Sizes : cols = IF kind = "buffer" THEN 1 ELSE s[2]
    BY <1>1, <1>2
  <2>2. QED
    BY <1>2, <1>4, <2>1, EmptyIInv
<1>5. ASSUME NEW o \in Objects, NEW kind \in Kinds, NEW s \in Shapes, NEW b \in Blocks,
             NEW throws \in BOOLEAN,
             Construct(o, kind, s[1], IF kind = "rows" THEN s[2] ELSE 1, b, throws)
      PROVE  IInv'
  <2>1. PICK cols \in Sizes : cols = IF kind = "rows" THEN s[2] ELSE 1
    BY <1>1, <1>2
  <2>2. kind # "rows" => cols = 1
    BY <2>1
  <2>3. Construct(o, kind, s[1], cols, b, throws)
    BY <1>5, <2>1
  <2>4. QED
    BY <1>2, <2>2, <2>3, ConstructIInv
<1>6. ASSUME NEW o \in Objects, NEW p \in Objects, MoveConstruct(o, p) \/ MoveAssign(o, p)
      PROVE  IInv'
  BY <1>6, MoveConstructIInv, MoveAssignIInv
<1>7. ASSUME NEW o \in Objects, Destroy(o) \/ Begin(o) \/ End(o)
      PROVE  IInv'
  BY <1>7, DestroyIInv, BeginEndIInv
<1>8. CASE ConstructElement \/ ElementThrows \/ Commit
  BY <1>8, ConstructElementIInv, ConstructedIInv
<1>9. CASE DestroyElement \/ FreeRolledBack \/ Free
  BY <1>9, DestroyElementIInv, FreeRolledBackIInv, FreeIInv
<1>10. ASSUME NEW d \in Steps, Advance(d) \/ Retreat(d)
       PROVE  IInv'
  BY <1>10, AdvanceIInv DEF Steps
<1>11. CASE Undefined \/ UNCHANGED vars
  BY <1>11, UnchangedIInv DEF Undefined
<1>12. QED
  BY <1>3, <1>4, <1>5, <1>6, <1>7, <1>8, <1>9, <1>10, <1>11 DEF Next

(* Whatever has a block fits into the block it was allocated, whose live     *)
(* elements are those the operation in progress has left; each block has one *)
(* owner, and an iterator leads into a buffer that exists.                   *)
THEOREM Inductive == Spec => []IInv
<1>1. Init => IInv
  BY Initially
<1>2. IInv /\ [Next]_vars => IInv'
  BY NextIInv
<1>3. QED
  BY <1>1, <1>2, PTL DEF Spec

-----------------------------------------------------------------------------
(* What follows from it                                                      *)

\* A place in a unit of the alignment of its own: what ends before it is in an earlier one.
LEMMA UnitsApart ==
    ASSUME NEW n \in Nat, NEW a \in Nat \ {0}, NEW byte \in Nat, byte < n * a
    PROVE  byte \div a # (n * a) \div a
<1>1. (n * a) \div a = n
  <2>1. (n * a + 0) \div a = n
    BY DivUnique
  <2>2. n * a + 0 = n * a
    OBVIOUS
  <2>3. QED
    BY <2>1, <2>2
<1>2. PICK q \in Nat, r \in Nat : q = byte \div a /\ byte = q * a + r
  BY DivMod
<1>3. SUFFICES ASSUME q = n
               PROVE  FALSE
  BY <1>1, <1>2
<1>4. QED
  BY <1>2, <1>3

\* Whole rows begin at a multiple of what their length is a multiple of.
LEMMA RowsAligned ==
    ASSUME NEW q \in Nat, NEW per \in Nat, NEW a \in Nat \ {0}, per % a = 0
    PROVE  \E n \in Nat : q * per = n * a
<1>1. PICK m \in Nat : per = m * a
  <2>1. per \div a \in Nat /\ per = (per \div a) * a + (per % a)
    BY DivMod
  <2>2. per = (per \div a) * a
    BY <2>1
  <2>3. QED
    BY <2>1, <2>2
<1>2. q * per = (q * m) * a /\ q * m \in Nat
  BY <1>1
<1>3. QED
  BY <1>2

LEMMA ConstructsApartHolds ==
    ASSUME IInv
    PROVE  ConstructsApart
<1>1. SUFFICES ASSUME op.pc = "construct", op.done < op.total
               PROVE  LET x == obj[op.on]
                          elements == heap[x.data].live
                      IN  /\ PlaceOfNext + SizeOfT <= heap[x.data].bytes
                          /\ \A e \in elements : Span(e) \cap Span(PlaceOfNext) = {}
                          /\ x.kind # "array" /\ op.done % x.cols = 0 =>
                                /\ PlaceOfNext % Alignment = 0
                                /\ \A e \in elements : \A byte \in Span(e) :
                                      byte \div Alignment # PlaceOfNext \div Alignment
  BY DEF ConstructsApart
<1>2. PICK x : x = obj[op.on]
  OBVIOUS
<1>3. /\ Laid(x) /\ Fits(x) /\ op.done \in Nat /\ op.done < Total(x)
      /\ Total(x) \in Nat /\ heap[x.data].live = Alive(op.on)
      /\ heap[x.data].bytes = x.rows * x.per
  <2>1. /\ op.on \in Objects /\ obj[op.on].data # Null /\ op.done \in Nat
        /\ op.total \in Nat /\ op.total = Total(obj[op.on])
    BY <1>1, InProgress
  <2>2. QED
    BY <1>1, <1>2, <2>1, ObjectFacts
<1>4. PICK k \in Nat : k = op.done
  BY <1>3
<1>5. PICK place \in Nat : place = Place(x, k)
  BY <1>3, <1>4, PlaceFacts
<1>6. PlaceOfNext = place
  BY <1>1, <1>2, <1>4, <1>5 DEF PlaceOfNext
<1>7. SizeOfT \in Nat \ {0} /\ Alignment \in Nat \ {0}
  BY ElementAssumption DEF Sizes
<1>8. place + SizeOfT <= x.rows * x.per
  BY <1>3, <1>4, <1>5, PlaceFacts
<1>9. ASSUME NEW e \in heap[x.data].live
      PROVE  e \in Nat /\ e + SizeOfT <= place
  <2>1. e \in Places(x, 0, k)
    BY <1>1, <1>2, <1>3, <1>4, <1>9 DEF Alive
  <2>2. PICK j \in 0 .. k - 1 : e = Place(x, j)
    BY <2>1 DEF Places
  <2>3. j \in Nat /\ j < k /\ k < Total(x)
    BY <1>3, <1>4
  <2>4. QED
    BY <1>3, <1>5, <2>2, <2>3, PlacesApart
<1>10. \A e \in heap[x.data].live : Span(e) \cap Span(place) = {}
  BY <1>7, <1>9 DEF Span
<1>11. ASSUME x.kind # "array", op.done % x.cols = 0
       PROVE  /\ place % Alignment = 0
              /\ \A e \in heap[x.data].live : \A byte \in Span(e) :
                    byte \div Alignment # place \div Alignment
  <2>1. PICK q \in Nat : place = q * x.per
    <3>1. PICK q \in Nat : q = k \div x.cols
      BY <1>3, <1>4, PlaceFacts DEF Laid
    <3>2. Place(x, k) = q * x.per + 0 * SizeOfT
      BY <1>3, <1>4, <1>11, <3>1, PlaceFacts
    <3>3. q * x.per \in Nat /\ 0 * SizeOfT = 0
      BY <1>3, <1>7, <3>1 DEF Laid
    <3>4. QED
      BY <1>5, <3>1, <3>2, <3>3
  <2>2. x.per \in Nat /\ x.per % Alignment = 0
    BY <1>3, <1>11 DEF Laid, Fits
  <2>3. PICK n \in Nat : q * x.per = n * Alignment
    BY <1>7, <2>2, RowsAligned
  <2>4. place % Alignment = 0
    BY <1>7, <2>1, <2>3, MultipleDivides
  <2>5. ASSUME NEW e \in heap[x.data].live, NEW byte \in Span(e)
        PROVE  byte \div Alignment # place \div Alignment
    <3>1. byte \in Nat /\ byte < n * Alignment
      BY <1>7, <1>9, <2>1, <2>3 DEF Span
    <3>2. QED
      BY <1>7, <2>1, <2>3, <3>1, UnitsApart
  <2>6. QED
    BY <2>4, <2>5
<1>12. QED
  BY <1>2, <1>3, <1>6, <1>8, <1>10, <1>11

(* An element is constructed within its block, where no other one is alive,  *)
(* and in an aligned place; rows do not share a unit of the alignment.       *)
THEOREM ElementsApart == Spec => []ConstructsApart
BY Inductive, ConstructsApartHolds, PTL

LEMMA DestroysOnceHolds ==
    ASSUME IInv
    PROVE  DestroysOnce
<1>1. SUFFICES ASSUME op.pc \in {"destroy", "rollback"}
               PROVE  IF op.done < op.total
                        THEN PlaceOfNext \in heap[obj[op.on].data].live
                        ELSE heap[obj[op.on].data].live = {}
  BY DEF DestroysOnce
<1>2. /\ Laid(obj[op.on]) /\ Total(obj[op.on]) \in Nat
      /\ heap[obj[op.on].data].live = Alive(op.on)
      /\ op.done \in Nat /\ op.total \in Nat /\ op.done <= op.total
  BY <1>1, InProgress
<1>3. CASE op.done < op.total
  <2>1. PICK a \in Nat, b \in Nat :
            /\ a < b /\ b <= Total(obj[op.on])
            /\ Alive(op.on) = Places(obj[op.on], a, b)
            /\ PlaceOfNext \in {Place(obj[op.on], a), Place(obj[op.on], b - 1)}
    BY <1>1, <1>3, DestroyFacts
  <2>2. PICK x : x = obj[op.on]
    OBVIOUS
  <2>3. Place(x, a) \in Places(x, a, b) /\ Place(x, b - 1) \in Places(x, a, b)
    BY <1>2, <2>1, <2>2, PlacesStep
  <2>4. QED
    BY <1>2, <1>3, <2>1, <2>2, <2>3
<1>4. CASE ~(op.done < op.total)
  <2>1. op.done = op.total /\ op.total - op.done = 0
    BY <1>2, <1>4
  <2>2. Alive(op.on) = {}
    BY <1>1, <1>2, <2>1 DEF Alive, Places
  <2>3. QED
    BY <1>2, <1>4, <2>2
<1>5. QED
  BY <1>3, <1>4

(* What is destroyed is alive, and when the memory is freed nothing is.      *)
THEOREM ElementsDestroyedOnce == Spec => []DestroysOnce
BY Inductive, DestroysOnceHolds, PTL

LEMMA FreedAsAllocatedHolds ==
    ASSUME IInv
    PROVE  FreedAsAllocated
<1>1. SUFFICES ASSUME op.pc \in {"destroy", "rollback"}
               PROVE  FreedBytes(obj[op.on]) = heap[obj[op.on].data].bytes
  BY DEF FreedAsAllocated
<1>2. op.on \in Objects /\ obj[op.on].data # Null
  BY <1>1, InProgress
<1>3. /\ heap[obj[op.on].data].bytes = obj[op.on].rows * obj[op.on].per
      /\ heap[obj[op.on].data].bytes \in 0 .. MaxSize \div 2
  BY <1>2, ObjectFacts
<1>4. PICK n \in Sizes : n = obj[op.on].rows * obj[op.on].per
  BY <1>3, MaxSizeAssumption DEF Sizes
<1>5. Wrapped(n) = n
  BY WrappedFacts
<1>6. QED
  BY <1>3, <1>4, <1>5 DEF FreedBytes

(* Memory is freed with the size it was allocated with.                      *)
THEOREM SizesAgree == Spec => []FreedAsAllocated
BY Inductive, FreedAsAllocatedHolds, PTL

LEMMA OneOwnerHolds ==
    ASSUME IInv
    PROVE  OneOwner
<1>1. SUFFICES ASSUME op.pc \in {"idle", "undefined"}
               PROVE  /\ \A o \in Objects : obj[o].data # Null => obj[o].data \in DOMAIN heap
                      /\ \A b \in DOMAIN heap :
                            \E o \in Objects :
                                /\ \A p \in Objects : obj[p].data = b <=> p = o
                                /\ heap[b].live =
                                      {Place(obj[o], k) : k \in 0 .. Total(obj[o]) - 1}
  BY DEF OneOwner
<1>2. \A o \in Objects : op.on # o
  BY <1>1, NullAssumption DEF IInv, OpInv
<1>3. \A o \in Objects : obj[o].data # Null => obj[o].data \in DOMAIN heap
  BY ObjectFacts DEF Fits
<1>4. ASSUME NEW b \in DOMAIN heap
      PROVE  \E o \in Objects :
                /\ \A p \in Objects : obj[p].data = b <=> p = o
                /\ heap[b].live = {Place(obj[o], k) : k \in 0 .. Total(obj[o]) - 1}
  <2>1. PICK o \in Objects : obj[o].data = b
    BY DEF IInv, OwnerInv
  <2>2. b # Null
    BY NullAssumption DEF IInv, TypeOK
  <2>3. heap[b].live = Places(obj[o], 0, Total(obj[o]))
    BY <1>2, <2>1, <2>2, ObjectFacts DEF Alive
  <2>4. \A p \in Objects : obj[p].data = b <=> p = o
    BY <2>1, <2>2, OwnersDiffer
  <2>5. QED
    BY <2>3, <2>4 DEF Places
<1>5. QED
  BY <1>3, <1>4

(* Each block belongs to one object, whose elements are all alive; no object *)
(* points to memory that is not allocated.                                   *)
THEOREM BlocksOwned == Spec => []OneOwner
BY Inductive, OneOwnerHolds, PTL

\* Rows are not empty: there are no more of them than bytes.
LEMMA RowsCounted ==
    ASSUME NEW rows \in Nat, NEW cols \in Nat \ {0}, NEW per \in Nat, cols * SizeOfT <= per
    PROVE  rows <= rows * per
<1>1. SizeOfT \in Nat \ {0}
  BY ElementAssumption DEF Sizes
<1>2. 1 <= per
  <2>1. 1 * SizeOfT <= cols * SizeOfT
    BY <1>1, ProductMonotonic
  <2>2. cols * SizeOfT \in Nat /\ 1 * SizeOfT = SizeOfT
    BY <1>1
  <2>3. QED
    BY <1>1, <2>1, <2>2
<1>3. 1 * rows <= per * rows
  BY <1>2, ProductMonotonic
<1>4. QED
  BY <1>3

\* A distance converted back and forth
LEMMA DistanceWraps ==
    ASSUME NEW index \in Nat, it.index = index, NEW i \in Nat
    PROVE  DistanceTo(i) \in Int /\ Wrapped(DistanceTo(i)) = Wrapped(i - index)
<1>1. PICK d \in Sizes : d = Wrapped(i - index)
  BY WrappedFacts
<1>2. MaxSize \in Nat /\ d \in Int
  BY <1>1, MaxSizeAssumption DEF Sizes
<1>3. DistanceTo(i) = IF d <= MaxSize \div 2 THEN d ELSE d - MaxSize - 1
  BY <1>1 DEF DistanceTo
<1>4. d - MaxSize - 1 = d - (MaxSize + 1) /\ d - (MaxSize + 1) \in Int
  BY <1>2
<1>5. Wrapped(d) = d /\ Wrapped(d - (MaxSize + 1)) = Wrapped(d)
  BY <1>1, <1>2, WrappedFacts
<1>6. QED
  BY <1>1, <1>2, <1>3, <1>4, <1>5

LEMMA IteratorSoundHolds ==
    ASSUME IInv
    PROVE  IteratorSound
<1>1. SUFFICES ASSUME op.pc = "idle", it # NoIterator
               PROVE  /\ it.data \in DOMAIN heap
                      /\ it.index <= obj[Owner].rows /\ it.cols = obj[Owner].cols
                      /\ DistanceTo(obj[Owner].rows) = obj[Owner].rows - it.index
                      /\ \A i \in 0 .. obj[Owner].rows - 1 :
                            IteratorRowAt(DistanceTo(i)) = RowAt(obj[Owner], i)
  BY DEF IteratorSound
<1>2. PICK x : x = obj[Owner]
  OBVIOUS
<1>3. /\ Owner \in Objects /\ x.data # Null /\ x.data = it.data /\ it.index <= x.rows
      /\ it.cols = x.cols /\ it.per = x.per
  BY <1>1, <1>2, OwnerFacts DEF PointsInto
<1>4. /\ Laid(x) /\ Fits(x) /\ heap[x.data].bytes = x.rows * x.per
      /\ heap[x.data].bytes \in 0 .. MaxSize \div 2
  BY <1>2, <1>3, ObjectFacts
<1>5. PICK index \in Nat : index = it.index
  BY DEF IInv, TypeOK
<1>6. PICK rows \in Nat : rows = x.rows
  BY <1>4 DEF Laid
<1>7. rows <= MaxSize \div 2 /\ index <= rows /\ MaxSize \in Nat
  <2>1. rows <= rows * x.per
    BY <1>4, <1>6, RowsCounted DEF Laid
  <2>2. rows * x.per \in 0 .. MaxSize \div 2
    BY <1>4, <1>6
  <2>3. QED
    BY <1>3, <1>5, <1>6, <2>1, <2>2, MaxSizeAssumption
<1>8. DistanceTo(rows) = rows - index
  <2>1. rows - index \in Sizes /\ rows - index <= MaxSize \div 2
    BY <1>7 DEF Sizes
  <2>2. Wrapped(rows - index) = rows - index
    BY <2>1, WrappedFacts
  <2>3. QED
    BY <1>5, <2>1, <2>2 DEF DistanceTo
<1>9. ASSUME NEW i \in 0 .. rows - 1
      PROVE  IteratorRowAt(DistanceTo(i)) = RowAt(x, i)
  <2>1. i \in Nat /\ i \in Sizes
    BY <1>7 DEF Sizes
  <2>2. PICK d \in Int : d = DistanceTo(i) /\ Wrapped(d) = Wrapped(i - index)
    BY <1>5, <2>1, DistanceWraps
  <2>3. Wrapped(index + Wrapped(i - index)) = Wrapped(index + (i - index))
    BY <2>1, WrappedFacts
  <2>4. index + (i - index) = i /\ Wrapped(i) = i
    BY <2>1, WrappedFacts
  <2>5. Wrapped(index + Wrapped(d)) = i
    BY <2>2, <2>3, <2>4
  <2>6. QED
    BY <1>3, <1>5, <2>2, <2>5 DEF IteratorRowAt, RowAt
<1>10. x.data \in DOMAIN heap
  BY <1>4 DEF Fits
<1>11. QED
  BY <1>2, <1>3, <1>5, <1>6, <1>8, <1>9, <1>10

(* An iterator stays good while the buffer is moved, and leads to its rows.  *)
THEOREM IteratorsStayGood == Spec => []IteratorSound
BY Inductive, IteratorSoundHolds, PTL

=============================================================================
