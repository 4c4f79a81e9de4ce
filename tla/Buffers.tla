------------------------------- MODULE Buffers -------------------------------
(*****************************************************************************)
(* The owners of memory of patton/buffer.hpp and patton/memory.hpp:          *)
(* aligned_buffer, aligned_row_buffer and the arrays of allocate_unique.     *)
(* Each allocates, constructs its elements one by one, and is moved from     *)
(* and to until it destroys its elements and frees its memory; an element    *)
(* may throw while it is constructed.                                        *)
(*                                                                           *)
(* The allocator and std::unique_ptr are external.  A byte is named by its   *)
(* distance from the begin of its block.                                     *)
(*****************************************************************************)
EXTENDS CheckedArithmetic, FiniteSets

CONSTANTS
    Objects,        \* the variables of a program
    Blocks,         \* where memory can be allocated
    Null,           \* nullptr
    Shapes,         \* what is asked for: <<rows, columns>>
    SizeOfT,        \* sizeof(T)
    Alignment,      \* alignment_in_bytes(Alignment | alignof(T))
    ThrowingKinds   \* the kinds of object used with elements that may throw

Kinds == {"buffer", "rows", "array"}

ASSUME NullAssumption == Null \notin Blocks \cup Objects

ASSUME ShapesAssumption == Shapes \subseteq Sizes \X Sizes

\* The constructor of aligned_buffer does not count elements from zero (see Counted).
ASSUME ThrowingAssumption == ThrowingKinds \subseteq Kinds \ {"buffer"}

ASSUME ElementAssumption == {SizeOfT, Alignment} \subseteq Sizes \ {0}

VARIABLES
    heap,       \* what is allocated: the blocks, with the elements that are alive
    obj,        \* the objects
    op,         \* the operation in progress
    it          \* an iterator of the client

vars == <<heap, obj, op, it>>

NoObject == [kind |-> "none", data |-> Null, rows |-> 0, cols |-> 0, per |-> 0]

\* size_ of an aligned_buffer and of a deleter is rows, with one column;
\* per is bytesPerElement_ or bytesPerRow_.
Object(kind, data, rows, cols, per) ==
    [kind |-> kind, data |-> data, rows |-> rows, cols |-> cols, per |-> per]

Empty(kind) == Object(kind, Null, 0, IF kind = "rows" THEN 0 ELSE 1, 0)

NoOp == [pc |-> "idle", on |-> Null, from |-> Null, done |-> 0, total |-> 0, throws |-> FALSE]

NoIterator == [data |-> Null, index |-> 0, cols |-> 0, per |-> 0]

-----------------------------------------------------------------------------
(* Sizes                                                                     *)

\* Fault: rows are as long as their elements.
PerUnaligned(kind, cols) == try_multiply_unsigned(SizeOfT, cols)

\* computeBytesPerElement; the bytes of a row; an element of an array
Per(kind, cols) ==
    CASE kind = "buffer" -> try_ceili(SizeOfT, Alignment)
      [] kind = "rows" ->
             LET raw == try_multiply_unsigned(SizeOfT, cols)
             IN  IF raw.tooLarge THEN TooLarge ELSE try_ceili(raw.value, Alignment)
      [] kind = "array" -> Exactly(SizeOfT)

\* The bytes to allocate
NumBytes(kind, rows, cols) ==
    LET per == Per(kind, cols)
    IN  CASE kind # "array" ->
                 IF per.tooLarge THEN TooLarge ELSE try_multiply_unsigned(rows, per.value)
          [] kind = "array" ->
                 IF rows >= MaxSize \div SizeOfT THEN TooLarge
                 ELSE Exactly(Wrapped(rows * SizeOfT))

\* Where element k of object x is
Place(x, k) == Wrapped((k \div x.cols) * x.per + (k % x.cols) * SizeOfT)

Total(x) == x.rows * x.cols

-----------------------------------------------------------------------------
(* Construction                                                              *)

Init ==
    /\ heap = [b \in {} |-> << >>]
    /\ obj = [o \in Objects |-> NoObject]
    /\ op = NoOp
    /\ it = NoIterator

Idle(o) == op.pc = "idle" /\ obj[o] = NoObject

DefaultConstruct(o, kind) ==
    /\ Idle(o)
    /\ kind # "array"
    /\ obj' = [obj EXCEPT ![o] = Empty(kind)]
    /\ UNCHANGED <<heap, op, it>>

\* A buffer without elements has no block, but keeps the sizes it was given.
ConstructEmpty(o, kind, rows, cols) ==
    /\ Idle(o)
    /\ kind # "array" /\ Total([rows |-> rows, cols |-> cols]) = 0
    /\ ~Per(kind, cols).tooLarge
    /\ obj' = [obj EXCEPT ![o] = Object(kind, Null, rows, cols, Per(kind, cols).value)]
    /\ UNCHANGED <<heap, op, it>>

\* The allocation; if there is none (std::bad_alloc), there is no object.
Construct(o, kind, rows, cols, b, throws) ==
    LET bytes == NumBytes(kind, rows, cols)
    IN  /\ Idle(o)
        /\ b \notin DOMAIN heap
        /\ kind # "array" => Total([rows |-> rows, cols |-> cols]) # 0
        /\ throws => kind \in ThrowingKinds
        /\ ~bytes.tooLarge
        /\ bytes.value <= MaxSize \div 2    \* no allocator gives more
        /\ heap' = [c \in DOMAIN heap \cup {b} |->
                      IF c = b THEN [bytes |-> bytes.value, live |-> {}] ELSE heap[c]]
        /\ obj' = [obj EXCEPT ![o] = Object(kind, b, rows, cols, Per(kind, cols).value)]
        /\ op' = [NoOp EXCEPT !.pc = "construct", !.on = o, !.throws = throws,
                              !.total = rows * cols]
        /\ UNCHANGED it

\* The place of the next element to construct or to destroy; the roll-back of an
\* array goes backwards.
PlaceOfNext ==
    LET x == obj[op.on]
    IN  Place(x, IF op.pc = "rollback" /\ x.kind = "array"
                   THEN op.total - 1 - op.done ELSE op.done)

ConstructElement ==
    /\ op.pc = "construct"
    /\ op.done < op.total
    /\ heap' = [heap EXCEPT ![obj[op.on].data].live = @ \cup {PlaceOfNext}]
    /\ op' = [op EXCEPT !.done = @ + 1]
    /\ UNCHANGED <<obj, it>>

\* transaction.commit()
Commit ==
    /\ op.pc = "construct"
    /\ op.done = op.total
    /\ op' = NoOp
    /\ UNCHANGED <<heap, obj, it>>

\* Fault: the element that threw is destroyed, too.
CountedToo == {op.done + 1}

\* numElementsConstructed, or i; that of an aligned_buffer is not initialised.
Counted == IF obj[op.on].kind = "buffer" THEN Sizes ELSE {op.done}

\* An element throws: the transaction is rolled back.
ElementThrows ==
    /\ op.pc = "construct" /\ op.throws
    /\ op.done < op.total
    /\ \E counted \in Counted :
          op' = [op EXCEPT !.pc = "rollback", !.done = 0, !.total = counted]
    /\ UNCHANGED <<heap, obj, it>>

-----------------------------------------------------------------------------
(* Destruction and moves                                                     *)

\* destroy_and_free, or the deleter
BeginDestroy(o, from) ==
    op' = [NoOp EXCEPT !.pc = "destroy", !.on = o, !.from = from, !.total = Total(obj[o])]

DestroyElement ==
    /\ op.pc \in {"destroy", "rollback"}
    /\ op.done < op.total
    /\ heap' = [heap EXCEPT ![obj[op.on].data].live = @ \ {PlaceOfNext}]
    /\ op' = [op EXCEPT !.done = @ + 1]
    /\ UNCHANGED <<obj, it>>

\* The size that is given back
FreedBytes(x) == Wrapped(x.rows * x.per)

Deallocated == [b \in DOMAIN heap \ {obj[op.on].data} |-> heap[b]]

\* Whoever constructed the object gets the exception, and no object.
FreeRolledBack ==
    /\ op.pc = "rollback" /\ op.done = op.total
    /\ heap' = Deallocated
    /\ obj' = [obj EXCEPT ![op.on] = NoObject]
    /\ op' = NoOp
    /\ UNCHANGED it

\* What moving leaves of x; a deleter is copied.
MovedFrom(x, assigned) ==
    CASE x.kind = "buffer" -> Object("buffer", Null, 0, 1, IF assigned THEN 0 ELSE x.per)
      [] x.kind = "rows" -> Empty("rows")
      [] x.kind = "array" -> [x EXCEPT !.data = Null]

\* Fault: one member is not assigned.
TakeOverMostly(o, p) ==
    /\ obj' = [obj EXCEPT ![p] = MovedFrom(obj[p], TRUE), ![o] = [obj[p] EXCEPT !.per = obj[o].per]]
    /\ op' = NoOp

\* The end of a move assignment; that of aligned_row_buffer does not return anything.
TakeOver(o, p) ==
    /\ obj' = [obj EXCEPT ![p] = MovedFrom(obj[p], TRUE), ![o] = obj[p]]
    /\ \E pc \in IF obj[p].kind = "rows" THEN {"idle", "undefined"} ELSE {"idle"} :
          op' = [NoOp EXCEPT !.pc = pc]

\* The memory is freed.  An iterator into it is used no more.
Free ==
    /\ op.pc = "destroy" /\ op.done = op.total
    /\ heap' = Deallocated
    /\ IF op.from = Null
         THEN obj' = [obj EXCEPT ![op.on] = NoObject] /\ op' = NoOp
         ELSE TakeOver(op.on, op.from)
    /\ it' = IF it.data = obj[op.on].data THEN NoIterator ELSE it

\* The end of the scope of o
Destroy(o) ==
    /\ op.pc = "idle" /\ obj[o] # NoObject
    /\ IF obj[o].data = Null
         THEN obj' = [obj EXCEPT ![o] = NoObject] /\ UNCHANGED op
         ELSE BeginDestroy(o, Null) /\ UNCHANGED obj
    /\ UNCHANGED <<heap, it>>

MoveConstruct(o, p) ==
    /\ Idle(o)
    /\ obj[p] # NoObject
    /\ obj' = [obj EXCEPT ![o] = obj[p], ![p] = MovedFrom(obj[p], FALSE)]
    /\ UNCHANGED <<heap, op, it>>

\* Fault: an object may be assigned to itself.
MoveAssignUnguarded(o, p) ==
    /\ op.pc = "idle"
    /\ obj[o] # NoObject /\ obj[o].kind = obj[p].kind
    /\ IF obj[o].data # Null THEN BeginDestroy(o, p) /\ UNCHANGED obj ELSE TakeOver(o, p)
    /\ UNCHANGED <<heap, it>>

\* Assigning an object to itself changes nothing.
MoveAssign(o, p) ==
    /\ op.pc = "idle"
    /\ obj[o] # NoObject /\ obj[o].kind = obj[p].kind
    /\ o # p
    /\ IF obj[o].data # Null THEN BeginDestroy(o, p) /\ UNCHANGED obj ELSE TakeOver(o, p)
    /\ UNCHANGED <<heap, it>>

-----------------------------------------------------------------------------
(* Access                                                                    *)

\* operator [] of a buffer: where its row i begins
RowAt(x, i) == Wrapped(i * x.per)

\* The same through an iterator: it[d]; operator * is it[0].
IteratorRowAt(d) == Wrapped(Wrapped(it.index + Wrapped(d)) * it.per)

\* Its distance to an iterator with another index: a difference of type std::ptrdiff_t
DistanceTo(index) ==
    LET d == Wrapped(index - it.index) IN IF d <= MaxSize \div 2 THEN d ELSE d - MaxSize - 1

Iterable(o) == op.pc = "idle" /\ obj[o].kind \in {"buffer", "rows"} /\ obj[o].data # Null

Owner == CHOOSE o \in Objects : obj[o].data = it.data

Begin(o) ==
    /\ Iterable(o)
    /\ it' = [data |-> obj[o].data, index |-> 0, cols |-> obj[o].cols, per |-> obj[o].per]
    /\ UNCHANGED <<heap, obj, op>>

End(o) ==
    /\ Iterable(o)
    /\ it' = [data |-> obj[o].data, index |-> obj[o].rows,
              cols |-> obj[o].cols, per |-> obj[o].per]
    /\ UNCHANGED <<heap, obj, op>>

\* A client moves an iterator no further than to the end, and no further back than to
\* the begin.
MayAdvance(d) ==
    op.pc = "idle" /\ it # NoIterator /\ it.index + d \in 0 .. obj[Owner].rows

\* Fault: the distance is not converted to the type of the index.
AdvanceWide(d) ==
    /\ MayAdvance(d)
    /\ it' = [it EXCEPT !.index = @ + Wrapped(d)]
    /\ UNCHANGED <<heap, obj, op>>

\* it += d, ++it
Advance(d) ==
    /\ MayAdvance(d)
    /\ it' = [it EXCEPT !.index = Wrapped(@ + Wrapped(d))]
    /\ UNCHANGED <<heap, obj, op>>

\* it -= d, --it
Retreat(d) ==
    /\ MayAdvance(-d)
    /\ it' = [it EXCEPT !.index = Wrapped(@ - Wrapped(d))]
    /\ UNCHANGED <<heap, obj, op>>

-----------------------------------------------------------------------------

Steps == {d \in -3 .. 3 : d # 0}

\* A program without a return value goes on with anything.
Undefined == op.pc = "undefined" /\ UNCHANGED vars

Next ==
    \/ \E o \in Objects :
          \/ \E kind \in Kinds : DefaultConstruct(o, kind)
          \/ \E kind \in Kinds, s \in Shapes :
                \/ ConstructEmpty(o, kind, s[1], IF kind = "buffer" THEN 1 ELSE s[2])
                \/ \E b \in Blocks, throws \in BOOLEAN :
                      Construct(o, kind, s[1], IF kind = "rows" THEN s[2] ELSE 1, b, throws)
          \/ \E p \in Objects : MoveConstruct(o, p) \/ MoveAssign(o, p)
          \/ Destroy(o) \/ Begin(o) \/ End(o)
    \/ ConstructElement \/ ElementThrows \/ Commit
    \/ DestroyElement \/ FreeRolledBack \/ Free
    \/ \E d \in Steps : Advance(d) \/ Retreat(d)
    \/ Undefined

Spec == Init /\ [][Next]_vars

-----------------------------------------------------------------------------

Span(first) == first .. first + SizeOfT - 1

(* An element is constructed within its block, where no other one is alive,  *)
(* and in an aligned place; rows do not share a unit of the alignment.       *)
ConstructsApart ==
    op.pc = "construct" /\ op.done < op.total =>
        LET x == obj[op.on]
            elements == heap[x.data].live
        IN  /\ PlaceOfNext + SizeOfT <= heap[x.data].bytes
            /\ \A e \in elements : Span(e) \cap Span(PlaceOfNext) = {}
            /\ x.kind # "array" /\ op.done % x.cols = 0 =>
                  /\ PlaceOfNext % Alignment = 0
                  /\ \A e \in elements : \A byte \in Span(e) :
                        byte \div Alignment # PlaceOfNext \div Alignment

(* What is destroyed is alive, and when the memory is freed nothing is: each *)
(* element is destroyed once, also if a later one could not be constructed.  *)
DestroysOnce ==
    op.pc \in {"destroy", "rollback"} =>
        IF op.done < op.total
          THEN PlaceOfNext \in heap[obj[op.on].data].live
          ELSE heap[obj[op.on].data].live = {}

(* Memory is freed with the size it was allocated with, which is computed    *)
(* anew from what is left in the object after any number of moves.           *)
FreedAsAllocated ==
    op.pc \in {"destroy", "rollback"} =>
        FreedBytes(obj[op.on]) = heap[obj[op.on].data].bytes

(* Each block belongs to one object, whose elements are all alive; no object *)
(* points to memory that is not allocated.  Nothing leaks, however objects   *)
(* are moved and constructors fail.                                          *)
OneOwner ==
    op.pc \in {"idle", "undefined"} =>
        /\ \A o \in Objects : obj[o].data # Null => obj[o].data \in DOMAIN heap
        /\ \A b \in DOMAIN heap :
              \E o \in Objects :
                  /\ \A p \in Objects : obj[p].data = b <=> p = o
                  /\ heap[b].live = {Place(obj[o], k) : k \in 0 .. Total(obj[o]) - 1}

(* An iterator stays good while the buffer is moved, and walking and         *)
(* indexing, in a type that wraps, lead to the same rows.                    *)
IteratorSound ==
    op.pc = "idle" /\ it # NoIterator =>
        /\ it.data \in DOMAIN heap
        /\ it.index <= obj[Owner].rows /\ it.cols = obj[Owner].cols
        /\ DistanceTo(obj[Owner].rows) = obj[Owner].rows - it.index
        /\ \A i \in 0 .. obj[Owner].rows - 1 :
              IteratorRowAt(DistanceTo(i)) = RowAt(obj[Owner], i)

-----------------------------------------------------------------------------
(* The inductive invariant.  The sizes of whatever has a block are those it  *)
(* was allocated for; its elements are alive as far as the operation has got *)
(* that is constructing or destroying them.                                  *)

TypeOK ==
    /\ DOMAIN heap \subseteq Blocks
    /\ \A b \in DOMAIN heap : heap[b] \in [bytes : 0 .. MaxSize \div 2, live : SUBSET Nat]
    /\ obj \in [Objects -> [kind : Kinds, data : Blocks \cup {Null},
                            rows : Sizes, cols : Sizes, per : Sizes] \cup {NoObject}]
    /\ op \in [pc : {"idle", "undefined", "construct", "rollback", "destroy"},
               on : Objects \cup {Null}, from : Objects \cup {Null},
               done : Nat, total : Nat, throws : BOOLEAN]
    /\ it \in [data : Blocks \cup {Null}, index : Nat, cols : Nat, per : Nat]

Fits(x) ==
    /\ x.kind \in Kinds /\ x.data \in DOMAIN heap
    /\ x.cols # 0 /\ x.cols * SizeOfT <= x.per
    /\ x.kind # "array" => x.per % Alignment = 0
    /\ heap[x.data].bytes = x.rows * x.per

Places(x, first, end) == {Place(x, k) : k \in first .. end - 1}

\* The elements of object o that are alive
Alive(o) ==
    CASE op.on # o -> Places(obj[o], 0, Total(obj[o]))
      [] op.on = o /\ op.pc = "construct" -> Places(obj[o], 0, op.done)
      [] op.on = o /\ op.pc = "rollback" /\ obj[o].kind = "array" ->
             Places(obj[o], 0, op.total - op.done)
      [] OTHER -> Places(obj[o], op.done, op.total)

OwnerInv ==
    /\ \A o \in Objects : obj[o].data # Null =>
          Fits(obj[o]) /\ heap[obj[o].data].live = Alive(o)
    /\ \A b \in DOMAIN heap : \E o \in Objects : obj[o].data = b
    /\ \A o, p \in Objects : obj[o].data # Null /\ obj[o].data = obj[p].data => o = p

OpInv ==
    IF op.pc \in {"idle", "undefined"} THEN op.on = Null
    ELSE /\ op.on \in Objects /\ obj[op.on].data # Null
         /\ op.done <= op.total /\ op.total <= Total(obj[op.on])
         /\ op.pc # "rollback" => op.total = Total(obj[op.on])
         /\ op.throws => obj[op.on].kind # "buffer"
         /\ op.from # Null => op.from # op.on /\ obj[op.from].kind = obj[op.on].kind

\* The iterator leads into a buffer that has been constructed.
PointsInto(o) ==
    /\ obj[o].data = it.data
    /\ op.pc \in {"construct", "rollback"} => op.on # o
    /\ it.index <= obj[o].rows /\ it.cols = obj[o].cols /\ it.per = obj[o].per

IteratorInv == it # NoIterator => it.data # Null /\ \E o \in Objects : PointsInto(o)

IInv == TypeOK /\ OwnerInv /\ OpInv /\ IteratorInv

=============================================================================
