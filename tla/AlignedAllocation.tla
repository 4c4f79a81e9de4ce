-------------------------- MODULE AlignedAllocation --------------------------
(*****************************************************************************)
(* aligned_allocator_adaptor of patton/memory.hpp around each of the         *)
(* allocators that the library has: what a program gets that allocates n     *)
(* objects of type T, writes behind them or not, and frees them.             *)
(*                                                                           *)
(* If the allocator promises the alignment, it is used as it is.  If not,    *)
(* the adaptor allocates more bytes, aligns within them, and keeps the       *)
(* address of the allocation, for freeing it, behind the guard bytes.        *)
(*****************************************************************************)
EXTENDS Alignment

CONSTANTS
    Machines,       \* what the hardware sizes may be: records as in HardwareSizes
    Alignments,     \* template arguments for Alignment
    Types,          \* element types: [size, align]
    Counts,         \* arguments for n
    Addresses,      \* where memory may be allocated
    PointerSize,    \* sizeof(void*)
    TrapSize        \* sizeof(std::uint32_t)

\* The code assumes that its lower bound for the size of a cache line is one, and
\* checks that the sizes divide each other.
ASSUME MachineAssumption ==
    \A m \in Machines : /\ m.line \in Alignof /\ m.page \in Alignof
                        /\ m.large \in Alignof \cup {0}
                        /\ m.line % Interference = 0
                        /\ m.page % m.line = 0 /\ m.large % m.page = 0

ASSUME TypesAssumption ==
    /\ Alignments \subseteq SUBSET (0 .. Width - 1)
    /\ \A T \in Types : T.size \in Sizes \ {0} /\ T.align \in Alignof
    /\ Counts \subseteq Sizes /\ Addresses \subseteq Sizes

\* A pointer and two guard words are small beside all that can be addressed.
ASSUME OverheadAssumption ==
    {PointerSize, TrapSize} \subseteq Nat /\ PointerSize + 2 * TrapSize < Power[Width - 1]

VARIABLES
    machine,
    type,           \* T
    alignment,      \* Alignment
    base,           \* A: its kind, and its own Alignment
    phase,
    block,          \* what the client has, and what was allocated for it
    damaged,        \* whether a byte behind it has been written
    released        \* what the base allocator got back

vars == <<machine, type, alignment, base, phase, block, damaged, released>>

Bases == {[kind |-> k, own |-> {}] : k \in {"std", "page", "large_page"}}
             \cup [kind : {"aligned"}, own : Alignments]

Nothing == [result |-> 0, n |-> 0, mem |-> 0, bytes |-> 0, storedAt |-> 0]

NoAddress == MaxSize

NothingReleased == [mem |-> 0, bytes |-> 0]

-----------------------------------------------------------------------------

\* Alignment | alignof(T)
Requested == alignment \cup BitsOf(type.align)

\* aligned_allocator_traits<A>::provides_static_alignment
Promised == CASE base.kind = "std" -> BitsOf(MaxAlign)
              [] base.kind = "aligned" -> base.own \cup BitsOf(type.align)
              [] OTHER -> page_alignment

NeedAlignment == ~provides_static_alignment(Promised, Requested)

\* The alignment of what A allocates; an adapted A is asked for bytes.
Delivered ==
    CASE base.kind = "std" -> MaxAlign
      [] base.kind = "aligned" ->
             alignment_in_bytes(machine,
                 base.own \cup BitsOf(IF NeedAlignment THEN 1 ELSE type.align))
      [] OTHER -> machine.page

a == alignment_in_bytes(machine, Requested)

nbAlloc(data) == Wrapped(data + a + PointerSize - 1 + 2 * TrapSize)

nbData(n) == Wrapped(n * type.size)

\* Fault: the product may wrap.
TooManyUnchecked(n) == NeedAlignment /\ nbAlloc(nbData(n)) < nbData(n)

\* The adaptor, or A itself, throws std::bad_alloc.
TooMany(n) ==
    \/ n >= MaxSize \div type.size
    \/ NeedAlignment /\ nbAlloc(nbData(n)) < nbData(n)

\* What is asked of A
Bytes(n) == IF NeedAlignment THEN nbAlloc(nbData(n)) ELSE nbData(n)

\* std::align
AlignedUp(mem) == CeilingOf(mem, a)

Init ==
    /\ machine \in Machines
    /\ type \in Types
    /\ alignment \in Alignments
    /\ base \in Bases
    /\ phase = "start"
    /\ block = Nothing
    /\ damaged = FALSE
    /\ released = NothingReleased

\* std::bad_alloc, also if A has no room
Throw ==
    /\ phase = "start"
    /\ phase' = "thrown"
    /\ UNCHANGED <<machine, type, alignment, base, block, damaged, released>>

\* allocate: A finds room at mem.
Allocate(n, mem) ==
    /\ phase = "start"
    /\ ~TooMany(n)
    /\ mem % Delivered = 0 /\ mem + Bytes(n) <= MaxSize
    /\ block' = IF NeedAlignment
                  THEN [result |-> AlignedUp(mem), n |-> n, mem |-> mem, bytes |-> Bytes(n),
                        storedAt |-> AlignedUp(mem) + nbData(n) + 2 * TrapSize]
                  ELSE [result |-> mem, n |-> n, mem |-> mem, bytes |-> Bytes(n),
                        storedAt |-> 0]
    /\ phase' = "allocated"
    /\ UNCHANGED <<machine, type, alignment, base, damaged, released>>

WriteBehind ==
    /\ phase = "allocated" /\ NeedAlignment
    /\ damaged' = TRUE
    /\ UNCHANGED <<machine, type, alignment, base, phase, block, released>>

\* Fault: the address is looked for right behind the data.
StoredBehindData == block.result + nbData(block.n)

\* Where deallocate looks for the address of the allocation
StoredBehindTraps == block.result + nbData(block.n) + 2 * TrapSize

\* What it gives back to A; an address from elsewhere is one that A does not know.
GivenBack ==
    IF ~NeedAlignment THEN block.result
    ELSE IF StoredBehindTraps = block.storedAt THEN block.mem
    ELSE NoAddress

\* deallocate, if the guard bytes are intact ...
Deallocate ==
    /\ phase = "allocated"
    /\ ~damaged
    /\ released' = [mem |-> GivenBack, bytes |-> Bytes(block.n)]
    /\ phase' = "released"
    /\ UNCHANGED <<machine, type, alignment, base, block, damaged>>

\* ... and gsl_FailFast if they are not.
FindDamage ==
    /\ phase = "allocated"
    /\ damaged
    /\ phase' = "failed"
    /\ UNCHANGED <<machine, type, alignment, base, block, damaged, released>>

\* One allocation is all there is to a run.
Ended == phase \in {"thrown", "released", "failed"} /\ UNCHANGED vars

Next ==
    \/ \E n \in Counts, mem \in Addresses : Allocate(n, mem)
    \/ Throw \/ WriteBehind \/ Deallocate \/ FindDamage
    \/ Ended

Spec == Init /\ [][Next]_vars

-----------------------------------------------------------------------------

(* Whatever allocator is below, whether it promises the alignment or has to  *)
(* be adapted, and whatever the machine: what the client gets is aligned as  *)
(* it asked for, combined with the alignment of its type.                    *)
ResultAligned ==
    phase = "allocated" => block.result % alignment_in_bytes(machine, Requested) = 0

(* The data, the guard bytes and the address behind them lie one after the   *)
(* other within what was allocated; no size has wrapped.                     *)
FitsIntoAllocation ==
    phase = "allocated" =>
        LET end == block.result + block.n * type.size
        IN  /\ block.mem <= block.result
            /\ IF NeedAlignment
                 THEN /\ end + 2 * TrapSize <= block.storedAt
                      /\ block.storedAt + PointerSize <= block.mem + block.bytes
                 ELSE end <= block.mem + block.bytes

(* deallocate, which knows neither address nor size, finds both.             *)
FreedAsAllocated ==
    phase = "released" => released = [mem |-> block.mem, bytes |-> block.bytes]

(* "Computes whether the provided alignment satisfies the requested          *)
(* alignment": what is promised without knowing the machine holds on each.   *)
PromiseKept ==
    phase = "start" => \A requested \in Alignments :
        provides_static_alignment(alignment, requested) =>
            provides_dynamic_alignment(machine, alignment, requested)

(* "Multiple alignment requirements can be combined using bitmask            *)
(* operations": the result satisfies each bit, and is no larger than needed. *)
CombinesRequirements ==
    phase = "start" =>
    LET all == alignment_in_bytes(machine, alignment)
        Of(i) == alignment_in_bytes(machine, {i})
    IN  /\ \A i \in alignment : all % Of(i) = 0
        /\ all = 1 \/ \E i \in alignment : all = Of(i)
        /\ \A i \in alignment \ special_alignments : Of(i) = Power[i]

-----------------------------------------------------------------------------
(* The inductive invariant                                                   *)

TypeOK ==
    /\ machine \in Machines /\ type \in Types /\ alignment \in Alignments /\ base \in Bases
    /\ phase \in {"start", "thrown", "allocated", "released", "failed"}
    /\ damaged \in BOOLEAN

\* What deallocate computes is what allocate has computed, and no size has wrapped.
BlockInv ==
    phase \in {"allocated", "released", "failed"} =>
        /\ block.n \in Nat /\ block.mem \in Nat /\ block.mem % Delivered = 0
        /\ nbData(block.n) = block.n * type.size
        /\ block.bytes = Bytes(block.n)
        /\ IF NeedAlignment
             THEN /\ block.bytes = block.n * type.size + a + PointerSize - 1 + 2 * TrapSize
                  /\ block.result = AlignedUp(block.mem)
                  /\ block.storedAt = StoredBehindTraps
             ELSE block.result = block.mem

IInv == TypeOK /\ BlockInv /\ FreedAsAllocated

=============================================================================
