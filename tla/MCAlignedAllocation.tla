-------------------------- MODULE MCAlignedAllocation --------------------------
(*****************************************************************************)
(* Machines, alignments and types for model checking aligned allocation with *)
(* a std::size_t of ten bits.                                                *)
(*****************************************************************************)
EXTENDS AlignedAllocation

Machine(large, page, line) == [large |-> large, page |-> page, line |-> line]

AnyMachine == {Machine(64, 32, 8), Machine(64, 32, 16), Machine(0, 32, 16)}

Type(size, align) == [size |-> size, align |-> align]

SomeTypes == {Type(1, 1), Type(6, 2)}

\* One basic requirement, or two, and any special ones
SomeAlignments ==
    {BitsOf(n) \cup special : n \in {0, 4, 12, 32}, special \in
        {{}, large_page_alignment, page_alignment, cache_line_alignment,
         large_page_alignment \cup cache_line_alignment}}

\* Where memory may begin, from one multiple of every alignment to the next
SomeAddresses == {64, 65, 66, 68, 72, 76, 80, 96, 100, 112, 124, 127, 128}

=============================================================================
