------------------------------ MODULE MCBuffers ------------------------------
(*****************************************************************************)
(* Small shapes for model checking the owners of memory.                     *)
(*****************************************************************************)
EXTENDS Buffers, TLC

CONSTANTS o1, o2, o3, b1, b2, b3

\* Nothing, a single element, rows of two, and three sizes that do not fit
SomeShapes == {<<0, 1>>, <<1, 0>>, <<1, 1>>, <<3, 1>>, <<2, 2>>, <<16, 1>>, <<9, 2>>, <<1, 22>>}

AnyOrder == Permutations(Objects) \cup Permutations(Blocks)

=============================================================================
