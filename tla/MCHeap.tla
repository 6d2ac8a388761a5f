------------------------------- MODULE MCHeap -------------------------------
(* Heap.tla with pages of eight blocks' headers and a limit of four pages. *)
EXTENDS HeapProps, TLC

CONSTANTS o1, o2, o3

MCOwners   == {o1, o2, o3}
\* The limit comes first, or the frames run out a page before it.
MCBitmaps  == {{0, 2}, {0, 2, 5, 6}}
Sizes      == {16, 40, 150}
Swap       == Permutations(MCOwners)
=============================================================================
