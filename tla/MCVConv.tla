------------------------------ MODULE MCVConv -------------------------------
(* The converter with frame rates that are unknown, or of which three       *)
(* frames in five are kept, by a quotient that is rounded up, or all.       *)
EXTENDS VConv, TLC

CONSTANTS a1, a2, a3, m1, m2, m3

MCRates == {<<0, 1>>, <<3, 1>>, <<5, 1>>}

\* Nothing tells one allocator or one memory from another.
Symmetry == Permutations(Allocators) \cup Permutations(Memories)
=============================================================================
