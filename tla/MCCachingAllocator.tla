------------------------ MODULE MCCachingAllocator -------------------------
(* Instances of CachingAllocator for TLC. *)
EXTENDS CachingAllocator, TLC

\* Two blocks of one size and a larger one.
MCBlocks == 1..3
MCSize == <<1, 1, 2>>
Symmetry == Permutations(Threads)
=============================================================================
