--------------------------- MODULE MCBufferCache ----------------------------
(***************************************************************************)
(* BufferCache for TLC: the threads are interchangeable.                   *)
(***************************************************************************)
EXTENDS BufferCache, TLC

Symmetry == Permutations(Threads)
=============================================================================
