---------------------------- MODULE MCBlockQueue ----------------------------
(* Small instances of BlockQueue for TLC.                                   *)
EXTENDS BlockQueue, TLC

\* Neither threads nor items are ever compared or ordered.
Symmetry == Permutations(Thread) \cup Permutations(Item)
=============================================================================
