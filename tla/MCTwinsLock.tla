---------------------------- MODULE MCTwinsLock -----------------------------
(* Small instances of TwinsLock for TLC.                                    *)
EXTENDS TwinsLock, TLC

\* Threads are never compared or ordered.
Symmetry == Permutations(Thread)
=============================================================================
