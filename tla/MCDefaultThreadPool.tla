------------------------ MODULE MCDefaultThreadPool ------------------------
(* Small instances of DefaultThreadPool for TLC.                            *)
EXTENDS DefaultThreadPool, TLC

\* Neither jobs nor clients are ever compared or ordered.
Symmetry == Permutations(Job) \cup Permutations(Client)

\* Arguments of addWorkers(): a negative one, and one that is added whole to two
\* workers, clamped on three, and wraps around the sum with four.
AddsOfAnySign == {-1, 2}
=============================================================================
