------------------------------ MODULE MCSpyFile -----------------------------
(* SpyFile with model values, and the symmetry of the worker threads.      *)
EXTENDS SpyFile, TLC

Symmetry == Permutations(Threads)
=============================================================================
