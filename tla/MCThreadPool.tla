----------------------------- MODULE MCThreadPool -----------------------------
(* Small instances of ThreadPool.                                           *)
EXTENDS ThreadPool, TLC

Symmetry == Permutations(Workers) \cup Permutations(Jobs)
=============================================================================
