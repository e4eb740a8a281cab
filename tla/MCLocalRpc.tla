------------------------------- MODULE MCLocalRpc -------------------------------
(* Small instances of LocalRpc.                                             *)
EXTENDS LocalRpc, TLC

Symmetry == Permutations(Plus)
=============================================================================
