------------------------------ MODULE MCWebGateway ------------------------------
(* Small instances of WebGateway.                                           *)
EXTENDS WebGateway, TLC

Symmetry == Permutations(Conns) \cup Permutations(Handles) \cup Permutations(Fds)
=============================================================================
