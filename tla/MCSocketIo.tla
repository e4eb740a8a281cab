------------------------------ MODULE MCSocketIo ------------------------------
(* Small instances of SocketIo, all in one run: a busy socket of either      *)
(* version, and two sockets that hand their op_sets to each other.           *)
EXTENDS SocketIo

CONSTANTS s1, s2, o1, o2

Busy == {[lib |-> v, socks |-> {s1}, ops |-> {o1, o2}, cap |-> 2,
          uses |-> {s1} \X {"read", "write"}] : v \in {"new", "old"}}
Handed == {[lib |-> "new", socks |-> {s1, s2}, ops |-> {o1}, cap |-> 1,
            uses |-> {<<s1, "read">>, <<s2, "write">>}]}
MCScopes == Busy \cup Handed

Symmetry == Permutations(Threads) \cup Permutations(Slots) \cup Permutations(Fds)
=============================================================================
