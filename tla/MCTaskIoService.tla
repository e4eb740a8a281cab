---------------------------- MODULE MCTaskIoService ----------------------------
(***************************************************************************)
(* Small services: shared by every thread, with one or two operations, and *)
(* built for a single thread, alone in its process or with another outside *)
(* that posts to it.                                                       *)
(***************************************************************************)
EXTENDS TaskIoService, FiniteSetsExt, TLC

Service(one_thread, threads, ops, bound) ==
    [one_thread |-> one_thread, threads |-> threads, ops |-> ops, bound |-> bound]

Shared(n) == {Service(FALSE, Threads, ops, 1) : ops \in kSubset(n, Ops)}
Solo == {Service(TRUE, {r}, Ops, 3) : r \in Runners}
Served(n) == {Service(TRUE, {r} \cup Users, ops, 1) : r \in Runners, ops \in kSubset(n, Ops)}

SharedByOne == Shared(1)
SharedOrSolo == Shared(2) \cup Solo \cup Served(2)

Symmetry == Permutations(Ops) \cup Permutations(Runners)
=============================================================================
