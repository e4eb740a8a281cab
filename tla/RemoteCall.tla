------------------------------- MODULE RemoteCall -------------------------------
(* What a remote procedure call promises its caller: the procedure runs at  *)
(* most once, a caller that gets a result has had it run, and one that gets *)
(* an error does not know.                                                  *)
EXTENDS FiniteSets

CONSTANTS Calls      \* the calls made in the life of the system

VARIABLES asked,     \* calls made
          executed,  \* calls whose procedure has run
          result     \* [Calls -> what the caller was told]

vars == <<asked, executed, result>>

Init ==
    /\ asked = {}
    /\ executed = {}
    /\ result = [k \in Calls |-> "none"]

Ask(k) ==
    /\ k \notin asked
    /\ asked' = asked \cup {k}
    /\ UNCHANGED <<executed, result>>

(* There is nobody to ask.                                                 *)
Refuse(k) ==
    /\ k \notin asked
    /\ asked' = asked \cup {k}
    /\ result' = [result EXCEPT ![k] = "error"]
    /\ UNCHANGED executed

Execute(k) ==
    /\ k \in asked \ executed
    /\ executed' = executed \cup {k}
    /\ UNCHANGED <<asked, result>>

Succeed(k) ==
    /\ k \in executed /\ result[k] = "none"
    /\ result' = [result EXCEPT ![k] = "ok"]
    /\ UNCHANGED <<asked, executed>>

Fail(k) ==
    /\ k \in asked /\ result[k] = "none"
    /\ result' = [result EXCEPT ![k] = "error"]
    /\ UNCHANGED <<asked, executed>>

Next == \E k \in Calls : Ask(k) \/ Refuse(k) \/ Execute(k) \/ Succeed(k) \/ Fail(k)

Spec == Init /\ [][Next]_vars
=============================================================================
