------------------------------ MODULE MCPrograms ------------------------------
(***************************************************************************)
(* Small instances of the repository's stand-alone network programs, of    *)
(* which one runs: the chat room, the echo server and its client, the      *)
(* half-asynchronous client with its servers, the message server, the test *)
(* of the first thread pool, and the calls of the local RPC.  The programs *)
(* share nothing; in a behaviour of one the variables of the others keep   *)
(* their first values.                                                     *)
(***************************************************************************)
EXTENDS Chat, EpollEcho, HalfAsync, MessageServer, UnstablePool, LocalRpc

CONSTANTS c1, c2, s1

VARIABLE program

(* In the chat c1 speaks and goes, c2 comes and listens.                   *)
MCLines == [c \in Clients |-> IF c = c1 THEN 2 ELSE 0]

(* One peer of the echo server can fill the buffer, the other comes between. *)
MCSendMax == [s \in Socks |-> IF s = s1 THEN MAXSIZE ELSE 1]

Programs == {"chat", "echo server", "echo client", "half-async", "messages", "pool test",
             "local rpc"}

PInit ==
    /\ program \in Programs
    /\ ChatInit /\ EchoInit /\ HalfInit /\ MsgInit /\ UnstableInit /\ Init
    /\ program # "half-async" => hmode = "send"

Only(p) == program = p /\ UNCHANGED program

PNext ==
    \/ /\ Only("chat") /\ ChatNext
       /\ UNCHANGED <<echoVars, halfVars, msgVars, unstableVars, vars>>
    \/ /\ Only("echo server") /\ EchoServer
       /\ UNCHANGED <<chatVars, halfVars, msgVars, unstableVars, vars>>
    \/ /\ Only("echo client") /\ EchoClient
       /\ UNCHANGED <<chatVars, halfVars, msgVars, unstableVars, vars>>
    \/ /\ Only("half-async") /\ HalfNext
       /\ UNCHANGED <<chatVars, echoVars, msgVars, unstableVars, vars>>
    \/ /\ Only("messages") /\ MsgNext
       /\ UNCHANGED <<chatVars, echoVars, halfVars, unstableVars, vars>>
    \/ /\ Only("pool test") /\ UnstableNext
       /\ UNCHANGED <<chatVars, echoVars, halfVars, msgVars, vars>>
    \/ /\ Only("local rpc") /\ Next
       /\ UNCHANGED <<chatVars, echoVars, halfVars, msgVars, unstableVars>>

allVars == <<program, chatVars, echoVars, halfVars, msgVars, unstableVars, vars>>

PSpec == PInit /\ [][PNext]_allVars

(***************************************************************************)
(* The fairness of each program, while it is the one that runs.            *)
(***************************************************************************)
PFairness ==
    /\ \A c \in Clients : /\ WF_chatVars(program = "chat" /\ ServerStep(c))
                          /\ WF_chatVars(program = "chat" /\ IoStep(c))
                          /\ WF_chatVars(program = "chat" /\ SendUp(c))
                          /\ WF_chatVars(program = "chat" /\ SendDown(c))
    /\ WF_msgVars(program = "messages" /\ AcceptConnection)
    /\ WF_msgVars(program = "messages" /\ ThreadDo)
    /\ \A c \in Conns : WF_msgVars(program = "messages" /\ ServerHandle(c))
    /\ \A u \in Users : WF_msgVars(program = "messages" /\ Client(u))
    /\ WF_unstableVars(program = "pool test" /\ UnstableMain)
    /\ \A t \in Threads : WF_unstableVars(program = "pool test" /\ Worker(t))
    /\ WF_vars(program = "local rpc" /\ Server)
    /\ \A k \in Calls : WF_vars(program = "local rpc" /\ Proceed(k))

PFairSpec == PSpec /\ PFairness

ProgramsTypeOK ==
    /\ ChatTypeOK /\ EchoTypeOK /\ HalfTypeOK /\ MsgTypeOK /\ UnstableTypeOK
    /\ TypeOK     \* of LocalRpc
=============================================================================
