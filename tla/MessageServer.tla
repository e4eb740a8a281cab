----------------------------- MODULE MessageServer -----------------------------
(***************************************************************************)
(* The concurrent message server, src/thconcurrent_frame/src: the main     *)
(* thread accepts and hands every connection to the thread pool            *)
(* (mhthread_dll/thread_pool.c, of which JobPool is the promise); a worker *)
(* serves one connection until it ends.  The clients are client.c: Count   *)
(* messages, one reconnect after each error.                               *)
(*                                                                         *)
(* A job is a connection, and a client may use several in turn: <<c, n>>   *)
(* is the nth connection of client c.                                      *)
(***************************************************************************)
EXTENDS Integers, Sequences, FiniteSets, SequencesExt

CONSTANTS Users,       \* the client processes
          Count,       \* messages a client sends, 100 in client.c
          Workers,     \* threads of the pool, 100 in server.c
          Unlucky      \* bound: clients of whom the network cuts one connection

VARIABLES pending, state, open, claimed,   \* the pool
          listener,    \* "up", or "down" when it could not be made again
          waiters,     \* connections in the backlog of the listener
          user,        \* [Users -> the state of a client]
          inbox,       \* [Conns -> messages that wait in the socket]
          ended,       \* connections whose client has closed, or that were cut
          refusals,    \* bound: whether accept has failed already
          handled      \* history: [Conns -> messages that were processed]

Conns == Users \X (1..3)
poolVars == <<pending, state, open, claimed>>
serverState == <<listener, waiters, refusals>>
msgVars == <<poolVars, serverState, user, inbox, ended, handled>>

Pool == INSTANCE JobPool WITH Jobs <- Conns, Width <- Workers

MsgTypeOK ==
    /\ state \in [Conns -> Pool!JobStates] /\ pending \in Seq(Conns)
    /\ open = TRUE /\ claimed \in BOOLEAN
    /\ listener \in {"up", "down"} /\ refusals \in 0..1
    /\ waiters \in Seq(Conns)
    /\ \A u \in Users :
         /\ user[u].st \in {"connect", "send", "done", "failed"}
         /\ user[u].conn \in 0..3
         /\ user[u].i \in 0..Count /\ user[u].cut \in BOOLEAN
    /\ inbox \in [Conns -> 0..Count] /\ handled \in [Conns -> 0..Count]
    /\ ended \subseteq Conns

MsgInit ==
    /\ Pool!JInit
    /\ listener = "up" /\ waiters = <<>> /\ refusals = 0
    /\ user = [u \in Users |-> [st |-> "connect", conn |-> 0, i |-> 0, cut |-> FALSE]]
    /\ inbox = [c \in Conns |-> 0] /\ ended = {}
    /\ handled = [c \in Conns |-> 0]

Conn(u) == <<u, user[u].conn>>

-----------------------------------------------------------------------------
(* The server.                                                             *)

(* thpool_add_worker of server_handle.                                     *)
AddWorker(c) == Pool!Accept(c)

AcceptConnection ==
    /\ listener = "up" /\ waiters # <<>>
    /\ AddWorker(waiters[1])
    /\ waiters' = Tail(waiters)
    /\ UNCHANGED <<listener, refusals, user, inbox, ended, handled>>

(* accept fails: the listener is closed, with what waits for it, and made  *)
(* again; when that fails accept fails again at once, and so on.           *)
AcceptFails ==
    /\ listener = "down" \/ refusals = 0
    /\ refusals' = 1
    /\ \E l \in {"up", "down"} : listener' = l
    /\ ended' = ended \cup ToSet(waiters)
    /\ waiters' = <<>>
    /\ UNCHANGED <<poolVars, user, inbox, handled>>

(* A worker takes the oldest job of the queue.                             *)
ThreadDo ==
    /\ Pool!Claim \/ Pool!Start
    /\ UNCHANGED <<serverState, user, inbox, ended, handled>>

(* recv returns what has come, as one piece: server_process looks at the   *)
(* first message in it and the rest is never looked at; nothing is sent    *)
(* back, for olen stays 0.                                                 *)
ServerProcess(c) ==
    /\ state[c] = "running" /\ inbox[c] > 0
    /\ \E n \in 1..inbox[c] : inbox' = [inbox EXCEPT ![c] = @ - n]
    /\ handled' = [handled EXCEPT ![c] = @ + 1]
    /\ UNCHANGED <<poolVars, serverState, user, ended>>

SlipBreaksOnError(c) == FALSE

(* recv() <= 0.                                                            *)
RecvFails(c) == c \in ended /\ inbox[c] = 0

(* server_handle returns: the worker is free again.                        *)
ServerHandleReturns(c) ==
    /\ RecvFails(c)
    /\ Pool!Finish(c)
    /\ UNCHANGED <<serverState, user, inbox, ended, handled>>

-----------------------------------------------------------------------------
(* The clients.                                                            *)

NewConnection(u) == [user[u] EXCEPT !.conn = @ + 1, !.st = "send"]

(* The first connect is tried until it succeeds.                           *)
FirstConnect(u) ==
    /\ user[u].st = "connect" /\ listener = "up"
    /\ user' = [user EXCEPT ![u] = NewConnection(u)]
    /\ waiters' = Append(waiters, <<u, user[u].conn + 1>>)
    /\ UNCHANGED <<poolVars, listener, refusals, inbox, ended, handled>>

SendOk(u) ==
    /\ user[u].st = "send" /\ user[u].i < Count /\ Conn(u) \notin ended
    /\ user' = [user EXCEPT ![u].i = @ + 1]
    /\ inbox' = [inbox EXCEPT ![Conn(u)] = @ + 1]
    /\ UNCHANGED <<poolVars, serverState, ended, handled>>

(* send fails: one reconnect; the message is counted all the same.         *)
SendError(u) ==
    /\ user[u].st = "send" /\ user[u].i < Count /\ Conn(u) \in ended
    /\ \/ /\ listener = "up"
          /\ user' = [user EXCEPT ![u] = [NewConnection(u) EXCEPT !.i = @ + 1]]
          /\ waiters' = Append(waiters, <<u, user[u].conn + 1>>)
       \/ /\ listener = "down"
          /\ user' = [user EXCEPT ![u].st = "failed"]
          /\ UNCHANGED waiters
    /\ UNCHANGED <<poolVars, listener, refusals, inbox, ended, handled>>

ClientCloses(u) ==
    /\ user[u].st = "send" /\ user[u].i = Count
    /\ user' = [user EXCEPT ![u].st = "done"]
    /\ ended' = ended \cup {Conn(u)}
    /\ UNCHANGED <<poolVars, serverState, inbox, handled>>

(* The network cuts a connection; what waits in the socket is lost.        *)
Cut(u) ==
    /\ user[u].st = "send" /\ u \in Unlucky /\ ~user[u].cut /\ Conn(u) \notin ended
    /\ user' = [user EXCEPT ![u].cut = TRUE]
    /\ ended' = ended \cup {Conn(u)}
    /\ inbox' = [inbox EXCEPT ![Conn(u)] = 0]
    /\ UNCHANGED <<poolVars, serverState, handled>>

ServerHandle(c) == ServerProcess(c) \/ ServerHandleReturns(c)
MsgServer == AcceptConnection \/ ThreadDo \/ \E c \in Conns : ServerHandle(c)
Client(u) == FirstConnect(u) \/ SendOk(u) \/ SendError(u) \/ ClientCloses(u)

MsgNext == MsgServer \/ AcceptFails \/ \E u \in Users : Client(u) \/ Cut(u)

-----------------------------------------------------------------------------
(* Properties.                                                             *)

(* A connection in the pool's queue is served and its worker given back:   *)
(* a worker is held as long as its client sends, and no longer, so a       *)
(* client beyond the number of workers waits and is not forgotten.         *)
EveryoneIsServed == \A c \in Conns : state[c] = "queued" ~> state[c] = "done"
=============================================================================
