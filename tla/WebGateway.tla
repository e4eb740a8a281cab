------------------------------- MODULE WebGateway -------------------------------
(***************************************************************************)
(* The server side (mode 1) of the web client gateway,                     *)
(* src/2webclient/deviceagent.cpp.  Clients reach the gateway over         *)
(* connections of an SDK, whose threads call the OnSDK... functions.  A    *)
(* client names each of its web sessions by a handle; the gateway keeps an *)
(* endpoint (core_transfer), with a TCP socket to the web server, for each *)
(* connection and handle.  One RecvThread carries what the server answers  *)
(* from the sockets, which it watches edge triggered, back to the clients. *)
(*                                                                         *)
(* A critical section under vecConnectionsLock is one step, except in      *)
(* RecvThread, which holds the lock through a blocking read and through    *)
(* its attempts to send.  The SDK, the kernel and the web server are       *)
(* modelled by what this file uses of them.                                *)
(***************************************************************************)
EXTENDS Naturals, FiniteSets

CONSTANTS Conns,      \* connections of the SDK, by nConnectionId
          Handles,    \* handles a client may use
          Fds,        \* descriptors the process may have open
          None,       \* no callback, no event
          MaxRetry    \* MAX_CONN_SEND_RETRY

ASSUME WebGatewayAssumption ==
    /\ IsFiniteSet(Fds)
    /\ None \notin Conns \cup Handles \cup Fds
    /\ MaxRetry \in Nat

VARIABLES
    \* under vecConnectionsLock
    vecConnections,
    vecEndpoints,    \* core_transfer objects: meta_id_, handle_id_, sock_
    \* the SDK
    link,            \* what the SDK knows of each connection
    callback,        \* the callback each connection has in flight
    \* the kernel, for each descriptor
    peer,            \* "none" if it is closed, else the state of its server
    unread,          \* descriptors with bytes to read
    registered,      \* descriptors added to epfd
    pending,         \* edges epoll_wait has yet to look at
    \* RecvThread
    pc,
    batch,           \* events of the last epoll_wait still to be handled
    cur,             \* the event in hand
    retry_count,
    \* the process
    failed           \* the assertion that has ended it, or "none"

sdkVars == <<link, callback>>
kernelVars == <<peer, unread, registered, pending>>
recvVars == <<pc, batch, cur, retry_count>>
vars == <<vecConnections, vecEndpoints, sdkVars, kernelVars, recvVars, failed>>

Endpoint == [meta : Conns, handle : Handles, fd : Fds]

(* What epoll_wait reports.  "stale" is history: the descriptor has been   *)
(* closed since.                                                           *)
EventRec == [fd : Fds, in : BOOLEAN, hup : BOOLEAN, stale : BOOLEAN]

(* A message of the client, or the SDK's news of a connection.             *)
Callback == [kind : {"init"}] \cup
            [kind : {"data"}, handle : Handles, is_disconnect : BOOLEAN]

ASSUME NoneAssumption == None \notin EventRec \cup Callback

(* A connection is up from the moment the SDK has made it; down when the   *)
(* other end is lost; closed when ConnectionClose was called here; gone    *)
(* when OnSDKConnectionClose has been called for it.                       *)
Link == {"none", "up", "down", "closed", "gone"}

(* The server has sent FIN, has reset the socket, or refused to connect.   *)
Peer == {"none", "up", "fin", "reset", "refused"}

TypeOK ==
    /\ vecConnections \in SUBSET Conns
    /\ vecEndpoints \in SUBSET Endpoint
    /\ link \in [Conns -> Link]
    /\ callback \in [Conns -> Callback \cup {None}]
    /\ peer \in [Fds -> Peer]
    /\ unread \in SUBSET Fds
    /\ registered \in SUBSET Fds
    /\ pending \in SUBSET Fds
    /\ pc \in {"poll", "event", "in", "read", "send", "hup"}
    /\ batch \in SUBSET EventRec
    /\ cur \in EventRec \cup {None}
    /\ retry_count \in 0..MaxRetry + 1
    /\ failed \in {"none", "sockfd > 0", "retry_count"}

Init ==
    /\ vecConnections = {}
    /\ vecEndpoints = {}
    /\ link = [c \in Conns |-> "none"]
    /\ callback = [c \in Conns |-> None]
    /\ peer = [f \in Fds |-> "none"]
    /\ unread = {}
    /\ registered = {}
    /\ pending = {}
    /\ pc = "poll"
    /\ batch = {}
    /\ cur = None
    /\ retry_count = 0
    /\ failed = "none"

-----------------------------------------------------------------------------
(* Operators.  One whose name starts with "Slip" is a plausible mistake in *)
(* the operator that follows it: it is not part of the model.              *)

(* vecConnectionsLock: the callbacks take it and give it back in one step, *)
(* RecvThread keeps it while it reads and sends.                           *)
LockFree == pc \notin {"read", "send"}

(* The endpoint a message is for: none or one.                             *)
Lookup(c, h) == {e \in vecEndpoints : e.meta = c /\ e.handle = h}

FdsOf(E) == {e.fd : e \in E}

SlipNotAdded(gone, new) == registered \ gone

(* epfd after the sockets of gone are closed or deleted and those of new   *)
(* are added.  Closing a socket deletes it, and so does EPOLL_CTL_DEL.     *)
Watched(gone, new) == (registered \ gone) \cup new

Stale(e, gone) == IF e.fd \in gone THEN [e EXCEPT !.stale = TRUE] ELSE e

(* disconnect_blk on the sockets of gone, then connect_blk and             *)
(* EPOLL_CTL_ADD on those of new (one or none).  A failed connect leaves   *)
(* its socket open: it is added all the same, and hangs up at once.        *)
Sockets(gone, new, how) ==
    /\ peer' = [f \in Fds |-> IF f \in new THEN how
                              ELSE IF f \in gone THEN "none" ELSE peer[f]]
    /\ unread' = unread \ gone
    /\ registered' = Watched(gone, new)
    /\ pending' = (pending \ gone) \cup
                  IF how = "refused" THEN new \cap Watched(gone, new) ELSE {}
    /\ batch' = {Stale(e, gone) : e \in batch}
    /\ cur' = IF cur = None THEN None ELSE Stale(cur, gone)

(* Descriptors socket() may return once those of gone are closed.          *)
Free(gone) == {f \in Fds : peer[f] = "none"} \cup gone

SlipEof(f) == peer[f] \in {"reset", "refused", "fin"}

(* EPOLLHUP or EPOLLERR.  A server that has only sent FIN does not give    *)
(* one, and EPOLLRDHUP is not asked for.                                   *)
HangsUp(f) == peer[f] \in {"reset", "refused"}

Readable(f) == f \in unread \/ peer[f] \in {"fin", "reset"}

(* send_blk returns more than 0: a first send to a server that has gone    *)
(* away still succeeds if the socket has not been reset.                   *)
Sends(f) == peer[f] \in {"up", "fin"}

(* recv_blk, a blocking read, returns: with bytes, 0 or an error.          *)
ReadReturns(f) == f \in unread \/ peer[f] # "up"

-----------------------------------------------------------------------------
(* The SDK and the web server.                                             *)

(* The SDK has made a connection: OnSDKConnectionInit is on its way.       *)
ConnectionMade(c) ==
    /\ link[c] = "none"
    /\ link' = [link EXCEPT ![c] = "up"]
    /\ callback' = [callback EXCEPT ![c] = [kind |-> "init"]]
    /\ UNCHANGED <<vecConnections, vecEndpoints, kernelVars, recvVars, failed>>

(* The client sends a message: the callbacks of one connection come one    *)
(* after the other.                                                        *)
ClientSends(c) ==
    /\ link[c] = "up" /\ callback[c] = None
    /\ \E m \in [kind : {"data"}, handle : Handles, is_disconnect : BOOLEAN] :
            callback' = [callback EXCEPT ![c] = m]
    /\ UNCHANGED <<vecConnections, vecEndpoints, link, kernelVars, recvVars, failed>>

(* The other end is lost: ConnectionSendData fails from here on, and       *)
(* OnSDKConnectionClose follows.                                           *)
ConnectionLost(c) ==
    /\ link[c] = "up"
    /\ link' = [link EXCEPT ![c] = "down"]
    /\ UNCHANGED <<vecConnections, vecEndpoints, callback, kernelVars, recvVars, failed>>

(* The server sends, ends or breaks the session of a socket.               *)
ServerActs(f) ==
    /\ \/ /\ peer[f] = "up"
          /\ unread' = unread \cup {f}
          /\ UNCHANGED peer
       \/ /\ peer[f] = "up"
          /\ peer' = [peer EXCEPT ![f] = "fin"]
          /\ UNCHANGED unread
       \/ /\ peer[f] \in {"up", "fin"}
          /\ peer' = [peer EXCEPT ![f] = "reset"]
          /\ UNCHANGED unread
    /\ pending' = pending \cup ({f} \cap registered)
    /\ UNCHANGED <<vecConnections, vecEndpoints, sdkVars, registered, recvVars, failed>>

-----------------------------------------------------------------------------
(* Callbacks of the SDK.                                                   *)

OnSDKConnectionInit(c) ==
    /\ LockFree
    /\ callback[c] # None /\ callback[c].kind = "init"
    /\ vecConnections' = vecConnections \cup {c}
    /\ callback' = [callback EXCEPT ![c] = None]
    /\ UNCHANGED <<vecEndpoints, link, kernelVars, recvVars, failed>>

DataFor(c) ==
    /\ LockFree
    /\ callback[c] # None /\ callback[c].kind = "data"

(* OnSDKConnectionData: the client ends a session it has.                  *)
Disconnect(c) ==
    /\ DataFor(c)
    /\ callback[c].is_disconnect
    /\ LET E == Lookup(c, callback[c].handle)
       IN /\ E # {}
          /\ vecEndpoints' = vecEndpoints \ E
          /\ Sockets(FdsOf(E), {}, "none")
    /\ callback' = [callback EXCEPT ![c] = None]
    /\ UNCHANGED <<vecConnections, link, pc, retry_count, failed>>

(* OnSDKConnectionData: a handle not seen before, whether the message ends *)
(* it or not, gets an endpoint.  If the request cannot be sent the code    *)
(* reconnects once: in the end there is one socket, connected or not.      *)
NewEndpoint(c) ==
    /\ DataFor(c)
    /\ Lookup(c, callback[c].handle) = {}
    /\ IF Free({}) = {}
       THEN /\ failed' = "sockfd > 0"
            /\ UNCHANGED <<vecEndpoints, kernelVars, batch, cur>>
       ELSE \E f \in Free({}), how \in {"up", "refused"} :
              /\ vecEndpoints' = vecEndpoints \cup
                    {[meta |-> c, handle |-> callback[c].handle, fd |-> f]}
              /\ Sockets({}, {f}, how)
              /\ UNCHANGED failed
    /\ callback' = [callback EXCEPT ![c] = None]
    /\ UNCHANGED <<vecConnections, link, pc, retry_count>>

(* OnSDKConnectionData: a request on a session the client has.  The send   *)
(* fails on a broken socket, and the endpoint gets a new one.              *)
Forward(c) ==
    /\ DataFor(c)
    /\ ~callback[c].is_disconnect
    /\ \E e \in Lookup(c, callback[c].handle) :
         IF Sends(e.fd)
         THEN UNCHANGED <<vecEndpoints, kernelVars, batch, cur>>
         ELSE \E f \in Free({e.fd}), how \in {"up", "refused"} :
                /\ vecEndpoints' = (vecEndpoints \ {e}) \cup {[e EXCEPT !.fd = f]}
                /\ Sockets({e.fd}, {f}, how)
    /\ callback' = [callback EXCEPT ![c] = None]
    /\ UNCHANGED <<vecConnections, link, pc, retry_count, failed>>

SlipEndpointsStay(c) ==
    /\ LockFree
    /\ link[c] \in {"down", "closed"} /\ callback[c] = None
    /\ vecConnections' = vecConnections \ {c}
    /\ link' = [link EXCEPT ![c] = "gone"]
    /\ UNCHANGED <<vecEndpoints, callback, kernelVars, recvVars, failed>>

(* The last callback of a connection.                                      *)
OnSDKConnectionClose(c) ==
    /\ LockFree
    /\ link[c] \in {"down", "closed"} /\ callback[c] = None
    /\ vecConnections' = vecConnections \ {c}
    /\ LET E == {e \in vecEndpoints : e.meta = c}
       IN /\ vecEndpoints' = vecEndpoints \ E
          /\ Sockets(FdsOf(E), {}, "none")
    /\ link' = [link EXCEPT ![c] = "gone"]
    /\ UNCHANGED <<callback, pc, retry_count, failed>>

(* All the connections in the vector are closed, and every endpoint.       *)
DropAll ==
    /\ LockFree
    /\ vecConnections \cup vecEndpoints # {}
    /\ link' = [c \in Conns |->
                    IF c \in vecConnections THEN "closed" ELSE link[c]]
    /\ vecConnections' = {}
    /\ vecEndpoints' = {}
    /\ Sockets(FdsOf(vecEndpoints), {}, "none")
    /\ UNCHANGED <<callback, pc, retry_count, failed>>

(* The SDK has lost the device (main makes it anew), ...                   *)
OnSDKClose == DropAll

(* ... or the operator types 's' to the main loop.                         *)
CloseConnection == DropAll

-----------------------------------------------------------------------------
(* RecvThread.                                                             *)

(* epoll_wait: the sockets with an edge pending that are ready now.        *)
EpollWait ==
    LET ready == {f \in pending : Readable(f) \/ HangsUp(f)}
    IN /\ pc = "poll"
       /\ ready # {}
       /\ batch' = {[fd |-> f, in |-> Readable(f), hup |-> HangsUp(f), stale |-> FALSE] :
                        f \in ready}
       /\ pending' = {}
       /\ pc' = "event"
       /\ UNCHANGED <<vecConnections, vecEndpoints, sdkVars, peer, unread, registered,
                      cur, retry_count, failed>>

(* The next event of the batch, or back to epoll_wait.                     *)
NextEvent ==
    /\ pc = "event"
    /\ \/ batch = {} /\ cur' = None /\ pc' = "poll" /\ UNCHANGED batch
       \/ \E e \in batch : /\ batch' = batch \ {e}
                           /\ cur' = e
                           /\ pc' = IF e.in THEN "in" ELSE "hup"
    /\ UNCHANGED <<vecConnections, vecEndpoints, sdkVars, kernelVars, retry_count, failed>>

(* The endpoint whose socket the event names.                              *)
Target == {e \in vecEndpoints : e.fd = cur.fd}

(* The event's EPOLLIN is dealt with.                                      *)
AfterIn == pc' = IF cur.hup THEN "hup" ELSE "event"

(* EPOLLIN: take the lock and look for the endpoint.                       *)
HandleIn ==
    /\ pc = "in"
    /\ IF Target = {} THEN AfterIn ELSE pc' = "read"
    /\ UNCHANGED <<vecConnections, vecEndpoints, sdkVars, kernelVars, batch, cur,
                   retry_count, failed>>

(* recv_blk: with nothing to read on a healthy socket the thread blocks.   *)
(* One read takes all that the socket's buffer of 128 KiB holds, so the    *)
(* loop that goes on after a full 2 MiB is never entered.                  *)
Recv ==
    /\ pc = "read"
    /\ ReadReturns(cur.fd)
    /\ unread' = unread \ {cur.fd}
    /\ IF cur.fd \in unread THEN pc' = "send" ELSE AfterIn
    /\ retry_count' = 0
    /\ UNCHANGED <<vecConnections, vecEndpoints, sdkVars, peer, registered, pending,
                   batch, cur, failed>>

(* ConnectionSendData, tried again while it fails.                         *)
Send ==
    /\ pc = "send"
    /\ \A e \in Target :
         \/ /\ link[e.meta] = "up"
            /\ AfterIn
            /\ UNCHANGED <<retry_count, failed>>
         \/ /\ link[e.meta] # "up"
            /\ IF retry_count > MaxRetry
               THEN failed' = "retry_count" /\ UNCHANGED retry_count
               ELSE retry_count' = retry_count + 1 /\ UNCHANGED failed
            /\ UNCHANGED pc
    /\ UNCHANGED <<vecConnections, vecEndpoints, sdkVars, kernelVars, batch, cur>>

SlipNotClosed ==
    /\ pc = "hup"
    /\ vecEndpoints' = vecEndpoints \ Target
    /\ pc' = "event"
    /\ UNCHANGED <<vecConnections, sdkVars, kernelVars, batch, cur, retry_count, failed>>

(* EPOLLHUP or EPOLLERR: the endpoint is closed and the client told.       *)
HandleHup ==
    /\ pc = "hup"
    /\ vecEndpoints' = vecEndpoints \ Target
    /\ Sockets(FdsOf(Target), {}, "none")
    /\ pc' = "event"
    /\ UNCHANGED <<vecConnections, sdkVars, retry_count, failed>>

-----------------------------------------------------------------------------
RecvThread == EpollWait \/ NextEvent \/ HandleIn \/ Recv \/ Send \/ HandleHup

Next ==
    /\ failed = "none"
    /\ \/ \E c \in Conns :
            \/ ConnectionMade(c) \/ ClientSends(c) \/ ConnectionLost(c)
            \/ OnSDKConnectionInit(c) \/ OnSDKConnectionClose(c)
            \/ Disconnect(c) \/ NewEndpoint(c) \/ Forward(c)
       \/ \E f \in Fds : ServerActs(f)
       \/ OnSDKClose \/ CloseConnection
       \/ RecvThread

Spec == Init /\ [][Next]_vars

-----------------------------------------------------------------------------
(* Properties.                                                             *)

(* No socket leaks and none is shared: whatever path closed, replaced or   *)
(* broke a session, the open descriptors are those of the endpoints, one   *)
(* each, and epfd watches exactly these.                                   *)
SocketsOwned ==
    /\ \A d, e \in vecEndpoints : d.fd = e.fd => d = e
    /\ FdsOf(vecEndpoints) = {f \in Fds : peer[f] # "none"}
    /\ registered = FdsOf(vecEndpoints)

(* A client's handle means one endpoint: a session is not split over two   *)
(* sockets, and the message that ends it ends all of it.                   *)
KeyUnique ==
    \A d, e \in vecEndpoints : (d.meta = e.meta /\ d.handle = e.handle) => d = e

(* What every callback and RecvThread expect when they take the lock:      *)
(* sockets and endpoints match one to one, and so do handles.              *)
EndpointsAreSound == TypeOK /\ SocketsOwned /\ KeyUnique

(* The connection's last callback leaves nothing behind, and what is left  *)
(* without a connection in the vector belongs to one that was closed here  *)
(* while a message of its client was waiting for the lock.                 *)
NoEndpointAfterClose ==
    /\ \A e \in vecEndpoints : e.meta \in vecConnections \/ link[e.meta] = "closed"
    /\ \A c \in vecConnections : link[c] \in {"up", "down"}

(* Events RecvThread has been told of and still has before it.             *)
Ahead(f, part) ==
    \/ \E e \in batch : e.fd = f /\ e[part]
    \/ cur # None /\ cur.fd = f /\ cur[part] /\ pc = part
    \/ cur # None /\ cur.fd = f /\ part = "in" /\ pc = "read"
    \/ cur # None /\ cur.fd = f /\ cur[part] /\ part = "hup" /\ pc \in {"in", "read", "send"}

(* Readiness is reported once per edge and must not be lost: as long as an *)
(* answer is unread, or a broken session still has its endpoint, the event *)
(* that makes RecvThread act on it is pending or ahead of it.              *)
ReadinessIsKept ==
    \A e \in vecEndpoints :
        /\ e.fd \in unread => e.fd \in pending \/ Ahead(e.fd, "in")
        /\ HangsUp(e.fd) => e.fd \in pending \/ Ahead(e.fd, "hup")

(* RecvThread ends a session whose server is there only on an event that   *)
(* was meant for an earlier socket with the same descriptor.               *)
HangupNamesItsEndpoint ==
    [][\A e \in vecEndpoints :
        (pc = "hup" /\ pc' = "event" /\ e \notin vecEndpoints' /\ ~cur.stale)
            => peer[e.fd] \notin {"up", "fin"}]_vars

(* assert(0) at deviceagent.cpp:1772: ConnectionSendData succeeds within   *)
(* MAX_CONN_SEND_RETRY tries.                                              *)
SendAssertHolds == failed # "retry_count"
=============================================================================
