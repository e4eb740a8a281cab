---------------------------- MODULE WebGatewayProofs ----------------------------
(***************************************************************************)
(* What WebGateway guarantees for every number of connections, handles and *)
(* descriptors: its safety invariants, and that only a stale event ends a  *)
(* session whose server is there.                                          *)
(***************************************************************************)
EXTENDS WebGateway, TLAPS

Open == {f \in Fds : peer[f] # "none"}

(* Only an open socket has anything to read.                               *)
UnreadIsOpen == unread \subseteq Open

(* RecvThread has an event in its hand.                                    *)
InHand == pc \in {"in", "read", "send", "hup"}

(* Where RecvThread is says what it knows of the event in its hand.  The   *)
(* endpoint it found stays where it is as long as it holds the lock.       *)
RecvKnows ==
    /\ pc = "poll" => batch = {}
    /\ InHand => cur # None
    /\ pc = "in" => cur.in
    /\ pc = "hup" => cur.hup
    /\ pc \in {"read", "send"} => Target # {}
    /\ \A e \in batch : e.in \/ e.hup

(* A hang-up that was reported is true until its descriptor is closed.     *)
HupIsTrue ==
    /\ \A e \in batch : e.hup /\ ~e.stale => HangsUp(e.fd)
    /\ InHand /\ cur.hup /\ ~cur.stale => HangsUp(cur.fd)

(* A callback belongs to a connection that is in the vector, is about to   *)
(* be put there, or was closed from here.                                  *)
CallbackHasConnection ==
    \A c \in Conns :
        /\ callback[c] # None => link[c] \in {"up", "down", "closed"}
        /\ callback[c] # None /\ callback[c].kind = "init"
                => link[c] \in {"up", "down"} /\ c \notin vecConnections
        /\ (link[c] \in {"up", "down"} /\ (callback[c] = None \/ callback[c].kind = "data"))
                => c \in vecConnections

KernelInv == SocketsOwned /\ UnreadIsOpen /\ RecvKnows /\ HupIsTrue /\ ReadinessIsKept

SdkInv == NoEndpointAfterClose /\ CallbackHasConnection

(* The inductive invariant.                                                *)
GateInv == TypeOK /\ KeyUnique /\ SdkInv /\ KernelInv

(* The part of TypeOK that speaks of what Sockets changes.                 *)
KernelTyped ==
    /\ vecEndpoints \in SUBSET Endpoint
    /\ peer \in [Fds -> Peer]
    /\ unread \in SUBSET Fds
    /\ registered \in SUBSET Fds
    /\ pending \in SUBSET Fds
    /\ pc \in {"poll", "event", "in", "read", "send", "hup"}
    /\ batch \in SUBSET EventRec
    /\ cur \in EventRec \cup {None}

LEMMA GateInit == Init => GateInv
<1> SUFFICES ASSUME Init PROVE GateInv
  OBVIOUS
<1> USE WebGatewayAssumption DEF Init
<1>1. TypeOK
  BY DEF TypeOK, Link, Peer
<1>2. KeyUnique /\ SdkInv
  BY DEF KeyUnique, SdkInv, NoEndpointAfterClose, CallbackHasConnection
<1>3. KernelInv
  BY DEF KernelInv, SocketsOwned, FdsOf, UnreadIsOpen, RecvKnows, InHand, HupIsTrue,
     ReadinessIsKept
<1> QED
  BY <1>1, <1>2, <1>3 DEF GateInv

-----------------------------------------------------------------------------
(* Sockets closed and made.                                                *)

(* An event keeps what it says; it is only marked when its descriptor is   *)
(* closed.                                                                 *)
LEMMA StaleKeeps ==
    ASSUME NEW e \in EventRec, NEW gone
    PROVE  /\ Stale(e, gone) \in EventRec
           /\ Stale(e, gone).fd = e.fd /\ Stale(e, gone).in = e.in
           /\ Stale(e, gone).hup = e.hup
           /\ Stale(e, gone).stale <=> (e.stale \/ e.fd \in gone)
BY DEF Stale, EventRec

(* Ahead, for each of the two parts of an event.                           *)
LEMMA AheadIn ==
    ASSUME NEW f
    PROVE  Ahead(f, "in") <=>
             \/ \E e \in batch : e.fd = f /\ e.in
             \/ cur # None /\ cur.fd = f /\ cur.in /\ pc = "in"
             \/ cur # None /\ cur.fd = f /\ pc = "read"
BY DEF Ahead

LEMMA AheadHup ==
    ASSUME NEW f
    PROVE  Ahead(f, "hup") <=>
             \/ \E e \in batch : e.fd = f /\ e.hup
             \/ cur # None /\ cur.fd = f /\ cur.hup /\ InHand
BY DEF Ahead, InHand

(* The endpoints E go and the endpoint n, if any, comes: sockets, epfd and *)
(* what RecvThread has been told stay in step.                             *)
LEMMA SocketsStep ==
    ASSUME TypeOK, KernelInv, NEW E \in SUBSET vecEndpoints,
           NEW N \in SUBSET Endpoint, NEW how \in {"none", "up", "refused"},
           N = {} \/ \E n \in Endpoint : N = {n} /\ n.fd \in Free(FdsOf(E)),
           N # {} => how # "none",
           vecEndpoints' = (vecEndpoints \ E) \cup N,
           Sockets(FdsOf(E), FdsOf(N), how),
           pc \notin {"read", "send"},
           pc' = pc \/ (pc = "hup" /\ pc' = "event" /\ E = Target)
    PROVE  KernelInv' /\ KernelTyped'
<1> DEFINE gone == FdsOf(E)  new == FdsOf(N)
<1>1. gone \subseteq FdsOf(vecEndpoints) /\ FdsOf(vecEndpoints) \subseteq Fds /\ new \subseteq Fds
  <2>1. \A e \in Endpoint : e.fd \in Fds
    BY DEF Endpoint
  <2>2. vecEndpoints \subseteq Endpoint
    BY DEF TypeOK
  <2>3. FdsOf(vecEndpoints) \subseteq Fds /\ new \subseteq Fds
    BY <2>1, <2>2 DEF FdsOf
  <2>4. gone \subseteq FdsOf(vecEndpoints)
    BY DEF FdsOf
  <2> QED
    BY <2>3, <2>4
<1>2. FdsOf(vecEndpoints \ E) = FdsOf(vecEndpoints) \ gone
  BY DEF FdsOf, KernelInv, SocketsOwned
<1>3. FdsOf(vecEndpoints') = (FdsOf(vecEndpoints) \ gone) \cup new
  BY <1>2 DEF FdsOf
<1>4. new \cap (FdsOf(vecEndpoints) \ gone) = {}
  BY DEF FdsOf, Free, KernelInv, SocketsOwned
<1>5. \A f \in Fds : peer'[f] = IF f \in new THEN how ELSE IF f \in gone THEN "none" ELSE peer[f]
  BY DEF Sockets
<1>6. /\ unread' = unread \ gone
      /\ registered' = (registered \ gone) \cup new
      /\ pending' = (pending \ gone) \cup IF how = "refused" THEN new ELSE {}
      /\ batch' = {Stale(e, gone) : e \in batch}
      /\ cur' = IF cur = None THEN None ELSE Stale(cur, gone)
  BY DEF Sockets, Watched
<1>7. batch \subseteq EventRec /\ cur \in EventRec \cup {None}
  BY DEF TypeOK
<1>8. /\ peer' \in [Fds -> Peer] /\ unread' \in SUBSET Fds /\ registered' \in SUBSET Fds
      /\ pending' \in SUBSET Fds /\ vecEndpoints' \in SUBSET Endpoint
      /\ pc' \in {"poll", "event", "in", "read", "send", "hup"}
  <2>1. peer' \in [Fds -> Peer]
    BY DEF Sockets, TypeOK, Peer
  <2> QED
    BY <1>1, <1>6, <2>1 DEF TypeOK
<1>9. batch' \in SUBSET EventRec /\ cur' \in EventRec \cup {None}
  BY <1>6, <1>7, StaleKeeps
<1> HIDE DEF gone, new
<1>10. \A e \in batch' : \E d \in batch :
          e.fd = d.fd /\ e.in = d.in /\ e.hup = d.hup /\ (~e.stale => ~d.stale /\ d.fd \notin gone)
  BY <1>6, <1>7, StaleKeeps
<1>11. \A d \in batch : \E e \in batch' : e.fd = d.fd /\ e.in = d.in /\ e.hup = d.hup
  BY <1>6, <1>7, StaleKeeps
<1>12. ASSUME cur # None
       PROVE  /\ cur' # None /\ cur'.fd = cur.fd /\ cur'.in = cur.in /\ cur'.hup = cur.hup
              /\ ~cur'.stale => ~cur.stale /\ cur.fd \notin gone
  BY <1>12, <1>6, <1>7, StaleKeeps, NoneAssumption
<1>13. SocketsOwned'
  <2>1. \A d, e \in vecEndpoints' : d.fd = e.fd => d = e
    <3>1. \A d, e \in vecEndpoints \ E : d.fd = e.fd => d = e
      BY DEF KernelInv, SocketsOwned
    <3>2. \A d \in vecEndpoints \ E : d.fd \in FdsOf(vecEndpoints) \ gone
      BY <1>2 DEF FdsOf
    <3>3. \A n \in N : n.fd \in new
      BY DEF FdsOf, new
    <3>4. \A m, n \in N : m = n
      OBVIOUS
    <3> QED
      BY <1>4, <3>1, <3>2, <3>3, <3>4
  <2>2. FdsOf(vecEndpoints') = {f \in Fds : peer'[f] # "none"}
    <3>1. FdsOf(vecEndpoints) = {f \in Fds : peer[f] # "none"}
      BY DEF KernelInv, SocketsOwned
    <3>2. new # {} => how # "none"
      BY DEF new, FdsOf
    <3> QED
      BY <1>1, <1>3, <1>5, <3>1, <3>2
  <2>3. registered' = FdsOf(vecEndpoints')
    BY <1>3, <1>6 DEF KernelInv, SocketsOwned
  <2> QED
    BY <2>1, <2>2, <2>3 DEF SocketsOwned, FdsOf
<1>14. UnreadIsOpen'
  <2>1. unread \subseteq Open
    BY DEF KernelInv, UnreadIsOpen
  <2>2. new # {} => how # "none"
    BY DEF new, FdsOf
  <2> QED
    BY <1>5, <1>6, <2>1, <2>2 DEF UnreadIsOpen, Open
<1>15. RecvKnows'
  <2>1. RecvKnows
    BY DEF KernelInv
  <2>2. \A e \in batch' : e.in \/ e.hup
    BY <1>10, <2>1 DEF RecvKnows
  <2>3. pc' = "poll" => batch' = {}
    BY <1>6, <2>1 DEF RecvKnows
  <2> QED
    BY <1>12, <2>1, <2>2, <2>3 DEF RecvKnows, InHand
<1>16. HupIsTrue'
  <2>1. \A f \in Fds : HangsUp(f) /\ f \notin gone /\ f \notin new => HangsUp(f)'
    BY <1>5 DEF HangsUp
  <2>2. \A f \in Fds : HangsUp(f) /\ f \notin gone => f \notin new
    <3>1. \A f \in Fds : HangsUp(f) => f \in FdsOf(vecEndpoints)
      BY DEF HangsUp, KernelInv, SocketsOwned
    <3> QED
      BY <1>4, <3>1
  <2>3. \A e \in EventRec : e.fd \in Fds
    BY DEF EventRec
  <2>4. HupIsTrue /\ RecvKnows
    BY DEF KernelInv
  <2>5. \A e \in batch' : e.hup /\ ~e.stale => HangsUp(e.fd)'
    BY <1>7, <1>10, <2>1, <2>2, <2>3, <2>4 DEF HupIsTrue
  <2>6. (InHand /\ cur.hup /\ ~cur.stale => HangsUp(cur.fd))'
    <3> SUFFICES ASSUME InHand', cur'.hup, ~cur'.stale PROVE HangsUp(cur.fd)'
      OBVIOUS
    <3>1. InHand /\ cur # None
      BY <2>4 DEF InHand, RecvKnows
    <3>2. cur.hup /\ ~cur.stale /\ cur.fd \notin gone /\ cur'.fd = cur.fd /\ cur.fd \in Fds
      BY <1>7, <1>12, <2>3, <3>1
    <3>3. HangsUp(cur.fd)
      BY <2>4, <3>1, <3>2 DEF HupIsTrue
    <3> QED
      BY <2>1, <2>2, <3>2, <3>3 DEF HangsUp
  <2> QED
    BY <2>5, <2>6 DEF HupIsTrue, HangsUp
<1>17. ReadinessIsKept'
  <2> SUFFICES ASSUME NEW e \in vecEndpoints'
               PROVE  /\ e.fd \in unread' => e.fd \in pending' \/ Ahead(e.fd, "in")'
                      /\ HangsUp(e.fd)' => e.fd \in pending' \/ Ahead(e.fd, "hup")'
    BY DEF ReadinessIsKept, HangsUp, Ahead
  <2>1. CASE e \in N
    <3>1. e.fd \in new /\ e.fd \in Fds
      BY <2>1, <1>1 DEF new, FdsOf
    <3>2. e.fd \notin unread'
      <4>1. unread \subseteq FdsOf(vecEndpoints)
        BY DEF KernelInv, UnreadIsOpen, SocketsOwned, Open
      <4> QED
        BY <1>4, <1>6, <3>1, <4>1
    <3>3. HangsUp(e.fd)' => how = "refused"
      BY <1>5, <3>1 DEF HangsUp
    <3> QED
      BY <1>6, <3>1, <3>2, <3>3
  <2>2. CASE e \in vecEndpoints \ E
    <3>1. e.fd \in Fds /\ e.fd \notin gone /\ e.fd \notin new
      <4>1. e.fd \in FdsOf(vecEndpoints) \ gone
        BY <2>2, <1>2 DEF FdsOf
      <4> QED
        BY <1>1, <1>4, <4>1
    <3>2. peer'[e.fd] = peer[e.fd]
      BY <1>5, <3>1
    <3>3. /\ e.fd \in unread => e.fd \in pending \/ Ahead(e.fd, "in")
          /\ HangsUp(e.fd) => e.fd \in pending \/ Ahead(e.fd, "hup")
      BY <2>2 DEF KernelInv, ReadinessIsKept
    <3>4. Ahead(e.fd, "in") => Ahead(e.fd, "in")'
      <4>1. Ahead(e.fd, "in") =>
              \/ \E d \in batch : d.fd = e.fd /\ d.in
              \/ cur # None /\ cur.fd = e.fd /\ cur.in /\ pc = "in"
        BY AheadIn
      <4> QED
        BY <4>1, <1>11, <1>12 DEF Ahead
    <3>5. Ahead(e.fd, "hup") => Ahead(e.fd, "hup")'
      <4>1. Ahead(e.fd, "hup") =>
              \/ \E d \in batch : d.fd = e.fd /\ d.hup
              \/ cur # None /\ cur.fd = e.fd /\ cur.hup /\ InHand
        BY AheadHup
      <4>2. pc' = pc \/ cur.fd # e.fd
        BY <2>2 DEF Target
      <4> QED
        BY <4>1, <4>2, <1>11, <1>12 DEF Ahead, InHand
    <3> QED
      BY <1>6, <3>1, <3>2, <3>3, <3>4, <3>5 DEF HangsUp
  <2> QED
    BY <2>1, <2>2
<1> QED
  BY <1>8, <1>9, <1>13, <1>14, <1>15, <1>16, <1>17 DEF KernelInv, KernelTyped

LEMMA EndpointsGo ==
    ASSUME TypeOK, KernelInv, NEW E \in SUBSET vecEndpoints,
           vecEndpoints' = vecEndpoints \ E,
           Sockets(FdsOf(E), {}, "none"),
           pc \notin {"read", "send"},
           pc' = pc \/ (pc = "hup" /\ pc' = "event" /\ E = Target)
    PROVE  KernelInv' /\ KernelTyped'
<1>1. FdsOf({}) = {}
  BY DEF FdsOf
<1>2. vecEndpoints' = (vecEndpoints \ E) \cup {}
  OBVIOUS
<1>3. Sockets(FdsOf(E), FdsOf({}), "none")
  BY <1>1
<1>4. {} \in SUBSET Endpoint
  OBVIOUS
<1> QED
  BY <1>2, <1>3, <1>4, SocketsStep

-----------------------------------------------------------------------------
(* The actions of the SDK and of the web server.                           *)

(* What KeyUnique and SdkInv speak of.                                     *)
sdkState == <<vecConnections, vecEndpoints, link, callback>>

LEMMA EndpointTyped ==
    ASSUME TypeOK, NEW e \in vecEndpoints
    PROVE  e.meta \in Conns /\ e.handle \in Handles /\ e.fd \in Fds
BY DEF TypeOK, Endpoint

LEMMA KernelStutter ==
    ASSUME KernelInv, UNCHANGED <<vecEndpoints, kernelVars, recvVars>>
    PROVE  KernelInv'
BY DEF KernelInv, SocketsOwned, FdsOf, UnreadIsOpen, Open, RecvKnows, InHand, Target, HupIsTrue,
   HangsUp, ReadinessIsKept, Ahead, kernelVars, recvVars

LEMMA SdkStutter ==
    ASSUME SdkInv, KeyUnique, UNCHANGED sdkState
    PROVE  SdkInv' /\ KeyUnique'
BY DEF SdkInv, KeyUnique, NoEndpointAfterClose, CallbackHasConnection, sdkState

LEMMA ConnectionMadeStep ==
    ASSUME GateInv, NEW c \in Conns, ConnectionMade(c)
    PROVE  GateInv'
<1> USE DEF ConnectionMade, GateInv
<1>1. TypeOK'
  BY DEF TypeOK, Link, Callback, kernelVars, recvVars
<1>2. KeyUnique' /\ SdkInv'
  <2>1. callback'[c] = [kind |-> "init"]
    BY DEF TypeOK
  <2>2. [kind |-> "init"] \in Callback
    BY DEF Callback
  <2>3. callback'[c].kind = "init" /\ callback'[c] # None
    BY <2>1, <2>2, NoneAssumption
  <2>4. link'[c] = "up" /\ \A b \in Conns \ {c} : link'[b] = link[b] /\ callback'[b] = callback[b]
    BY DEF TypeOK
  <2>5. c \notin vecConnections /\ \A e \in vecEndpoints : e.meta \in Conns /\ e.meta # c
    BY EndpointTyped DEF SdkInv, NoEndpointAfterClose
  <2>6. NoEndpointAfterClose'
    BY <2>4, <2>5 DEF SdkInv, NoEndpointAfterClose, TypeOK
  <2>7. CallbackHasConnection'
    BY <2>3, <2>4, <2>5 DEF SdkInv, CallbackHasConnection
  <2> QED
    BY <2>6, <2>7 DEF KeyUnique, SdkInv
<1> QED
  BY <1>1, <1>2, KernelStutter

LEMMA ClientSendsStep ==
    ASSUME GateInv, NEW c \in Conns, ClientSends(c)
    PROVE  GateInv'
<1> USE DEF ClientSends, GateInv
<1> PICK m \in [kind : {"data"}, handle : Handles, is_disconnect : BOOLEAN] :
          callback' = [callback EXCEPT ![c] = m]
  OBVIOUS
<1>1. TypeOK'
  BY DEF TypeOK, Link, Callback, kernelVars, recvVars
<1>2. KeyUnique' /\ SdkInv'
  BY DEF KeyUnique, SdkInv, NoEndpointAfterClose, CallbackHasConnection, TypeOK
<1> QED
  BY <1>1, <1>2, KernelStutter

LEMMA ConnectionLostStep ==
    ASSUME GateInv, NEW c \in Conns, ConnectionLost(c)
    PROVE  GateInv'
<1> USE DEF ConnectionLost, GateInv
<1>1. TypeOK'
  BY DEF TypeOK, Link, kernelVars, recvVars
<1>2. KeyUnique' /\ SdkInv'
  BY EndpointTyped DEF KeyUnique, SdkInv, NoEndpointAfterClose, CallbackHasConnection, TypeOK
<1> QED
  BY <1>1, <1>2, KernelStutter

LEMMA OnSDKConnectionInitStep ==
    ASSUME GateInv, NEW c \in Conns, OnSDKConnectionInit(c)
    PROVE  GateInv'
<1> USE DEF OnSDKConnectionInit, GateInv
<1>1. TypeOK'
  BY DEF TypeOK, kernelVars, recvVars
<1>2. KeyUnique' /\ SdkInv'
  BY DEF KeyUnique, SdkInv, NoEndpointAfterClose, CallbackHasConnection, TypeOK
<1> QED
  BY <1>1, <1>2, KernelStutter

LEMMA ServerActsStep ==
    ASSUME GateInv, NEW f \in Fds, ServerActs(f)
    PROVE  GateInv'
<1> USE DEF ServerActs, GateInv
<1>1. TypeOK'
  BY DEF TypeOK, Peer, sdkVars, recvVars
<1>2. KeyUnique' /\ SdkInv'
  BY SdkStutter DEF sdkState, sdkVars
<1>3. peer[f] \in {"up", "fin"} /\ peer'[f] \in {"up", "fin", "reset"}
      /\ \A g \in Fds \ {f} : peer'[g] = peer[g]
  BY DEF TypeOK
<1>4. SocketsOwned' /\ UnreadIsOpen'
  BY <1>3 DEF KernelInv, SocketsOwned, UnreadIsOpen, Open, FdsOf, TypeOK
<1>5. RecvKnows'
  BY DEF KernelInv, RecvKnows, InHand, Target, recvVars
<1>6. HupIsTrue'
  <2>1. \A g \in Fds : HangsUp(g) => HangsUp(g)'
    BY <1>3 DEF HangsUp
  <2>2. (\A e \in batch : e.fd \in Fds) /\ (cur # None => cur.fd \in Fds)
    BY DEF TypeOK, EventRec
  <2>3. InHand => cur # None
    BY DEF KernelInv, RecvKnows
  <2> QED
    BY <2>1, <2>2, <2>3 DEF KernelInv, HupIsTrue, HangsUp, InHand, recvVars
<1>7. ReadinessIsKept'
  <2> SUFFICES ASSUME NEW e \in vecEndpoints
               PROVE  /\ e.fd \in unread' => e.fd \in pending' \/ Ahead(e.fd, "in")
                      /\ HangsUp(e.fd)' => e.fd \in pending' \/ Ahead(e.fd, "hup")
    BY DEF ReadinessIsKept, HangsUp, Ahead, recvVars
  <2>1. e.fd \in Fds /\ e.fd \in registered
    BY DEF TypeOK, Endpoint, KernelInv, SocketsOwned, FdsOf
  <2>2. CASE e.fd = f
    BY <2>1, <2>2
  <2>3. CASE e.fd # f
    BY <1>3, <2>1, <2>3 DEF KernelInv, ReadinessIsKept, HangsUp
  <2> QED
    BY <2>2, <2>3
<1> QED
  BY <1>1, <1>2, <1>4, <1>5, <1>6, <1>7 DEF KernelInv

-----------------------------------------------------------------------------
(* The actions that close sockets and make them.                           *)

(* A callback that brought a message ends.                                 *)
LEMMA CallbackEnds ==
    ASSUME TypeOK, CallbackHasConnection, NEW c \in Conns, callback[c] # None,
           callback[c].kind = "data",
           callback' = [callback EXCEPT ![c] = None],
           UNCHANGED <<link, vecConnections>>
    PROVE  CallbackHasConnection'
BY DEF TypeOK, CallbackHasConnection

LEMMA DisconnectStep ==
    ASSUME GateInv, NEW c \in Conns, Disconnect(c)
    PROVE  GateInv'
<1> USE DEF Disconnect, GateInv
<1> DEFINE E == Lookup(c, callback[c].handle)
<1>1. E \in SUBSET vecEndpoints
  BY DEF Lookup
<1>2. pc \notin {"read", "send"}
  BY DEF DataFor, LockFree
<1>3. vecEndpoints' = vecEndpoints \ E /\ Sockets(FdsOf(E), {}, "none") /\ pc' = pc
  OBVIOUS
<1> HIDE DEF E
<1>4. KernelInv' /\ KernelTyped'
  BY <1>1, <1>2, <1>3, EndpointsGo
<1>5. TypeOK'
  BY <1>4 DEF TypeOK, KernelTyped
<1>6. KeyUnique' /\ NoEndpointAfterClose'
  BY <1>3 DEF KeyUnique, SdkInv, NoEndpointAfterClose
<1>7. CallbackHasConnection'
  BY CallbackEnds DEF SdkInv, DataFor
<1> QED
  BY <1>4, <1>5, <1>6, <1>7 DEF SdkInv

LEMMA NewEndpointStep ==
    ASSUME GateInv, NEW c \in Conns, NewEndpoint(c)
    PROVE  GateInv'
<1> USE DEF NewEndpoint, GateInv
<1>1. pc \notin {"read", "send"} /\ callback[c] # None /\ callback[c].kind = "data"
  BY DEF DataFor, LockFree
<1>2. CallbackHasConnection'
  BY <1>1, CallbackEnds DEF SdkInv
<1>3. CASE Free({}) = {}
  <2>1. UNCHANGED <<vecEndpoints, kernelVars, recvVars, vecConnections, link>>
    BY <1>3 DEF recvVars
  <2>2. TypeOK'
    BY <1>3, <2>1 DEF TypeOK, kernelVars, recvVars
  <2>3. KeyUnique' /\ NoEndpointAfterClose'
    BY <2>1 DEF KeyUnique, SdkInv, NoEndpointAfterClose
  <2> QED
    BY <1>2, <2>1, <2>2, <2>3, KernelStutter DEF SdkInv
<1>4. CASE Free({}) # {}
  <2> PICK f \in Free({}), how \in {"up", "refused"} :
        /\ vecEndpoints' = vecEndpoints \cup
              {[meta |-> c, handle |-> callback[c].handle, fd |-> f]}
        /\ Sockets({}, {f}, how)
        /\ failed' = failed
    BY <1>4
  <2> DEFINE n == [meta |-> c, handle |-> callback[c].handle, fd |-> f]
  <2>1. callback[c].handle \in Handles
    BY <1>1 DEF TypeOK, Callback
  <2>2. n \in Endpoint /\ f \in Fds
    BY <2>1 DEF Endpoint, Free
  <2>3. FdsOf({}) = {} /\ FdsOf({n}) = {f} /\ n.fd = f
    <3>1. FdsOf({}) = {} /\ \A m : FdsOf({m}) = {m.fd}
      BY DEF FdsOf
    <3>2. n.fd = f
      OBVIOUS
    <3> QED
      BY <3>1, <3>2
  <2>4. n.meta = c /\ n.handle = callback[c].handle
    OBVIOUS
  <2>5. vecEndpoints' = (vecEndpoints \ {}) \cup {n} /\ Sockets(FdsOf({}), FdsOf({n}), how)
    BY <2>3
  <2>6. n.fd \in Free(FdsOf({}))
    BY <2>3
  <2> HIDE DEF n
  <2>7. KernelInv' /\ KernelTyped'
    <3>1. {} \in SUBSET vecEndpoints /\ {n} \in SUBSET Endpoint /\ how \in {"none", "up", "refused"}
      BY <2>2
    <3>2. \E m \in Endpoint : {n} = {m} /\ m.fd \in Free(FdsOf({}))
      BY <2>2, <2>6
    <3>3. how # "none" /\ pc' = pc
      OBVIOUS
    <3> QED
      BY <1>1, <2>5, <3>1, <3>2, <3>3, SocketsStep
  <2>8. TypeOK'
    BY <2>7 DEF TypeOK, KernelTyped
  <2>9. KeyUnique'
    <3>1. \A e \in vecEndpoints : ~(e.meta = n.meta /\ e.handle = n.handle)
      BY <2>4 DEF Lookup
    <3> QED
      BY <2>5, <3>1 DEF KeyUnique
  <2>10. NoEndpointAfterClose'
    BY <1>1, <2>4, <2>5 DEF SdkInv, NoEndpointAfterClose, CallbackHasConnection
  <2> QED
    BY <1>2, <2>7, <2>8, <2>9, <2>10 DEF SdkInv
<1> QED
  BY <1>3, <1>4

LEMMA ForwardStep ==
    ASSUME GateInv, NEW c \in Conns, Forward(c)
    PROVE  GateInv'
<1> USE DEF Forward, GateInv
<1>1. pc \notin {"read", "send"} /\ callback[c] # None /\ callback[c].kind = "data"
  BY DEF DataFor, LockFree
<1>2. CallbackHasConnection'
  BY <1>1, CallbackEnds DEF SdkInv
<1> PICK e \in Lookup(c, callback[c].handle) :
         IF Sends(e.fd)
         THEN UNCHANGED <<vecEndpoints, kernelVars, batch, cur>>
         ELSE \E f \in Free({e.fd}), how \in {"up", "refused"} :
                /\ vecEndpoints' = (vecEndpoints \ {e}) \cup {[e EXCEPT !.fd = f]}
                /\ Sockets({e.fd}, {f}, how)
  OBVIOUS
<1>3. e \in vecEndpoints
  BY DEF Lookup
<1>4. CASE Sends(e.fd)
  <2>1. UNCHANGED <<vecEndpoints, kernelVars, recvVars, vecConnections, link>>
    BY <1>4 DEF recvVars
  <2>2. TypeOK'
    BY <2>1 DEF TypeOK, kernelVars, recvVars
  <2>3. KeyUnique' /\ NoEndpointAfterClose'
    BY <2>1 DEF KeyUnique, SdkInv, NoEndpointAfterClose
  <2> QED
    BY <1>2, <2>1, <2>2, <2>3, KernelStutter DEF SdkInv
<1>5. CASE ~Sends(e.fd)
  <2> PICK f \in Free({e.fd}), how \in {"up", "refused"} :
        /\ vecEndpoints' = (vecEndpoints \ {e}) \cup {[e EXCEPT !.fd = f]}
        /\ Sockets({e.fd}, {f}, how)
    BY <1>5
  <2> DEFINE n == [e EXCEPT !.fd = f]
  <2>1. e \in Endpoint /\ e.fd \in Fds
    BY <1>3 DEF TypeOK, Endpoint
  <2>2. f \in Fds
    BY <2>1 DEF Free
  <2>3. n \in Endpoint /\ n.fd = f /\ n.meta = e.meta /\ n.handle = e.handle
    BY <2>1, <2>2 DEF Endpoint
  <2>4. vecEndpoints' = (vecEndpoints \ {e}) \cup {n}
    OBVIOUS
  <2> HIDE DEF n
  <2>5. FdsOf({e}) = {e.fd} /\ FdsOf({n}) = {f}
    BY <2>3 DEF FdsOf
  <2>6. KernelInv' /\ KernelTyped'
    <3>1. {e} \in SUBSET vecEndpoints /\ {n} \in SUBSET Endpoint /\ how \in {"none", "up", "refused"}
      BY <1>3, <2>3
    <3>2. \E m \in Endpoint : {n} = {m} /\ m.fd \in Free(FdsOf({e}))
      BY <2>3, <2>5
    <3>3. how # "none" /\ pc' = pc /\ Sockets(FdsOf({e}), FdsOf({n}), how)
      BY <2>5
    <3> QED
      BY <1>1, <2>4, <3>1, <3>2, <3>3, SocketsStep
  <2>7. TypeOK'
    BY <2>6 DEF TypeOK, KernelTyped
  <2>8. KeyUnique' /\ NoEndpointAfterClose'
    BY <1>3, <2>3, <2>4 DEF KeyUnique, SdkInv, NoEndpointAfterClose
  <2> QED
    BY <1>2, <2>6, <2>7, <2>8 DEF SdkInv
<1> QED
  BY <1>4, <1>5

LEMMA OnSDKConnectionCloseStep ==
    ASSUME GateInv, NEW c \in Conns, OnSDKConnectionClose(c)
    PROVE  GateInv'
<1> USE DEF OnSDKConnectionClose, GateInv
<1> DEFINE E == {e \in vecEndpoints : e.meta = c}
<1>1. E \in SUBSET vecEndpoints /\ \A e \in vecEndpoints \ E : e.meta # c
  OBVIOUS
<1>2. pc \notin {"read", "send"}
  BY DEF LockFree
<1>3. vecEndpoints' = vecEndpoints \ E /\ Sockets(FdsOf(E), {}, "none") /\ pc' = pc
  OBVIOUS
<1> HIDE DEF E
<1>4. KernelInv' /\ KernelTyped'
  BY <1>1, <1>2, <1>3, EndpointsGo
<1>5. TypeOK'
  BY <1>4 DEF TypeOK, KernelTyped, Link
<1>6. link'[c] = "gone" /\ \A b \in Conns \ {c} : link'[b] = link[b]
  BY DEF TypeOK
<1>7. KeyUnique'
  BY <1>3 DEF KeyUnique
<1>8. NoEndpointAfterClose'
  BY <1>1, <1>3, <1>6, EndpointTyped DEF SdkInv, NoEndpointAfterClose, TypeOK
<1>9. CallbackHasConnection'
  BY <1>6 DEF SdkInv, CallbackHasConnection
<1> QED
  BY <1>4, <1>5, <1>7, <1>8, <1>9 DEF SdkInv

LEMMA DropAllStep ==
    ASSUME GateInv, DropAll
    PROVE  GateInv'
<1> USE DEF DropAll, GateInv
<1>1. pc \notin {"read", "send"}
  BY DEF LockFree
<1>2. vecEndpoints' = vecEndpoints \ vecEndpoints /\ vecEndpoints \in SUBSET vecEndpoints
      /\ pc' = pc
  OBVIOUS
<1>3. KernelInv' /\ KernelTyped'
  BY <1>1, <1>2, EndpointsGo
<1>4. TypeOK'
  BY <1>3 DEF TypeOK, KernelTyped, Link
<1>5. KeyUnique' /\ NoEndpointAfterClose'
  BY DEF KeyUnique, NoEndpointAfterClose
<1>6. CallbackHasConnection'
  <2>1. \A c \in Conns : link'[c] = IF c \in vecConnections THEN "closed" ELSE link[c]
    OBVIOUS
  <2> QED
    BY <2>1 DEF SdkInv, CallbackHasConnection
<1> QED
  BY <1>3, <1>4, <1>5, <1>6 DEF SdkInv

-----------------------------------------------------------------------------
(* The steps of RecvThread.                                                *)

LEMMA HandleHupStep ==
    ASSUME GateInv, HandleHup
    PROVE  GateInv'
<1> USE DEF HandleHup, GateInv
<1>1. Target \in SUBSET vecEndpoints
  BY DEF Target
<1>2. KernelInv' /\ KernelTyped'
  BY <1>1, EndpointsGo
<1>3. TypeOK'
  BY <1>2 DEF TypeOK, KernelTyped, sdkVars
<1>4. KeyUnique' /\ SdkInv'
  BY DEF KeyUnique, SdkInv, NoEndpointAfterClose, CallbackHasConnection, sdkVars
<1> QED
  BY <1>2, <1>3, <1>4

LEMMA EpollWaitStep ==
    ASSUME GateInv, EpollWait
    PROVE  GateInv'
<1> USE DEF EpollWait, GateInv
<1> DEFINE ready == {f \in pending : Readable(f) \/ HangsUp(f)}
           told(f) == [fd |-> f, in |-> Readable(f), hup |-> HangsUp(f), stale |-> FALSE]
<1>1. batch' = {told(f) : f \in ready}
  OBVIOUS
<1>2. \A f \in Fds : told(f) \in EventRec
  BY DEF EventRec, Readable, HangsUp
<1>3. ready \subseteq Fds
  BY DEF TypeOK
<1>4. \A f : /\ told(f).fd = f /\ told(f).in = Readable(f)
             /\ told(f).hup = HangsUp(f) /\ told(f).stale = FALSE
  OBVIOUS
<1>5. TypeOK'
  BY <1>1, <1>2, <1>3 DEF TypeOK, sdkVars
<1>6. KeyUnique' /\ SdkInv'
  BY SdkStutter DEF sdkState, sdkVars
<1>7. SocketsOwned' /\ UnreadIsOpen'
  BY DEF KernelInv, SocketsOwned, UnreadIsOpen, Open, FdsOf
<1> HIDE DEF told
<1>8. RecvKnows'
  BY <1>1, <1>4 DEF RecvKnows, InHand
<1>9. HupIsTrue'
  <2>1. \A e \in batch' : \E f \in ready : e.fd = f /\ e.hup = HangsUp(f)
    BY <1>1, <1>4
  <2>2. \A e \in batch' : e.hup => HangsUp(e.fd)
    BY <2>1
  <2>3. ~InHand' /\ \A f : HangsUp(f)' <=> HangsUp(f)
    BY DEF InHand, HangsUp
  <2> QED
    BY <2>2, <2>3 DEF HupIsTrue, HangsUp
<1>10. ReadinessIsKept'
  <2> SUFFICES ASSUME NEW e \in vecEndpoints
               PROVE  /\ e.fd \in unread => \E d \in batch' : d.fd = e.fd /\ d.in
                      /\ HangsUp(e.fd) => \E d \in batch' : d.fd = e.fd /\ d.hup
    BY DEF ReadinessIsKept, HangsUp, Ahead
  <2>1. ~Ahead(e.fd, "in") /\ ~Ahead(e.fd, "hup")
    BY AheadIn, AheadHup DEF KernelInv, RecvKnows, InHand
  <2>2. (e.fd \in unread \/ HangsUp(e.fd)) => e.fd \in pending
    BY <2>1 DEF KernelInv, ReadinessIsKept
  <2>3. (e.fd \in unread \/ HangsUp(e.fd)) => told(e.fd) \in batch'
    BY <1>1, <2>2 DEF Readable
  <2> QED
    BY <1>4, <2>3 DEF Readable
<1> QED
  BY <1>5, <1>6, <1>7, <1>8, <1>9, <1>10 DEF KernelInv

LEMMA NextEventStep ==
    ASSUME GateInv, NextEvent
    PROVE  GateInv'
<1> USE DEF NextEvent, GateInv
<1>1. TypeOK'
  BY DEF TypeOK, sdkVars, kernelVars
<1>2. KeyUnique' /\ SdkInv'
  BY SdkStutter DEF sdkState, sdkVars
<1>3. SocketsOwned' /\ UnreadIsOpen'
  BY DEF KernelInv, SocketsOwned, UnreadIsOpen, Open, FdsOf, kernelVars
<1>4. \A f : (HangsUp(f)' <=> HangsUp(f)) /\ ~(InHand /\ pc = "event")
  BY DEF HangsUp, kernelVars, InHand
<1>5. CASE batch = {} /\ cur' = None /\ pc' = "poll" /\ UNCHANGED batch
  <2>1. RecvKnows' /\ HupIsTrue'
    BY <1>5 DEF RecvKnows, HupIsTrue, InHand
  <2>2. ReadinessIsKept'
    <3>1. \A f : ~Ahead(f, "in") /\ ~Ahead(f, "hup")
      BY <1>5, AheadIn, AheadHup DEF InHand
    <3> QED
      BY <3>1, <1>4 DEF KernelInv, ReadinessIsKept, HangsUp, kernelVars
  <2> QED
    BY <1>1, <1>2, <1>3, <2>1, <2>2 DEF KernelInv
<1>6. ASSUME NEW e \in batch, batch' = batch \ {e}, cur' = e,
             pc' = IF e.in THEN "in" ELSE "hup"
      PROVE  KernelInv'
  <2>1. e \in EventRec /\ e # None /\ (e.in \/ e.hup)
    BY NoneAssumption DEF TypeOK, KernelInv, RecvKnows
  <2>2. RecvKnows'
    BY <1>6, <2>1 DEF KernelInv, RecvKnows, InHand
  <2>3. HupIsTrue'
    BY <1>4, <1>6 DEF KernelInv, HupIsTrue, HangsUp
  <2>4. ASSUME NEW f PROVE /\ Ahead(f, "in") => Ahead(f, "in")'
                           /\ Ahead(f, "hup") => Ahead(f, "hup")'
    <3>1. /\ Ahead(f, "in") => \E d \in batch : d.fd = f /\ d.in
          /\ Ahead(f, "hup") => \E d \in batch : d.fd = f /\ d.hup
      BY AheadIn, AheadHup DEF InHand
    <3>2. (\E d \in batch : d.fd = f /\ d.in) => Ahead(f, "in")'
      BY <1>6, <2>1 DEF Ahead
    <3>3. (\E d \in batch : d.fd = f /\ d.hup) => Ahead(f, "hup")'
      BY <1>6, <2>1 DEF Ahead
    <3> QED
      BY <3>1, <3>2, <3>3
  <2>5. ReadinessIsKept'
    <3> SUFFICES ASSUME NEW d \in vecEndpoints
                 PROVE  /\ d.fd \in unread => d.fd \in pending \/ Ahead(d.fd, "in")'
                        /\ HangsUp(d.fd) => d.fd \in pending \/ Ahead(d.fd, "hup")'
      BY <1>4 DEF ReadinessIsKept, HangsUp, Ahead, kernelVars
    <3> QED
      BY <2>4 DEF KernelInv, ReadinessIsKept
  <2> QED
    BY <1>3, <2>2, <2>3, <2>5 DEF KernelInv
<1> QED
  BY <1>1, <1>2, <1>5, <1>6

(* A step in which RecvThread goes on with the event in its hand.          *)
LEMMA SameEvent ==
    ASSUME GateInv, InHand,
           UNCHANGED <<vecEndpoints, peer, registered, pending, batch, cur>>,
           unread' \subseteq unread,
           pc' \in {"read", "send", "hup", "event"},
           pc' \in {"read", "send"} => Target # {},
           pc' = "hup" => cur.hup,
           pc' = "event" => ~cur.hup,
           \A e \in vecEndpoints : e.fd \in unread' /\ cur.fd = e.fd =>
               \/ pc' = "read"
               \/ e.fd \in pending
               \/ \E d \in batch : d.fd = e.fd /\ d.in
    PROVE  KernelInv'
<1> USE DEF GateInv, KernelInv
<1>1. SocketsOwned' /\ UnreadIsOpen'
  BY DEF SocketsOwned, UnreadIsOpen, Open, FdsOf
<1>2. cur # None
  BY DEF RecvKnows
<1>3. RecvKnows'
  BY <1>2 DEF RecvKnows, InHand, Target
<1>4. HupIsTrue'
  BY DEF HupIsTrue, HangsUp, InHand
<1>5. ReadinessIsKept'
  <2> SUFFICES ASSUME NEW e \in vecEndpoints
               PROVE  /\ e.fd \in unread' => e.fd \in pending \/ Ahead(e.fd, "in")'
                      /\ HangsUp(e.fd) => e.fd \in pending \/ Ahead(e.fd, "hup")'
    BY DEF ReadinessIsKept, HangsUp, Ahead
  <2>1. Ahead(e.fd, "in") =>
          (\E d \in batch : d.fd = e.fd /\ d.in) \/ cur.fd = e.fd
    BY AheadIn
  <2>2. Ahead(e.fd, "hup") =>
          (\E d \in batch : d.fd = e.fd /\ d.hup) \/ (cur.fd = e.fd /\ cur.hup)
    BY AheadHup
  <2>3. e.fd \in unread' /\ Ahead(e.fd, "in") => e.fd \in pending \/ Ahead(e.fd, "in")'
    BY <1>2, <2>1 DEF Ahead
  <2>4. Ahead(e.fd, "hup") => Ahead(e.fd, "hup")'
    BY <1>2, <2>2 DEF Ahead
  <2> QED
    BY <2>3, <2>4 DEF ReadinessIsKept
<1> QED
  BY <1>1, <1>3, <1>4, <1>5

LEMMA HandleInStep ==
    ASSUME GateInv, HandleIn
    PROVE  GateInv'
<1> USE DEF HandleIn, GateInv
<1>1. TypeOK'
  BY DEF TypeOK, AfterIn, sdkVars, kernelVars
<1>2. KeyUnique' /\ SdkInv'
  BY SdkStutter DEF sdkState, sdkVars
<1>3. InHand /\ (Target = {} => \A e \in vecEndpoints : cur.fd # e.fd)
  BY DEF InHand, Target
<1>4. Target # {} => pc' = "read"
  OBVIOUS
<1>5. Target = {} => pc' = IF cur.hup THEN "hup" ELSE "event"
  BY DEF AfterIn
<1>6. KernelInv'
  BY <1>3, <1>4, <1>5, SameEvent DEF kernelVars
<1> QED
  BY <1>1, <1>2, <1>6

LEMMA RecvStep ==
    ASSUME GateInv, Recv
    PROVE  GateInv'
<1> USE DEF Recv, GateInv
<1>1. TypeOK'
  <2>1. unread' \in SUBSET Fds /\ retry_count' \in 0..MaxRetry + 1
    <3>1. unread' \in SUBSET Fds
      BY DEF TypeOK
    <3>2. MaxRetry \in Nat /\ retry_count' = 0
      BY WebGatewayAssumption
    <3> QED
      BY <3>1, <3>2
  <2>2. pc' \in {"send", "hup", "event"}
    BY DEF AfterIn
  <2>3. UNCHANGED <<link, callback>>
    BY DEF sdkVars
  <2> QED
    BY <2>1, <2>2, <2>3 DEF TypeOK
<1>2. KeyUnique' /\ SdkInv'
  BY SdkStutter DEF sdkState, sdkVars
<1>3. InHand /\ Target # {} /\ cur.fd \notin unread' /\ unread' \subseteq unread
  BY DEF InHand, KernelInv, RecvKnows
<1>4. pc' = "send" \/ pc' = IF cur.hup THEN "hup" ELSE "event"
  BY DEF AfterIn
<1>5. KernelInv'
  BY <1>3, <1>4, SameEvent
<1> QED
  BY <1>1, <1>2, <1>5

LEMMA SendStep ==
    ASSUME GateInv, Send
    PROVE  GateInv'
<1> USE DEF Send, GateInv
<1> PICK e \in Target : TRUE
  BY DEF KernelInv, RecvKnows
<1>1. \/ /\ AfterIn
         /\ UNCHANGED <<retry_count, failed>>
      \/ /\ IF retry_count > MaxRetry
            THEN failed' = "retry_count" /\ UNCHANGED retry_count
            ELSE retry_count' = retry_count + 1 /\ UNCHANGED failed
         /\ UNCHANGED pc
  OBVIOUS
<1>2. retry_count' \in 0..MaxRetry + 1 /\ failed' \in {"none", "sockfd > 0", "retry_count"}
  <2>1. retry_count \in Nat /\ retry_count <= MaxRetry + 1 /\ MaxRetry \in Nat
    <3>1. retry_count \in 0..MaxRetry + 1
      BY DEF TypeOK
    <3>2. MaxRetry \in Nat
      BY WebGatewayAssumption
    <3> QED
      BY <3>1, <3>2
  <2>2. \/ retry_count' = retry_count
        \/ ~(retry_count > MaxRetry) /\ retry_count' = retry_count + 1
    BY <1>1
  <2>3. retry_count' \in 0..MaxRetry + 1
    BY <2>1, <2>2
  <2>4. failed' = failed \/ failed' = "retry_count"
    BY <1>1
  <2> QED
    BY <2>3, <2>4 DEF TypeOK
<1>3. pc' = "send" \/ pc' = IF cur.hup THEN "hup" ELSE "event"
  BY <1>1 DEF AfterIn
<1>4. TypeOK'
  BY <1>2, <1>3 DEF TypeOK, sdkVars, kernelVars
<1>5. KeyUnique' /\ SdkInv'
  BY SdkStutter DEF sdkState, sdkVars
<1>6. InHand /\ Target # {}
  BY DEF InHand
<1>7. ASSUME NEW d \in vecEndpoints, d.fd \in unread, cur.fd = d.fd
      PROVE  d.fd \in pending \/ \E b \in batch : b.fd = d.fd /\ b.in
  BY <1>7, AheadIn DEF KernelInv, ReadinessIsKept
<1>8. KernelInv'
  BY <1>3, <1>6, <1>7, SameEvent DEF kernelVars
<1> QED
  BY <1>4, <1>5, <1>8

-----------------------------------------------------------------------------
(* The theorems.                                                           *)

LEMMA GateStep == GateInv /\ [Next]_vars => GateInv'
<1> SUFFICES ASSUME GateInv, [Next]_vars PROVE GateInv'
  OBVIOUS
<1>1. CASE UNCHANGED vars
  <2>1. TypeOK'
    BY <1>1 DEF vars, sdkVars, kernelVars, recvVars, GateInv, TypeOK
  <2>2. KeyUnique' /\ SdkInv'
    BY <1>1, SdkStutter DEF vars, sdkVars, sdkState, GateInv
  <2>3. KernelInv'
    BY <1>1, KernelStutter DEF vars, GateInv
  <2> QED
    BY <2>1, <2>2, <2>3 DEF GateInv
<1>2. ASSUME NEW c \in Conns,
             \/ ConnectionMade(c) \/ ClientSends(c) \/ ConnectionLost(c)
             \/ OnSDKConnectionInit(c) \/ OnSDKConnectionClose(c)
             \/ Disconnect(c) \/ NewEndpoint(c) \/ Forward(c)
      PROVE  GateInv'
  BY <1>2, ConnectionMadeStep, ClientSendsStep, ConnectionLostStep, OnSDKConnectionInitStep,
     OnSDKConnectionCloseStep, DisconnectStep, NewEndpointStep, ForwardStep
<1>3. ASSUME NEW f \in Fds, ServerActs(f) PROVE GateInv'
  BY <1>3, ServerActsStep
<1>4. CASE OnSDKClose \/ CloseConnection
  BY <1>4, DropAllStep DEF OnSDKClose, CloseConnection
<1>5. CASE RecvThread
  BY <1>5, EpollWaitStep, NextEventStep, HandleInStep, RecvStep, SendStep, HandleHupStep
     DEF RecvThread
<1> QED
  BY <1>1, <1>2, <1>3, <1>4, <1>5 DEF Next

LEMMA GateInvariance == Spec => []GateInv
<1> QED
  BY GateInit, GateStep, PTL DEF Spec

(* Every variable keeps its type, the retry counter its bound.             *)
THEOREM GatewayTypeCorrect == Spec => []TypeOK
<1>1. GateInv => TypeOK
  BY DEF GateInv
<1> QED
  BY <1>1, GateInvariance, PTL

(* No callback and no hang-up leaks a socket, shares one between two       *)
(* endpoints or leaves one unwatched.                                      *)
THEOREM EverySocketIsOwned == Spec => []SocketsOwned
<1>1. GateInv => SocketsOwned
  BY DEF GateInv, KernelInv
<1> QED
  BY <1>1, GateInvariance, PTL

(* A handle of a client never means two endpoints.                         *)
THEOREM HandleMeansOneEndpoint == Spec => []KeyUnique
<1>1. GateInv => KeyUnique
  BY DEF GateInv
<1> QED
  BY <1>1, GateInvariance, PTL

(* Whoever takes the lock finds sockets, handles and endpoints matched.    *)
THEOREM EndpointsStaySound == Spec => []EndpointsAreSound
BY GatewayTypeCorrect, EverySocketIsOwned, HandleMeansOneEndpoint, PTL
   DEF EndpointsAreSound

(* After OnSDKConnectionClose nothing of the connection is left, although  *)
(* a last message of its client may still have made an endpoint after      *)
(* every connection was closed from this side.                             *)
THEOREM NothingAfterLastCallback == Spec => []NoEndpointAfterClose
<1>1. GateInv => NoEndpointAfterClose
  BY DEF GateInv, SdkInv
<1> QED
  BY <1>1, GateInvariance, PTL

(* The edge triggered loop loses no answer and no hang-up, however the     *)
(* callbacks close and reuse descriptors between its steps.                *)
THEOREM NoEdgeIsLost == Spec => []ReadinessIsKept
<1>1. GateInv => ReadinessIsKept
  BY DEF GateInv, KernelInv
<1> QED
  BY <1>1, GateInvariance, PTL

(* RecvThread ends the session of a server that is there only on an event  *)
(* whose descriptor was closed after it was reported.                      *)
THEOREM OnlyStaleEventsMislead == Spec => HangupNamesItsEndpoint
<1> DEFINE Step == \A e \in vecEndpoints :
        (pc = "hup" /\ pc' = "event" /\ e \notin vecEndpoints' /\ ~cur.stale)
            => peer[e.fd] \notin {"up", "fin"}
<1>1. GateInv /\ [Next]_vars => [Step]_vars
  <2> SUFFICES ASSUME GateInv, Next, NEW e \in vecEndpoints, pc = "hup", pc' = "event",
                      e \notin vecEndpoints', ~cur.stale
               PROVE  peer[e.fd] \notin {"up", "fin"}
    BY DEF Step
  <2>1. HandleHup
    BY DEF Next, RecvThread, ConnectionMade, ClientSends, ConnectionLost, OnSDKConnectionInit,
       OnSDKConnectionClose, Disconnect, NewEndpoint, Forward, ServerActs, OnSDKClose,
       CloseConnection, DropAll, EpollWait, NextEvent, HandleIn, Recv, Send, recvVars
  <2>2. e.fd = cur.fd
    BY <2>1 DEF HandleHup, Target
  <2>3. HangsUp(cur.fd)
    BY DEF GateInv, KernelInv, RecvKnows, HupIsTrue, InHand
  <2> QED
    BY <2>2, <2>3 DEF HangsUp
<1>2. Spec => [][Step]_vars
  BY <1>1, GateInvariance, PTL DEF Spec
<1> QED
  BY <1>2 DEF HangupNamesItsEndpoint

=============================================================================
