------------------------------- MODULE DeviceAgent -------------------------------
(***************************************************************************)
(* The main loops of src/2webclient and the callbacks of the device SDK:   *)
(* the client of deviceagent.cpp ("agent"), which also sends requests and  *)
(* stores what comes back, and both sides of MNDBServer.cpp ("mndb").  The *)
(* server side of deviceagent.cpp is WebGateway.                           *)
(*                                                                         *)
(* The SDK calls back on its own threads, one callback of a device or of a *)
(* connection at a time.  Callbacks talk to the main loop through plain    *)
(* int flags, which the loop looks at after each key; a callback is cut    *)
(* where it writes them.  A section under vecConnectionsLock is one step.  *)
(***************************************************************************)
EXTENDS Integers, Sequences, FiniteSets, SequencesExt

CONSTANTS Args,      \* what the command line may ask for
          MaxDevs, MaxConns,
          MaxIds     \* bound: requests, below the 1024 entries of file_handle

(* The command line, with bounds: devs calls of DeviceInit the SDK takes,  *)
(* and conns connections.                                                  *)
Asked(mode, type, contype) ==
    [prog : {"agent", "mndb"}, mode : mode, type : type, contype : contype,
     devs : 1..MaxDevs, conns : 0..MaxConns]

ASSUME DeviceAgentAssumption ==
    /\ Args \subseteq Asked(Nat, Nat, Nat)
    /\ \A a \in Args : a.prog = "agent" => a.mode = 0
    /\ MaxDevs \in Nat \ {0} /\ MaxConns \in Nat /\ MaxIds \in Nat

Devs == 1..MaxDevs
Conns == 1..MaxConns
Ids == 1..MaxIds

VARIABLES opt,          \* the parsed command line
          pc,           \* where the main loop is
          reinit_flg, coninit_flg, closecon_flg, msg_flg,
          nLocalDeviceID, vecConnections,
          id_request, conn_id, file_handle,
          \* the SDK
          dev, cn,      \* what it has of a device and of a connection
          promoter,     \* connections this side asked for
          dcb, ccb,     \* what is left of a callback of a device, a connection
          remote,       \* [Conns -> requests its other end has an endpoint for,
                        \*  with the key that made it have one]
          \* history
          wantCon, wantMsg   \* a connection, a message is asked for and not yet made

flags == <<reinit_flg, coninit_flg, closecon_flg, msg_flg>>
requestVars == <<id_request, conn_id, file_handle, remote>>
sdkVars == <<dev, cn, promoter, dcb, ccb>>
wants == <<wantCon, wantMsg>>
agentVars == <<opt, pc, flags, nLocalDeviceID, vecConnections, requestVars, sdkVars, wants>>

AgentTypeOK ==
    /\ opt \in Asked({0, 1}, 0..2, {0, 1})
    /\ pc \in {"key", "coninit", "connect", "closecon", "msg", "send", "reinit", "init", "exit"}
    /\ {reinit_flg, coninit_flg, closecon_flg, msg_flg, wantCon, wantMsg} \subseteq BOOLEAN
    /\ nLocalDeviceID \in Devs \cup {0}
    /\ vecConnections \in Seq(Conns)
    /\ id_request \in Seq(Ids) /\ IsInjective(id_request)
    /\ conn_id \in 0..MaxIds /\ file_handle \subseteq Ids
    /\ dev \in [Devs -> {"none", "starting", "up", "retrying", "closed"}]
    /\ cn \in [Conns -> {"none", "asked", "ready", "open", "lost", "closed"}]
    /\ promoter \subseteq Conns
    /\ dcb \in [Devs -> {"none", "init", "close"}]
    /\ ccb \in [Conns -> {"none", "init", "close"}]
    /\ remote \in [Conns -> SUBSET (Ids \X {"t", "y"})]
    /\ opt.mode = 1 => ~coninit_flg /\ ~msg_flg

(* parse: what is out of the tables becomes something that is not.         *)
ParsedOption(a) ==
    [a EXCEPT !.mode = IF @ # 0 THEN 1 ELSE 0,
              !.type = IF @ > 2 THEN 0 ELSE @,
              !.contype = IF @ > 1 THEN 1 ELSE @]

(* InitDevice up to DeviceInit, which takes a new device or refuses.       *)
FirstInit == dev = [d \in Devs |-> IF d = 1 THEN "starting" ELSE "none"]

AgentInit ==
    /\ \E a \in Args : opt = ParsedOption(a)
    /\ pc = "init" /\ FirstInit
    /\ reinit_flg = FALSE /\ coninit_flg = FALSE /\ closecon_flg = FALSE /\ msg_flg = FALSE
    /\ wantCon = FALSE /\ wantMsg = FALSE
    /\ nLocalDeviceID = 0 /\ vecConnections = <<>>
    /\ id_request = <<>> /\ conn_id = 0 /\ file_handle = {}
    /\ cn = [c \in Conns |-> "none"] /\ promoter = {}
    /\ dcb = [d \in Devs |-> "none"] /\ ccb = [c \in Conns |-> "none"]
    /\ remote = [c \in Conns |-> {}]

Listed == ToSet(vecConnections)

-----------------------------------------------------------------------------
(* Callbacks of the SDK.                                                   *)

(* OnSDKInit, in the program's order: the id, the request to connect, and  *)
(* that no other device is needed.  The SDK goes on trying after an error. *)
OnSDKInit(d, nErrno) ==
    /\ dev[d] \in {"starting", "retrying"} /\ dcb[d] = "none"
    /\ nLocalDeviceID' = d
    /\ IF nErrno = 0
       THEN /\ dev' = [dev EXCEPT ![d] = "up"]
            /\ dcb' = [dcb EXCEPT ![d] = "init"]
            /\ coninit_flg' = (coninit_flg \/ opt.mode = 0)
            /\ wantCon' = (wantCon \/ opt.mode = 0)
       ELSE /\ dev' = [dev EXCEPT ![d] = "retrying"]
            /\ UNCHANGED <<dcb, coninit_flg, wantCon>>
    /\ UNCHANGED <<opt, pc, reinit_flg, closecon_flg, msg_flg, vecConnections, requestVars,
                   cn, promoter, ccb, wantMsg>>

OnSDKInitEnd(d) ==
    /\ dcb[d] = "init"
    /\ dcb' = [dcb EXCEPT ![d] = "none"]
    /\ reinit_flg' = FALSE
    /\ UNCHANGED <<opt, pc, coninit_flg, closecon_flg, msg_flg, nLocalDeviceID, vecConnections,
                   requestVars, dev, cn, promoter, ccb, wants>>

(* ConnectionClose for every connection that is listed.  The close callback*)
(* of one that was lost before is still to come.                           *)
CloseListed ==
    cn' = [c \in Conns |-> IF c \in Listed /\ cn[c] = "open" THEN "closed" ELSE cn[c]]

(* The other end drops a connection's endpoints with it.                   *)
CloseAll == CloseListed /\ vecConnections' = <<>>

Forgotten == remote' = [c \in Conns |-> IF cn'[c] \in {"lost", "closed"} THEN {} ELSE remote[c]]

(* OnSDKClose: the connections only if the device is the current one.      *)
OnSDKClose(d) ==
    /\ dev[d] \in {"up", "retrying"} /\ dcb[d] = "none"
    /\ dev' = [dev EXCEPT ![d] = "closed"]
    /\ dcb' = [dcb EXCEPT ![d] = "close"]
    /\ IF d = nLocalDeviceID THEN CloseAll ELSE UNCHANGED <<cn, vecConnections>>
    /\ Forgotten
    /\ UNCHANGED <<opt, pc, flags, nLocalDeviceID, id_request, conn_id, file_handle,
                   promoter, ccb, wants>>

(* The flag is raised for any device.                                      *)
OnSDKCloseEnd(d) ==
    /\ dcb[d] = "close"
    /\ dcb' = [dcb EXCEPT ![d] = "none"]
    /\ reinit_flg' = TRUE
    /\ UNCHANGED <<opt, pc, coninit_flg, closecon_flg, msg_flg, nLocalDeviceID, vecConnections,
                   requestVars, dev, cn, promoter, ccb, wants>>

(* OnSDKConnectionInit: an error is counted, a connection is listed.       *)
OnSDKConnectionInit(c, nErrno) ==
    /\ cn[c] \in {"asked", "ready"} /\ ccb[c] = "none"
    /\ IF nErrno # 0
       THEN /\ cn' = [cn EXCEPT ![c] = "closed"]
            /\ UNCHANGED <<vecConnections, ccb, wantMsg>>
       ELSE /\ cn' = [cn EXCEPT ![c] = "open"]
            /\ vecConnections' = Append(vecConnections, c)
            /\ ccb' = [ccb EXCEPT ![c] = "init"]
            /\ UNCHANGED wantMsg
    /\ UNCHANGED <<opt, pc, flags, nLocalDeviceID, requestVars, dev, promoter, dcb, wantCon>>

OnSDKConnectionInitEnd(c) ==
    /\ ccb[c] = "init"
    /\ ccb' = [ccb EXCEPT ![c] = "none"]
    /\ LET tells == opt.mode = 0 /\ c \in promoter
       IN msg_flg' = (msg_flg \/ tells) /\ wantMsg' = (wantMsg \/ tells)
    /\ UNCHANGED <<opt, pc, reinit_flg, coninit_flg, closecon_flg, nLocalDeviceID,
                   vecConnections, requestVars, dev, cn, promoter, dcb, wantCon>>

SlipErasesFirst(c) == IF vecConnections = <<>> THEN <<>> ELSE Tail(vecConnections)

(* Every entry of the connection is erased; the others keep their order.   *)
Erased(c) ==
    LET kept == {i \in DOMAIN vecConnections : vecConnections[i] # c}
        Nth(n) == CHOOSE i \in kept : Cardinality({k \in kept : k <= i}) = n
    IN [n \in 1..Cardinality(kept) |-> vecConnections[Nth(n)]]

(* OnSDKConnectionClose: first under the lock, then ConnectionClose.       *)
OnSDKConnectionClose(c) ==
    /\ cn[c] = "lost" /\ ccb[c] = "none"
    /\ vecConnections' = Erased(c)
    /\ ccb' = [ccb EXCEPT ![c] = "close"]
    /\ UNCHANGED <<opt, pc, flags, nLocalDeviceID, requestVars, dev, cn, promoter, dcb, wants>>

OnSDKConnectionCloseEnd(c) ==
    /\ ccb[c] = "close"
    /\ ccb' = [ccb EXCEPT ![c] = "none"]
    /\ cn' = [cn EXCEPT ![c] = "closed"]
    /\ UNCHANGED <<opt, pc, flags, nLocalDeviceID, vecConnections, requestVars, dev, promoter,
                   dcb, wants>>

(* An answer of an agent's request goes to the file of its number, which   *)
(* is made, empty, for the first one.                                      *)
OnSDKConnectionData(c, id) ==
    /\ opt.prog = "agent" /\ cn[c] = "open" /\ \E r \in remote[c] : r[1] = id
    /\ file_handle' = file_handle \cup {id}
    /\ UNCHANGED <<opt, pc, flags, nLocalDeviceID, vecConnections, id_request, conn_id, remote,
                   sdkVars, wants>>

(* The other side connects, or a connection is lost.                       *)
RemoteConnects(c) ==
    /\ cn[c] = "none" /\ \E d \in Devs : dev[d] = "up"
    /\ cn' = [cn EXCEPT ![c] = "ready"]
    /\ UNCHANGED <<opt, pc, flags, nLocalDeviceID, vecConnections, requestVars, dev, promoter,
                   dcb, ccb, wants>>

Lose(c) ==
    /\ cn[c] = "open" /\ ccb[c] = "none"
    /\ cn' = [cn EXCEPT ![c] = "lost"]
    /\ Forgotten
    /\ UNCHANGED <<opt, pc, flags, nLocalDeviceID, vecConnections, id_request, conn_id,
                   file_handle, dev, promoter, dcb, ccb, wants>>

-----------------------------------------------------------------------------
(* The main loop.  The server's goes from the key to closecon.             *)

Goto(from, to) == pc = from /\ pc' = to
AfterKey == IF opt.mode = 0 THEN "coninit" ELSE "closecon"

(* What the other end makes of headers that say to disconnect ids, each    *)
(* named once: an endpoint it has goes, and one it has not is made.        *)
Disconnect(at, ids) ==
    {r \in at : r[1] \notin ids} \cup {<<id, "y">> : id \in ids \ {r[1] : r \in at}}

SlipFirstOnly(c) ==
    IF vecConnections # <<>> /\ c = vecConnections[1]
    THEN Disconnect(remote[c], ToSet(id_request)) ELSE remote[c]

(* 'y': every connection that is listed is told of every request.          *)
Told(c) ==
    IF c \in Listed /\ cn[c] = "open"
    THEN Disconnect(remote[c], ToSet(id_request)) ELSE remote[c]

(* 't': a request with a new number on every connection.                   *)
KeyT ==
    /\ opt.prog = "agent" /\ Goto("key", "coninit")
    /\ conn_id + Len(vecConnections) <= MaxIds
    /\ conn_id' = conn_id + Len(vecConnections)
    /\ id_request' = id_request \o [i \in 1..Len(vecConnections) |-> conn_id + i]
    /\ remote' = [c \in Conns |->
                    IF cn[c] # "open" THEN remote[c]
                    ELSE remote[c] \cup {<<conn_id + i, "t">> : i \in {j \in DOMAIN vecConnections :
                                                                       vecConnections[j] = c}}]
    /\ UNCHANGED <<opt, flags, nLocalDeviceID, vecConnections, file_handle, sdkVars, wants>>

KeyY ==
    /\ opt.prog = "agent" /\ Goto("key", "coninit")
    /\ remote' = [c \in Conns |-> Told(c)]
    /\ id_request' = <<>>
    /\ UNCHANGED <<opt, flags, nLocalDeviceID, vecConnections, conn_id, file_handle, sdkVars,
                   wants>>

(* 'i', 'c', 's' and every other key.                                      *)
Key ==
    /\ Goto("key", AfterKey)
    /\ \/ reinit_flg' = TRUE /\ UNCHANGED <<coninit_flg, closecon_flg, wantCon>>
       \/ /\ opt.mode = 0
          /\ coninit_flg' = TRUE /\ wantCon' = TRUE /\ UNCHANGED <<reinit_flg, closecon_flg>>
       \/ closecon_flg' = TRUE /\ UNCHANGED <<reinit_flg, coninit_flg, wantCon>>
       \/ UNCHANGED <<reinit_flg, coninit_flg, closecon_flg, wantCon>>
    /\ UNCHANGED <<opt, msg_flg, nLocalDeviceID, vecConnections, requestVars, sdkVars, wantMsg>>

SlipResetLate(flg) == FALSE

(* A flag is reset when it is found set, and left alone once the request   *)
(* has been served, so that one made meanwhile counts.                     *)
OnceServed(flg) == flg

IfConInit ==
    /\ Goto("coninit", IF coninit_flg THEN "connect" ELSE "closecon")
    /\ coninit_flg' = FALSE
    /\ UNCHANGED <<opt, reinit_flg, closecon_flg, msg_flg, nLocalDeviceID, vecConnections,
                   requestVars, sdkVars, wants>>

(* InitConnection: ConnectionInit refuses if there is no such device.      *)
InitConnection ==
    /\ Goto("connect", "closecon")
    /\ wantCon' = FALSE
    /\ \/ \E c \in Conns :
            /\ nLocalDeviceID # 0 /\ dev[nLocalDeviceID] = "up"
            /\ cn[c] = "none"
            /\ cn' = [cn EXCEPT ![c] = "asked"]
            /\ promoter' = promoter \cup {c}
       \/ UNCHANGED <<cn, promoter>>
    /\ UNCHANGED <<opt, flags, nLocalDeviceID, vecConnections, requestVars, dev, dcb, ccb,
                   wantMsg>>

IfCloseCon ==
    /\ Goto("closecon", IF opt.mode = 0 THEN "msg" ELSE "reinit")
    /\ closecon_flg' = FALSE /\ coninit_flg' = OnceServed(coninit_flg)
    /\ IF closecon_flg THEN CloseAll ELSE UNCHANGED <<cn, vecConnections>>
    /\ Forgotten
    /\ UNCHANGED <<opt, reinit_flg, msg_flg, nLocalDeviceID, id_request, conn_id,
                   file_handle, dev, promoter, dcb, ccb, wants>>

IfMsg ==
    /\ Goto("msg", IF msg_flg THEN "send" ELSE "reinit")
    /\ msg_flg' = FALSE
    /\ UNCHANGED <<opt, reinit_flg, coninit_flg, closecon_flg, nLocalDeviceID, vecConnections,
                   requestVars, sdkVars, wants>>

SendMsgToServer ==
    /\ Goto("send", "reinit")
    /\ wantMsg' = FALSE
    /\ UNCHANGED <<opt, flags, nLocalDeviceID, vecConnections, requestVars, sdkVars, wantCon>>

SlipResetReinit(f) == FALSE

(* reinit_flg stays as it is: only a device that registers resets it.      *)
KeepsReinit(f) == f

IfReinit ==
    /\ IF reinit_flg
       THEN /\ Goto("reinit", "init")
            /\ reinit_flg' = KeepsReinit(reinit_flg)
            /\ \/ \E d \in Devs : /\ dev[d] = "none" /\ d <= opt.devs
                                  /\ \A e \in Devs : dev[e] = "none" => d <= e
                                  /\ dev' = [dev EXCEPT ![d] = "starting"]
               \/ UNCHANGED dev                                  \* DeviceInit refuses
       ELSE Goto("reinit", "key") /\ UNCHANGED <<reinit_flg, dev>>
    /\ msg_flg' = OnceServed(msg_flg)
    /\ UNCHANGED <<opt, coninit_flg, closecon_flg, nLocalDeviceID, vecConnections, requestVars, cn,
                   promoter, dcb, ccb, wants>>

(* DeviceInit is synchronous: it returns when OnSDKInit has.               *)
InitReturns ==
    /\ Goto("init", "key")
    /\ \A d \in Devs : dev[d] # "starting" /\ dcb[d] # "init"
    /\ UNCHANGED <<opt, flags, nLocalDeviceID, vecConnections, requestVars, sdkVars, wants>>

(* 'q': DeviceClose of the current device, SDKUnInit, and the files.       *)
Quit ==
    /\ Goto("key", "exit")
    /\ dev' = [d \in Devs |-> IF dev[d] = "none" THEN "none" ELSE "closed"]
    /\ cn' = [c \in Conns |-> "closed"]
    /\ dcb' = [d \in Devs |-> "none"] /\ ccb' = [c \in Conns |-> "none"]
    /\ file_handle' = {}
    /\ remote' = [c \in Conns |-> {}]
    /\ UNCHANGED <<opt, flags, nLocalDeviceID, vecConnections, id_request, conn_id, promoter, wants>>

DeviceCallback(d) ==
    \/ \E nErrno \in {0, -10000} : OnSDKInit(d, nErrno)
    \/ OnSDKInitEnd(d) \/ OnSDKClose(d) \/ OnSDKCloseEnd(d)

ConnectionCallback(c) ==
    \/ \E nErrno \in {0, -10003} : OnSDKConnectionInit(c, nErrno)
    \/ OnSDKConnectionInitEnd(c) \/ OnSDKConnectionClose(c) \/ OnSDKConnectionCloseEnd(c)
    \/ \E id \in Ids : OnSDKConnectionData(c, id)

main ==
    \/ KeyT \/ KeyY \/ Key \/ Quit
    \/ IfConInit \/ InitConnection \/ IfCloseCon \/ IfMsg \/ SendMsgToServer
    \/ IfReinit \/ InitReturns

AgentNext ==
    \/ main
    \/ /\ pc # "exit"
       /\ \/ \E d \in Devs : DeviceCallback(d)
          \/ \E c \in 1..opt.conns : ConnectionCallback(c) \/ RemoteConnects(c) \/ Lose(c)

AgentSpec == AgentInit /\ [][AgentNext]_agentVars

-----------------------------------------------------------------------------
(* Properties.                                                             *)

(* A callback's request to connect or to send is served by the loop or is  *)
(* still on its flag, whenever the callback comes: the flag is reset before*)
(* the request is served, not after.                                       *)
NoRequestLost ==
    /\ wantCon => coninit_flg \/ pc = "connect"
    /\ wantMsg => msg_flg \/ pc = "send"

(* Once a device has been closed, there is a device that is or will be     *)
(* registered, or the next key makes one: whichever device closes, and     *)
(* however often DeviceInit refuses.                                       *)
Reregisters ==
    (\E d \in Devs : dev[d] = "closed") /\ pc # "exit" =>
        \/ \E d \in Devs : dev[d] \in {"starting", "up", "retrying"}
        \/ reinit_flg
        \/ \E d \in Devs : dcb[d] = "close"

(* Of the connections: what the callbacks have announced and what is in    *)
(* the vector.                                                             *)
ListedIsOpen ==
    pc # "exit" =>
        /\ {c \in Conns : cn[c] = "open"} \subseteq Listed
        /\ \A c \in Listed : cn[c] = "open" \/ (cn[c] = "lost" /\ ccb[c] = "none")
        /\ IsInjective(vecConnections)

(* Every connection the SDK has announced and not closed is listed once,   *)
(* and none that is closed: OnSDKConnectionInit, OnSDKConnectionClose and  *)
(* CloseConnection agree on the vector.                                    *)
ConnectionsAreListed == AgentTypeOK /\ ListedIsOpen

(* 'y' ends every request that was made with 't', on its own connection,   *)
(* while that is open.  (Where there are two connections it also starts    *)
(* some, which no later 'y' ends: each is told of the other's requests.)   *)
RequestsEnd ==
    [][KeyY => \A c \in Conns : cn[c] = "open" =>
                  ~\E r \in remote'[c] : r[2] = "t"]_agentVars
=============================================================================
