----------------------------- MODULE RoutineProofs -----------------------------
(***************************************************************************)
(* The device agent's main loops, for any command line and any number of   *)
(* devices, connections and requests; the transfer of a vector of buffers, *)
(* of any number and lengths; the stream connection, for any feeds; the    *)
(* messages, for any fields; and the lists of buffers.                     *)
(***************************************************************************)
EXTENDS DeviceAgent, IovTransfer, IostreamConnection, MessageType, BufferList,
        FiniteSetTheorems, SequenceTheorems, WellFoundedInduction, TLAPS

-----------------------------------------------------------------------------
(* Erasing the entries of a connection.                                    *)

Below(kept, i) == {k \in kept : k <= i}
Place(kept, i) == Cardinality(Below(kept, i))

(* Every element of a set of numbers has a place of its own in their       *)
(* order, and every place is taken.                                        *)
LEMMA PlacesInOrder ==
    ASSUME NEW n \in Nat, NEW kept \in SUBSET (1..n)
    PROVE  /\ Cardinality(kept) \in Nat
           /\ \A i, j \in kept : Place(kept, i) = Place(kept, j) => i = j
           /\ \A i \in kept : Place(kept, i) \in 1..Cardinality(kept)
           /\ \A m \in 1..Cardinality(kept) : \E i \in kept : Place(kept, i) = m
<1> DEFINE size == Cardinality(kept)
           place == [i \in kept |-> Place(kept, i)]
<1>1. IsFiniteSet(kept) /\ size \in Nat
  <2>1. IsFiniteSet(1..n)
    BY FS_Interval
  <2> QED
    BY <2>1, FS_Subset, FS_CardinalityType
<1>2. ASSUME NEW i \in kept
      PROVE  IsFiniteSet(Below(kept, i)) /\ Place(kept, i) \in 1..size
  <2>1. Below(kept, i) \in SUBSET kept /\ i \in Below(kept, i)
    BY DEF Below
  <2>2. IsFiniteSet(Below(kept, i)) /\ Place(kept, i) <= size
    BY <1>1, <2>1, FS_Subset DEF Place
  <2>3. Place(kept, i) \in Nat /\ Place(kept, i) # 0
    BY <2>1, <2>2, FS_CardinalityType, FS_EmptySet DEF Place
  <2> HIDE DEF size
  <2> QED
    BY <1>1, <2>2, <2>3
<1>3. ASSUME NEW i \in kept, NEW j \in kept, i < j
      PROVE  Place(kept, i) # Place(kept, j)
  <2>0. i \in Int /\ j \in Int /\ kept \subseteq Int
    OBVIOUS
  <2>1. /\ Below(kept, i) \in SUBSET Below(kept, j)
        /\ j \in Below(kept, j) /\ j \notin Below(kept, i)
    <3>1. \A k \in kept : k <= i => k <= j
      BY <1>3, <2>0
    <3>2. j <= j /\ ~(j <= i)
      BY <1>3, <2>0
    <3> QED
      BY <3>1, <3>2, Zenon DEF Below
  <2> QED
    BY <1>2, <2>1, FS_Subset DEF Place
<1>4. \A i, j \in kept : Place(kept, i) = Place(kept, j) => i = j
  <2>1. \A i, j \in kept : i < j \/ j < i \/ i = j
    OBVIOUS
  <2> QED
    BY <1>3, <2>1
<1>5. place \in Injection(kept, 1..size)
  <2>1. place \in [kept -> 1..size]
    BY <1>2
  <2>2. \A i, j \in kept : place[i] = place[j] => i = j
    BY <1>4
  <2> HIDE DEF place
  <2> QED
    BY <2>1, <2>2 DEF Injection, IsInjective
<1>6. IsFiniteSet(1..size) /\ Cardinality(1..size) = size
  BY <1>1, FS_Interval
<1>7. place \in Surjection(kept, 1..size)
  <2> HIDE DEF place, size
  <2>1. Cardinality(kept) = Cardinality(1..size)
    BY <1>6 DEF size
  <2> QED
    BY <1>5, <1>6, <2>1, FS_Injection
<1>8. \A m \in 1..size : \E i \in kept : Place(kept, i) = m
  BY <1>7 DEF Surjection
<1> QED
  BY <1>1, <1>2, <1>4, <1>8

(* What erasing leaves: the other entries, each as often as before.        *)
LEMMA ErasedLeaves ==
    ASSUME vecConnections \in Seq(Conns), NEW c
    PROVE  /\ Erased(c) \in Seq(Conns)
           /\ ToSet(Erased(c)) = Listed \ {c}
           /\ IsInjective(vecConnections) => IsInjective(Erased(c))
<1> DEFINE n == Len(vecConnections)
           kept == {i \in DOMAIN vecConnections : vecConnections[i] # c}
           Nth(m) == CHOOSE i \in kept : Cardinality({k \in kept : k <= i}) = m
           q == [m \in 1..Cardinality(kept) |-> vecConnections[Nth(m)]]
<1>1. n \in Nat /\ kept \in SUBSET (1..n) /\ DOMAIN vecConnections = 1..n
  OBVIOUS
<1>2. Erased(c) = q
  BY DEF Erased
<1> HIDE DEF n
<1>3. /\ Cardinality(kept) \in Nat
      /\ \A i, j \in kept : Place(kept, i) = Place(kept, j) => i = j
      /\ \A i \in kept : Place(kept, i) \in 1..Cardinality(kept)
      /\ \A m \in 1..Cardinality(kept) : \E i \in kept : Place(kept, i) = m
  <2> HIDE DEF kept
  <2> QED
    BY <1>1, PlacesInOrder
<1>4. \A m \in 1..Cardinality(kept) : Nth(m) \in kept /\ Place(kept, Nth(m)) = m
  <2> HIDE DEF kept
  <2> QED
    BY <1>3 DEF Place, Below
<1>5. \A i \in kept : Place(kept, i) \in 1..Cardinality(kept) /\ Nth(Place(kept, i)) = i
  <2> HIDE DEF kept, Nth
  <2> QED
    BY <1>3, <1>4
<1> HIDE DEF Nth
<1>6. \A m \in 1..Cardinality(kept) :
          /\ Nth(m) \in 1..n /\ vecConnections[Nth(m)] # c /\ vecConnections[Nth(m)] \in Conns
  BY <1>1, <1>4
<1>7. q \in Seq(Conns) /\ DOMAIN q = 1..Cardinality(kept)
  BY <1>3, <1>6
<1>8. ToSet(q) = Listed \ {c}
  <2>1. \A m \in DOMAIN q : q[m] \in Listed \ {c}
    BY <1>1, <1>6, <1>7 DEF Listed, ToSet
  <2>2. \A x \in Listed \ {c} : \E i \in kept : vecConnections[i] = x
    BY <1>1 DEF Listed, ToSet
  <2>3. \A i \in kept : \E m \in DOMAIN q : q[m] = vecConnections[i]
    <3> HIDE DEF kept
    <3> QED
      BY <1>5, <1>7
  <2> HIDE DEF q, kept
  <2> QED
    BY <2>1, <2>2, <2>3 DEF ToSet
<1>9. ASSUME IsInjective(vecConnections) PROVE IsInjective(q)
  <2>1. ASSUME NEW a \in DOMAIN q, NEW b \in DOMAIN q, q[a] = q[b] PROVE a = b
    <3>1. a \in 1..Cardinality(kept) /\ b \in 1..Cardinality(kept)
      BY <1>7
    <3>2. vecConnections[Nth(a)] = vecConnections[Nth(b)]
      BY <2>1, <3>1
    <3>3. Nth(a) = Nth(b)
      BY <1>1, <1>6, <1>9, <3>1, <3>2 DEF IsInjective
    <3> HIDE DEF kept
    <3> QED
      BY <1>4, <3>1, <3>3
  <2> HIDE DEF q
  <2> QED
    BY <2>1 DEF IsInjective
<1> QED
  BY <1>2, <1>7, <1>8, <1>9

-----------------------------------------------------------------------------
(* The invariant of the main loops and the callbacks.                      *)

(* Numbers of requests are given once, the requests made with 't' and not  *)
(* yet ended are all on the list, and endpoints are those of open          *)
(* connections.                                                            *)
Numbered == \A i \in DOMAIN id_request : id_request[i] <= conn_id
Remembered == \A c \in Conns : \A r \in remote[c] : r[2] = "t" => r[1] \in ToSet(id_request)
EndsAreOpen == \A c \in Conns : cn[c] # "open" => remote[c] = {}

(* A callback that is under way is about the state that called for it.     *)
CallbacksFollow ==
    /\ \A d \in Devs : dcb[d] = "init" => dev[d] = "up"
    /\ \A c \in Conns : ccb[c] = "close" => cn[c] = "lost"

AgentInv ==
    /\ AgentTypeOK /\ NoRequestLost /\ Reregisters /\ ListedIsOpen
    /\ Numbered /\ Remembered /\ EndsAreOpen /\ CallbacksFollow

LEMMA AgentStarts == AgentInit => AgentInv
<1> SUFFICES ASSUME AgentInit PROVE AgentInv
  OBVIOUS
<1>1. opt \in Asked({0, 1}, 0..2, {0, 1})
  <2>1. PICK a \in Args : opt = ParsedOption(a)
    BY DEF AgentInit
  <2>2. a \in Asked(Nat, Nat, Nat)
    BY DeviceAgentAssumption
  <2>3. /\ a.prog \in {"agent", "mndb"} /\ a.mode \in Nat /\ a.type \in Nat
        /\ a.contype \in Nat /\ a.devs \in 1..MaxDevs /\ a.conns \in 0..MaxConns
    BY <2>2 DEF Asked
  <2>4. opt = [prog |-> a.prog, mode |-> IF a.mode # 0 THEN 1 ELSE 0,
               type |-> IF a.type > 2 THEN 0 ELSE a.type,
               contype |-> IF a.contype > 1 THEN 1 ELSE a.contype,
               devs |-> a.devs, conns |-> a.conns]
    BY <2>1, <2>2 DEF ParsedOption, Asked
  <2> QED
    BY <2>3, <2>4 DEF Asked
<1>2. AgentTypeOK
  <2>1. /\ vecConnections \in Seq(Conns) /\ id_request \in Seq(Ids) /\ IsInjective(id_request)
        /\ conn_id \in 0..MaxIds /\ file_handle \subseteq Ids
    BY DeviceAgentAssumption DEF AgentInit, IsInjective
  <2>2. /\ dev \in [Devs -> {"none", "starting", "up", "retrying", "closed"}]
        /\ cn \in [Conns -> {"none", "asked", "ready", "open", "lost", "closed"}]
        /\ promoter \subseteq Conns
        /\ dcb \in [Devs -> {"none", "init", "close"}]
        /\ ccb \in [Conns -> {"none", "init", "close"}]
        /\ remote \in [Conns -> SUBSET (Ids \X {"t", "y"})]
    BY DEF AgentInit, FirstInit
  <2>3. /\ pc = "init" /\ nLocalDeviceID = 0
        /\ {reinit_flg, coninit_flg, closecon_flg, msg_flg, wantCon, wantMsg} \subseteq BOOLEAN
        /\ ~coninit_flg /\ ~msg_flg
    BY DEF AgentInit
  <2> QED
    BY <1>1, <2>1, <2>2, <2>3 DEF AgentTypeOK
<1>3. NoRequestLost /\ Reregisters /\ ListedIsOpen
  BY DEF AgentInit, NoRequestLost, Reregisters, ListedIsOpen, FirstInit, Listed, ToSet, IsInjective
<1>4. Numbered /\ Remembered /\ EndsAreOpen /\ CallbacksFollow
  BY DEF AgentInit, Numbered, Remembered, EndsAreOpen, CallbacksFollow
<1> QED
  BY <1>2, <1>3, <1>4 DEF AgentInv

(* A request of a callback stays on its flag until the loop serves it.     *)
LEMMA RequestsStay == ASSUME AgentInv, [AgentNext]_agentVars PROVE NoRequestLost'
<1>0. NoRequestLost
  BY DEF AgentInv
<1> USE DEF flags, requestVars, sdkVars, wants
<1>1. ASSUME KeyT \/ KeyY \/ Key \/ Quit PROVE NoRequestLost'
  BY <1>0, <1>1 DEF KeyT, KeyY, Key, Quit, Goto, NoRequestLost
<1>2. ASSUME IfConInit \/ InitConnection \/ IfCloseCon PROVE NoRequestLost'
  BY <1>0, <1>2 DEF IfConInit, InitConnection, IfCloseCon, Goto, OnceServed, NoRequestLost
<1>3. ASSUME IfMsg \/ SendMsgToServer \/ IfReinit \/ InitReturns PROVE NoRequestLost'
  BY <1>0, <1>3 DEF IfMsg, SendMsgToServer, IfReinit, InitReturns, Goto, OnceServed,
                    NoRequestLost
<1>4. ASSUME NEW d \in Devs, DeviceCallback(d) PROVE NoRequestLost'
  <2>1. ASSUME NEW nErrno, OnSDKInit(d, nErrno) PROVE NoRequestLost'
    <3>1. /\ pc' = pc
          /\ (msg_flg => msg_flg') /\ (wantMsg' => wantMsg)
      BY <2>1, Zenon DEF OnSDKInit
    <3>2. wantCon' => (wantCon \/ coninit_flg')
      BY <2>1, Zenon DEF OnSDKInit
    <3>3. coninit_flg => coninit_flg'
      BY <2>1, Zenon DEF OnSDKInit
    <3> QED
      BY <1>0, <3>1, <3>2, <3>3, Zenon DEF NoRequestLost
  <2>2. ASSUME OnSDKInitEnd(d) \/ OnSDKClose(d) \/ OnSDKCloseEnd(d) PROVE NoRequestLost'
    <3>1. /\ pc' = pc
          /\ (coninit_flg => coninit_flg') /\ (msg_flg => msg_flg')
          /\ (wantCon' => wantCon) /\ (wantMsg' => wantMsg)
      BY <2>2 DEF OnSDKInitEnd, OnSDKClose, OnSDKCloseEnd
    <3> QED
      BY <1>0, <3>1, Zenon DEF NoRequestLost
  <2> QED
    BY <1>4, <2>1, <2>2 DEF DeviceCallback
<1>5. ASSUME NEW c, ConnectionCallback(c) \/ RemoteConnects(c) \/ Lose(c) PROVE NoRequestLost'
  <2>1. ASSUME OnSDKConnectionInitEnd(c) PROVE NoRequestLost'
    <3>1. /\ pc' = pc
          /\ (coninit_flg => coninit_flg') /\ (wantCon' => wantCon)
      BY <2>1, Zenon DEF OnSDKConnectionInitEnd
    <3>2. (wantMsg' => (wantMsg \/ msg_flg')) /\ (msg_flg => msg_flg')
      BY <2>1, Zenon DEF OnSDKConnectionInitEnd
    <3> QED
      BY <1>0, <3>1, <3>2, Zenon DEF NoRequestLost
  <2>2. ASSUME \/ \E nErrno \in {0, -10003} : OnSDKConnectionInit(c, nErrno)
               \/ OnSDKConnectionClose(c) \/ OnSDKConnectionCloseEnd(c)
               \/ \E id \in Ids : OnSDKConnectionData(c, id)
               \/ RemoteConnects(c) \/ Lose(c)
        PROVE  NoRequestLost'
    <3>1. /\ pc' = pc
          /\ (coninit_flg => coninit_flg') /\ (msg_flg => msg_flg')
          /\ (wantCon' => wantCon) /\ (wantMsg' => wantMsg)
      BY <2>2
      DEF OnSDKConnectionInit, OnSDKConnectionClose, OnSDKConnectionCloseEnd,
          OnSDKConnectionData, RemoteConnects, Lose
    <3> QED
      BY <1>0, <3>1, Zenon DEF NoRequestLost
  <2> QED
    BY <1>5, <2>1, <2>2 DEF ConnectionCallback
<1>6. ASSUME UNCHANGED agentVars PROVE NoRequestLost'
  BY <1>0, <1>6, Zenon DEF agentVars, NoRequestLost
<1> QED
  BY <1>1, <1>2, <1>3, <1>4, <1>5, <1>6 DEF AgentNext, main

LEMMA ReregistersStays == ASSUME AgentInv, [AgentNext]_agentVars PROVE Reregisters'
<1> USE DEF flags, requestVars, sdkVars, wants
<1>0. /\ Reregisters /\ dev \in [Devs -> {"none", "starting", "up", "retrying", "closed"}]
      /\ dcb \in [Devs -> {"none", "init", "close"}]
      /\ \A d \in Devs : dcb[d] = "init" => dev[d] = "up"
  BY DEF AgentInv, AgentTypeOK, CallbacksFollow
<1>1. ASSUME \/ KeyT \/ KeyY \/ Key \/ IfConInit \/ InitConnection \/ IfCloseCon
             \/ IfMsg \/ SendMsgToServer \/ InitReturns
      PROVE  Reregisters'
  <2>1. dev' = dev /\ dcb' = dcb /\ (reinit_flg => reinit_flg') /\ pc # "exit"
    BY <1>1 DEF KeyT, KeyY, Key, IfConInit, InitConnection, IfCloseCon, IfMsg,
                SendMsgToServer, InitReturns, Goto
  <2> QED
    BY <1>0, <2>1 DEF Reregisters
<1>2. ASSUME Quit PROVE Reregisters'
  BY <1>2 DEF Quit, Goto, Reregisters
<1>3. ASSUME IfReinit PROVE Reregisters'
  <2>1. dcb' = dcb /\ (reinit_flg => reinit_flg') /\ pc # "exit"
    BY <1>3 DEF IfReinit, Goto, KeepsReinit
  <2>2. \A d \in Devs : dev'[d] = dev[d] \/ dev'[d] = "starting"
    BY <1>0, <1>3 DEF IfReinit
  <2> QED
    BY <1>0, <2>1, <2>2 DEF Reregisters
<1>4. ASSUME NEW d \in Devs, pc # "exit", DeviceCallback(d) PROVE Reregisters'
  <2>1. CASE \E nErrno \in {0, -10000} : OnSDKInit(d, nErrno)
    <3>1. dev'[d] \in {"up", "retrying"}
      BY <1>0, <2>1 DEF OnSDKInit
    <3> QED
      BY <3>1 DEF Reregisters
  <2>2. CASE OnSDKInitEnd(d)
    BY <1>0, <2>2 DEF OnSDKInitEnd, Reregisters
  <2>3. CASE OnSDKClose(d)
    BY <1>0, <2>3 DEF OnSDKClose, Reregisters
  <2>4. CASE OnSDKCloseEnd(d)
    BY <2>4 DEF OnSDKCloseEnd, Reregisters
  <2> QED
    BY <1>4, <2>1, <2>2, <2>3, <2>4 DEF DeviceCallback
<1>5. ASSUME NEW c, ConnectionCallback(c) \/ RemoteConnects(c) \/ Lose(c), pc # "exit"
      PROVE  Reregisters'
  <2>1. dev' = dev /\ dcb' = dcb /\ reinit_flg' = reinit_flg
    BY <1>5 DEF ConnectionCallback, OnSDKConnectionInit, OnSDKConnectionInitEnd,
                OnSDKConnectionClose, OnSDKConnectionCloseEnd, OnSDKConnectionData,
                RemoteConnects, Lose
  <2> QED
    BY <1>0, <1>5, <2>1 DEF Reregisters
<1>6. ASSUME UNCHANGED agentVars PROVE Reregisters'
  BY <1>0, <1>6 DEF agentVars, Reregisters
<1> QED
  BY <1>1, <1>2, <1>3, <1>4, <1>5, <1>6 DEF AgentNext, main

-----------------------------------------------------------------------------
(* The flags and the place of the loop keep their types.                   *)
LEMMA FlagsKeepTypes ==
    ASSUME AgentInv, [AgentNext]_agentVars
    PROVE  /\ opt' = opt
           /\ pc' \in {"key", "coninit", "connect", "closecon", "msg", "send", "reinit", "init",
                       "exit"}
           /\ {reinit_flg', coninit_flg', closecon_flg', msg_flg', wantCon', wantMsg'}
                  \subseteq BOOLEAN
           /\ opt.mode = 1 => ~coninit_flg' /\ ~msg_flg'
           /\ pc' # "exit" => pc # "exit"
<1> DEFINE Places == {"key", "coninit", "connect", "closecon", "msg", "send", "reinit", "init",
                      "exit"}
           Flags == /\ reinit_flg' \in BOOLEAN /\ coninit_flg' \in BOOLEAN
                    /\ closecon_flg' \in BOOLEAN /\ msg_flg' \in BOOLEAN
                    /\ wantCon' \in BOOLEAN /\ wantMsg' \in BOOLEAN
           Rest == /\ opt' = opt /\ pc' \in Places
                   /\ opt.mode = 1 => ~coninit_flg' /\ ~msg_flg'
                   /\ pc' # "exit" => pc # "exit"
<1> USE DEF flags, requestVars, sdkVars, wants
<1>0. /\ pc \in Places
      /\ reinit_flg \in BOOLEAN /\ coninit_flg \in BOOLEAN /\ closecon_flg \in BOOLEAN
      /\ msg_flg \in BOOLEAN /\ wantCon \in BOOLEAN /\ wantMsg \in BOOLEAN
      /\ opt.mode = 1 => ~coninit_flg /\ ~msg_flg
  BY DEF AgentInv, AgentTypeOK
<1>1. ASSUME KeyT \/ KeyY \/ Quit PROVE Flags /\ Rest
  <2>1. Flags
    BY <1>0, <1>1, Zenon DEF KeyT, KeyY, Quit, Goto
  <2>2. Rest
    BY <1>0, <1>1 DEF KeyT, KeyY, Quit, Goto
  <2> QED
    BY <2>1, <2>2
<1>2. ASSUME Key PROVE Flags /\ Rest
  <2>1. Flags
    BY <1>0, <1>2, Zenon DEF Key, Goto, AfterKey
  <2>2. Rest
    BY <1>0, <1>2 DEF Key, Goto, AfterKey
  <2> QED
    BY <2>1, <2>2
<1>3. ASSUME IfConInit \/ InitConnection \/ IfMsg \/ SendMsgToServer \/ InitReturns
      PROVE  Flags /\ Rest
  <2>1. Flags
    BY <1>0, <1>3, Zenon DEF IfConInit, InitConnection, IfMsg, SendMsgToServer, InitReturns, Goto
  <2>2. Rest
    BY <1>0, <1>3 DEF IfConInit, InitConnection, IfMsg, SendMsgToServer, InitReturns, Goto
  <2> QED
    BY <2>1, <2>2
<1>4. ASSUME IfCloseCon \/ IfReinit PROVE Flags /\ Rest
  <2>1. Flags
    BY <1>0, <1>4, Zenon DEF IfCloseCon, IfReinit, Goto, OnceServed, KeepsReinit
  <2>2. Rest
    BY <1>0, <1>4 DEF IfCloseCon, IfReinit, Goto, OnceServed, KeepsReinit
  <2> QED
    BY <2>1, <2>2
<1>5. ASSUME UNCHANGED agentVars PROVE Flags /\ Rest
  <2>1. Flags
    BY <1>0, <1>5, Zenon DEF agentVars
  <2>2. Rest
    BY <1>0, <1>5 DEF agentVars
  <2> QED
    BY <2>1, <2>2
<1>6. ASSUME NEW d, NEW nErrno, OnSDKInit(d, nErrno), pc # "exit" PROVE Flags /\ Rest
  <2>1. Flags
    BY <1>0, <1>6, Zenon DEF OnSDKInit
  <2>2. Rest
    BY <1>0, <1>6 DEF OnSDKInit
  <2> QED
    BY <2>1, <2>2
<1>7. ASSUME NEW d, OnSDKInitEnd(d) \/ OnSDKClose(d) \/ OnSDKCloseEnd(d), pc # "exit"
      PROVE  Flags /\ Rest
  <2>1. Flags
    BY <1>0, <1>7, Zenon DEF OnSDKInitEnd, OnSDKClose, OnSDKCloseEnd
  <2>2. Rest
    BY <1>0, <1>7 DEF OnSDKInitEnd, OnSDKClose, OnSDKCloseEnd
  <2> QED
    BY <2>1, <2>2
<1>8. ASSUME NEW c, OnSDKConnectionInitEnd(c), pc # "exit" PROVE Flags /\ Rest
  <2>1. Flags
    BY <1>0, <1>8, Zenon DEF OnSDKConnectionInitEnd
  <2>2. Rest
    BY <1>0, <1>8 DEF OnSDKConnectionInitEnd
  <2> QED
    BY <2>1, <2>2
<1>9. ASSUME NEW c,
             \/ \E nErrno \in {0, -10003} : OnSDKConnectionInit(c, nErrno)
             \/ OnSDKConnectionClose(c) \/ OnSDKConnectionCloseEnd(c)
             \/ \E id \in Ids : OnSDKConnectionData(c, id)
             \/ RemoteConnects(c) \/ Lose(c),
             pc # "exit"
       PROVE Flags /\ Rest
  <2>1. Flags
    <3>1. /\ reinit_flg' = reinit_flg /\ coninit_flg' = coninit_flg
          /\ closecon_flg' = closecon_flg /\ msg_flg' = msg_flg
          /\ wantCon' = wantCon /\ wantMsg' = wantMsg
      BY <1>9
      DEF OnSDKConnectionInit, OnSDKConnectionClose, OnSDKConnectionCloseEnd,
          OnSDKConnectionData, RemoteConnects, Lose
    <3> QED
      BY <1>0, <3>1
  <2>2. Rest
    BY <1>0, <1>9
    DEF OnSDKConnectionInit, OnSDKConnectionClose, OnSDKConnectionCloseEnd,
        OnSDKConnectionData, RemoteConnects, Lose
  <2> QED
    BY <2>1, <2>2
<1>10. Flags /\ Rest
  <2> HIDE DEF Flags, Rest
  <2>1. ASSUME NEW d, DeviceCallback(d), pc # "exit" PROVE Flags /\ Rest
    BY <1>6, <1>7, <2>1 DEF DeviceCallback
  <2>2. ASSUME NEW c, ConnectionCallback(c) \/ RemoteConnects(c) \/ Lose(c), pc # "exit"
        PROVE  Flags /\ Rest
    BY <1>8, <1>9, <2>2 DEF ConnectionCallback
  <2> QED
    BY <1>1, <1>2, <1>3, <1>4, <1>5, <2>1, <2>2 DEF AgentNext, main
<1> QED
  BY <1>10

-----------------------------------------------------------------------------
(* The connections that are run on are those of the SDK.                   *)
LEMMA ConnectionsInRange ==
    ASSUME AgentInv, NEW c \in 1..opt.conns
    PROVE  c \in Conns
  BY DeviceAgentAssumption DEF AgentInv, AgentTypeOK, Asked, Conns

(* A device that has registered is up until it closes.                     *)
LEMMA DevicesStay ==
    ASSUME AgentInv, [AgentNext]_agentVars
    PROVE  /\ nLocalDeviceID' \in Devs \cup {0}
           /\ dev' \in [Devs -> {"none", "starting", "up", "retrying", "closed"}]
           /\ dcb' \in [Devs -> {"none", "init", "close"}]
           /\ \A d \in Devs : dcb'[d] = "init" => dev'[d] = "up"
<1> DEFINE Fine == /\ nLocalDeviceID' \in Devs \cup {0}
                   /\ dev' \in [Devs -> {"none", "starting", "up", "retrying", "closed"}]
                   /\ dcb' \in [Devs -> {"none", "init", "close"}]
                   /\ \A d \in Devs : dcb'[d] = "init" => dev'[d] = "up"
<1> USE DEF flags, requestVars, sdkVars, wants
<1>0. /\ nLocalDeviceID \in Devs \cup {0}
      /\ dev \in [Devs -> {"none", "starting", "up", "retrying", "closed"}]
      /\ dcb \in [Devs -> {"none", "init", "close"}]
      /\ \A d \in Devs : dcb[d] = "init" => dev[d] = "up"
  BY DEF AgentInv, AgentTypeOK, CallbacksFollow
<1>1. ASSUME \/ KeyT \/ KeyY \/ Key \/ IfConInit \/ InitConnection \/ IfCloseCon
             \/ IfMsg \/ SendMsgToServer \/ InitReturns \/ UNCHANGED agentVars
      PROVE  Fine
  <2>1. UNCHANGED <<nLocalDeviceID, dev, dcb>>
    BY <1>1 DEF KeyT, KeyY, Key, IfConInit, InitConnection, IfCloseCon, IfMsg,
                SendMsgToServer, InitReturns, agentVars
  <2> QED
    BY <1>0, <2>1
<1>2. ASSUME Quit PROVE Fine
  BY <1>0, <1>2 DEF Quit
<1>3. ASSUME IfReinit PROVE Fine
  <2>1. nLocalDeviceID' = nLocalDeviceID /\ dcb' = dcb
    BY <1>3 DEF IfReinit
  <2>2. \/ dev' = dev
        \/ \E d \in Devs : dev[d] = "none" /\ dev' = [dev EXCEPT ![d] = "starting"]
    BY <1>3 DEF IfReinit
  <2> QED
    BY <1>0, <2>1, <2>2
<1>4. ASSUME NEW d \in Devs, NEW nErrno, OnSDKInit(d, nErrno) PROVE Fine
  BY <1>0, <1>4 DEF OnSDKInit
<1>5. ASSUME NEW d \in Devs, OnSDKInitEnd(d) \/ OnSDKClose(d) \/ OnSDKCloseEnd(d) PROVE Fine
  BY <1>0, <1>5 DEF OnSDKInitEnd, OnSDKClose, OnSDKCloseEnd
<1>6. ASSUME NEW c, ConnectionCallback(c) \/ RemoteConnects(c) \/ Lose(c) PROVE Fine
  <2>1. UNCHANGED <<nLocalDeviceID, dev, dcb>>
    BY <1>6 DEF ConnectionCallback, OnSDKConnectionInit, OnSDKConnectionInitEnd,
                OnSDKConnectionClose, OnSDKConnectionCloseEnd, OnSDKConnectionData,
                RemoteConnects, Lose
  <2> QED
    BY <1>0, <2>1
<1>7. Fine
  <2> HIDE DEF Fine
  <2> QED
    BY <1>1, <1>2, <1>3, <1>4, <1>5, <1>6 DEF AgentNext, main, DeviceCallback
<1> QED
  BY <1>7

(* What the vector and the SDK know of the connections.                    *)
KnownConnections ==
    /\ vecConnections \in Seq(Conns)
    /\ cn \in [Conns -> {"none", "asked", "ready", "open", "lost", "closed"}]
    /\ ccb \in [Conns -> {"none", "init", "close"}]
    /\ promoter \subseteq Conns
    /\ ListedIsOpen
    /\ \A c \in Conns : ccb[c] = "close" => cn[c] = "lost"

(* Closing what is listed leaves nothing open.                             *)
LEMMA AllAreClosed ==
    ASSUME KnownConnections, pc # "exit", CloseAll,
           ccb' = ccb, promoter' = promoter
    PROVE  KnownConnections'
<1>1. /\ vecConnections' = <<>>
      /\ cn' = [c \in Conns |-> IF c \in Listed /\ cn[c] = "open" THEN "closed" ELSE cn[c]]
  BY DEF CloseAll, CloseListed
<1>2. /\ cn' \in [Conns -> {"none", "asked", "ready", "open", "lost", "closed"}]
      /\ \A c \in Conns : cn'[c] # "open" /\ (cn[c] = "lost" => cn'[c] = "lost")
  BY <1>1 DEF KnownConnections, ListedIsOpen
<1>3. Listed' = {} /\ IsInjective(vecConnections') /\ vecConnections' \in Seq(Conns)
  BY <1>1 DEF Listed, ToSet, IsInjective
<1> QED
  BY <1>2, <1>3 DEF KnownConnections, ListedIsOpen

(* The callbacks of a connection, and what happens to it meanwhile.        *)
LEMMA CallbacksKeepConnections ==
    ASSUME KnownConnections, pc # "exit", pc' = pc, promoter' = promoter, NEW c \in Conns,
           ConnectionCallback(c) \/ RemoteConnects(c) \/ Lose(c)
    PROVE  KnownConnections'
<1> DEFINE states == {"none", "asked", "ready", "open", "lost", "closed"}
<1>0. /\ vecConnections \in Seq(Conns) /\ cn \in [Conns -> states]
      /\ ccb \in [Conns -> {"none", "init", "close"}] /\ promoter \subseteq Conns
      /\ \A e \in Conns : cn[e] = "open" => e \in Listed
      /\ \A e \in Listed : cn[e] = "open" \/ (cn[e] = "lost" /\ ccb[e] = "none")
      /\ IsInjective(vecConnections)
      /\ \A e \in Conns : ccb[e] = "close" => cn[e] = "lost"
  BY DEF KnownConnections, ListedIsOpen
<1>n. Listed \subseteq Conns
  BY <1>0 DEF Listed, ToSet
<1>1. ASSUME NEW nErrno, OnSDKConnectionInit(c, nErrno) PROVE KnownConnections'
  <2>1. cn[c] \in {"asked", "ready"} /\ ccb[c] = "none" /\ c \notin Listed
    BY <1>0, <1>1 DEF OnSDKConnectionInit
  <2>2. CASE nErrno # 0
    <3>1. /\ cn' = [cn EXCEPT ![c] = "closed"] /\ ccb' = ccb
          /\ vecConnections' = vecConnections
      BY <1>1, <2>2 DEF OnSDKConnectionInit
    <3> QED
      BY <1>0, <2>1, <3>1 DEF KnownConnections, ListedIsOpen, Listed
  <2>3. CASE nErrno = 0
    <3>1. /\ cn' = [cn EXCEPT ![c] = "open"] /\ ccb' = [ccb EXCEPT ![c] = "init"]
          /\ vecConnections' = Append(vecConnections, c)
      BY <1>1, <2>3 DEF OnSDKConnectionInit
    <3>2. vecConnections' \in Seq(Conns) /\ Listed' = Listed \cup {c}
      <4>1. /\ vecConnections' \in Seq(Conns)
            /\ Len(vecConnections') = Len(vecConnections) + 1
            /\ vecConnections'[Len(vecConnections) + 1] = c
            /\ \A i \in 1..Len(vecConnections) : vecConnections'[i] = vecConnections[i]
        BY <1>0, <3>1
      <4>2. /\ DOMAIN vecConnections = 1..Len(vecConnections) /\ Len(vecConnections) \in Nat
            /\ DOMAIN vecConnections' = 1..(Len(vecConnections) + 1)
        BY <1>0, <4>1
      <4>3. ASSUME NEW e PROVE e \in Listed' <=> e \in Listed \cup {c}
        <5>1. e \in Listed' => e \in Listed \cup {c}
          BY <4>1, <4>2 DEF Listed, ToSet
        <5>2. e \in Listed \cup {c} => e \in Listed'
          BY <4>1, <4>2 DEF Listed, ToSet
        <5> QED
          BY <5>1, <5>2
      <4> QED
        BY <4>1, <4>3
    <3>3. IsInjective(vecConnections')
      <4>1. \A i \in 1..Len(vecConnections) : vecConnections[i] # c
        BY <1>0, <2>1 DEF Listed, ToSet
      <4> QED
        BY <1>0, <3>1, <4>1 DEF IsInjective
    <3> QED
      BY <1>0, <2>1, <3>1, <3>2, <3>3 DEF KnownConnections, ListedIsOpen
  <2> QED
    BY <2>2, <2>3
<1>2. ASSUME OnSDKConnectionInitEnd(c) PROVE KnownConnections'
  <2>1. /\ ccb[c] = "init" /\ ccb' = [ccb EXCEPT ![c] = "none"] /\ cn' = cn
        /\ vecConnections' = vecConnections
    BY <1>2 DEF OnSDKConnectionInitEnd
  <2> QED
    BY <1>0, <1>n, <2>1 DEF KnownConnections, ListedIsOpen, Listed
<1>3. ASSUME OnSDKConnectionClose(c) PROVE KnownConnections'
  <2>1. /\ cn[c] = "lost" /\ ccb' = [ccb EXCEPT ![c] = "close"] /\ cn' = cn
        /\ vecConnections' = Erased(c)
    BY <1>3 DEF OnSDKConnectionClose
  <2>2. /\ vecConnections' \in Seq(Conns) /\ Listed' = Listed \ {c}
        /\ IsInjective(vecConnections')
    BY <1>0, <2>1, ErasedLeaves DEF Listed
  <2> QED
    BY <1>0, <1>n, <2>1, <2>2 DEF KnownConnections, ListedIsOpen
<1>4. ASSUME OnSDKConnectionCloseEnd(c) PROVE KnownConnections'
  <2>1. /\ ccb[c] = "close" /\ ccb' = [ccb EXCEPT ![c] = "none"]
        /\ cn' = [cn EXCEPT ![c] = "closed"] /\ vecConnections' = vecConnections
    BY <1>4 DEF OnSDKConnectionCloseEnd
  <2> QED
    BY <1>0, <1>n, <2>1 DEF KnownConnections, ListedIsOpen, Listed
<1>5. ASSUME NEW id, OnSDKConnectionData(c, id) PROVE KnownConnections'
  <2>1. UNCHANGED <<cn, ccb, vecConnections>>
    BY <1>5 DEF OnSDKConnectionData, sdkVars
  <2> QED
    BY <1>0, <2>1 DEF KnownConnections, ListedIsOpen, Listed
<1>6. ASSUME RemoteConnects(c) PROVE KnownConnections'
  <2>1. /\ cn[c] = "none" /\ cn' = [cn EXCEPT ![c] = "ready"] /\ ccb' = ccb
        /\ vecConnections' = vecConnections
    BY <1>6 DEF RemoteConnects
  <2> QED
    BY <1>0, <1>n, <2>1 DEF KnownConnections, ListedIsOpen, Listed
<1>7. ASSUME Lose(c) PROVE KnownConnections'
  <2>1. /\ cn[c] = "open" /\ ccb[c] = "none" /\ cn' = [cn EXCEPT ![c] = "lost"]
        /\ ccb' = ccb /\ vecConnections' = vecConnections
    BY <1>7 DEF Lose
  <2> QED
    BY <1>0, <1>n, <2>1 DEF KnownConnections, ListedIsOpen, Listed
<1> QED
  BY <1>1, <1>2, <1>3, <1>4, <1>5, <1>6, <1>7 DEF ConnectionCallback

(* Every step keeps what is known of the connections.                      *)
LEMMA ConnectionsStay ==
    ASSUME AgentInv, [AgentNext]_agentVars
    PROVE  KnownConnections'
<1> USE DEF flags, requestVars, sdkVars, wants
<1>0. KnownConnections
  BY DEF AgentInv, AgentTypeOK, CallbacksFollow, KnownConnections
<1>1. ASSUME UNCHANGED <<cn, ccb, vecConnections, promoter>>, pc' # "exit" => pc # "exit"
      PROVE  KnownConnections'
  BY <1>0, <1>1 DEF KnownConnections, ListedIsOpen, Listed
<1>2. ASSUME KeyT \/ KeyY \/ Key \/ IfConInit \/ IfMsg \/ SendMsgToServer \/ IfReinit
             \/ InitReturns \/ UNCHANGED agentVars
      PROVE  KnownConnections'
  <2>1. UNCHANGED <<cn, ccb, vecConnections, promoter>> /\ (pc' # "exit" => pc # "exit")
    BY <1>2 DEF KeyT, KeyY, Key, IfConInit, IfMsg, SendMsgToServer, IfReinit, InitReturns,
                Goto, agentVars
  <2> QED
    BY <1>1, <2>1
<1>3. ASSUME Quit PROVE KnownConnections'
  <2>1. /\ pc' = "exit" /\ vecConnections' = vecConnections /\ promoter' = promoter
        /\ cn' = [c \in Conns |-> "closed"] /\ ccb' = [c \in Conns |-> "none"]
    BY <1>3 DEF Quit, Goto
  <2> QED
    BY <1>0, <2>1 DEF KnownConnections, ListedIsOpen
<1>4. ASSUME InitConnection PROVE KnownConnections'
  <2>1. /\ pc # "exit" /\ ccb' = ccb /\ vecConnections' = vecConnections
        /\ \/ \E c \in Conns : /\ cn[c] = "none" /\ cn' = [cn EXCEPT ![c] = "asked"]
                               /\ promoter' = promoter \cup {c}
           \/ UNCHANGED <<cn, promoter>>
    BY <1>4 DEF InitConnection, Goto
  <2>2. CASE UNCHANGED <<cn, promoter>>
    BY <1>1, <2>1, <2>2
  <2>3. ASSUME NEW c \in Conns, cn[c] = "none", cn' = [cn EXCEPT ![c] = "asked"],
               promoter' = promoter \cup {c}
        PROVE  KnownConnections'
    <3>1. Listed' = Listed /\ Listed \subseteq Conns
      BY <1>0, <2>1 DEF Listed, ToSet, KnownConnections
    <3> QED
      BY <1>0, <2>1, <2>3, <3>1 DEF KnownConnections, ListedIsOpen
  <2> QED
    BY <2>1, <2>2, <2>3
<1>5. ASSUME IfCloseCon PROVE KnownConnections'
  <2>1. pc # "exit" /\ ccb' = ccb /\ promoter' = promoter
    BY <1>5 DEF IfCloseCon, Goto
  <2>2. CloseAll \/ UNCHANGED <<cn, vecConnections>>
    BY <1>5 DEF IfCloseCon
  <2> QED
    BY <1>0, <1>1, <2>1, <2>2, AllAreClosed
<1>6. ASSUME NEW d \in Devs, DeviceCallback(d), pc # "exit" PROVE KnownConnections'
  <2>1. CASE OnSDKClose(d)
    <3>1. ccb' = ccb /\ promoter' = promoter
      BY <2>1 DEF OnSDKClose
    <3>2. CloseAll \/ UNCHANGED <<cn, vecConnections>>
      BY <2>1 DEF OnSDKClose
    <3> QED
      BY <1>0, <1>1, <1>6, <3>1, <3>2, AllAreClosed
  <2>2. CASE ~OnSDKClose(d)
    <3>1. UNCHANGED <<cn, ccb, vecConnections, promoter>>
      BY <1>6, <2>2 DEF DeviceCallback, OnSDKInit, OnSDKInitEnd, OnSDKCloseEnd
    <3> QED
      BY <1>1, <1>6, <3>1
  <2> QED
    BY <2>1, <2>2
<1>7. ASSUME NEW c \in 1..opt.conns, ConnectionCallback(c) \/ RemoteConnects(c) \/ Lose(c),
             pc # "exit"
      PROVE  KnownConnections'
  <2>1. pc' = pc /\ promoter' = promoter
    BY <1>7 DEF ConnectionCallback, OnSDKConnectionInit, OnSDKConnectionInitEnd,
                OnSDKConnectionClose, OnSDKConnectionCloseEnd, OnSDKConnectionData,
                RemoteConnects, Lose
  <2> QED
    BY <1>0, <1>7, <2>1, ConnectionsInRange, CallbacksKeepConnections
<1> QED
  BY <1>2, <1>3, <1>4, <1>5, <1>6, <1>7 DEF AgentNext, main

-----------------------------------------------------------------------------
(* What the list of requests and the other ends know of each other.        *)
KnownRequests ==
    /\ id_request \in Seq(Ids) /\ IsInjective(id_request)
    /\ conn_id \in 0..MaxIds /\ file_handle \subseteq Ids
    /\ remote \in [Conns -> SUBSET (Ids \X {"t", "y"})]
    /\ Numbered /\ Remembered /\ EndsAreOpen

(* One sequence after another.                                             *)
LEMMA OneAfterAnother ==
    ASSUME NEW S, NEW q \in Seq(S), NEW w \in Seq(S)
    PROVE  /\ q \o w \in Seq(S) /\ Len(q \o w) = Len(q) + Len(w)
           /\ \A i \in 1..Len(q) : (q \o w)[i] = q[i]
           /\ \A i \in 1..Len(w) : (q \o w)[Len(q) + i] = w[i]
<1>1. q \o w \in Seq(S) /\ Len(q \o w) = Len(q) + Len(w)
  OBVIOUS
<1>2. \A i \in 1..Len(q) : (q \o w)[i] = q[i]
  OBVIOUS
<1>3. \A i \in 1..Len(w) : (q \o w)[Len(q) + i] = w[i]
  OBVIOUS
<1> QED
  BY <1>1, <1>2, <1>3

(* 't': the new numbers are above those that were given.                   *)
LEMMA RequestsAreMade == ASSUME AgentInv, KeyT PROVE KnownRequests'
<1> DEFINE n == Len(vecConnections)
           new == [i \in 1..n |-> conn_id + i]
<1>0. /\ id_request \in Seq(Ids) /\ IsInjective(id_request)
      /\ conn_id \in 0..MaxIds /\ file_handle \subseteq Ids
      /\ remote \in [Conns -> SUBSET (Ids \X {"t", "y"})]
      /\ n \in Nat /\ conn_id + n <= MaxIds /\ MaxIds \in Nat
      /\ \A i \in DOMAIN id_request : id_request[i] <= conn_id
      /\ DOMAIN vecConnections = 1..n
  BY DeviceAgentAssumption DEF AgentInv, AgentTypeOK, Numbered, KeyT
<1>1. /\ conn_id' = conn_id + n /\ file_handle' = file_handle /\ cn' = cn
      /\ id_request' = id_request \o new
      /\ remote' = [c \in Conns |->
                      IF cn[c] # "open" THEN remote[c]
                      ELSE remote[c] \cup {<<conn_id + i, "t">> : i \in {j \in DOMAIN vecConnections :
                                                                         vecConnections[j] = c}}]
  BY DEF KeyT, sdkVars
<1> HIDE DEF n
<1>2. /\ new \in Seq(Ids) /\ Len(new) = n /\ \A i \in 1..n : new[i] = conn_id + i
  <2>1. \A i \in 1..n : conn_id + i \in Ids
    BY <1>0 DEF Ids
  <2> QED
    BY <1>0, <2>1
<1>3. /\ id_request' \in Seq(Ids)
      /\ Len(id_request') = Len(id_request) + n
      /\ \A i \in 1..Len(id_request) : id_request'[i] = id_request[i]
      /\ \A i \in 1..n : id_request'[Len(id_request) + i] = conn_id + i
  <2> HIDE DEF new
  <2>1. id_request' = id_request \o new /\ id_request \in Seq(Ids) /\ new \in Seq(Ids)
    BY <1>0, <1>1, <1>2
  <2>2. /\ id_request \o new \in Seq(Ids)
        /\ Len(id_request \o new) = Len(id_request) + Len(new)
        /\ \A i \in 1..Len(id_request) : (id_request \o new)[i] = id_request[i]
        /\ \A i \in 1..Len(new) : (id_request \o new)[Len(id_request) + i] = new[i]
    BY <2>1, OneAfterAnother
  <2> QED
    BY <1>2, <2>1, <2>2
<1>4. /\ conn_id' \in 0..MaxIds
      /\ \A i \in DOMAIN id_request' :
             \/ i \in DOMAIN id_request /\ id_request'[i] = id_request[i]
             \/ /\ i - Len(id_request) \in 1..n
                /\ id_request'[i] = conn_id + (i - Len(id_request))
  <2>1. conn_id' \in 0..MaxIds
    BY <1>0, <1>1
  <2>2. ASSUME NEW i \in DOMAIN id_request', i \notin DOMAIN id_request
        PROVE  i - Len(id_request) \in 1..n /\ id_request'[i] = conn_id + (i - Len(id_request))
    <3>1. i \in 1..(Len(id_request) + n) /\ Len(id_request) \in Nat /\ ~(i \in 1..Len(id_request))
      BY <1>0, <1>3, <2>2
    <3>2. i - Len(id_request) \in 1..n /\ i = Len(id_request) + (i - Len(id_request))
      BY <1>0, <3>1
    <3> QED
      BY <1>3, <3>2
  <2>3. ASSUME NEW i \in DOMAIN id_request', i \in DOMAIN id_request
        PROVE  id_request'[i] = id_request[i]
    BY <1>0, <1>3, <2>3
  <2> QED
    BY <2>1, <2>2, <2>3
<1>5. Numbered'
  <2>1. ASSUME NEW i \in DOMAIN id_request', i \in DOMAIN id_request, id_request'[i] = id_request[i]
        PROVE  id_request'[i] <= conn_id'
    <3>1. id_request[i] \in Int /\ id_request[i] <= conn_id
      BY <1>0, <2>1 DEF Ids
    <3> QED
      BY <1>0, <1>1, <2>1, <3>1
  <2>2. \A k \in 1..n : conn_id + k <= conn_id'
    BY <1>0, <1>1
  <2> QED
    BY <1>4, <2>1, <2>2 DEF Numbered
<1>6. IsInjective(id_request')
  <2>1. ASSUME NEW a \in DOMAIN id_request', NEW b \in DOMAIN id_request',
               id_request'[a] = id_request'[b]
        PROVE  a = b
    <3>1. a \in Int /\ b \in Int /\ Len(id_request) \in Nat
      BY <1>0, <1>3
    <3>2. CASE a \in DOMAIN id_request /\ b \in DOMAIN id_request
      BY <1>0, <1>3, <2>1, <3>2 DEF IsInjective
    <3>3. ASSUME NEW i \in DOMAIN id_request, NEW j \in 1..n
          PROVE  id_request[i] # conn_id + j
      <4>1. id_request[i] \in Ids /\ id_request[i] <= conn_id
        BY <1>0
      <4> QED
        BY <1>0, <4>1 DEF Ids
    <3> QED
      BY <1>0, <1>4, <2>1, <3>1, <3>2, <3>3
  <2> QED
    BY <2>1 DEF IsInjective
<1>7. /\ ToSet(id_request) \subseteq ToSet(id_request')
      /\ \A i \in 1..n : conn_id + i \in ToSet(id_request')
  <2>1. \A i \in 1..Len(id_request) : i \in DOMAIN id_request'
    BY <1>0, <1>3
  <2>2. \A i \in 1..n : Len(id_request) + i \in DOMAIN id_request'
    BY <1>0, <1>3
  <2>3. ToSet(id_request) \subseteq ToSet(id_request')
    BY <1>0, <1>3, <2>1 DEF ToSet
  <2>4. ASSUME NEW i \in 1..n PROVE conn_id + i \in ToSet(id_request')
    BY <1>3, <2>2 DEF ToSet
  <2> QED
    BY <2>3, <2>4
<1>8. ASSUME NEW c \in Conns
      PROVE  \A r \in remote'[c] :
                 r \in remote[c] \/ (cn[c] = "open" /\ \E i \in 1..n : r = <<conn_id + i, "t">>)
  BY <1>0, <1>1
<1>9. remote' \in [Conns -> SUBSET (Ids \X {"t", "y"})]
  <2>1. \A i \in 1..n : conn_id + i \in Ids
    BY <1>0 DEF Ids
  <2>2. \A c \in Conns : remote'[c] \in SUBSET (Ids \X {"t", "y"})
    <3>1. ASSUME NEW c \in Conns, NEW r \in remote'[c] PROVE r \in Ids \X {"t", "y"}
      <4>1. CASE r \in remote[c]
        BY <1>0, <4>1
      <4>2. CASE \E i \in 1..n : r = <<conn_id + i, "t">>
        BY <2>1, <4>2
      <4> QED
        BY <1>8, <4>1, <4>2
    <3> QED
      BY <3>1
  <2>3. remote' = [c \in Conns |-> remote'[c]]
    BY <1>1
  <2> HIDE DEF n
  <2> QED
    BY <2>2, <2>3
<1>10. Remembered'
  <2>1. ASSUME NEW c \in Conns, NEW r \in remote'[c], r[2] = "t"
        PROVE  r[1] \in ToSet(id_request')
    <3>1. CASE r \in remote[c]
      BY <1>7, <2>1, <3>1 DEF AgentInv, Remembered
    <3>2. CASE \E i \in 1..n : r = <<conn_id + i, "t">>
      BY <1>7, <3>2
    <3> QED
      BY <1>8, <3>1, <3>2
  <2> QED
    BY <2>1 DEF Remembered
<1>11. EndsAreOpen'
  BY <1>1 DEF AgentInv, EndsAreOpen
<1> QED
  BY <1>0, <1>1, <1>3, <1>4, <1>5, <1>6, <1>9, <1>10, <1>11 DEF KnownRequests

(* 'y': no open connection keeps an endpoint of 't'.                       *)
LEMMA RequestsAreEnded ==
    ASSUME AgentInv, KeyY
    PROVE  /\ KnownRequests'
           /\ \A c \in Conns : ~\E r \in remote'[c] : r[2] = "t"
<1>0. /\ id_request \in Seq(Ids) /\ conn_id \in 0..MaxIds /\ file_handle \subseteq Ids
      /\ remote \in [Conns -> SUBSET (Ids \X {"t", "y"})] /\ MaxIds \in Nat
      /\ \A c \in Conns : cn[c] = "open" => c \in Listed
      /\ \A c \in Conns : cn[c] # "open" => remote[c] = {}
      /\ \A c \in Conns : \A r \in remote[c] : r[2] = "t" => r[1] \in ToSet(id_request)
  BY DeviceAgentAssumption
  DEF AgentInv, AgentTypeOK, Remembered, EndsAreOpen, ListedIsOpen, KeyY, Goto
<1>1. /\ conn_id' = conn_id /\ file_handle' = file_handle /\ cn' = cn /\ id_request' = <<>>
      /\ remote' = [c \in Conns |-> Told(c)]
  BY DEF KeyY, sdkVars
<1>2. ToSet(id_request) \subseteq Ids
  BY <1>0 DEF ToSet
<1>3. ASSUME NEW c \in Conns
      PROVE  /\ Told(c) \subseteq Ids \X {"t", "y"}
             /\ \A r \in Told(c) : r[2] # "t"
             /\ cn[c] # "open" => Told(c) = {}
  <2>1. CASE cn[c] = "open"
    <3>1. Told(c) = {r \in remote[c] : r[1] \notin ToSet(id_request)}
                      \cup {<<id, "y">> : id \in ToSet(id_request) \ {r[1] : r \in remote[c]}}
      BY <1>0, <2>1 DEF Told, Disconnect
    <3>2. ASSUME NEW r \in Told(c) PROVE r \in Ids \X {"t", "y"} /\ r[2] # "t"
      <4>1. CASE r \in remote[c] /\ r[1] \notin ToSet(id_request)
        BY <1>0, <4>1
      <4>2. CASE \E id \in ToSet(id_request) : r = <<id, "y">>
        BY <1>2, <4>2
      <4> QED
        BY <3>1, <3>2, <4>1, <4>2
    <3> QED
      BY <2>1, <3>2
  <2>2. CASE cn[c] # "open"
    BY <1>0, <2>2 DEF Told
  <2> QED
    BY <2>1, <2>2
<1>4. /\ id_request' \in Seq(Ids) /\ IsInjective(id_request') /\ Numbered'
  BY <1>1 DEF IsInjective, Numbered
<1>5. /\ remote' \in [Conns -> SUBSET (Ids \X {"t", "y"})] /\ EndsAreOpen' /\ Remembered'
  BY <1>1, <1>3 DEF EndsAreOpen, Remembered
<1> QED
  BY <1>0, <1>1, <1>3, <1>4, <1>5 DEF KnownRequests

(* The other end forgets the requests of a connection that is over.        *)
LEMMA EndsAreForgotten ==
    ASSUME KnownRequests, Forgotten, UNCHANGED <<id_request, conn_id, file_handle>>,
           \A c \in Conns : cn'[c] = cn[c] \/ cn'[c] \in {"lost", "closed"}
    PROVE  KnownRequests'
<1>1. \A c \in Conns : remote'[c] \in {remote[c], {}}
  BY DEF Forgotten
<1>2. remote' \in [Conns -> SUBSET (Ids \X {"t", "y"})]
  BY <1>1 DEF Forgotten, KnownRequests
<1>3. EndsAreOpen'
  BY DEF Forgotten, KnownRequests, EndsAreOpen
<1>4. Remembered' /\ Numbered'
  BY <1>1 DEF KnownRequests, Remembered, Numbered
<1> QED
  BY <1>2, <1>3, <1>4 DEF KnownRequests

(* Every step keeps what is known of the requests.                         *)
LEMMA KnownRequestsStay ==
    ASSUME AgentInv, [AgentNext]_agentVars
    PROVE  KnownRequests'
<1> USE DEF flags, requestVars, sdkVars, wants
<1>0. /\ KnownRequests
      /\ cn \in [Conns -> {"none", "asked", "ready", "open", "lost", "closed"}]
      /\ \A c \in Conns : ccb[c] = "close" => cn[c] = "lost"
  BY DEF AgentInv, AgentTypeOK, CallbacksFollow, KnownRequests
<1>1. ASSUME UNCHANGED <<id_request, conn_id, remote>>, file_handle' \subseteq Ids,
             \A c \in Conns : cn[c] # "open" \/ cn'[c] = "open"
      PROVE  KnownRequests'
  BY <1>0, <1>1 DEF KnownRequests, Numbered, Remembered, EndsAreOpen
<1>2. ASSUME Key \/ IfConInit \/ IfMsg \/ SendMsgToServer \/ IfReinit
             \/ InitReturns \/ UNCHANGED agentVars
      PROVE  KnownRequests'
  <2>1. UNCHANGED <<id_request, conn_id, remote, file_handle, cn>>
    BY <1>2 DEF Key, IfConInit, IfMsg, SendMsgToServer, IfReinit, InitReturns, agentVars
  <2> QED
    BY <1>0, <1>1, <2>1 DEF KnownRequests
<1>3. ASSUME Quit PROVE KnownRequests'
  <2>1. /\ UNCHANGED <<id_request, conn_id>> /\ file_handle' = {}
        /\ remote' = [c \in Conns |-> {}]
    BY <1>3 DEF Quit
  <2> QED
    BY <1>0, <2>1 DEF KnownRequests, Numbered, Remembered, EndsAreOpen
<1>4. ASSUME InitConnection PROVE KnownRequests'
  <2>1. UNCHANGED <<id_request, conn_id, remote, file_handle>>
    BY <1>4 DEF InitConnection
  <2>2. \A c \in Conns : cn[c] = "open" => cn'[c] = "open"
    BY <1>0, <1>4 DEF InitConnection
  <2> QED
    BY <1>0, <1>1, <2>1, <2>2 DEF KnownRequests
<1>5. ASSUME IfCloseCon PROVE KnownRequests'
  <2>1. Forgotten /\ UNCHANGED <<id_request, conn_id, file_handle>>
    BY <1>5 DEF IfCloseCon
  <2>2. \A c \in Conns : cn'[c] = cn[c] \/ cn'[c] \in {"lost", "closed"}
    BY <1>0, <1>5 DEF IfCloseCon, CloseAll, CloseListed
  <2> QED
    BY <1>0, <2>1, <2>2, EndsAreForgotten
<1>6. ASSUME NEW d \in Devs, DeviceCallback(d) PROVE KnownRequests'
  <2>1. CASE OnSDKClose(d)
    <3>1. Forgotten /\ UNCHANGED <<id_request, conn_id, file_handle>>
      BY <2>1 DEF OnSDKClose
    <3>2. \A c \in Conns : cn'[c] = cn[c] \/ cn'[c] \in {"lost", "closed"}
      BY <1>0, <2>1 DEF OnSDKClose, CloseAll, CloseListed
    <3> QED
      BY <1>0, <3>1, <3>2, EndsAreForgotten
  <2>2. CASE ~OnSDKClose(d)
    <3>1. UNCHANGED <<id_request, conn_id, remote, file_handle, cn>>
      BY <1>6, <2>2 DEF DeviceCallback, OnSDKInit, OnSDKInitEnd, OnSDKCloseEnd
    <3> QED
      BY <1>0, <1>1, <3>1 DEF KnownRequests
  <2> QED
    BY <2>1, <2>2
<1>7. ASSUME NEW c \in Conns, ConnectionCallback(c) \/ RemoteConnects(c) PROVE KnownRequests'
  <2>1. UNCHANGED <<id_request, conn_id, remote>>
    BY <1>7 DEF ConnectionCallback, OnSDKConnectionInit, OnSDKConnectionInitEnd,
                OnSDKConnectionClose, OnSDKConnectionCloseEnd, OnSDKConnectionData,
                RemoteConnects
  <2>2. file_handle' \subseteq Ids
    BY <1>0, <1>7 DEF ConnectionCallback, OnSDKConnectionInit, OnSDKConnectionInitEnd,
                OnSDKConnectionClose, OnSDKConnectionCloseEnd, OnSDKConnectionData,
                RemoteConnects, KnownRequests
  <2>3. \A e \in Conns : cn[e] = "open" => cn'[e] = "open"
    BY <1>0, <1>7 DEF ConnectionCallback, OnSDKConnectionInit, OnSDKConnectionInitEnd,
                OnSDKConnectionClose, OnSDKConnectionCloseEnd, OnSDKConnectionData,
                RemoteConnects
  <2> QED
    BY <1>1, <2>1, <2>2, <2>3
<1>8. ASSUME NEW c \in Conns, Lose(c) PROVE KnownRequests'
  <2>1. Forgotten /\ UNCHANGED <<id_request, conn_id, file_handle>>
    BY <1>8 DEF Lose
  <2>2. \A e \in Conns : cn'[e] = cn[e] \/ cn'[e] \in {"lost", "closed"}
    BY <1>0, <1>8 DEF Lose
  <2> QED
    BY <1>0, <2>1, <2>2, EndsAreForgotten
<1> QED
  BY <1>2, <1>3, <1>4, <1>5, <1>6, <1>7, <1>8, RequestsAreMade, RequestsAreEnded,
     ConnectionsInRange
  DEF AgentNext, main

LEMMA AgentSteps == ASSUME AgentInv, [AgentNext]_agentVars PROVE AgentInv'
<1>1. NoRequestLost' /\ Reregisters' /\ KnownConnections' /\ KnownRequests'
  BY RequestsStay, ReregistersStays, ConnectionsStay, KnownRequestsStay
<1>2. /\ opt' = opt
      /\ pc' \in {"key", "coninit", "connect", "closecon", "msg", "send", "reinit", "init",
                  "exit"}
      /\ {reinit_flg', coninit_flg', closecon_flg', msg_flg', wantCon', wantMsg'}
             \subseteq BOOLEAN
      /\ opt.mode = 1 => ~coninit_flg' /\ ~msg_flg'
  BY FlagsKeepTypes
<1>3. /\ nLocalDeviceID' \in Devs \cup {0}
      /\ dev' \in [Devs -> {"none", "starting", "up", "retrying", "closed"}]
      /\ dcb' \in [Devs -> {"none", "init", "close"}]
      /\ \A d \in Devs : dcb'[d] = "init" => dev'[d] = "up"
  BY DevicesStay
<1>4. opt' \in Asked({0, 1}, 0..2, {0, 1}) /\ (opt'.mode = 1 => ~coninit_flg' /\ ~msg_flg')
  BY <1>2, Zenon DEF AgentInv, AgentTypeOK
<1>5. AgentTypeOK'
  BY <1>1, <1>2, <1>3, <1>4, Zenon DEF AgentTypeOK, KnownConnections, KnownRequests
<1>6. ListedIsOpen' /\ Numbered' /\ Remembered' /\ EndsAreOpen' /\ CallbacksFollow'
  BY <1>1, <1>3 DEF KnownConnections, KnownRequests, CallbacksFollow
<1> QED
  BY <1>1, <1>5, <1>6, Zenon DEF AgentInv

LEMMA AgentInvariant == AgentSpec => []AgentInv
<1>1. AgentInv /\ [AgentNext]_agentVars => AgentInv'
  BY AgentSteps
<1> QED
  BY <1>1, AgentStarts, PTL DEF AgentSpec

-----------------------------------------------------------------------------
(* The results.                                                            *)

(* A connection or a message that a callback has asked for is on its flag  *)
(* until the loop makes it: the loop resets a flag before it serves it.    *)
THEOREM RequestsAreKept == AgentSpec => []NoRequestLost
<1>1. AgentInv => NoRequestLost
  BY DEF AgentInv
<1> QED
  BY <1>1, AgentInvariant, PTL

(* After a device has been closed there is one registered or registering,  *)
(* or reinit_flg makes the next key register one.                          *)
THEOREM DevicesComeBack == AgentSpec => []Reregisters
<1>1. AgentInv => Reregisters
  BY DEF AgentInv
<1> QED
  BY <1>1, AgentInvariant, PTL

(* vecConnections has every open connection once, and no closed one.       *)
THEOREM ConnectionsStayListed == AgentSpec => []ConnectionsAreListed
<1>1. AgentInv => ConnectionsAreListed
  BY DEF AgentInv, ConnectionsAreListed
<1> QED
  BY <1>1, AgentInvariant, PTL

(* 'y' leaves no endpoint of a 't' on an open connection.                  *)
THEOREM EveryRequestEnds == AgentSpec => RequestsEnd
<1>1. AgentInv /\ [AgentNext]_agentVars
          => [KeyY => \A c \in Conns : cn[c] = "open" =>
                        ~\E r \in remote'[c] : r[2] = "t"]_agentVars
  BY RequestsAreEnded
<1> QED
  BY <1>1, AgentInvariant, PTL DEF AgentSpec, RequestsEnd

-----------------------------------------------------------------------------
(* Induction over the natural numbers, by way of sets of them.             *)

(* A set with 0 and with every successor has every natural number.         *)
LEMMA NaturalsWithZeroAndNext ==
    ASSUME NEW S, 0 \in S, \A n \in Nat : n \in S => n + 1 \in S
    PROVE  Nat \subseteq S
<1> SUFFICES ASSUME Nat \ S # {} PROVE FALSE
  OBVIOUS
<1> DEFINE R == OpToRel(<, Nat)
<1>1. IsWellFoundedOn(R, Nat)
  BY NatLessThanWellFounded
<1>2. R = {ss \in Nat \X Nat : ss[1] < ss[2]}
  BY DEF OpToRel
<1> HIDE DEF R
<1>3. PICK x \in Nat \ S : \A y \in Nat \ S : <<y, x>> \notin R
  BY <1>1, WFMin
<1>4. x # 0 /\ x - 1 \in Nat /\ <<x - 1, x>> \in R
  BY <1>2, <1>3
<1>5. x - 1 \in S /\ x - 1 + 1 = x
  BY <1>3, <1>4
<1> QED
  BY <1>3, <1>4, <1>5

-----------------------------------------------------------------------------
(* Sums of lengths.                                                        *)

(* The ends of buffers one after the other.                                *)
LEMMA EndsAddUp ==
    ASSUME NEW lens \in Seq(Nat)
    PROVE  /\ End(lens) \in [0..Len(lens) -> Nat] /\ End(lens)[0] = 0
           /\ \A n \in 1..Len(lens) : End(lens)[n] = End(lens)[n - 1] + lens[n]
<1> DEFINE Fill(f, n) == IF n = 0 THEN 0 ELSE f[n - 1] + lens[n]
           Is(f, m) == f = [n \in 0..m |-> Fill(f, n)]
           S == {m \in Nat : m <= Len(lens) => \E f : Is(f, m)}
           end == CHOOSE f : Is(f, Len(lens))
<1>0. Len(lens) \in Nat /\ \A n \in 1..Len(lens) : lens[n] \in Nat
  OBVIOUS
<1>1. Nat \subseteq S
  <2>1. 0 \in S
    <3>1. Is([n \in 0..0 |-> 0], 0)
      OBVIOUS
    <3> QED
      BY <3>1
  <2>2. ASSUME NEW m \in Nat, m \in S
        PROVE  m + 1 \in S
    <3> SUFFICES ASSUME m + 1 <= Len(lens) PROVE \E f : Is(f, m + 1)
      BY DEF S
    <3>1. PICK f : Is(f, m)
      BY <1>0, <2>2
    <3> DEFINE g == [n \in 0..m + 1 |-> IF n = m + 1 THEN f[m] + lens[m + 1] ELSE f[n]]
    <3>2. ASSUME NEW n \in 0..m + 1
          PROVE  g[n] = Fill(g, n)
      <4>1. n = 0 \/ n \in 1..m \/ n = m + 1
        OBVIOUS
      <4> QED
        BY <3>1, <4>1
    <3>3. Is(g, m + 1)
      BY <3>2
    <3> HIDE DEF Is, g
    <3> QED
      BY <3>3
  <2> QED
    BY <2>1, <2>2, NaturalsWithZeroAndNext
<1>2. Is(end, Len(lens))
  <2>1. \E f : Is(f, Len(lens))
    BY <1>0, <1>1
  <2> HIDE DEF Is
  <2> QED
    BY <2>1
<1>3. End(lens) = end
  BY DEF End
<1> HIDE DEF end
<1> DEFINE T == {m \in Nat : m <= Len(lens) => end[m] \in Nat}
<1>4. Nat \subseteq T
  <2>1. 0 \in T
    BY <1>0, <1>2
  <2>2. ASSUME NEW m \in Nat, m \in T
        PROVE  m + 1 \in T
    BY <1>0, <1>2, <2>2
  <2> QED
    BY <2>1, <2>2, NaturalsWithZeroAndNext
<1>5. DOMAIN end = 0..Len(lens) /\ \A n \in 0..Len(lens) : end[n] = Fill(end, n)
  BY <1>2
<1>6. end = [n \in 0..Len(lens) |-> end[n]]
  BY <1>2
<1>7. \A n \in 0..Len(lens) : end[n] \in Nat
  BY <1>0, <1>4
<1>8. end \in [0..Len(lens) -> Nat]
  BY <1>6, <1>7
<1>9. end[0] = 0 /\ \A n \in 1..Len(lens) : end[n] = end[n - 1] + lens[n]
  BY <1>0, <1>5
<1> QED
  BY <1>3, <1>8, <1>9

LEMMA EndsAscend ==
    ASSUME NEW lens \in Seq(Nat), NEW i \in 0..Len(lens), NEW j \in 0..Len(lens), i <= j
    PROVE  End(lens)[i] <= End(lens)[j]
<1> DEFINE S == {k \in Nat : i + k <= Len(lens) => End(lens)[i] <= End(lens)[i + k]}
<1>0. Len(lens) \in Nat /\ \A n \in 1..Len(lens) : lens[n] \in Nat
  OBVIOUS
<1>1. Nat \subseteq S
  <2>1. 0 \in S
    <3>1. End(lens)[i] \in Nat /\ i + 0 = i
      BY EndsAddUp
    <3> QED
      BY <3>1
  <2>2. ASSUME NEW k \in Nat, k \in S
        PROVE  k + 1 \in S
    <3> SUFFICES ASSUME i + (k + 1) <= Len(lens) PROVE End(lens)[i] <= End(lens)[i + (k + 1)]
      OBVIOUS
    <3>1. i + k + 1 \in 1..Len(lens) /\ i + k \in 0..Len(lens) /\ i + k + 1 - 1 = i + k
          /\ i + (k + 1) = i + k + 1
      BY <1>0
    <3>2. End(lens)[i + k + 1] = End(lens)[i + k] + lens[i + k + 1]
      BY <3>1, EndsAddUp
    <3>3. End(lens)[i] \in Nat /\ End(lens)[i + k] \in Nat /\ lens[i + k + 1] \in Nat
      BY <1>0, <3>1, EndsAddUp
    <3>4. End(lens)[i] <= End(lens)[i + k]
      BY <1>0, <2>2, <3>1
    <3> QED
      BY <3>1, <3>2, <3>3, <3>4
  <2> QED
    BY <2>1, <2>2, NaturalsWithZeroAndNext
<1>2. j - i \in Nat /\ i + (j - i) = j
  BY <1>0
<1>3. j - i \in S
  BY <1>1, <1>2
<1> QED
  BY <1>0, <1>2, <1>3

(* The buffer in which a number of bytes ends.                             *)
LEMMA EndsPass ==
    ASSUME NEW lens \in Seq(Nat), NEW b \in Nat, b < End(lens)[Len(lens)]
    PROVE  \E n \in 1..Len(lens) : End(lens)[n - 1] <= b /\ b < End(lens)[n]
<1> DEFINE S == {k \in Nat : k <= Len(lens) => End(lens)[k] <= b}
<1>0. Len(lens) \in Nat
  OBVIOUS
<1> SUFFICES ASSUME \A n \in 1..Len(lens) : End(lens)[n - 1] <= b => ~(b < End(lens)[n])
             PROVE  FALSE
  OBVIOUS
<1>1. Nat \subseteq S
  <2>1. 0 \in S
    BY <1>0, EndsAddUp
  <2>2. ASSUME NEW k \in Nat, k \in S
        PROVE  k + 1 \in S
    <3> SUFFICES ASSUME k + 1 <= Len(lens) PROVE End(lens)[k + 1] <= b
      OBVIOUS
    <3>1. k + 1 \in 1..Len(lens) /\ k + 1 - 1 = k /\ k <= Len(lens)
      BY <1>0
    <3>2. End(lens)[k] <= b
      BY <2>2, <3>1
    <3>3. ~(b < End(lens)[k + 1])
      BY <3>1, <3>2
    <3>4. k + 1 \in 0..Len(lens)
      BY <3>1
    <3>5. End(lens)[k + 1] \in Nat
      BY <3>4, EndsAddUp
    <3> QED
      BY <3>3, <3>5
  <2> QED
    BY <2>1, <2>2, NaturalsWithZeroAndNext
<1>2. End(lens)[Len(lens)] <= b /\ End(lens)[Len(lens)] \in Nat
  BY <1>0, <1>1, EndsAddUp
<1> QED
  BY <1>2

(* Buffers of bounded lengths have a bounded sum.                          *)
LEMMA EndsAreBounded ==
    ASSUME NEW lens \in Seq(Nat), NEW max \in Nat, \A n \in 1..Len(lens) : lens[n] <= max,
           NEW count \in Nat, Len(lens) <= count
    PROVE  \A n \in 0..Len(lens) : End(lens)[n] <= count * max
<1> DEFINE S == {k \in Nat : k <= Len(lens) => End(lens)[k] <= k * max}
           D == {k \in Nat : \A m \in Nat : m * max <= (m + k) * max}
<1>0. Len(lens) \in Nat /\ \A n \in 1..Len(lens) : lens[n] \in Nat
  OBVIOUS
<1>1. \A k \in Nat : k * max \in Nat /\ (k + 1) * max = k * max + max
  OBVIOUS
<1>2. Nat \subseteq S
  <2>1. 0 \in S
    BY EndsAddUp
  <2>2. ASSUME NEW k \in Nat, k \in S
        PROVE  k + 1 \in S
    <3> SUFFICES ASSUME k + 1 <= Len(lens) PROVE End(lens)[k + 1] <= (k + 1) * max
      OBVIOUS
    <3>1. k + 1 \in 1..Len(lens) /\ k + 1 - 1 = k /\ k \in 0..Len(lens) /\ k <= Len(lens)
      BY <1>0
    <3>2. End(lens)[k + 1] = End(lens)[k] + lens[k + 1]
      BY <3>1, EndsAddUp
    <3>3. End(lens)[k] \in Nat /\ End(lens)[k] <= k * max
      BY <2>2, <3>1, EndsAddUp
    <3>4. lens[k + 1] \in Nat /\ lens[k + 1] <= max
      BY <1>0, <3>1
    <3>5. k * max \in Nat /\ (k + 1) * max = k * max + max
      BY <1>1
    <3> QED
      BY <3>2, <3>3, <3>4, <3>5
  <2> QED
    BY <2>1, <2>2, NaturalsWithZeroAndNext
<1>3. Nat \subseteq D
  <2>1. 0 \in D
    BY <1>1
  <2>2. ASSUME NEW k \in Nat, k \in D
        PROVE  k + 1 \in D
    <3> SUFFICES ASSUME NEW m \in Nat PROVE m * max <= (m + (k + 1)) * max
      OBVIOUS
    <3>1. m + k \in Nat /\ m + (k + 1) = m + k + 1
      OBVIOUS
    <3>2. (m + k + 1) * max = (m + k) * max + max /\ (m + k) * max \in Nat /\ m * max \in Nat
      BY <1>1, <3>1
    <3>3. m * max <= (m + k) * max
      BY <2>2
    <3> QED
      BY <3>1, <3>2, <3>3
  <2> QED
    BY <2>1, <2>2, NaturalsWithZeroAndNext
<1> TAKE n \in 0..Len(lens)
<1>4. n \in Nat /\ n \in S /\ n <= Len(lens) /\ count - n \in D /\ n + (count - n) = count
  BY <1>0, <1>2, <1>3
<1>5. End(lens)[n] <= n * max /\ n * max <= count * max
  BY <1>4
<1>6. End(lens)[n] \in Nat
  BY EndsAddUp
<1>7. n * max \in Nat /\ count * max \in Nat
  BY <1>1, <1>4
<1> DEFINE a == n * max
           b == count * max
<1>8. End(lens)[n] <= a /\ a <= b /\ a \in Nat /\ b \in Nat
  BY <1>5, <1>7
<1> HIDE DEF a, b
<1>9. End(lens)[n] <= b
  BY <1>6, <1>8
<1> QED
  BY <1>9 DEF b

-----------------------------------------------------------------------------
(* Vectors of buffers that lie one behind the other in the message.        *)

Consecutive(v) == \A n \in 1..Len(v) - 1 : v[n + 1].base = v[n].base + v[n].len

LEMMA LensOf ==
    ASSUME NEW v \in Seq(Buffer)
    PROVE  /\ Lens(v) \in Seq(Nat) /\ Len(Lens(v)) = Len(v)
           /\ \A n \in 1..Len(v) : /\ Lens(v)[n] = v[n].len
                                   /\ v[n].base \in Nat /\ v[n].len \in Nat
           /\ Size(v) = End(Lens(v))[Len(v)] /\ Size(v) \in Nat
           /\ End(Lens(v))[0] = 0
           /\ \A n \in 1..Len(v) :
                 /\ End(Lens(v))[n] = End(Lens(v))[n - 1] + v[n].len
                 /\ End(Lens(v))[n] \in Nat /\ End(Lens(v))[n - 1] \in Nat
<1>1. Len(v) \in Nat /\ DOMAIN v = 1..Len(v) /\ \A n \in 1..Len(v) : v[n] \in Buffer
  OBVIOUS
<1>2. \A n \in 1..Len(v) : v[n].base \in Nat /\ v[n].len \in Nat
  BY <1>1, IovTransferAssumption DEF Buffer
<1>3. Lens(v) \in [1..Len(v) -> Nat] /\ \A n \in 1..Len(v) : Lens(v)[n] = v[n].len
  BY <1>1, <1>2 DEF Lens
<1>4. Lens(v) \in Seq(Nat) /\ Len(Lens(v)) = Len(v)
  BY <1>1, <1>3
<1>5. Size(v) = End(Lens(v))[Len(v)]
  BY DEF Size
<1>6. /\ End(Lens(v)) \in [0..Len(v) -> Nat] /\ End(Lens(v))[0] = 0
      /\ \A n \in 1..Len(v) : End(Lens(v))[n] = End(Lens(v))[n - 1] + Lens(v)[n]
  BY <1>4, EndsAddUp
<1>7. \A n \in 1..Len(v) : n \in 0..Len(v) /\ n - 1 \in 0..Len(v)
  BY <1>1
<1>8. \A n \in 0..Len(v) : End(Lens(v))[n] \in Nat
  BY <1>6
<1>9. Len(v) \in 0..Len(v)
  BY <1>1
<1>10. \A n \in 1..Len(v) :
                 /\ End(Lens(v))[n] = End(Lens(v))[n - 1] + v[n].len
                 /\ End(Lens(v))[n] \in Nat /\ End(Lens(v))[n - 1] \in Nat
  BY <1>3, <1>6, <1>7, <1>8
<1> QED
  BY <1>2, <1>3, <1>4, <1>5, <1>6, <1>8, <1>9, <1>10

(* Where each of them lies, and where the last one ends.                   *)
LEMMA BasesAreEnds ==
    ASSUME NEW v \in Seq(Buffer), Consecutive(v), v # <<>>
    PROVE  /\ \A n \in 1..Len(v) : v[n].base = v[1].base + End(Lens(v))[n - 1]
           /\ v[Len(v)].base + v[Len(v)].len = v[1].base + Size(v)
<1> DEFINE done == End(Lens(v))
           S == {k \in Nat : k + 1 <= Len(v) => v[k + 1].base = v[1].base + done[k]}
<1>0. Len(v) \in Nat /\ Len(v) >= 1
  OBVIOUS
<1>1. \A n \in 1..Len(v) : /\ done[n] = done[n - 1] + v[n].len /\ done[n - 1] \in Nat
                           /\ v[n].base \in Nat /\ v[n].len \in Nat
  BY LensOf
<1>2. done[0] = 0
  BY LensOf
<1>3. Size(v) = done[Len(v)]
  BY LensOf
<1> HIDE DEF done
<1>4. Nat \subseteq S
  <2>1. 0 \in S
    BY <1>0, <1>1, <1>2
  <2>2. ASSUME NEW k \in Nat, k \in S
        PROVE  k + 1 \in S
    <3> SUFFICES ASSUME k + 1 + 1 <= Len(v) PROVE v[k + 1 + 1].base = v[1].base + done[k + 1]
      OBVIOUS
    <3>1. k + 1 \in 1..Len(v) /\ k + 1 \in 1..Len(v) - 1 /\ k + 1 - 1 = k /\ 1 \in 1..Len(v)
      BY <1>0
    <3>2. v[k + 1].base = v[1].base + done[k]
      BY <2>2, <3>1
    <3>3. v[k + 1 + 1].base = v[k + 1].base + v[k + 1].len
      BY <3>1 DEF Consecutive
    <3>4. done[k + 1] = done[k] + v[k + 1].len /\ done[k] \in Nat /\ v[k + 1].len \in Nat
      BY <1>1, <3>1
    <3>5. v[1].base \in Nat
      BY <1>1, <3>1
    <3> QED
      BY <3>2, <3>3, <3>4, <3>5
  <2> QED
    BY <2>1, <2>2, NaturalsWithZeroAndNext
<1>5. ASSUME NEW n \in 1..Len(v)
      PROVE  v[n].base = v[1].base + done[n - 1]
  <2>1. n - 1 \in S /\ n - 1 + 1 = n /\ n <= Len(v)
    BY <1>4
  <2> QED
    BY <2>1
<1>6. v[Len(v)].base + v[Len(v)].len = v[1].base + Size(v)
  BY <1>0, <1>1, <1>3, <1>5
<1> QED
  BY <1>5, <1>6 DEF done

(* What is moved first is what comes first in the message.                 *)
LEMMA FirstBytesFollow ==
    ASSUME NEW v \in Seq(Buffer), Consecutive(v), NEW bytes \in 0..Size(v)
    PROVE  FirstBytes(v, bytes) = [i \in 1..bytes |-> v[1].base + i - 1]
<1> DEFINE done == End(Lens(v))
           at(i) == CHOOSE n \in DOMAIN v : done[n - 1] < i /\ i <= done[n]
<1>0. Len(v) \in Nat /\ DOMAIN v = 1..Len(v) /\ bytes \in Nat
  BY LensOf
<1>1. Lens(v) \in Seq(Nat) /\ Len(Lens(v)) = Len(v) /\ Size(v) = done[Len(v)]
  BY LensOf
<1>2. \A n \in 1..Len(v) : done[n] \in Nat /\ done[n - 1] \in Nat /\ v[n].base \in Nat
  BY LensOf
<1>3. ASSUME NEW i \in 1..bytes
      PROVE  v[at(i)].base + (i - done[at(i) - 1]) - 1 = v[1].base + i - 1
  <2>1. i - 1 \in Nat /\ i - 1 < done[Len(v)]
    BY <1>0, <1>1, LensOf
  <2>2. PICK n \in 1..Len(v) : done[n - 1] <= i - 1 /\ i - 1 < done[n]
    BY <1>1, <2>1, EndsPass
  <2>3. done[n - 1] < i /\ i <= done[n]
    BY <1>2, <2>2
  <2>4. at(i) \in 1..Len(v)
    BY <1>0, <2>3
  <2>5. v # <<>>
    BY <2>2
  <2> HIDE DEF done, at
  <2>6. v[at(i)].base = v[1].base + done[at(i) - 1]
    BY <2>4, <2>5, BasesAreEnds DEF done
  <2>7. done[at(i) - 1] \in Nat /\ 1 \in 1..Len(v)
    BY <1>0, <1>2, <2>4
  <2>8. v[1].base \in Nat
    BY <1>2, <2>7
  <2>9. i \in Nat
    BY <1>0
  <2>10. ASSUME NEW b \in Nat, NEW d \in Nat, NEW x, x = b + d
         PROVE  x + (i - d) - 1 = b + i - 1
    BY <2>9, <2>10
  <2> QED
    BY <2>6, <2>7, <2>8, <2>10
<1>4. FirstBytes(v, bytes) = [i \in 1..bytes |-> v[at(i)].base + (i - done[at(i) - 1]) - 1]
  BY DEF FirstBytes
<1> HIDE DEF at, done
<1> QED
  BY <1>3, <1>4

LEMMA Replaced ==
    ASSUME NEW S, NEW x \in S, NEW v \in Seq(S), NEW k \in 1..Len(v),
           NEW w, w = <<x>> \o SubSeq(v, k + 1, Len(v))
    PROVE  /\ w \in Seq(S) /\ Len(w) = Len(v) - k + 1 /\ w[1] = x
           /\ \A n \in 2..Len(w) : w[n] = v[k + n - 1]
<1> DEFINE rest == SubSeq(v, k + 1, Len(v))
<1>0. Len(v) \in Nat /\ k + 1 \in Int /\ \A i \in k + 1..Len(v) : v[i] \in S
  OBVIOUS
<1>1. /\ rest \in Seq(S)
      /\ Len(rest) = IF k + 1 <= Len(v) THEN Len(v) - (k + 1) + 1 ELSE 0
      /\ \A i \in 1..Len(v) - (k + 1) + 1 : rest[i] = v[k + 1 + i - 1]
  BY <1>0, SubSeqProperties
<1>2. w = <<x>> \o rest /\ <<x>> \in Seq(S) /\ Len(<<x>>) = 1 /\ <<x>>[1] = x
  OBVIOUS
<1> HIDE DEF rest
<1>3. Len(rest) = Len(v) - k
  BY <1>0, <1>1
<1>4. /\ w \in Seq(S) /\ Len(w) = 1 + Len(rest)
      /\ \A i \in 1..1 + Len(rest) : w[i] = IF i <= 1 THEN <<x>>[i] ELSE rest[i - 1]
  BY <1>1, <1>2, ConcatProperties
<1>5. Len(w) = Len(v) - k + 1
  BY <1>0, <1>3, <1>4
<1>6. w[1] = x
  BY <1>0, <1>2, <1>3, <1>4
<1>7. ASSUME NEW n \in 2..Len(w)
      PROVE  w[n] = v[k + n - 1]
  <2>1. n \in 1..1 + Len(rest) /\ ~(n <= 1) /\ n - 1 \in 1..Len(v) - (k + 1) + 1
        /\ k + 1 + (n - 1) - 1 = k + n - 1
    BY <1>0, <1>3, <1>5
  <2> QED
    BY <1>1, <1>4, <2>1
<1> QED
  BY <1>4, <1>5, <1>6, <1>7

Fits(v) == MaxCount * MaxLen \in Nat /\ v[1].base + Size(v) <= MaxCount * MaxLen

(* Whatever is cut off, the rest is consecutive and follows what was moved.*)
LEMMA RecalcKeeps ==
    ASSUME NEW v \in Seq(Buffer), Consecutive(v), NEW bytes \in 0..Size(v), bytes < Size(v),
           Fits(v)
    PROVE  LET w == Recalc(v, bytes)
           IN /\ w \in Seq(Buffer) /\ Consecutive(w) /\ w # <<>>
              /\ w[1].base = v[1].base + bytes /\ Size(w) = Size(v) - bytes
<1> DEFINE done == End(Lens(v))
           nit == CHOOSE n \in 1..Len(v) + 1 :
                      /\ done[n - 1] <= bytes
                      /\ n <= Len(v) => done[n] > bytes
           part == [base |-> v[nit].base + (bytes - done[nit - 1]),
                    len |-> v[nit].len - (bytes - done[nit - 1])]
           w == <<part>> \o SubSeq(v, nit + 1, Len(v))
<1>0. Len(v) \in Nat /\ DOMAIN v = 1..Len(v) /\ bytes \in Nat
  BY LensOf
<1>1. Lens(v) \in Seq(Nat) /\ Len(Lens(v)) = Len(v) /\ Size(v) = done[Len(v)]
  BY LensOf
<1>2. \A n \in 1..Len(v) : /\ done[n] \in Nat /\ done[n - 1] \in Nat
                           /\ done[n] = done[n - 1] + v[n].len
                           /\ v[n].base \in Nat /\ v[n].len \in Nat
  BY LensOf
<1>3. nit \in 1..Len(v) /\ done[nit - 1] <= bytes /\ done[nit] > bytes
  <2>1. PICK n \in 1..Len(v) : done[n - 1] <= bytes /\ bytes < done[n]
    BY <1>0, <1>1, EndsPass
  <2>2. n \in 1..Len(v) + 1 /\ done[n] > bytes
    BY <1>2, <2>1
  <2>3. nit \in 1..Len(v) + 1 /\ done[nit - 1] <= bytes /\ (nit <= Len(v) => done[nit] > bytes)
    BY <2>1, <2>2
  <2> HIDE DEF nit
  <2>4. nit # Len(v) + 1
    <3> SUFFICES ASSUME nit = Len(v) + 1 PROVE FALSE
      OBVIOUS
    <3>1. nit - 1 = Len(v)
      BY <1>0
    <3>2. done[Len(v)] <= bytes
      BY <2>3, <3>1
    <3> QED
      BY <1>0, <1>1, <3>2, LensOf
  <2> QED
    BY <1>0, <2>3, <2>4
<1>4. Recalc(v, bytes) = w
  <2>1. Recalc(v, bytes) = IF nit > Len(v) THEN <<>> ELSE w
    BY DEF Recalc
  <2> HIDE DEF nit, w
  <2>2. ~(nit > Len(v))
    BY <1>0, <1>3
  <2> QED
    BY <2>1, <2>2
<1> HIDE DEF nit, done
<1>5. v # <<>> /\ 1 \in 1..Len(v)
  BY <1>0, <1>3
<1>6. v[nit].base = v[1].base + done[nit - 1]
  BY <1>3, <1>5, BasesAreEnds DEF done
<1>7. /\ part.base = v[1].base + bytes /\ part.base + part.len = v[nit].base + v[nit].len
      /\ part.base \in Nat /\ part.len \in Nat
  <2>1. /\ done[nit] \in Nat /\ done[nit - 1] \in Nat /\ done[nit] = done[nit - 1] + v[nit].len
        /\ v[nit].base \in Nat /\ v[nit].len \in Nat
    BY <1>2, <1>3
  <2>2. v[1].base \in Nat
    BY <1>2, <1>5
  <2>3. /\ part.base = v[nit].base + (bytes - done[nit - 1])
        /\ part.len = v[nit].len - (bytes - done[nit - 1])
    OBVIOUS
  <2> HIDE DEF part
  <2>4. bytes - done[nit - 1] \in Nat /\ v[nit].len - (bytes - done[nit - 1]) \in Nat
    BY <1>0, <1>3, <2>1
  <2>5. part.base = v[1].base + bytes
    BY <1>0, <1>6, <2>1, <2>2, <2>3
  <2>6. part.base + part.len = v[nit].base + v[nit].len
    <3> DEFINE x == v[nit].base
               y == v[nit].len
               d == bytes - done[nit - 1]
    <3>1. x \in Nat /\ y \in Nat /\ d \in Nat /\ part.base = x + d /\ part.len = y - d
      BY <2>1, <2>3, <2>4
    <3> HIDE DEF x, y, d
    <3>2. part.base + part.len = x + y
      BY <3>1
    <3> QED
      BY <3>2 DEF x, y
  <2>7. part.base \in Nat /\ part.len \in Nat
    BY SMTT(30), <2>1, <2>3, <2>4
  <2> QED
    BY <2>5, <2>6, <2>7
<1>8. part \in Buffer
  <2>0. /\ done[nit] \in Nat /\ done[nit - 1] \in Nat /\ done[nit] = done[nit - 1] + v[nit].len
        /\ v[nit].base \in Nat /\ v[nit].len \in Nat
    BY <1>2, <1>3
  <2>1. v[nit].len \in 0..MaxLen /\ MaxLen \in Nat
    <3>1. v[nit] \in Buffer
      BY <1>0, <1>3
    <3> QED
      BY <3>1, IovTransferAssumption DEF Buffer
  <2>3. v[1].base \in Nat /\ Size(v) \in Nat /\ v[1].base + Size(v) \in Nat
    BY <1>2, <1>5, LensOf
  <2>2. part.len <= v[nit].len /\ part.base <= v[1].base + Size(v)
    <3>1. part.len = v[nit].len - (bytes - done[nit - 1])
      OBVIOUS
    <3> HIDE DEF part
    <3>2. part.len <= v[nit].len
      BY <1>0, <1>3, <2>0, <3>1
    <3>3. part.base <= v[1].base + Size(v)
      BY <1>0, <1>7, <2>3
    <3> QED
      BY <3>2, <3>3
  <2>4. part.len \in 0..MaxLen /\ part.base \in 0..MaxCount * MaxLen
    <3> HIDE DEF part
    <3>1. part.len \in 0..MaxLen
      BY <1>7, <2>1, <2>2
    <3> DEFINE cap == MaxCount * MaxLen
    <3>2. cap \in Nat /\ v[1].base + Size(v) <= cap
      BY DEF Fits
    <3> HIDE DEF cap
    <3>3. part.base \in 0..cap
      BY <1>7, <2>2, <2>3, <3>2
    <3> QED
      BY <3>1, <3>3 DEF cap
  <2> QED
    BY <2>4 DEF Buffer
<1> HIDE DEF part
<1>9. /\ w \in Seq(Buffer) /\ Len(w) = Len(v) - nit + 1 /\ w[1] = part
      /\ \A n \in 2..Len(w) : w[n] = v[nit + n - 1]
  BY <1>3, <1>8, Replaced
<1> HIDE DEF w
<1>10. Consecutive(w)
  <2> SUFFICES ASSUME NEW n \in 1..Len(w) - 1 PROVE w[n + 1].base = w[n].base + w[n].len
    BY DEF Consecutive
  <2>1. n + 1 \in 2..Len(w) /\ w[n + 1] = v[nit + n] /\ nit + n - 1 \in 1..Len(v) - 1
        /\ nit + n - 1 + 1 = nit + n
    BY <1>0, <1>3, <1>9
  <2>2. v[nit + n].base = v[nit + n - 1].base + v[nit + n - 1].len
    BY <2>1 DEF Consecutive
  <2>3. CASE n = 1
    BY <1>0, <1>3, <1>7, <1>9, <2>1, <2>2, <2>3
  <2>4. CASE n # 1
    <3>1. n \in 2..Len(w)
      BY <1>0, <1>3, <1>9, <2>4
    <3>2. w[n] = v[nit + n - 1]
      BY <1>9, <3>1
    <3> QED
      BY <2>1, <2>2, <3>2
  <2> QED
    BY <2>3, <2>4
<1>11. w # <<>> /\ w[1].base = v[1].base + bytes
  BY <1>7, <1>9, <1>0, <1>3
<1>12. Size(w) = Size(v) - bytes
  <2>1. w[Len(w)].base + w[Len(w)].len = v[Len(v)].base + v[Len(v)].len
    <3>1. CASE nit = Len(v)
      BY <1>0, <1>7, <1>9, <3>1
    <3>2. CASE nit # Len(v)
      <4>0. Len(w) = Len(v) - nit + 1 /\ nit \in 1..Len(v) - 1
        <5>1. nit \in 1..Len(v) - 1
          <6> DEFINE m == Len(v)
          <6>0. m \in Nat
            BY <1>0
          <6> HIDE DEF m
          <6>1. \A k \in 1..m : k # m => k \in 1..m - 1
            BY <6>0
          <6> QED
            BY <1>3, <3>2, <6>1 DEF m
        <5>2. Len(w) = Len(v) - nit + 1
          BY <1>9
        <5> QED
          BY <5>1, <5>2
      <4>1. Len(w) \in 2..Len(w) /\ nit + Len(w) - 1 = Len(v)
        BY <1>0, <4>0
      <4>2. w[Len(w)] = v[nit + Len(w) - 1]
        BY <1>9, <4>1
      <4> QED
        BY <4>1, <4>2
    <3> QED
      BY <3>1, <3>2
  <2>2. w[Len(w)].base + w[Len(w)].len = w[1].base + Size(w)
    BY <1>9, <1>10, <1>11, BasesAreEnds
  <2>3. v[Len(v)].base + v[Len(v)].len = v[1].base + Size(v)
    BY <1>5, BasesAreEnds
  <2>4. Size(w) \in Nat /\ Size(v) \in Nat /\ v[1].base \in Nat
    BY <1>2, <1>5, <1>9, LensOf
  <2> QED
    BY <1>0, <1>11, <2>1, <2>2, <2>3, <2>4
<1> QED
  BY <1>4, <1>9, <1>10, <1>11, <1>12

-----------------------------------------------------------------------------
(* The transfer.                                                           *)

(* Until all is moved the vector is the rest of the message.               *)
RestIsLeft ==
    remain_bytes > 0 =>
        /\ iov # <<>> /\ Consecutive(iov)
        /\ iov[1].base = Len(moved) /\ Size(iov) = remain_bytes

IovInv ==
    /\ TypeOK /\ ZeroMeansAll /\ RestIsLeft
    /\ \A i \in DOMAIN moved : moved[i] = i - 1
    /\ remain_bytes = total_len - Len(moved)
    /\ MaxCount * MaxLen \in Nat

LEMMA TransferStarts == Init => IovInv
<1> SUFFICES ASSUME Init PROVE IovInv
  OBVIOUS
<1>0. PICK count \in 0..MaxCount :
          \E lens \in [1..count -> 0..MaxLen] : iov = Vector(lens) /\ total_len = Size(iov)
  BY DEF Init
<1>1. PICK lens \in [1..count -> 0..MaxLen] : iov = Vector(lens) /\ total_len = Size(iov)
  BY <1>0
<1>2. count \in Nat /\ count <= MaxCount /\ MaxCount \in Nat /\ MaxLen \in Nat
  BY IovTransferAssumption
<1>3. lens \in Seq(Nat) /\ Len(lens) = count /\ \A n \in 1..Len(lens) : lens[n] <= MaxLen
  BY <1>1, <1>2
<1>4. \A n \in 0..count : End(lens)[n] <= MaxCount * MaxLen
  BY <1>2, <1>3, EndsAreBounded
<1>5. MaxCount * MaxLen \in Nat
  BY <1>2
<1>6. /\ End(lens) \in [0..count -> Nat] /\ End(lens)[0] = 0
      /\ \A n \in 1..count : End(lens)[n] = End(lens)[n - 1] + lens[n]
  BY <1>3, EndsAddUp
<1>7. /\ iov = [n \in 1..count |-> [base |-> End(lens)[n - 1], len |-> lens[n]]]
      /\ \A n \in 1..count : lens[n] \in 0..MaxLen
  BY <1>1 DEF Vector
<1>8. iov \in Seq(Buffer) /\ Len(iov) = count
  <2> DEFINE cap == MaxCount * MaxLen
  <2>1. cap \in Nat /\ \A n \in 0..count : End(lens)[n] <= cap
    BY <1>4, <1>5
  <2>2. Buffer = [base : 0..cap, len : 0..MaxLen]
    BY DEF Buffer
  <2> HIDE DEF cap
  <2>3. ASSUME NEW n \in 1..count
        PROVE  End(lens)[n - 1] \in 0..cap
    <3>1. n - 1 \in 0..count
      BY <1>2
    <3> QED
      BY <1>6, <2>1, <3>1
  <2>4. iov \in [1..count -> Buffer]
    BY <1>7, <2>2, <2>3
  <2> QED
    BY <1>2, <2>4
<1>9. Lens(iov) = lens
  <2>1. Lens(iov) = [n \in 1..count |-> lens[n]]
    BY <1>7 DEF Lens
  <2> QED
    BY <1>1, <2>1
<1>10. total_len = End(lens)[count] /\ total_len \in 0..MaxCount * MaxLen
  <2>1. total_len = End(lens)[count] /\ count \in 0..count
    BY <1>1, <1>2, <1>8, <1>9 DEF Size
  <2> DEFINE cap == MaxCount * MaxLen
  <2>2. cap \in Nat /\ End(lens)[count] <= cap
    BY <1>4, <1>5, <2>1
  <2> HIDE DEF cap
  <2>3. total_len \in 0..cap
    BY <1>6, <2>1, <2>2
  <2> QED
    BY <2>1, <2>3 DEF cap
<1>11. Consecutive(iov)
  <2> SUFFICES ASSUME NEW n \in 1..Len(iov) - 1
               PROVE  iov[n + 1].base = iov[n].base + iov[n].len
    BY DEF Consecutive
  <2>1. n \in 1..count /\ n + 1 \in 1..count /\ n + 1 - 1 = n
    BY <1>2, <1>8
  <2> QED
    BY <1>6, <1>7, <2>1
<1>12. total_len > 0 => iov # <<>> /\ iov[1].base = 0
  <2>1. count = 0 => total_len = 0
    BY <1>6, <1>10
  <2>2. count # 0 => 1 \in 1..count /\ 1 - 1 = 0
    BY <1>2
  <2> QED
    <3> SUFFICES ASSUME count # 0 PROVE iov # <<>> /\ iov[1].base = 0
      BY <2>1, <1>6, <1>10
    <3>1. iov[1] = [base |-> End(lens)[1 - 1], len |-> lens[1]]
      BY <1>7, <2>2
    <3> QED
      BY <1>6, <1>8, <2>2, <3>1
<1>13. /\ dir \in {"send", "recv"} /\ remain_bytes = total_len /\ timeout_ms \in 0..MaxTimeout
       /\ moved = <<>> /\ ret = "none"
  BY DEF Init
<1>14. total_len \in Nat
  BY <1>6, <1>10, <1>2
<1>15. TypeOK
  BY <1>8, <1>10, <1>13, <1>14 DEF TypeOK
<1>16. RestIsLeft /\ ZeroMeansAll
  BY <1>1, <1>11, <1>12, <1>13, <1>14 DEF RestIsLeft, ZeroMeansAll
<1> QED
  BY <1>5, <1>13, <1>14, <1>15, <1>16 DEF IovInv

(* Only Move moves bytes, and it moves the next ones.                      *)
LEMMA MoveContinues ==
    ASSUME IovInv, Move
    PROVE  IovInv'
<1>1. PICK bytes \in 1..Size(iov) :
          /\ moved' = moved \o FirstBytes(iov, bytes)
          /\ remain_bytes' = remain_bytes - bytes
          /\ iov' = IF remain_bytes' > 0 THEN Recalc(iov, bytes) ELSE iov
  BY DEF Move
<1>2. /\ timeout_ms > 0 /\ remain_bytes > 0 /\ timeout_ms' = timeout_ms - Cost
      /\ UNCHANGED <<dir, total_len, ret>> /\ ret = "none"
  BY DEF Move, Looping
<1>3. /\ iov \in Seq(Buffer) /\ iov # <<>> /\ Consecutive(iov)
      /\ iov[1].base = Len(moved) /\ Size(iov) = remain_bytes
  BY <1>2 DEF IovInv, RestIsLeft, TypeOK
<1>4. /\ total_len \in Nat /\ remain_bytes \in Nat /\ moved \in Seq(0..total_len - 1)
      /\ Len(moved) \in Nat /\ remain_bytes = total_len - Len(moved)
      /\ \A i \in 1..Len(moved) : moved[i] = i - 1
      /\ bytes \in Nat /\ bytes >= 1 /\ bytes <= remain_bytes
  <2>1. total_len \in 0..MaxCount * MaxLen /\ MaxCount * MaxLen \in Nat
    BY DEF IovInv, TypeOK
  <2>2. total_len \in Nat
    BY <2>1
  <2> QED
    BY <1>3, <2>2 DEF IovInv, TypeOK
<1>5. FirstBytes(iov, bytes) = [i \in 1..bytes |-> Len(moved) + i - 1]
  <2>1. bytes \in 0..Size(iov)
    BY <1>3, <1>4
  <2> QED
    BY <1>3, <2>1, FirstBytesFollow
<1>6. /\ moved' \in Seq(0..total_len - 1) /\ Len(moved') = Len(moved) + bytes
      /\ \A i \in 1..Len(moved') : moved'[i] = i - 1
  <2> DEFINE next == FirstBytes(iov, bytes)
  <2>1. next \in Seq(0..total_len - 1) /\ Len(next) = bytes
        /\ \A i \in 1..bytes : next[i] = Len(moved) + i - 1
    <3>1. \A i \in 1..bytes : Len(moved) + i - 1 \in 0..total_len - 1
      BY <1>4
    <3>2. next \in [1..bytes -> 0..total_len - 1]
      BY <1>5, <3>1
    <3> HIDE DEF next
    <3>3. next \in Seq(0..total_len - 1) /\ Len(next) = bytes
      BY <1>4, <3>2
    <3> QED
      BY <1>5, <3>3 DEF next
  <2>2. moved' = moved \o next
    BY <1>1
  <2> HIDE DEF next
  <2>3. /\ moved' \in Seq(0..total_len - 1) /\ Len(moved') = Len(moved) + bytes
        /\ \A i \in 1..Len(moved) + bytes :
               moved'[i] = IF i <= Len(moved) THEN moved[i] ELSE next[i - Len(moved)]
    BY <1>4, <2>1, <2>2, ConcatProperties
  <2>4. ASSUME NEW i \in 1..Len(moved) + bytes
        PROVE  moved'[i] = i - 1
    <3>1. CASE i <= Len(moved)
      <4>1. i \in 1..Len(moved)
        BY <1>4, <3>1
      <4> QED
        BY <1>4, <2>3, <3>1, <4>1
    <3>2. CASE ~(i <= Len(moved))
      <4>1. i - Len(moved) \in 1..bytes /\ Len(moved) + (i - Len(moved)) - 1 = i - 1
        BY <1>4, <3>2
      <4> QED
        BY <2>1, <2>3, <3>2, <4>1
    <3> QED
      BY <3>1, <3>2
  <2> QED
    BY <2>3, <2>4
<1>7. remain_bytes' \in 0..total_len /\ remain_bytes' = total_len' - Len(moved')
  BY <1>1, <1>2, <1>4, <1>6
<1>8. timeout_ms' \in 0..MaxTimeout
  BY <1>2, IovTransferAssumption DEF IovInv, TypeOK, Cost
<1>9. iov' \in Seq(Buffer) /\ RestIsLeft'
  <2>1. CASE remain_bytes' > 0
    <3>1. iov' = Recalc(iov, bytes) /\ bytes \in 0..Size(iov) /\ bytes < Size(iov)
      BY <1>1, <1>3, <1>4, <2>1
    <3>2. Fits(iov)
      <4> DEFINE cap == MaxCount * MaxLen
      <4>1. cap \in Nat /\ total_len \in 0..cap
        BY DEF IovInv, TypeOK
      <4> HIDE DEF cap
      <4>2. iov[1].base + Size(iov) <= cap
        BY <1>3, <1>4, <4>1
      <4> QED
        BY <4>1, <4>2 DEF Fits, cap
    <3>3. /\ iov' \in Seq(Buffer) /\ Consecutive(iov') /\ iov' # <<>>
          /\ iov'[1].base = iov[1].base + bytes /\ Size(iov') = Size(iov) - bytes
      BY <1>3, <3>1, <3>2, RecalcKeeps
    <3> QED
      BY <1>1, <1>3, <1>6, <3>3 DEF RestIsLeft
  <2>2. CASE ~(remain_bytes' > 0)
    BY <1>1, <1>3, <2>2 DEF RestIsLeft
  <2> QED
    BY <2>1, <2>2
<1>10. TypeOK'
  BY <1>2, <1>6, <1>7, <1>8, <1>9 DEF IovInv, TypeOK
<1>11. ZeroMeansAll'
  BY <1>2 DEF ZeroMeansAll
<1>12. DOMAIN moved' = 1..Len(moved')
  BY <1>6
<1> QED
  BY <1>6, <1>7, <1>9, <1>10, <1>11, <1>12 DEF IovInv

LEMMA TransferInvariant == Spec => []IovInv
<1>1. ASSUME IovInv, [Next]_vars
      PROVE  IovInv'
  <2>0. /\ TypeOK /\ ZeroMeansAll /\ RestIsLeft /\ MaxCount * MaxLen \in Nat
        /\ (\A i \in DOMAIN moved : moved[i] = i - 1) /\ remain_bytes = total_len - Len(moved)
    BY <1>1 DEF IovInv
  <2>1. remain_bytes \in Nat /\ total_len \in Nat /\ Len(moved) \in Nat /\ timeout_ms \in Nat
        /\ MaxTimeout \in Nat /\ timeout_ms <= MaxTimeout
    <3>1. total_len \in Nat
      BY <2>0 DEF TypeOK
    <3> QED
      BY <2>0, <3>1, IovTransferAssumption DEF TypeOK
  <2>2. ASSUME UNCHANGED <<dir, total_len, iov, remain_bytes, moved>>,
               timeout_ms' \in 0..MaxTimeout, ret' \in {"none", "0", "-1"}, ZeroMeansAll'
        PROVE  IovInv'
    <3>1. TypeOK'
      BY <2>0, <2>2 DEF TypeOK
    <3> QED
      BY <2>0, <2>2, <3>1 DEF IovInv, RestIsLeft
  <2>3. CASE Move
    BY <1>1, <2>3, MoveContinues
  <2>4. CASE NotReady \/ TryAgain
    <3>1. /\ UNCHANGED <<dir, total_len, iov, remain_bytes, moved, ret>>
          /\ timeout_ms > 0 /\ timeout_ms' \in {timeout_ms, timeout_ms - 1} /\ ret = "none"
      <4>1. Cost \in {0, 1} /\ timeout_ms - 0 = timeout_ms
        BY <2>1 DEF Cost
      <4> QED
        BY <2>4, <4>1 DEF NotReady, TryAgain, Looping
    <3>2. timeout_ms' \in 0..MaxTimeout /\ ZeroMeansAll'
      BY <2>1, <3>1 DEF ZeroMeansAll
    <3> QED
      BY <2>2, <3>1, <3>2
  <2>5. CASE Fail
    <3>1. /\ UNCHANGED <<dir, total_len, iov, remain_bytes, moved>> /\ ret' = "-1"
          /\ timeout_ms > 0 /\ remain_bytes > 0 /\ timeout_ms' \in {timeout_ms, timeout_ms - 1}
      <4>1. Cost \in {0, 1} /\ timeout_ms - 0 = timeout_ms
        BY <2>1 DEF Cost
      <4> QED
        BY <2>5, <4>1 DEF Fail, Looping
    <3>2. timeout_ms' \in 0..MaxTimeout /\ Len(moved) # total_len
      BY <2>0, <2>1, <3>1
    <3> QED
      BY <2>2, <3>1, <3>2 DEF ZeroMeansAll
  <2>6. CASE Return
    <3>1. /\ UNCHANGED <<dir, total_len, iov, remain_bytes, timeout_ms, moved>>
          /\ ret' = IF timeout_ms = 0 /\ remain_bytes > 0 THEN "-1" ELSE "0"
          /\ ~(timeout_ms > 0 /\ remain_bytes > 0)
      BY <2>6 DEF Return, Looping
    <3>2. ret' = "0" => Len(moved) = total_len
      BY <2>0, <2>1, <3>1
    <3>3. Len(moved) = total_len => ret' = "0"
      BY <2>0, <2>1, <3>1
    <3>4. ZeroMeansAll' /\ timeout_ms' \in 0..MaxTimeout
      BY <2>1, <3>1, <3>2, <3>3 DEF ZeroMeansAll
    <3> QED
      BY <2>2, <3>1, <3>4
  <2>7. CASE UNCHANGED vars
    BY <2>0, <2>7 DEF vars, IovInv, TypeOK, ZeroMeansAll, RestIsLeft
  <2> QED
    BY <1>1, <2>3, <2>4, <2>5, <2>6, <2>7 DEF Next
<1> QED
  BY <1>1, TransferStarts, PTL DEF Spec

(* For any number and lengths of buffers and any budget of time, the calls *)
(* of writev and readv move every byte once and in its place, however they *)
(* cut the message, and 0 is returned when all of it has been moved.       *)
THEOREM TransfersAreExact == Spec => []TransferIsExact
<1>1. IovInv => TransferIsExact
  <2> SUFFICES ASSUME IovInv PROVE TransferIsExact
    OBVIOUS
  <2>1. remain_bytes > 0 => FirstBytes(iov, Size(iov)) =
                            [i \in 1..remain_bytes |-> Len(moved) + i - 1]
    <3> SUFFICES ASSUME remain_bytes > 0
                 PROVE  FirstBytes(iov, Size(iov)) = [i \in 1..remain_bytes |-> Len(moved) + i - 1]
      OBVIOUS
    <3>1. iov \in Seq(Buffer) /\ Consecutive(iov) /\ iov[1].base = Len(moved)
          /\ Size(iov) = remain_bytes
      BY DEF IovInv, RestIsLeft, TypeOK
    <3>2. Size(iov) \in 0..Size(iov)
      BY <3>1, LensOf
    <3> QED
      <4>1. FirstBytes(iov, Size(iov)) = [i \in 1..Size(iov) |-> iov[1].base + i - 1]
        BY <3>1, <3>2, FirstBytesFollow
      <4> QED
        BY <3>1, <4>1
  <2> QED
    BY <2>1 DEF IovInv, TransferIsExact, InOrder
<1> QED
  BY <1>1, TransferInvariant, PTL

-----------------------------------------------------------------------------
(* The stream connection.                                                  *)

(* The reading half of a connection: a record of these fields, whose cursor*)
(* stays inside the buffer.                                                *)
Connection ==
    [reading : BOOLEAN, bytes_needed : 0..LenMax, len : 0..LenMax, cursor : 0..LenMax,
     handler : {"empty", "handle_op", "handle_indef"}, crashed : BOOLEAN,
     made : Nat, called : Nat, taken : Nat, told : Nat]

Inside(c) == c \in Connection /\ c.cursor <= c.len

(* One request has not been answered, and its characters not been reported.*)
Owed(c) ==
    /\ c.handler # "empty" /\ c.bytes_needed \in 1..c.len
    /\ c.made = c.called + 1 /\ c.taken = c.told + c.cursor

(* Everything is answered, and nobody waits.                               *)
Settled(c) == c.handler = "empty" /\ c.made = c.called /\ c.taken = c.told

ReadInv(c) ==
    /\ Inside(c)
    /\ ~c.crashed => IF c.reading THEN Owed(c) /\ c.cursor < c.bytes_needed ELSE Settled(c)

(* What complete_read, a request, and a transfer leave in the fields.      *)
LEMMA CompletedFields ==
    ASSUME NEW c \in Connection
    PROVE  /\ Completed(c) \in Connection
           /\ ~Completed(c).reading /\ Completed(c).bytes_needed = c.bytes_needed
           /\ Completed(c).len = c.len /\ Completed(c).cursor = c.cursor
           /\ Completed(c).handler = "empty" /\ Completed(c).crashed = c.crashed
           /\ Completed(c).made = c.made /\ Completed(c).called = c.called + 1
           /\ Completed(c).taken = c.taken /\ Completed(c).told = c.told + c.cursor
<1>1. c.called + 1 \in Nat /\ c.told + c.cursor \in Nat
  BY ConnAssumption DEF Connection
<1>2. Completed(c) \in Connection
  BY <1>1 DEF Connection, Completed
<1> QED
  BY <1>2 DEF Connection, Completed

IsRequest(d, c, num_bytes, len, handler) ==
    /\ d \in Connection
    /\ d.reading /\ d.bytes_needed = num_bytes /\ d.len = len /\ d.cursor = 0
    /\ d.handler = handler /\ d.crashed = c.crashed /\ d.made = c.made + 1
    /\ d.called = c.called /\ d.taken = c.taken /\ d.told = c.told

LEMMA RequestedFields ==
    ASSUME NEW c \in Connection, NEW num_bytes \in 0..LenMax, NEW len \in 0..LenMax,
           NEW handler \in {"handle_op", "handle_indef"},
           NEW d, d = Requested(c, num_bytes, len, handler)
    PROVE  IsRequest(d, c, num_bytes, len, handler)
<1>1. c.made + 1 \in Nat /\ 0 \in 0..LenMax
  BY ConnAssumption DEF Connection
<1>2. d \in Connection
  BY <1>1 DEF Connection, Requested
<1> QED
  BY <1>2 DEF Connection, Requested, IsRequest

LEMMA TookFields ==
    ASSUME NEW c \in Connection, c.cursor <= c.len, NEW n \in 0..c.len - c.cursor
    PROVE  LET d == Took(c, n)
           IN /\ d \in Connection
              /\ d.reading = c.reading /\ d.bytes_needed = c.bytes_needed /\ d.len = c.len
              /\ d.cursor = c.cursor + n /\ d.handler = c.handler /\ d.crashed = c.crashed
              /\ d.made = c.made /\ d.called = c.called
              /\ d.taken = c.taken + n /\ d.told = c.told
<1>1. c.cursor + n \in 0..LenMax /\ c.taken + n \in Nat
  BY ConnAssumption DEF Connection
<1>2. Took(c, n) \in Connection
  BY <1>1 DEF Connection, Took
<1> QED
  BY <1>2 DEF Connection, Took

(* What is owed is settled by complete_read, or owed for the next request. *)
LEMMA CompleteReadAnswers ==
    ASSUME NEW c, Inside(c), c.crashed \/ c.handler = "empty" \/ Owed(c)
    PROVE  ReadInv(CompleteRead(c))
<1> DEFINE d == Completed(c)
<1>0. c \in Connection /\ c.cursor <= c.len
  BY DEF Inside
<1>1. CASE c.handler = "empty"
  <2>1. CompleteRead(c) \in Connection
    BY <1>0, <1>1 DEF Connection, CompleteRead
  <2>2. CompleteRead(c).crashed /\ CompleteRead(c).cursor = c.cursor /\ CompleteRead(c).len = c.len
    BY <1>0, <1>1 DEF Connection, CompleteRead
  <2> QED
    BY <1>0, <2>1, <2>2 DEF ReadInv, Inside
<1>2. CASE c.handler = "handle_op"
  <2>1. CompleteRead(c) = d
    BY <1>2 DEF CompleteRead
  <2>2. Inside(d) /\ ~d.reading
    BY <1>0, CompletedFields DEF Inside
  <2>3. ~d.crashed => Settled(d)
    BY <1>0, <1>2, CompletedFields DEF Owed, Settled
  <2> QED
    BY <2>1, <2>2, <2>3 DEF ReadInv
<1>3. CASE c.handler = "handle_indef"
  <2> DEFINE e == Requested(d, c.bytes_needed, c.len, c.handler)
  <2>1. CompleteRead(c) = e
    BY <1>3 DEF CompleteRead
  <2>2. d \in Connection /\ c.bytes_needed \in 0..LenMax /\ c.len \in 0..LenMax
    BY <1>0, CompletedFields DEF Connection
  <2>3. /\ e \in Connection
        /\ e.reading /\ e.bytes_needed = c.bytes_needed /\ e.len = c.len /\ e.cursor = 0
        /\ e.handler = c.handler /\ e.crashed = c.crashed /\ e.made = c.made + 1
        /\ e.called = c.called + 1 /\ e.taken = c.taken /\ e.told = c.told + c.cursor
    <3>1. c.handler \in {"handle_op", "handle_indef"}
      BY <1>3
    <3>2. IsRequest(e, d, c.bytes_needed, c.len, c.handler)
      BY <2>2, <3>1, RequestedFields
    <3> HIDE DEF e
    <3> QED
      BY <1>0, <3>2, CompletedFields DEF IsRequest
  <2> HIDE DEF e
  <2>4. Inside(e)
    BY <2>2, <2>3, ConnAssumption DEF Inside
  <2>5. ASSUME ~e.crashed
        PROVE  Owed(e) /\ e.cursor < e.bytes_needed
    <3>1. Owed(c)
      BY <1>3, <2>3, <2>5
    <3>2. c.told \in Nat /\ c.cursor \in Nat /\ c.len \in Nat
      BY <1>0, ConnAssumption DEF Connection
    <3> QED
      BY <1>3, <2>3, <3>1, <3>2 DEF Owed
  <2> QED
    BY <2>1, <2>3, <2>4, <2>5 DEF ReadInv
<1> QED
  BY <1>0, <1>1, <1>2, <1>3 DEF Connection

(* Taking characters that have room owes them.                             *)
LEMMA TookOwes ==
    ASSUME NEW c, ReadInv(c), c.reading, ~c.crashed, NEW n \in 0..c.len - c.cursor
    PROVE  /\ Inside(Took(c, n)) /\ Owed(Took(c, n))
           /\ Took(c, n).reading /\ ~Took(c, n).crashed
<1> DEFINE d == Took(c, n)
<1>1. c \in Connection /\ c.cursor <= c.len /\ Owed(c)
  BY DEF ReadInv, Inside
<1>2. /\ d \in Connection
      /\ d.reading = c.reading /\ d.bytes_needed = c.bytes_needed /\ d.len = c.len
      /\ d.cursor = c.cursor + n /\ d.handler = c.handler /\ d.crashed = c.crashed
      /\ d.made = c.made /\ d.called = c.called
      /\ d.taken = c.taken + n /\ d.told = c.told
  BY <1>1, TookFields
<1>3. c.cursor \in Nat /\ c.len \in Nat /\ c.told \in Nat /\ c.taken \in Nat
  BY <1>1, ConnAssumption DEF Connection
<1> HIDE DEF d
<1>4. d.reading /\ ~d.crashed /\ Inside(d)
  BY <1>1, <1>2, <1>3 DEF Inside
<1>5. Owed(d)
  BY <1>1, <1>2, <1>3 DEF Owed
<1> QED
  BY <1>4, <1>5 DEF d

LEMMA ReadSomeAnswers ==
    ASSUME NEW feed \in [left : Nat, c : Connection], ReadInv(feed.c)
    PROVE  ReadSomeImpl(feed) \in [left : Nat, c : Connection] /\ ReadInv(ReadSomeImpl(feed).c)
<1> DEFINE c == feed.c
           n == IF feed.left < c.len - c.cursor THEN feed.left ELSE c.len - c.cursor
           took == Took(c, n)
           after == IF took.cursor >= took.bytes_needed THEN CompleteRead(took) ELSE took
<1>1. CASE ~c.reading \/ c.crashed
  BY <1>1 DEF ReadSomeImpl
<1>2. CASE c.reading /\ ~c.crashed
  <2>1. c.len \in Nat /\ c.cursor \in Nat /\ c.cursor <= c.len /\ feed.left \in Nat
    BY ConnAssumption DEF ReadInv, Inside, Connection
  <2>2. n \in 0..c.len - c.cursor /\ feed.left - n \in Nat
    BY <2>1
  <2> HIDE DEF n
  <2>3. Inside(took) /\ Owed(took) /\ took.reading /\ ~took.crashed
    BY <1>2, <2>2, TookOwes
  <2>4. ReadInv(after)
    <3>1. CASE took.cursor >= took.bytes_needed
      BY <2>3, <3>1, CompleteReadAnswers
    <3>2. CASE ~(took.cursor >= took.bytes_needed)
      <4>1. took.cursor < took.bytes_needed
        BY <2>3, <3>2, ConnAssumption DEF Inside, Connection
      <4> QED
        BY <2>3, <3>2, <4>1 DEF ReadInv
    <3> QED
      BY <3>1, <3>2
  <2>5. ReadSomeImpl(feed) = [left |-> feed.left - n, c |-> after]
    BY <1>2 DEF ReadSomeImpl, n
  <2> HIDE DEF after
  <2> QED
    BY <2>2, <2>4, <2>5 DEF ReadInv, Inside
<1> QED
  BY <1>1, <1>2

Feeds == [left : Nat, good : BOOLEAN, c : Connection]

LEMMA StreamTurnAnswers ==
    ASSUME NEW feed \in Feeds, ReadInv(feed.c), NEW ending
    PROVE  StreamTurn(feed, ending) \in Feeds /\ ReadInv(StreamTurn(feed, ending).c)
<1> DEFINE c == feed.c
           room == c.len - c.cursor
           n == IF feed.left < room THEN feed.left ELSE room
           took == Took(c, n)
           bad == feed.left < room /\ ending = "bad"
           told == IF bad THEN CompleteRead([took EXCEPT !.reading = FALSE]) ELSE took
           after == IF ~told.crashed /\ told.cursor >= told.bytes_needed
                    THEN CompleteRead([told EXCEPT !.reading = FALSE]) ELSE told
<1>1. CASE ~feed.good \/ ~c.reading \/ c.crashed \/ n = 0
  BY <1>1 DEF StreamTurn, Feeds
<1>2. CASE ~(~feed.good \/ ~c.reading \/ c.crashed \/ n = 0)
  <2>0. c.reading /\ ~c.crashed
    BY <1>2
  <2>1. c.len \in Nat /\ c.cursor \in Nat /\ c.cursor <= c.len /\ feed.left \in Nat
    BY ConnAssumption DEF ReadInv, Inside, Connection, Feeds
  <2>2. n \in 0..c.len - c.cursor /\ feed.left - n \in Nat
    BY <2>1
  <2>5. StreamTurn(feed, ending) = [left |-> feed.left - n, good |-> feed.left >= room, c |-> after]
    BY <1>2 DEF StreamTurn
  <2>6. (feed.left >= room) \in BOOLEAN
    OBVIOUS
  <2> HIDE DEF n, room
  <2>3. Inside(took) /\ Owed(took) /\ took.reading /\ ~took.crashed
    BY <2>0, <2>2, TookOwes
  <2> HIDE DEF took
  <2>4. ReadInv(after)
    <3> DEFINE Stopped(d) == [d EXCEPT !.reading = FALSE]
    <3>1. ASSUME NEW d, Inside(d)
          PROVE  Inside(Stopped(d)) /\ (Owed(d) => Owed(Stopped(d)))
                 /\ Stopped(d).handler = d.handler /\ Stopped(d).crashed = d.crashed
      BY <3>1 DEF Inside, Connection, Owed
    <3>2. ASSUME NEW d, Inside(d), d.crashed \/ d.handler = "empty" \/ Owed(d)
          PROVE  ReadInv(CompleteRead(Stopped(d)))
      BY <3>1, <3>2, CompleteReadAnswers
    <3> HIDE DEF Stopped
    <3>3. bad => told = CompleteRead(Stopped(took))
      BY DEF Stopped
    <3>4. Inside(told)
      BY <2>3, <3>2, <3>3 DEF ReadInv
    <3>5. ReadInv(told) \/ (Owed(told) /\ told.reading)
      BY <2>3, <3>2, <3>3
    <3> HIDE DEF told
    <3>6. CASE ~told.crashed /\ told.cursor >= told.bytes_needed
      <4>1. told.crashed \/ told.handler = "empty" \/ Owed(told)
        BY <3>4, <3>5, <3>6, ConnAssumption DEF ReadInv, Inside, Connection, Settled
      <4>2. after = CompleteRead(Stopped(told))
        BY <3>6 DEF Stopped
      <4> QED
        BY <3>2, <3>4, <4>1, <4>2
    <3>7. CASE ~(~told.crashed /\ told.cursor >= told.bytes_needed)
      <4>1. after = told
        BY <3>7
      <4>2. ~told.crashed => told.cursor < told.bytes_needed
        BY <3>4, <3>7, ConnAssumption DEF Inside, Connection
      <4> QED
        BY <3>4, <3>5, <4>1, <4>2 DEF ReadInv
    <3> QED
      BY <3>6, <3>7
  <2> HIDE DEF after
  <2> QED
    BY <2>2, <2>4, <2>5, <2>6 DEF ReadInv, Inside, Feeds
<1> QED
  BY <1>1, <1>2

(* The functions that the two loops define are there, and what each turn   *)
(* leaves is in order.                                                     *)
LEMMA FedAllAnswers ==
    ASSUME ReadInv(conn), NEW n \in Nat
    PROVE  ReadInv(FedAll(n))
<1> DEFINE Fill(f, i, m) == IF i = 0 THEN [left |-> n, c |-> conn] ELSE AllTurn(f[i - 1])
           Is(f, m) == f = [i \in 0..m |-> Fill(f, i, m)]
           S == {m \in Nat : \E f : Is(f, m)}
           fed == CHOOSE f : Is(f, n)
           Fine == {feed \in [left : Nat, c : Connection] : ReadInv(feed.c)}
<1>1. Nat \subseteq S
  <2>1. 0 \in S
    <3>1. Is([i \in 0..0 |-> [left |-> n, c |-> conn]], 0)
      OBVIOUS
    <3> QED
      BY <3>1
  <2>2. ASSUME NEW m \in Nat, m \in S
        PROVE  m + 1 \in S
    <3>1. PICK f : Is(f, m)
      BY <2>2
    <3> DEFINE g == [i \in 0..m + 1 |-> IF i = m + 1 THEN AllTurn(f[m]) ELSE f[i]]
    <3>2. ASSUME NEW i \in 0..m + 1
          PROVE  g[i] = Fill(g, i, m + 1)
      <4>1. i = 0 \/ i \in 1..m \/ i = m + 1
        OBVIOUS
      <4> QED
        BY <3>1, <4>1
    <3>3. Is(g, m + 1)
      BY <3>2
    <3> HIDE DEF Is, g
    <3> QED
      BY <3>3
  <2> QED
    BY <2>1, <2>2, NaturalsWithZeroAndNext
<1>2. Is(fed, n)
  BY <1>1
<1>3. FedAll(n) = fed[n].c
  BY DEF FedAll
<1> HIDE DEF fed
<1>4. [left |-> n, c |-> conn] \in Fine
  BY DEF ReadInv, Inside
<1>5. ASSUME NEW feed \in Fine
      PROVE  AllTurn(feed) \in Fine
  BY ReadSomeAnswers DEF AllTurn
<1> DEFINE T == {m \in Nat : m <= n => fed[m] \in Fine}
<1>6. Nat \subseteq T
  <2>1. 0 \in T
    BY <1>2, <1>4
  <2>2. ASSUME NEW m \in Nat, m \in T
        PROVE  m + 1 \in T
    BY <1>2, <1>5, <2>2
  <2> QED
    BY <2>1, <2>2, NaturalsWithZeroAndNext
<1> QED
  BY <1>3, <1>6

LEMMA FedStreamAnswers ==
    ASSUME ReadInv(conn), NEW n \in Nat, NEW ending
    PROVE  ReadInv(FedStream(n, ending))
<1> DEFINE first == [left |-> n, good |-> TRUE, c |-> conn]
           Fill(f, i) == IF i = 0 THEN first ELSE StreamTurn(f[i - 1], ending)
           Is(f, m) == f = [i \in 0..m |-> Fill(f, i)]
           S == {m \in Nat : \E f : Is(f, m)}
           fed == CHOOSE f : Is(f, n + 1)
           Fine == {feed \in Feeds : ReadInv(feed.c)}
<1>0. FedStream(n, ending) = fed[n + 1].c
  BY DEF FedStream
<1>3. first \in Fine
  BY DEF ReadInv, Inside, Feeds
<1> HIDE DEF first
<1>1. Nat \subseteq S
  <2>1. 0 \in S
    <3>1. Is([i \in 0..0 |-> first], 0)
      OBVIOUS
    <3> QED
      BY <3>1
  <2>2. ASSUME NEW m \in Nat, m \in S
        PROVE  m + 1 \in S
    <3>1. PICK f : Is(f, m)
      BY <2>2
    <3> DEFINE g == [i \in 0..m + 1 |-> IF i = m + 1 THEN StreamTurn(f[m], ending) ELSE f[i]]
    <3>2. ASSUME NEW i \in 0..m + 1
          PROVE  g[i] = Fill(g, i)
      <4>1. i = 0 \/ i \in 1..m \/ i = m + 1
        OBVIOUS
      <4> QED
        BY <3>1, <4>1
    <3>3. Is(g, m + 1)
      BY <3>2
    <3> HIDE DEF Is, g
    <3> QED
      BY <3>3
  <2> QED
    BY <2>1, <2>2, NaturalsWithZeroAndNext
<1>2. Is(fed, n + 1)
  <2>1. n + 1 \in S
    BY <1>1
  <2> HIDE DEF Is
  <2> QED
    BY <2>1
<1>4. fed[0] = first /\ \A m \in Nat : m < n + 1 => fed[m + 1] = StreamTurn(fed[m], ending)
  <2> HIDE DEF fed
  <2> QED
    BY <1>2
<1> HIDE DEF fed
<1>5. ASSUME NEW feed \in Fine
      PROVE  StreamTurn(feed, ending) \in Fine
  BY StreamTurnAnswers
<1> DEFINE T == {m \in Nat : m <= n + 1 => fed[m] \in Fine}
<1>6. Nat \subseteq T
  <2>1. 0 \in T
    BY <1>3, <1>4
  <2>2. ASSUME NEW m \in Nat, m \in T
        PROVE  m + 1 \in T
    <3> SUFFICES ASSUME m + 1 <= n + 1 PROVE fed[m + 1] \in Fine
      OBVIOUS
    <3>1. m < n + 1 /\ m <= n + 1
      OBVIOUS
    <3>2. fed[m] \in Fine /\ fed[m + 1] = StreamTurn(fed[m], ending)
      BY <1>4, <2>2, <3>1
    <3> HIDE DEF Fine
    <3> QED
      BY <1>5, <3>2
  <2> QED
    BY <2>1, <2>2, NaturalsWithZeroAndNext
<1> QED
  BY <1>0, <1>6

-----------------------------------------------------------------------------

(* What a writer was told has arrived, unless the stream had failed.       *)
WriteInv ==
    /\ out \in [stream : {"none", "good", "failed", "bad"}, handler : {"none", "works", "fails"},
                vector : BOOLEAN, asked : Nat, arrived : Nat, acked : Nat]
    /\ out.acked <= out.asked
    /\ out.stream # "failed" => out.acked <= out.arrived

ConnInv == ReadInv(conn) /\ WriteInv

LEMMA ConnStarts == ConnInit => ConnInv
BY ConnAssumption DEF ConnInit, ConnInv, WriteInv, ReadInv, Inside, Connection, Settled

LEMMA ReadsKeep ==
    ASSUME ReadInv(conn), ConnNext
    PROVE  ReadInv(conn')
<1>0. conn \in Connection /\ conn.cursor <= conn.len
  BY DEF ReadInv, Inside
<1>1. ASSUME NEW num_bytes \in 0..LenMax, NEW len \in 0..LenMax,
             NEW handler \in {"handle_op", "handle_indef"}, AsyncRead(num_bytes, len, handler)
      PROVE  ReadInv(conn')
  <2>1. CASE num_bytes > len \/ conn.reading \/ num_bytes = 0 \/ len = 0
    <3>1. conn' = Refused(conn, handler)
      BY <1>1, <2>1 DEF AsyncRead
    <3>2. conn.made + 1 \in Nat /\ conn.called + 1 \in Nat /\ (handler = "handle_indef") \in BOOLEAN
      BY <1>0 DEF Connection
    <3>3. conn' \in Connection
      BY <1>0, <3>1, <3>2 DEF Connection, Refused
    <3>4. /\ conn'.reading = conn.reading /\ conn'.bytes_needed = conn.bytes_needed
          /\ conn'.len = conn.len /\ conn'.cursor = conn.cursor /\ conn'.handler = conn.handler
          /\ conn'.made = conn.made + 1 /\ conn'.called = conn.called + 1
          /\ conn'.taken = conn.taken /\ conn'.told = conn.told
      BY <1>0, <3>1 DEF Connection, Refused
    <3>5. ~conn.crashed
      BY <1>1 DEF AsyncRead
    <3>6. conn.made \in Nat /\ conn.called \in Nat
      BY <1>0 DEF Connection
    <3> QED
      BY <3>3, <3>4, <3>5, <3>6 DEF ReadInv, Inside, Owed, Settled
  <2>2. CASE ~(num_bytes > len \/ conn.reading \/ num_bytes = 0 \/ len = 0)
    <3>1. conn' = Requested(conn, num_bytes, len, handler) /\ ~conn.crashed
      BY <1>1, <2>2 DEF AsyncRead
    <3>2. /\ conn' \in Connection
          /\ conn'.reading /\ conn'.bytes_needed = num_bytes /\ conn'.len = len
          /\ conn'.cursor = 0 /\ conn'.handler = handler /\ conn'.made = conn.made + 1
          /\ conn'.called = conn.called /\ conn'.taken = conn.taken /\ conn'.told = conn.told
      <4>1. IsRequest(conn', conn, num_bytes, len, handler)
        BY <1>0, <3>1, RequestedFields
      <4> QED
        BY <4>1 DEF IsRequest
    <3>3. conn.made = conn.called /\ conn.taken = conn.told /\ conn.told \in Nat
      BY <1>0, <2>2, <3>1 DEF ReadInv, Settled, Connection
    <3>4. num_bytes \in 1..len /\ 0 <= len /\ 0 < num_bytes
      BY <2>2, ConnAssumption
    <3> QED
      BY <3>2, <3>3, <3>4 DEF ReadInv, Inside, Owed
  <2> QED
    BY <2>1, <2>2
<1>2. ASSUME NEW n \in 1..FeedMax, ReadSome(n)
      PROVE  ReadInv(conn')
  <2>1. [left |-> n, c |-> conn] \in [left : Nat, c : Connection]
    BY <1>0
  <2> QED
    BY <1>2, <2>1, ReadSomeAnswers DEF ReadSome
<1>3. ASSUME NEW n \in 1..FeedMax, ReadAll(n)
      PROVE  ReadInv(conn')
  BY <1>3, FedAllAnswers DEF ReadAll
<1>4. ASSUME NEW n \in 1..FeedMax, NEW ending \in {"eof", "bad"}, ReadStream(n, ending)
      PROVE  ReadInv(conn')
  BY <1>4, FedStreamAnswers DEF ReadStream
<1>5. ASSUME FatalError
      PROVE  ReadInv(conn')
  BY <1>5, CompleteReadAnswers DEF FatalError, ReadInv
<1> QED
  BY <1>1, <1>2, <1>3, <1>4, <1>5 DEF ConnNext

LEMMA WritesKeep ==
    ASSUME WriteInv, WriteNext
    PROVE  WriteInv'
<1> DEFINE Outs == [stream : {"none", "good", "failed", "bad"}, handler : {"none", "works", "fails"},
                    vector : BOOLEAN, asked : Nat, arrived : Nat, acked : Nat]
<1>0. out \in Outs /\ out.acked <= out.asked /\ (out.stream # "failed" => out.acked <= out.arrived)
  BY DEF WriteInv
<1>1. ASSUME RegisterOstream \/ StreamFails
      PROVE  WriteInv'
  BY <1>0, <1>1 DEF WriteInv, RegisterOstream, StreamFails
<1>2. ASSUME NEW n \in Nat, NEW k \in 0..n, NEW ok \in BOOLEAN
      PROVE  /\ Wrote(n, k, ok) \in Outs
             /\ Wrote(n, k, ok).stream = out.stream
             /\ Wrote(n, k, ok).acked <= Wrote(n, k, ok).asked
             /\ out.stream # "failed" /\ (ok => k = n) =>
                   Wrote(n, k, ok).acked <= Wrote(n, k, ok).arrived
  <2> DEFINE w == Wrote(n, k, ok)
             m == IF ok THEN n ELSE 0
  <2>1. m \in Nat /\ out.asked + n \in Nat /\ out.arrived + k \in Nat /\ out.acked + m \in Nat
    BY <1>0
  <2>2. w = [out EXCEPT !.asked = @ + n, !.arrived = @ + k, !.acked = @ + m]
    BY DEF Wrote
  <2>3. m <= n /\ ((ok => k = n) => m <= k)
    OBVIOUS
  <2> HIDE DEF m
  <2>4. w \in Outs
    BY <1>0, <2>1, <2>2
  <2>5. /\ w.stream = out.stream /\ w.asked = out.asked + n /\ w.arrived = out.arrived + k
        /\ w.acked = out.acked + m
    BY <1>0, <2>2
  <2> HIDE DEF w
  <2>6. w.acked <= w.asked
    BY <1>0, <2>1, <2>3, <2>5
  <2>7. out.stream # "failed" /\ (ok => k = n) => w.acked <= w.arrived
    BY <1>0, <2>1, <2>3, <2>5
  <2> QED
    BY <2>4, <2>5, <2>6, <2>7 DEF w
<1>3. ASSUME NEW n \in Nat, NEW whole, AsyncWrite(n, whole)
      PROVE  WriteInv'
  <2>1. CASE \E k \in 0..n, ok \in BOOLEAN : out' = Wrote(n, k, ok)
                                           /\ (out.stream # "failed" => (ok => k = n))
    <3>1. PICK k \in 0..n, ok \in BOOLEAN : out' = Wrote(n, k, ok)
                                           /\ (out.stream # "failed" => (ok => k = n))
      BY <2>1
    <3>2. /\ out' \in Outs /\ out'.stream = out.stream /\ out'.acked <= out'.asked
          /\ out.stream # "failed" => out'.acked <= out'.arrived
      BY <1>2, <3>1
    <3> QED
      BY <3>2 DEF WriteInv
  <2>2. CASE \E k \in 0..n - 1 : out' = [Wrote(n, k, FALSE) EXCEPT !.stream = "bad"]
                                /\ out.stream = "good"
    <3>1. PICK k \in 0..n - 1 : out' = [Wrote(n, k, FALSE) EXCEPT !.stream = "bad"]
                                 /\ out.stream = "good"
      BY <2>2
    <3> DEFINE w == Wrote(n, k, FALSE)
    <3>2. w \in Outs /\ w.acked <= w.asked /\ w.acked <= w.arrived
      <4>1. k \in 0..n /\ FALSE \in BOOLEAN /\ out.stream # "failed"
        BY <3>1
      <4> QED
        BY <1>2, <4>1
    <3> HIDE DEF w
    <3>3. out' = [w EXCEPT !.stream = "bad"]
      BY <3>1 DEF w
    <3> QED
      BY <3>2, <3>3 DEF WriteInv
  <2>3. n \in 0..n /\ 0 \in 0..n /\ \A k \in 0..n - 1 : k \in 0..n
    OBVIOUS
  <2>4. CASE ToStream(n)
    BY <2>1, <2>2, <2>3, <2>4 DEF ToStream
  <2>5. CASE out.stream = "none" /\ ToHandler(n, whole)
    BY <2>1, <2>3, <2>5 DEF ToHandler
  <2> QED
    BY <1>3, <2>4, <2>5 DEF AsyncWrite
<1>4. 1 \in Nat /\ \A n \in 1..Requests : n \in Nat
  OBVIOUS
<1> QED
  BY <1>1, <1>3, <1>4, ConnAssumption DEF WriteNext

LEMMA ConnInvariant == ConnSpec => []ConnInv
<1>1. ASSUME ConnInv, [(ConnNext /\ UNCHANGED out) \/ WriteNext]_connVars
      PROVE  ConnInv'
  <2>1. CASE ConnNext /\ UNCHANGED out
    BY <1>1, <2>1, ReadsKeep DEF ConnInv, WriteInv
  <2>2. CASE WriteNext
    <3>1. UNCHANGED conn
      BY <2>2 DEF WriteNext, RegisterOstream, StreamFails, AsyncWrite
    <3> QED
      BY <1>1, <2>2, <3>1, WritesKeep DEF ConnInv
  <2>3. CASE UNCHANGED connVars
    BY <1>1, <2>3 DEF ConnInv, WriteInv, connVars
  <2> QED
    BY <1>1, <2>1, <2>2, <2>3
<1> QED
  BY <1>1, ConnStarts, PTL DEF ConnSpec

(* For any sizes of requests and feeds, every request is answered once, by *)
(* its own handler, also in the middle of a feed; the handlers are told of *)
(* every character; what a writer was told is written has arrived, but for *)
(* a stream that had failed.                                               *)
THEOREM EveryRequestIsAnswered == ConnSpec => []RequestsAreAnswered
<1>1. ConnInv => RequestsAreAnswered
  <2> SUFFICES ASSUME ConnInv PROVE RequestsAreAnswered
    OBVIOUS
  <2>1. ConnTypeOK
    BY ConnAssumption DEF ConnInv, ReadInv, Inside, Connection, WriteInv, ConnTypeOK
  <2>2. ASSUME ~conn.crashed
        PROVE  /\ conn.made = conn.called + IF conn.reading THEN 1 ELSE 0
               /\ conn.taken = conn.told + IF conn.reading THEN conn.cursor ELSE 0
    BY <2>2 DEF ConnInv, ReadInv, Inside, Connection, Owed, Settled
  <2> QED
    BY <2>1, <2>2 DEF ConnInv, WriteInv, RequestsAreAnswered
<1> QED
  BY <1>1, ConnInvariant, PTL

-----------------------------------------------------------------------------
(* The message format.                                                     *)

(* Where the fields are, each behind its length, and the stop behind them. *)
LaidOut(at) ==
    LET n == Len(fields)
    IN /\ at \in [1..n + 1 -> Nat] /\ at[1] = 2
       /\ \A k \in 1..n :
             /\ at[k + 1] = at[k] + 2 + fields[k]
             /\ cmsg.msg[at[k]] = Length(fields[k])[1]
             /\ \A j \in 1..fields[k] : cmsg.msg[at[k] + 1 + j] = Field(k, fields[k])[j]
       /\ cmsg.msg_pos = at[n + 1] + (IF cmsg.ended THEN 2 ELSE 0)
       /\ cmsg.ended => cmsg.msg[at[n + 1]] = Length(0)[1]
       /\ 0..cmsg.msg_pos - 1 \subseteq DOMAIN cmsg.msg

CmsgShape ==
    cmsg \in [msg_pos : 0..ShortMod - 1, buf_len : 0..ShortMod - 1, size : Nat,
              msg : {cmsg.msg}, ended : BOOLEAN]

(* The inductive invariant: what is known of the buffer's length is there, *)
(* and until the counter wraps the message is laid out.                    *)
CmsgInv ==
    /\ CmsgTypeOK /\ CmsgShape
    /\ beyond <= 2 /\ cmsg.buf_len <= cmsg.size
    /\ ~wrapped => \E at : LaidOut(at)

(* A remainder.                                                            *)
LEMMA Wraps ==
    ASSUME NEW x \in Nat, NEW m \in Nat, m > 0
    PROVE  x % m \in 0..m - 1 /\ x % m <= x /\ (x < m => x % m = x)
OBVIOUS

(* A length has two bytes, a field as many as its length says.             *)
LEMMA Lengths ==
    ASSUME NEW k \in Nat, NEW n \in Nat
    PROVE  /\ Len(Length(n)) = 2 /\ Length(n)[1] = <<"length", n>> /\ Length(n)[1][2] = n
           /\ Len(Field(k, n)) = n
           /\ \A j \in 1..n : Field(k, n)[j] = <<"data", k>>
<1>1. Len(Length(n)) = 2 /\ Length(n)[1] = <<"length", n>>
  BY DEF Length
<1>2. DOMAIN Field(k, n) = 1..n /\ \A j \in 1..n : Field(k, n)[j] = <<"data", k>>
  BY DEF Field
<1>3. Len(Field(k, n)) = n
  <2> DEFINE d == <<"data", k>>
  <2>1. Field(k, n) = [j \in 1..n |-> d]
    BY DEF Field
  <2> HIDE DEF d
  <2> QED
    BY <2>1
<1>4. Length(n)[1][2] = n
  BY <1>1
<1> QED
  BY <1>1, <1>2, <1>3, <1>4

(* What is written is there, and what is before it is as it was.          *)
Puts(new, mem, pos, bytes) ==
    /\ DOMAIN new = DOMAIN mem \cup (pos..pos + Len(bytes) - 1)
    /\ \A p \in pos..pos + Len(bytes) - 1 : new[p] = bytes[p - pos + 1]
    /\ \A p \in DOMAIN mem : p < pos => new[p] = mem[p]

LEMMA WrittenIsThere ==
    ASSUME NEW mem, NEW pos \in Nat, NEW bytes, Len(bytes) \in Nat
    PROVE  Puts(Written(mem, pos, bytes), mem, pos, bytes)
<1>1. ASSUME NEW p \in DOMAIN mem, p < pos
      PROVE  p \notin pos..pos + Len(bytes) - 1
  BY <1>1
<1> QED
  BY <1>1 DEF Written, Puts

(* The buffer that push_cmsg makes has room for the field.                 *)
LEMMA RoomIsEnough ==
    ASSUME CmsgTypeOK, cmsg.buf_len <= cmsg.size, NEW len \in Nat
    PROVE  /\ Room(len) \in Nat /\ Room(len) >= len + cmsg.msg_pos
           /\ len + cmsg.msg_pos <= cmsg.buf_len => Room(len) = cmsg.size
<1> DEFINE need == len + cmsg.msg_pos
           cap(k) == cmsg.buf_len + k * MAX_CMSG_BUF_SIZE
           Enough(k) == cap(k) >= need /\ cmsg.buf_len + (k - 1) * MAX_CMSG_BUF_SIZE < need
<1>0. /\ need \in Nat /\ cmsg.buf_len \in Nat /\ cmsg.size \in Nat
      /\ MAX_CMSG_BUF_SIZE \in Nat /\ MAX_CMSG_BUF_SIZE >= 2
  BY MessageTypeAssumption DEF CmsgTypeOK
<1>1. CASE need <= cmsg.buf_len
  BY <1>0, <1>1 DEF Room
<1>2. CASE need > cmsg.buf_len
  <2>1. cap(0) = cmsg.buf_len /\ \A k \in Nat : cap(k) \in Nat /\ cap(k + 1) >= cap(k) + 1
    BY <1>0
  <2>2. \A k \in Nat : k > 0 => (Enough(k) <=> cap(k) >= need /\ cap(k - 1) < need)
    BY <1>0
  <2> HIDE DEF cap, Enough, need
  <2>3. \E k \in 1..need : Enough(k)
    <3> SUFFICES ASSUME \A k \in 1..need : ~Enough(k) PROVE FALSE
      OBVIOUS
    <3> DEFINE S == {k \in Nat : k <= need => cap(k) < need /\ k <= cap(k)}
    <3>1. 0 \in S
      BY <1>0, <1>2, <2>1
    <3>2. ASSUME NEW k \in Nat, k \in S
          PROVE  k + 1 \in S
      <4> SUFFICES ASSUME k + 1 <= need PROVE cap(k + 1) < need /\ k + 1 <= cap(k + 1)
        OBVIOUS
      <4>1. cap(k) < need /\ k <= cap(k) /\ k + 1 \in 1..need /\ k + 1 - 1 = k
        BY <1>0, <3>2
      <4>2. ~Enough(k + 1)
        BY <4>1
      <4> QED
        BY <1>0, <2>1, <2>2, <4>1, <4>2
    <3>3. Nat \subseteq S
      BY <3>1, <3>2, NaturalsWithZeroAndNext
    <3> QED
      BY <1>0, <2>1, <3>3
  <2>4. Room(len) = LET steps == CHOOSE k \in 1..need : Enough(k) IN cap(steps)
    BY <1>0, <1>2 DEF Room, need, Enough, cap
  <2>5. PICK k \in 1..need : Enough(k) /\ Room(len) = cap(k)
    BY <2>3, <2>4
  <2>6. cap(k) \in Nat /\ cap(k) >= need
    BY <1>0, <2>1, <2>2, <2>5
  <2> QED
    BY <1>0, <1>2, <2>5, <2>6 DEF need
<1> QED
  BY <1>0, <1>1, <1>2

(* No field goes beyond the place where the last one ends.                 *)
LEMMA PlacesAscend ==
    ASSUME NEW n \in Nat, NEW at \in [1..n + 1 -> Nat], NEW lens,
           \A k \in 1..n : lens[k] \in Nat /\ at[k + 1] = at[k] + 2 + lens[k]
    PROVE  \A k \in 1..n + 1 :
               at[k] <= at[n + 1] /\ (k <= n => at[k] + 2 + lens[k] <= at[n + 1])
<1> DEFINE pos == at[n + 1]
           S == {i \in Nat : i <= n => at[n + 1 - i] <= pos}
<1>0. pos \in Nat
  OBVIOUS
<1>1. 0 \in S
  BY <1>0
<1>2. ASSUME NEW i \in Nat, i \in S
      PROVE  i + 1 \in S
  <2> SUFFICES ASSUME i + 1 <= n PROVE at[n + 1 - (i + 1)] <= pos
    OBVIOUS
  <2>1. n - i \in 1..n /\ n + 1 - i = (n - i) + 1 /\ n + 1 - (i + 1) = n - i /\ i <= n
    OBVIOUS
  <2>2. at[n - i] \in Nat /\ lens[n - i] \in Nat
    BY <2>1
  <2>3. at[(n - i) + 1] = at[n - i] + 2 + lens[n - i] /\ at[(n - i) + 1] <= pos
    BY <1>2, <2>1
  <2> QED
    BY <1>0, <2>1, <2>2, <2>3
<1>3. Nat \subseteq S
  BY <1>1, <1>2, NaturalsWithZeroAndNext
<1>4. ASSUME NEW k \in 1..n + 1
      PROVE  at[k] <= pos
  <2>1. n + 1 - k \in Nat /\ n + 1 - k <= n /\ n + 1 - (n + 1 - k) = k
    OBVIOUS
  <2>2. n + 1 - k \in S
    BY <1>3, <2>1
  <2> QED
    BY <2>1, <2>2
<1>5. ASSUME NEW k \in 1..n
      PROVE  at[k] + 2 + lens[k] <= pos
  <2>1. k + 1 \in 1..n + 1
    OBVIOUS
  <2> QED
    BY <1>4, <2>1
<1>6. \A k \in 1..n + 1 : k <= n => k \in 1..n
  OBVIOUS
<1> QED
  BY <1>4, <1>5, <1>6

(* The field that is pushed comes behind the others.                       *)
LEMMA PushedIsLaidOut ==
    ASSUME CmsgInv, NEW len \in 0..FieldMax, PushCmsg(len), ~wrapped'
    PROVE  \E at : LaidOut(at)'
<1> DEFINE n == Len(fields)
           pos == cmsg.msg_pos
<1>0. /\ pos \in Nat /\ len \in Nat /\ ShortMod \in Nat /\ pos + 2 + len < ShortMod /\ ~wrapped
      /\ n \in Nat /\ ShortMod > 0 /\ ~cmsg.ended
      /\ Len(fields') = n + 1 /\ fields'[n + 1] = len
      /\ \A k \in 1..n : fields'[k] = fields[k] /\ fields[k] \in Nat
  <2>1. /\ pos \in Nat /\ len \in Nat /\ ShortMod \in Nat /\ ShortMod > 0 /\ FieldMax \in Nat
        /\ fields \in Seq(0..FieldMax) /\ n \in Nat
    BY MessageTypeAssumption DEF CmsgInv, CmsgTypeOK
  <2>2. fields' = Append(fields, len) /\ ~cmsg.ended
        /\ (wrapped' <=> wrapped \/ pos + 2 + len >= ShortMod)
    BY DEF PushCmsg
  <2>3. ~wrapped /\ ~(pos + 2 + len >= ShortMod)
    BY <2>2
  <2>4. /\ Len(fields') = n + 1 /\ fields'[n + 1] = len
        /\ \A k \in 1..n : fields'[k] = fields[k] /\ fields[k] \in Nat
    BY <2>1, <2>2
  <2> QED
    BY <2>1, <2>2, <2>3, <2>4
<1>1. (pos + 2) % ShortMod = pos + 2 /\ (pos + 2 + len) % ShortMod = pos + 2 + len
  <2>1. pos + 2 \in Nat /\ pos + 2 + len \in Nat /\ pos + 2 < ShortMod
    BY <1>0
  <2> QED
    BY <1>0, <2>1, Wraps
<1> DEFINE first == Written(cmsg.msg, pos, Length(len))
           second == Written(first, pos + 2, Field(n + 1, len))
<1>2. cmsg'.msg = second /\ cmsg'.msg_pos = pos + 2 + len /\ cmsg'.ended = cmsg.ended
  <2>1. cmsg \in [msg_pos : 0..ShortMod - 1, buf_len : 0..ShortMod - 1, size : Nat,
                  msg : {cmsg.msg}, ended : BOOLEAN]
    BY DEF CmsgInv, CmsgShape
  <2> QED
    BY <1>0, <1>1, <2>1 DEF PushCmsg
<1>3. PICK at : LaidOut(at)
  BY <1>0 DEF CmsgInv
<1>4. /\ at \in [1..n + 1 -> Nat] /\ at[1] = 2 /\ pos = at[n + 1]
      /\ \A k \in 1..n : at[k + 1] = at[k] + 2 + fields[k]
  <2>1. pos = at[n + 1] + 0 /\ at[n + 1] \in Nat
    BY <1>0, <1>3 DEF LaidOut
  <2> QED
    BY <1>3, <2>1 DEF LaidOut
<1>5. \A k \in 1..n : /\ cmsg.msg[at[k]] = Length(fields[k])[1]
                       /\ \A j \in 1..fields[k] : cmsg.msg[at[k] + 1 + j] = Field(k, fields[k])[j]
  BY <1>3 DEF LaidOut
<1>6. 0..pos - 1 \subseteq DOMAIN cmsg.msg
  BY <1>3 DEF LaidOut
<1>7. Len(Length(len)) = 2 /\ Len(Field(n + 1, len)) = len
  BY <1>0, Lengths
<1>8. pos \in Nat /\ len \in Nat /\ n \in Nat
  BY <1>0
<1> DEFINE msg == cmsg.msg
<1> HIDE DEF n, pos, msg
<1>9. /\ DOMAIN first = DOMAIN msg \cup (pos..pos + 1)
      /\ first[pos] = Length(len)[1]
      /\ \A p \in DOMAIN msg : p < pos => first[p] = msg[p]
  <2> DEFINE bytes == Length(len)
  <2> HIDE DEF bytes
  <2>0. Len(bytes) = 2 /\ Len(bytes) \in Nat
    BY <1>7 DEF bytes
  <2>1. Puts(first, msg, pos, bytes)
    BY <1>8, <2>0, WrittenIsThere DEF first, msg, bytes
  <2> HIDE DEF first
  <2>2. pos + 2 - 1 = pos + 1 /\ pos - pos + 1 = 1 /\ pos \in pos..pos + 1
    BY <1>8
  <2>4. bytes[1] = Length(len)[1]
    BY DEF bytes
  <2> QED
    BY <2>0, <2>1, <2>2, <2>4 DEF Puts
<1> HIDE DEF first
<1>10. Puts(second, first, pos + 2, Field(n + 1, len))
  <2>1. Len(Field(n + 1, len)) \in Nat /\ pos + 2 \in Nat
    BY <1>7, <1>8
  <2> QED
    BY <2>1, WrittenIsThere
<1> HIDE DEF second
<1>11. /\ DOMAIN second = DOMAIN first \cup (pos + 2..pos + 2 + len - 1)
       /\ \A p \in DOMAIN first : p < pos + 2 => second[p] = first[p]
  BY <1>7, <1>10 DEF Puts
<1>12. \A j \in 1..len : second[pos + 2 + j - 1] = Field(n + 1, len)[j]
  <2> DEFINE bytes == Field(n + 1, len)
  <2>1. Len(bytes) = len /\ Puts(second, first, pos + 2, bytes)
    BY <1>7, <1>10
  <2> HIDE DEF bytes
  <2>2. ASSUME NEW j \in 1..len
        PROVE  second[pos + 2 + j - 1] = bytes[j]
    <3> DEFINE p == pos + 2 + j - 1
    <3>1. p \in pos + 2..pos + 2 + Len(bytes) - 1 /\ p - (pos + 2) + 1 = j
      BY <1>8, <2>1
    <3> HIDE DEF p
    <3>2. second[p] = bytes[p - (pos + 2) + 1]
      BY <2>1, <3>1 DEF Puts
    <3> QED
      BY <3>1, <3>2 DEF p
  <2> QED
    BY <2>2 DEF bytes
<1>13. 0..pos - 1 \subseteq DOMAIN msg
  BY <1>6 DEF msg
<1>14. /\ \A p \in 0..pos - 1 : second[p] = msg[p]
      /\ second[pos] = Length(len)[1]
      /\ \A j \in 1..len : second[pos + 1 + j] = Field(n + 1, len)[j]
  <2>1. ASSUME NEW p \in 0..pos - 1
        PROVE  second[p] = msg[p]
    <3>1. p \in DOMAIN msg /\ p < pos /\ p < pos + 2
      BY <1>8, <1>13
    <3>2. p \in DOMAIN first /\ first[p] = msg[p]
      BY <1>9, <3>1
    <3>3. second[p] = first[p]
      BY <1>11, <3>1, <3>2
    <3> QED
      BY <3>2, <3>3
  <2>2. second[pos] = Length(len)[1]
    <3>1. pos \in pos..pos + 1 /\ pos < pos + 2
      BY <1>8
    <3>2. pos \in DOMAIN first /\ first[pos] = Length(len)[1]
      BY <1>9, <3>1
    <3>3. second[pos] = first[pos]
      BY <1>11, <3>1, <3>2
    <3> QED
      BY <3>2, <3>3
  <2>3. ASSUME NEW j \in 1..len
        PROVE  second[pos + 1 + j] = Field(n + 1, len)[j]
    <3>1. pos + 2 + j - 1 = pos + 1 + j
      BY <1>8
    <3> QED
      BY <1>12, <3>1
  <2> QED
    BY <2>1, <2>2, <2>3
<1>15. 0..pos + 2 + len - 1 \subseteq DOMAIN second
  <2>1. ASSUME NEW p \in 0..pos + 2 + len - 1
        PROVE  p \in DOMAIN second
    <3>1. p \in 0..pos - 1 \/ p \in pos..pos + 1 \/ p \in pos + 2..pos + 2 + len - 1
      BY <1>8
    <3> QED
      BY <1>9, <1>11, <1>13, <3>1
  <2> QED
    BY <2>1
<1>16. \A k \in 1..n + 1 : at[k] <= pos /\ (k <= n => at[k] + 2 + fields[k] <= pos)
  BY <1>0, <1>4, <1>8, PlacesAscend
<1>17. PICK at2 \in [1..n + 2 -> Nat] :
           at2[1] = 2 /\ at2[n + 2] = pos + 2 + len /\ \A k \in 1..n + 1 : at2[k] = at[k]
  <2> DEFINE further == [k \in 1..n + 2 |-> IF k = n + 2 THEN pos + 2 + len ELSE at[k]]
  <2>1. /\ further \in [1..n + 2 -> Nat] /\ further[1] = 2 /\ further[n + 2] = pos + 2 + len
        /\ \A k \in 1..n + 1 : further[k] = at[k]
    BY <1>4, <1>8
  <2> HIDE DEF further
  <2> QED
    BY <2>1
<1>18. ASSUME NEW k \in 1..n + 1
       PROVE  /\ at2[k + 1] = at2[k] + 2 + fields'[k]
              /\ second[at2[k]] = Length(fields'[k])[1]
              /\ \A j \in 1..fields'[k] : second[at2[k] + 1 + j] = Field(k, fields'[k])[j]
  <2>1. CASE k = n + 1
    <3>1. at2[k + 1] = pos + 2 + len /\ at2[k] = pos /\ fields'[k] = len
      BY <1>0, <1>4, <1>17, <1>8, <2>1
    <3> QED
      BY <1>14, <2>1, <3>1
  <2>2. CASE k \in 1..n
    <3>1. /\ k + 1 \in 1..n + 1 /\ at2[k] = at[k] /\ at2[k + 1] = at[k + 1] /\ at[k] \in Nat
          /\ at[k] + 2 + fields[k] <= pos /\ at[k + 1] = at[k] + 2 + fields[k]
      BY <1>4, <1>16, <1>17, <1>8, <2>2
    <3>2. fields'[k] = fields[k] /\ fields[k] \in Nat
      BY <1>0, <2>2
    <3>3. at[k] \in 0..pos - 1 /\ \A j \in 1..fields[k] : at[k] + 1 + j \in 0..pos - 1
      <4> DEFINE a == at[k]
                 f == fields[k]
      <4>1. a \in Nat /\ f \in Nat /\ a + 2 + f <= pos
        BY <3>1, <3>2
      <4> HIDE DEF a, f
      <4>2. a \in 0..pos - 1 /\ \A j \in 1..f : a + 1 + j \in 0..pos - 1
        BY <1>8, <4>1
      <4> QED
        BY <4>2 DEF a, f
    <3>4. second[at[k]] = msg[at[k]]
          /\ \A j \in 1..fields[k] : second[at[k] + 1 + j] = msg[at[k] + 1 + j]
      BY <1>14, <3>3
    <3>5. /\ msg[at[k]] = Length(fields[k])[1]
          /\ \A j \in 1..fields[k] : msg[at[k] + 1 + j] = Field(k, fields[k])[j]
      BY <1>5, <2>2 DEF msg
    <3> QED
      BY <3>1, <3>2, <3>4, <3>5
  <2> QED
    BY <1>8, <2>1, <2>2
<1>19. LaidOut(at2)'
  <2>1. n + 1 + 1 = n + 2 /\ (pos + 2 + len) + 0 = pos + 2 + len
    BY <1>8
  <2>2. Len(fields') = n + 1 /\ ~cmsg'.ended
    BY <1>0, <1>2
  <2>3. cmsg'.msg = second /\ cmsg'.msg_pos = pos + 2 + len
    BY <1>2
  <2>4. at2 \in [1..n + 1 + 1 -> Nat] /\ at2[1] = 2 /\ at2[n + 1 + 1] + 0 = pos + 2 + len
    BY <1>17, <2>1
  <2>5. (IF cmsg'.ended THEN 2 ELSE 0) = 0
    BY <2>2
  <2>6. cmsg'.msg_pos = at2[n + 1 + 1] + (IF cmsg'.ended THEN 2 ELSE 0)
    BY <2>3, <2>4, <2>5
  <2>7. 0..cmsg'.msg_pos - 1 \subseteq DOMAIN cmsg'.msg
    <3> DEFINE end == pos + 2 + len
    <3>0. end - 1 = pos + 2 + len - 1
      BY <1>8
    <3>1. 0..end - 1 \subseteq DOMAIN second
      BY <1>15, <3>0
    <3>2. cmsg'.msg = second /\ cmsg'.msg_pos = end
      BY <2>3
    <3> HIDE DEF end
    <3> QED
      BY <3>1, <3>2, Zenon
  <2>8. \A k \in 1..n + 1 :
            /\ at2[k + 1] = at2[k] + 2 + fields'[k]
            /\ cmsg'.msg[at2[k]] = Length(fields'[k])[1]
            /\ \A j \in 1..fields'[k] : cmsg'.msg[at2[k] + 1 + j] = Field(k, fields'[k])[j]
    BY <1>18, <2>3
  <2> DEFINE m == Len(fields')
  <2>9. m = n + 1
    BY <2>2
  <2> HIDE DEF m
  <2>10. /\ at2 \in [1..m + 1 -> Nat] /\ at2[1] = 2
         /\ \A k \in 1..m :
            /\ at2[k + 1] = at2[k] + 2 + fields'[k]
            /\ cmsg'.msg[at2[k]] = Length(fields'[k])[1]
            /\ \A j \in 1..fields'[k] : cmsg'.msg[at2[k] + 1 + j] = Field(k, fields'[k])[j]
         /\ cmsg'.msg_pos = at2[m + 1] + (IF cmsg'.ended THEN 2 ELSE 0)
    BY <2>4, <2>6, <2>8, <2>9, Zenon
  <2>11. ~cmsg'.ended
    BY <2>2
  <2> QED
    BY <2>7, <2>10, <2>11, Zenon DEF LaidOut, m
<1> QED
  BY <1>19

(* The stop comes behind the fields.                                       *)
LEMMA EndedIsLaidOut ==
    ASSUME CmsgInv, EndCmsg, ~wrapped'
    PROVE  \E at : LaidOut(at)'
<1> DEFINE n == Len(fields)
           pos == cmsg.msg_pos
           msg == cmsg.msg
           new == Written(msg, pos, Length(0))
<1>0. /\ pos \in Nat /\ ShortMod \in Nat /\ pos + 2 < ShortMod /\ ~wrapped
      /\ n \in Nat /\ ShortMod > 0 /\ ~cmsg.ended /\ fields' = fields
      /\ \A k \in 1..n : fields[k] \in Nat
  <2>1. /\ pos \in Nat /\ ShortMod \in Nat /\ ShortMod > 0 /\ FieldMax \in Nat
        /\ fields \in Seq(0..FieldMax) /\ n \in Nat
    BY MessageTypeAssumption DEF CmsgInv, CmsgTypeOK
  <2>2. fields' = fields /\ ~cmsg.ended /\ (wrapped' <=> wrapped \/ pos + 2 >= ShortMod)
    BY DEF EndCmsg
  <2>3. ~wrapped /\ ~(pos + 2 >= ShortMod)
    BY <2>2
  <2>4. \A k \in 1..n : fields[k] \in Nat
    BY <2>1
  <2> QED
    BY <2>1, <2>2, <2>3, <2>4
<1>1. (pos + 2) % ShortMod = pos + 2
  <2>1. pos + 2 \in Nat
    BY <1>0
  <2> QED
    BY <1>0, <2>1, Wraps
<1>2. cmsg'.msg = new /\ cmsg'.msg_pos = pos + 2 /\ cmsg'.ended = TRUE
  <2>1. cmsg \in [msg_pos : 0..ShortMod - 1, buf_len : 0..ShortMod - 1, size : Nat,
                  msg : {cmsg.msg}, ended : BOOLEAN]
    BY DEF CmsgInv, CmsgShape
  <2> QED
    BY <1>0, <1>1, <2>1 DEF EndCmsg
<1>3. PICK at : LaidOut(at)
  BY <1>0 DEF CmsgInv
<1>4. /\ at \in [1..n + 1 -> Nat] /\ at[1] = 2 /\ pos = at[n + 1]
      /\ \A k \in 1..n : at[k + 1] = at[k] + 2 + fields[k]
  <2>1. pos = at[n + 1] + 0 /\ at[n + 1] \in Nat
    BY <1>0, <1>3 DEF LaidOut
  <2> QED
    BY <1>3, <2>1 DEF LaidOut
<1>5. /\ \A k \in 1..n : /\ msg[at[k]] = Length(fields[k])[1]
                            /\ \A j \in 1..fields[k] : msg[at[k] + 1 + j] = Field(k, fields[k])[j]
      /\ 0..pos - 1 \subseteq DOMAIN msg
  BY <1>3 DEF LaidOut
<1>6. \A k \in 1..n + 1 : at[k] <= pos /\ (k <= n => at[k] + 2 + fields[k] <= pos)
  BY <1>0, <1>4, PlacesAscend
<1>7. pos \in Nat /\ n \in Nat
  BY <1>0
<1>8. Puts(new, msg, pos, Length(0)) /\ Len(Length(0)) = 2
  <2>1. Len(Length(0)) = 2 /\ Len(Length(0)) \in Nat
    BY Lengths
  <2> QED
    BY <1>7, <2>1, WrittenIsThere
<1> HIDE DEF n, pos, msg, new
<1>9. /\ \A p \in 0..pos - 1 : new[p] = msg[p]
      /\ new[pos] = Length(0)[1]
      /\ 0..(pos + 2) - 1 \subseteq DOMAIN new
  <2>1. ASSUME NEW p \in 0..pos - 1
        PROVE  new[p] = msg[p]
    <3>1. p \in DOMAIN msg /\ p < pos
      BY <1>5, <1>7
    <3> QED
      BY <1>8, <3>1 DEF Puts
  <2>2. new[pos] = Length(0)[1]
    <3>1. pos \in pos..pos + 2 - 1 /\ pos - pos + 1 = 1
      BY <1>7
    <3> QED
      BY <1>8, <3>1 DEF Puts
  <2>3. ASSUME NEW p \in 0..(pos + 2) - 1
        PROVE  p \in DOMAIN new
    <3>1. p \in 0..pos - 1 \/ p \in pos..pos + 2 - 1
      BY <1>7
    <3> QED
      BY <1>5, <1>8, <3>1 DEF Puts
  <2> QED
    BY <2>1, <2>2, <2>3
<1>10. ASSUME NEW k \in 1..n
       PROVE  /\ new[at[k]] = Length(fields[k])[1]
              /\ \A j \in 1..fields[k] : new[at[k] + 1 + j] = Field(k, fields[k])[j]
  <2> DEFINE a == at[k]
             f == fields[k]
  <2>1. a \in Nat /\ f \in Nat /\ a + 2 + f <= pos
    BY <1>0, <1>4, <1>6, <1>7
  <2> HIDE DEF a, f
  <2>2. a \in 0..pos - 1 /\ \A j \in 1..f : a + 1 + j \in 0..pos - 1
    BY <1>7, <2>1
  <2> QED
    BY <1>5, <1>9, <2>2 DEF a, f
<1>11. LaidOut(at)'
  <2> DEFINE m == Len(fields')
  <2>1. m = n /\ fields' = fields
    BY <1>0 DEF n
  <2> HIDE DEF m
  <2>2. (IF cmsg'.ended THEN 2 ELSE 0) = 2
    BY <1>2
  <2>3. /\ at \in [1..m + 1 -> Nat] /\ at[1] = 2
        /\ \A k \in 1..m :
            /\ at[k + 1] = at[k] + 2 + fields'[k]
            /\ cmsg'.msg[at[k]] = Length(fields'[k])[1]
            /\ \A j \in 1..fields'[k] : cmsg'.msg[at[k] + 1 + j] = Field(k, fields'[k])[j]
    BY <1>2, <1>4, <1>10, <2>1
  <2>4. cmsg'.msg_pos = at[m + 1] + (IF cmsg'.ended THEN 2 ELSE 0)
    BY <1>2, <1>4, <2>1, <2>2
  <2>5. cmsg'.msg[at[m + 1]] = Length(0)[1]
    BY <1>2, <1>4, <1>9, <2>1
  <2>6. 0..cmsg'.msg_pos - 1 \subseteq DOMAIN cmsg'.msg
    BY <1>2, <1>9
  <2> QED
    BY <2>3, <2>4, <2>5, <2>6, Zenon DEF LaidOut, m
<1> QED
  BY <1>11

LEMMA CmsgStarts == CmsgInit => CmsgInv
<1> SUFFICES ASSUME CmsgInit PROVE CmsgInv
  OBVIOUS
<1> DEFINE first == [p \in 0..1 |-> <<"type", p>>]
<1>1. DOMAIN first = 0..1
  OBVIOUS
<1>2. cmsg = [msg_pos |-> 2, buf_len |-> MAX_CMSG_BUF_SIZE, size |-> MAX_CMSG_BUF_SIZE,
              msg |-> first, ended |-> FALSE]
      /\ fields = <<>> /\ wrapped = FALSE /\ beyond = 0
  BY DEF CmsgInit
<1> HIDE DEF first
<1>3. CmsgTypeOK /\ CmsgShape /\ beyond <= 2 /\ cmsg.buf_len <= cmsg.size
  <2>0. 2 \in 0..ShortMod - 1 /\ MAX_CMSG_BUF_SIZE \in 0..ShortMod - 1 /\ MAX_CMSG_BUF_SIZE \in Nat
        /\ FieldMax \in Nat
    BY MessageTypeAssumption
  <2>1. /\ cmsg.msg_pos = 2 /\ cmsg.buf_len = MAX_CMSG_BUF_SIZE /\ cmsg.size = MAX_CMSG_BUF_SIZE
        /\ cmsg.msg = first /\ cmsg.ended = FALSE
    BY <1>2
  <2>2. CmsgShape
    BY <1>2, <2>0, <2>1 DEF CmsgShape
  <2>3. fields \in Seq(0..FieldMax) /\ DOMAIN cmsg.msg \subseteq Nat
    BY <1>1, <1>2, <2>1
  <2>4. CmsgTypeOK
    BY <1>2, <2>0, <2>1, <2>3 DEF CmsgTypeOK
  <2> QED
    BY <1>2, <2>0, <2>1, <2>2, <2>4
<1>4. LaidOut([k \in 1..1 |-> 2])
  <2>1. Len(fields) = 0 /\ 1..Len(fields) = {} /\ Len(fields) + 1 = 1
    BY <1>2
  <2>2. cmsg.msg_pos = 2 /\ ~cmsg.ended /\ cmsg.msg = first
    BY <1>2
  <2>3. 0..cmsg.msg_pos - 1 \subseteq DOMAIN cmsg.msg
    BY <1>1, <2>2
  <2> QED
    BY <2>1, <2>2, <2>3 DEF LaidOut
<1> QED
  BY <1>3, <1>4 DEF CmsgInv

(* A step of the sender.                                                   *)
LEMMA CmsgSteps == ASSUME CmsgInv, [CmsgNext]_cmsgVars PROVE CmsgInv'
<1>0. /\ cmsg \in [msg_pos : 0..ShortMod - 1, buf_len : 0..ShortMod - 1, size : Nat,
                   msg : {cmsg.msg}, ended : BOOLEAN]
      /\ DOMAIN cmsg.msg \subseteq Nat /\ fields \in Seq(0..FieldMax) /\ wrapped \in BOOLEAN
      /\ beyond \in Nat /\ beyond <= 2 /\ cmsg.buf_len <= cmsg.size
  BY DEF CmsgInv, CmsgShape, CmsgTypeOK
<1>1. /\ ShortMod \in Nat /\ ShortMod > 0 /\ FieldMax \in Nat /\ cmsg.msg_pos \in Nat
      /\ cmsg.buf_len \in Nat /\ cmsg.size \in Nat
      /\ cmsg.buf_len \in 0..ShortMod - 1
  BY <1>0, MessageTypeAssumption
<1>2. ASSUME NEW len \in 0..FieldMax, PushCmsg(len)
      PROVE  CmsgInv'
  <2> DEFINE pos == cmsg.msg_pos
             size == Room(len)
             after == (pos + 2) % ShortMod
             end == (after + len) % ShortMod
             new == Written(Written(cmsg.msg, pos, Length(len)), after, Field(Len(fields) + 1, len))
             buf_len == IF len + pos > cmsg.buf_len THEN size % ShortMod ELSE cmsg.buf_len
             most == Greater(pos + 2, after + len)
  <2>1. /\ cmsg' = [cmsg EXCEPT !.msg = new, !.msg_pos = end, !.size = size, !.buf_len = buf_len]
        /\ fields' = Append(fields, len)
        /\ beyond' = Greater(beyond, most - size)
        /\ wrapped' = (wrapped \/ pos + 2 + len >= ShortMod)
    BY <1>2, Zenon DEF PushCmsg
  <2>2. len \in Nat /\ size \in Nat /\ size >= len + pos
        /\ (len + pos <= cmsg.buf_len => size = cmsg.size)
    BY <1>0, <1>1, RoomIsEnough DEF CmsgInv
  <2>3. after \in Nat /\ after <= pos + 2
    <3>1. pos + 2 \in Nat
      BY <1>1
    <3> QED
      BY <1>1, <3>1, Wraps
  <2> HIDE DEF size, after
  <2>4. end \in 0..ShortMod - 1
    <3>1. after + len \in Nat
      BY <2>2, <2>3
    <3> QED
      BY <1>1, <3>1, Wraps
  <2>5. buf_len \in 0..ShortMod - 1 /\ buf_len <= size
    <3>1. size % ShortMod \in 0..ShortMod - 1 /\ size % ShortMod <= size
      BY <1>1, <2>2, Wraps
    <3> QED
      BY <1>0, <1>1, <2>2, <3>1
  <2>6. DOMAIN new \subseteq Nat
    <3> DEFINE first == Written(cmsg.msg, pos, Length(len))
               bytes == Field(Len(fields) + 1, len)
    <3>1. Len(fields) + 1 \in Nat
      BY <1>0
    <3>2. Len(Length(len)) = 2 /\ Len(Length(len)) \in Nat /\ Len(bytes) = len /\ Len(bytes) \in Nat
      BY <2>2, <3>1, Lengths
    <3>3. Puts(first, cmsg.msg, pos, Length(len))
      BY <1>1, <3>2, WrittenIsThere
    <3> HIDE DEF first, bytes
    <3>4. Puts(Written(first, after, bytes), first, after, bytes)
      BY <2>3, <3>2, WrittenIsThere
    <3>5. pos..pos + Len(Length(len)) - 1 \subseteq Nat
          /\ after..after + Len(bytes) - 1 \subseteq Nat
      BY <1>1, <2>3, <3>2
    <3>6. DOMAIN first \subseteq Nat
      BY <1>0, <3>3, <3>5 DEF Puts
    <3>7. DOMAIN Written(first, after, bytes) \subseteq Nat
      BY <3>4, <3>5, <3>6 DEF Puts
    <3> QED
      BY <3>7 DEF first, bytes
  <2>7. beyond' \in Nat /\ beyond' <= 2
    <3>1. most \in Nat /\ most <= len + pos + 2
      BY <1>1, <2>2, <2>3 DEF Greater
    <3> HIDE DEF most
    <3>2. most - size <= 2 /\ most - size \in Int
      BY <1>1, <2>2, <3>1
    <3> QED
      BY <1>0, <2>1, <3>2 DEF Greater
  <2> HIDE DEF new, end, buf_len
  <2>8. cmsg' \in [msg_pos : 0..ShortMod - 1, buf_len : 0..ShortMod - 1, size : Nat,
                   msg : {new}, ended : BOOLEAN]
        /\ cmsg'.msg = new /\ cmsg'.buf_len = buf_len /\ cmsg'.size = size
    BY <1>0, <2>1, <2>2, <2>4, <2>5
  <2>9. fields' \in Seq(0..FieldMax)
    BY <1>0, <2>1
  <2>10. wrapped' \in BOOLEAN
    BY <2>1, Zenon
  <2>11. ~wrapped' => \E at : LaidOut(at)'
    BY <1>2, PushedIsLaidOut
  <2>12. CmsgShape'
    BY <2>8 DEF CmsgShape
  <2>13. CmsgTypeOK'
    BY <2>6, <2>7, <2>8, <2>9, <2>10 DEF CmsgTypeOK
  <2> QED
    BY <2>5, <2>7, <2>8, <2>11, <2>12, <2>13 DEF CmsgInv
<1>3. ASSUME EndCmsg
      PROVE  CmsgInv'
  <2> DEFINE pos == cmsg.msg_pos
             size == IF 1 + pos > cmsg.buf_len THEN 1 + pos ELSE cmsg.size
             end == (pos + 2) % ShortMod
             new == Written(cmsg.msg, pos, Length(0))
             buf_len == IF 1 + pos > cmsg.buf_len THEN size % ShortMod ELSE cmsg.buf_len
  <2>1. /\ cmsg' = [cmsg EXCEPT !.msg = new, !.msg_pos = end, !.size = size, !.buf_len = buf_len,
                                !.ended = TRUE]
        /\ fields' = fields
        /\ beyond' = Greater(beyond, pos + 2 - size)
    BY <1>3 DEF EndCmsg
  <2>2. size \in Nat /\ size >= 1 + pos /\ (1 + pos <= cmsg.buf_len => size = cmsg.size)
    BY <1>0, <1>1
  <2> HIDE DEF size
  <2>4. end \in 0..ShortMod - 1
    <3>1. pos + 2 \in Nat
      BY <1>1
    <3> QED
      BY <1>1, <3>1, Wraps
  <2>5. buf_len \in 0..ShortMod - 1 /\ buf_len <= size
    <3>1. size % ShortMod \in 0..ShortMod - 1 /\ size % ShortMod <= size
      BY <1>1, <2>2, Wraps
    <3> QED
      BY <1>0, <1>1, <2>2, <3>1
  <2>6. DOMAIN new \subseteq Nat
    <3>1. Len(Length(0)) = 2 /\ Len(Length(0)) \in Nat
      BY Lengths
    <3>2. Puts(new, cmsg.msg, pos, Length(0))
      BY <1>1, <3>1, WrittenIsThere
    <3>3. pos..pos + Len(Length(0)) - 1 \subseteq Nat
      BY <1>1, <3>1
    <3> QED
      BY <1>0, <3>2, <3>3 DEF Puts
  <2>7. beyond' \in Nat /\ beyond' <= 2
    <3>1. pos + 2 - size <= 2 /\ pos + 2 - size \in Int
      BY <1>1, <2>2
    <3> QED
      BY <1>0, <2>1, <3>1 DEF Greater
  <2> HIDE DEF new, end, buf_len
  <2>8. cmsg' \in [msg_pos : 0..ShortMod - 1, buf_len : 0..ShortMod - 1, size : Nat,
                   msg : {new}, ended : BOOLEAN]
        /\ cmsg'.msg = new /\ cmsg'.buf_len = buf_len /\ cmsg'.size = size
    BY <1>0, <2>1, <2>2, <2>4, <2>5
  <2>10. wrapped' \in BOOLEAN
    BY <1>3 DEF EndCmsg
  <2>11. ~wrapped' => \E at : LaidOut(at)'
    BY <1>3, EndedIsLaidOut
  <2>12. CmsgShape'
    BY <2>8 DEF CmsgShape
  <2>13. CmsgTypeOK'
    BY <1>0, <2>1, <2>6, <2>7, <2>8, <2>10 DEF CmsgTypeOK
  <2> QED
    BY <2>5, <2>7, <2>8, <2>11, <2>12, <2>13 DEF CmsgInv
<1>4. CASE UNCHANGED cmsgVars
  BY <1>4 DEF cmsgVars, CmsgInv, CmsgTypeOK, CmsgShape, LaidOut
<1> QED
  BY <1>2, <1>3, <1>4 DEF CmsgNext

LEMMA CmsgInvariant == CmsgSpec => []CmsgInv
  BY CmsgStarts, CmsgSteps, PTL DEF CmsgSpec

(* How many fields there are before the first empty one.                   *)
LEMMA FirstEmpty ==
    ASSUME fields \in Seq(Nat)
    PROVE  LET empty == {k \in DOMAIN fields : fields[k] = 0}
               first == IF empty = {} THEN Len(fields)
                        ELSE (CHOOSE k \in empty : \A other \in empty : k <= other) - 1
           IN /\ first \in Nat /\ first <= Len(fields)
              /\ \A k \in 1..first : fields[k] # 0
              /\ first < Len(fields) => fields[first + 1] = 0
<1> DEFINE n == Len(fields)
           empty == {k \in DOMAIN fields : fields[k] = 0}
           Least(k) == \A other \in empty : k <= other
           least == CHOOSE k \in empty : Least(k)
           first == IF empty = {} THEN n ELSE least - 1
           Fine == /\ first \in Nat /\ first <= n
                   /\ \A k \in 1..first : fields[k] # 0
                   /\ first < n => fields[first + 1] = 0
<1> SUFFICES Fine
  OBVIOUS
<1>0. n \in Nat /\ DOMAIN fields = 1..n
  OBVIOUS
<1>1. CASE empty = {}
  <2>1. first = n /\ \A k \in 1..n : fields[k] # 0
    BY <1>0, <1>1
  <2> QED
    BY <1>0, <2>1
<1>2. CASE empty # {}
  <2>1. \E k \in empty : Least(k)
    <3> SUFFICES ASSUME \A k \in empty : ~Least(k) PROVE FALSE
      OBVIOUS
    <3> DEFINE S == {m \in Nat : \A k \in 1..m : k \notin empty}
    <3>1. 0 \in S
      OBVIOUS
    <3>2. ASSUME NEW m \in Nat, m \in S
          PROVE  m + 1 \in S
      <4>1. \A other \in empty : m + 1 <= other
        BY <1>0, <3>2
      <4>2. m + 1 \notin empty
        BY <4>1
      <4> QED
        BY <3>2, <4>2
    <3>3. Nat \subseteq S
      BY <3>1, <3>2, NaturalsWithZeroAndNext
    <3>4. PICK k \in empty : TRUE
      BY <1>2
    <3>5. k \in Nat /\ k \in 1..k
      BY <1>0, <3>4
    <3> QED
      BY <3>3, <3>4, <3>5
  <2>2. least \in empty /\ Least(least)
    BY <2>1
  <2> HIDE DEF least
  <2>3. least \in 1..n /\ fields[least] = 0 /\ first = least - 1
    BY <1>0, <1>2, <2>2
  <2>4. ASSUME NEW k \in 1..first
        PROVE  fields[k] # 0
    <3>1. k \in DOMAIN fields /\ ~(least <= k)
      BY <1>0, <2>3
    <3> QED
      BY <2>2, <3>1
  <2>5. first \in Nat /\ first <= n /\ first + 1 = least
    BY <1>0, <2>3
  <2> HIDE DEF first
  <2> QED
    BY <2>3, <2>4, <2>5
<1> QED
  BY <1>1, <1>2

(* What the server has at the places of the fields.                        *)
Seen(at) ==
    LET n == Len(fields)
    IN /\ n \in Nat /\ fields \in Seq(Nat) /\ cmsg.msg_pos \in Nat
       /\ at \in [1..n + 1 -> Nat] /\ at[1] = 2
       /\ \A k \in 1..n :
             /\ at[k + 1] = at[k] + 2 + fields[k] /\ at[k] < cmsg.msg_pos
             /\ At(at[k])[2] = fields[k]
             /\ \A j \in 1..fields[k] : At(at[k] + 1 + j) = Field(k, fields[k])[j]
       /\ At(at[n + 1])[2] = 0

LEMMA ServerSeesFields ==
    ASSUME CmsgInv, NEW at, LaidOut(at)
    PROVE  Seen(at)
<1> DEFINE n == Len(fields)
           pos == cmsg.msg_pos
<1>0. n \in Nat /\ fields \in Seq(Nat) /\ pos \in Nat /\ \A k \in 1..n : fields[k] \in Nat
  <2>1. fields \in Seq(0..FieldMax) /\ FieldMax \in Nat /\ ShortMod \in Nat /\ pos \in 0..ShortMod - 1
    BY MessageTypeAssumption DEF CmsgInv, CmsgTypeOK
  <2> QED
    BY <2>1
<1>1. /\ at \in [1..n + 1 -> Nat] /\ at[1] = 2
      /\ \A k \in 1..n : at[k + 1] = at[k] + 2 + fields[k]
      /\ pos = at[n + 1] + (IF cmsg.ended THEN 2 ELSE 0)
  BY DEF LaidOut
<1>2. \A k \in 1..n : /\ cmsg.msg[at[k]] = Length(fields[k])[1]
                       /\ \A j \in 1..fields[k] : cmsg.msg[at[k] + 1 + j] = Field(k, fields[k])[j]
  BY DEF LaidOut
<1>3. cmsg.ended => cmsg.msg[at[n + 1]] = Length(0)[1]
  BY DEF LaidOut
<1>4. at[n + 1] \in Nat /\ at[n + 1] <= pos
  BY <1>0, <1>1
<1>5. \A k \in 1..n + 1 : at[k] <= at[n + 1] /\ (k <= n => at[k] + 2 + fields[k] <= at[n + 1])
  BY <1>0, <1>1, PlacesAscend
<1>6. \A p : p < pos => At(p) = cmsg.msg[p]
  BY DEF At
<1> HIDE DEF n, pos
<1>7. ASSUME NEW k \in 1..n
      PROVE  /\ at[k] < pos /\ At(at[k])[2] = fields[k]
             /\ \A j \in 1..fields[k] : At(at[k] + 1 + j) = Field(k, fields[k])[j]
  <2> DEFINE a == at[k]
             f == fields[k]
  <2>1. a \in Nat /\ f \in Nat /\ a + 2 + f <= pos
    BY <1>0, <1>1, <1>4, <1>5
  <2>2. cmsg.msg[a] = Length(f)[1] /\ \A j \in 1..f : cmsg.msg[a + 1 + j] = Field(k, f)[j]
    BY <1>2
  <2> HIDE DEF a, f
  <2>3. a < pos /\ \A j \in 1..f : a + 1 + j < pos
    BY <1>0, <2>1
  <2>4. At(a) = Length(f)[1] /\ \A j \in 1..f : At(a + 1 + j) = Field(k, f)[j]
    BY <1>6, <2>2, <2>3
  <2>5. Length(f)[1][2] = f
    BY <1>0, <2>1, Lengths
  <2> QED
    BY <2>3, <2>4, <2>5 DEF a, f
<1>8. At(at[n + 1])[2] = 0
  <2>0. Length(0)[1][2] = 0
    BY Lengths
  <2>1. CASE cmsg.ended
    <3>1. at[n + 1] < pos
      BY <1>1, <1>4, <2>1
    <3> QED
      BY <1>3, <1>6, <2>0, <2>1, <3>1
  <2>2. CASE ~cmsg.ended
    <3>1. pos = at[n + 1] + 0
      BY <1>1, <2>2
    <3>2. ~(at[n + 1] < pos)
      BY <1>4, <3>1
    <3>3. At(at[n + 1]) = Length(0)[1]
      BY <3>2 DEF At, Length, pos
    <3> QED
      BY <2>0, <3>3
  <2> QED
    BY <2>1, <2>2
<1> QED
  BY <1>0, <1>1, <1>7, <1>8 DEF n, pos, Seen

(* Records of unpacket_message's loop.                                     *)
LEMMA RecordIs ==
    ASSUME NEW x, NEW y, NEW s, NEW e \in [length : {x}, out : {y}, stop : {s}]
    PROVE  e = [length |-> x, out |-> y, stop |-> s]
OBVIOUS

LEMMA NextRecord ==
    ASSUME NEW a, NEW o, NEW x, NEW y, NEW r, r = [length |-> a, out |-> o, stop |-> FALSE]
    PROVE  [r EXCEPT !.length = x, !.out = y] = [length |-> x, out |-> y, stop |-> FALSE]
<1> DEFINE e == [r EXCEPT !.length = x, !.out = y]
<1>1. e \in [length : {x}, out : {y}, stop : {FALSE}]
  OBVIOUS
<1> HIDE DEF e
<1>2. e = [length |-> x, out |-> y, stop |-> FALSE]
  BY <1>1, RecordIs
<1> QED
  BY <1>2 DEF e

LEMMA StoppedRecord ==
    ASSUME NEW a, NEW o, NEW s, NEW r, r = [length |-> a, out |-> o, stop |-> s]
    PROVE  [r EXCEPT !.stop = TRUE] = [length |-> a, out |-> o, stop |-> TRUE]
<1> DEFINE e == [r EXCEPT !.stop = TRUE]
<1>1. e \in [length : {a}, out : {o}, stop : {TRUE}]
  OBVIOUS
<1> HIDE DEF e
<1>2. e = [length |-> a, out |-> o, stop |-> TRUE]
  BY <1>1, RecordIs
<1> QED
  BY <1>2 DEF e

(* One turn takes the next field, or stops at an empty one or at the end.  *)
LEMMA NextFieldTakes ==
    ASSUME CmsgInv, NEW at, LaidOut(at), NEW m \in 0..Len(fields), NEW copied,
           copied = [k \in 1..m |-> Field(k, fields[k])]
    PROVE  LET acc == [length |-> at[m + 1] - 2, out |-> copied, stop |-> FALSE]
               next == NextField(acc, cmsg.msg_pos + 2)
           IN /\ m < Len(fields) /\ fields[m + 1] # 0 =>
                     next = [length |-> at[m + 2] - 2, stop |-> FALSE,
                             out |-> [k \in 1..m + 1 |-> Field(k, fields[k])]]
              /\ m = Len(fields) \/ fields[m + 1] = 0 =>
                     next = [length |-> at[m + 1] - 2, out |-> copied, stop |-> TRUE]
<1> DEFINE n == Len(fields)
           pos == cmsg.msg_pos
           acc == [length |-> at[m + 1] - 2, out |-> copied, stop |-> FALSE]
           next == NextField(acc, pos + 2)
<1>0. /\ n \in Nat /\ pos \in Nat /\ at \in [1..n + 1 -> Nat]
      /\ \A k \in 1..n :
             /\ at[k + 1] = at[k] + 2 + fields[k] /\ at[k] < pos
             /\ At(at[k])[2] = fields[k]
             /\ \A j \in 1..fields[k] : At(at[k] + 1 + j) = Field(k, fields[k])[j]
      /\ At(at[n + 1])[2] = 0
      /\ \A k \in 1..n : fields[k] \in Nat
  <2>1. /\ n \in Nat /\ pos \in Nat /\ at \in [1..n + 1 -> Nat] /\ fields \in Seq(Nat)
        /\ \A k \in 1..n :
               /\ at[k + 1] = at[k] + 2 + fields[k] /\ at[k] < pos
               /\ At(at[k])[2] = fields[k]
               /\ \A j \in 1..fields[k] : At(at[k] + 1 + j) = Field(k, fields[k])[j]
        /\ At(at[n + 1])[2] = 0
    <3>1. Seen(at)
      BY ServerSeesFields
    <3> QED
      BY <3>1 DEF Seen
  <2>2. \A k \in 1..n : fields[k] \in Nat
    BY <2>1
  <2> QED
    BY <2>1, <2>2
<1>1. m \in Nat /\ m <= n /\ m + 1 \in 1..n + 1 /\ at[m + 1] \in Nat /\ at[m + 1] - 2 + 2 = at[m + 1]
  <2>1. n \in Nat /\ at \in [1..n + 1 -> Nat]
    BY <1>0
  <2>2. m \in Nat /\ m <= n /\ m + 1 \in 1..n + 1
    BY <2>1
  <2>3. at[m + 1] \in Nat
    BY <2>1, <2>2
  <2> QED
    BY <2>2, <2>3
<1>2. acc.length = at[m + 1] - 2 /\ acc.out = copied /\ acc.stop = FALSE
  OBVIOUS
<1> HIDE DEF n, pos, acc
<1>3. next = IF acc.stop \/ acc.length >= pos + 2 \/ At(acc.length + 2)[2] = 0
             THEN [acc EXCEPT !.stop = TRUE]
             ELSE [acc EXCEPT !.length = acc.length + 2 + At(acc.length + 2)[2],
                              !.out = Append(acc.out, [j \in 1..At(acc.length + 2)[2] |-> At(acc.length + 3 + j)])]
  BY DEF NextField
<1>4. acc.length + 2 = at[m + 1]
  BY <1>1, <1>2
<1> HIDE DEF next
<1>5. ASSUME m < n, fields[m + 1] # 0
      PROVE  next = [length |-> at[m + 2] - 2, out |-> [k \in 1..m + 1 |-> Field(k, fields[k])],
                     stop |-> FALSE]
  <2> DEFINE f == fields[m + 1]
             a == at[m + 1]
  <2>0. m + 1 \in 1..n /\ m + 1 + 1 = m + 2
    <3>1. n \in Nat /\ m \in Nat /\ m < n
      BY <1>0, <1>1, <1>5
    <3> QED
      BY <3>1
  <2>1. f \in Nat /\ a \in Nat /\ At(a)[2] = f /\ f # 0 /\ a < pos /\ at[m + 2] = a + 2 + f
    BY <1>0, <1>1, <1>5, <2>0
  <2>2. \A j \in 1..f : At(a + 1 + j) = Field(m + 1, f)[j]
    BY <1>0, <2>0
  <2> HIDE DEF f, a
  <2>3. acc.length = a - 2 /\ acc.length + 2 = a /\ ~(acc.length >= pos + 2)
        /\ acc.length + 2 + f = at[m + 2] - 2
    <3>1. acc.length = a - 2
      BY <1>2 DEF a
    <3>2. pos \in Nat
      BY <1>0
    <3>3. acc.length >= pos + 2 => a - 2 >= pos + 2
      BY <3>1
    <3>4. a - 2 + 2 = a /\ ~(a - 2 >= pos + 2) /\ a - 2 + 2 + f = at[m + 2] - 2
      BY <2>1, <3>2
    <3> QED
      BY <3>1, <3>3, <3>4
  <2>4. ASSUME NEW j \in 1..f
        PROVE  At(acc.length + 3 + j) = Field(m + 1, f)[j]
    <3>1. acc.length + 3 + j = a + 1 + j
      BY <2>1, <2>3
    <3> QED
      BY <2>2, <3>1
  <2>5. [j \in 1..f |-> At(acc.length + 3 + j)] = Field(m + 1, f)
    <3>1. Field(m + 1, f) = [j \in 1..f |-> Field(m + 1, f)[j]]
      BY DEF Field
    <3>2. [j \in 1..f |-> At(acc.length + 3 + j)] = [j \in 1..f |-> Field(m + 1, f)[j]]
      BY <2>4
    <3> QED
      BY <3>1, <3>2
  <2>6. next = [acc EXCEPT !.length = at[m + 2] - 2, !.out = Append(copied, Field(m + 1, f))]
    <3>1. ~(acc.stop \/ acc.length >= pos + 2 \/ At(acc.length + 2)[2] = 0)
      BY <1>2, <2>1, <2>3
    <3>2. At(acc.length + 2)[2] = f
      BY <2>1, <2>3
    <3>3. next = [acc EXCEPT !.length = acc.length + 2 + f,
                             !.out = Append(acc.out, [j \in 1..f |-> At(acc.length + 3 + j)])]
      BY <1>3, <3>1, <3>2
    <3> QED
      BY <1>2, <2>3, <2>5, <3>3
  <2>7. Append(copied, Field(m + 1, f)) = [k \in 1..m + 1 |-> Field(k, fields[k])]
    <3> DEFINE F(k) == Field(k, fields[k])
               all == [k \in 1..m + 1 |-> F(k)]
               S == {F(k) : k \in 1..m + 1}
    <3>1. copied = [k \in 1..m |-> F(k)] /\ F(m + 1) = Field(m + 1, f)
      BY DEF f
    <3> HIDE DEF F
    <3>2. copied \in [1..m -> S]
      BY <1>1, <3>1
    <3>3. copied \in Seq(S) /\ Len(copied) = m
      <4>1. m \in Nat
        BY <1>1
      <4> QED
        BY <3>2, <4>1
    <3>4. F(m + 1) \in S
      BY <1>1
    <3> HIDE DEF S
    <3>5. Append(copied, F(m + 1)) = [k \in 1..m + 1 |-> IF k = m + 1 THEN F(m + 1) ELSE copied[k]]
      BY <1>1, <3>3, <3>4
    <3>6. \A k \in 1..m + 1 : (IF k = m + 1 THEN F(m + 1) ELSE copied[k]) = F(k)
      BY <1>1, <3>1
    <3>7. Append(copied, F(m + 1)) = all
      BY <3>5, <3>6
    <3> QED
      BY <3>1, <3>7 DEF F
  <2>8. next = [length |-> at[m + 2] - 2, out |-> Append(copied, Field(m + 1, f)), stop |-> FALSE]
    BY <2>6, NextRecord DEF acc
  <2> QED
    BY <2>7, <2>8
<1>6. ASSUME m = n \/ fields[m + 1] = 0
      PROVE  next = [length |-> at[m + 1] - 2, out |-> copied, stop |-> TRUE]
  <2>1. At(at[m + 1])[2] = 0
    <3>1. CASE m = n
      BY <1>0, <3>1
    <3>2. CASE m # n
      <4>1. m + 1 \in 1..n /\ fields[m + 1] = 0
        BY <1>0, <1>1, <1>6, <3>2
      <4> QED
        BY <1>0, <4>1
    <3> QED
      BY <3>1, <3>2
  <2>2. next = [acc EXCEPT !.stop = TRUE]
    BY <1>3, <1>4, <2>1
  <2> QED
    BY <2>2, StoppedRecord DEF acc
<1> QED
  BY <1>5, <1>6 DEF n, pos, acc, next

(* After any number of turns.                                              *)
LEMMA LoginReads ==
    ASSUME CmsgInv, NEW at, LaidOut(at), NEW first \in Nat, first <= Len(fields),
           \A k \in 1..first : fields[k] # 0,
           first < Len(fields) => fields[first + 1] = 0,
           NEW count \in Nat, count = IF first > ArgN THEN ArgN ELSE first
    PROVE  Login = [k \in 1..count |-> Field(k, fields[k])]
<1> DEFINE len == cmsg.msg_pos + 2
           n == Len(fields)
           none == [length |-> 0, out |-> <<>>, stop |-> FALSE]
           Fill(f, i) == IF i = 0 THEN none ELSE NextField(f[i - 1], len)
           Is(f, m) == f = [i \in 0..m |-> Fill(f, i)]
           S == {m \in Nat : \E f : Is(f, m)}
           taken == CHOOSE f : Is(f, ArgN)
           Out(m) == [k \in 1..m |-> Field(k, fields[k])]
           Read(m) == [length |-> at[m + 1] - 2, out |-> Out(m), stop |-> FALSE]
           Done(x) == x = [length |-> at[count + 1] - 2, out |-> Out(count), stop |-> TRUE]
<1>0. ArgN \in Nat /\ n \in Nat /\ at \in [1..n + 1 -> Nat] /\ at[1] = 2
  <2>1. Seen(at)
    BY ServerSeesFields
  <2> QED
    BY <2>1, MessageTypeAssumption DEF Seen
<1>1. Nat \subseteq S
  <2>1. 0 \in S
    <3>1. Is([i \in 0..0 |-> none], 0)
      OBVIOUS
    <3> QED
      BY <3>1
  <2>2. ASSUME NEW m \in Nat, m \in S
        PROVE  m + 1 \in S
    <3>1. PICK f : Is(f, m)
      BY <2>2
    <3> DEFINE g == [i \in 0..m + 1 |-> IF i = m + 1 THEN NextField(f[m], len) ELSE f[i]]
    <3>2. ASSUME NEW i \in 0..m + 1
          PROVE  g[i] = Fill(g, i)
      <4>1. i = 0 \/ i \in 1..m \/ i = m + 1
        OBVIOUS
      <4> HIDE DEF none
      <4> QED
        BY <3>1, <4>1
    <3>3. Is(g, m + 1)
      BY <3>2
    <3> HIDE DEF Is, g
    <3> QED
      BY <3>3
  <2> QED
    BY <2>1, <2>2, NaturalsWithZeroAndNext
<1>2. Is(taken, ArgN)
  <2>1. \E f : Is(f, ArgN)
    BY <1>0, <1>1
  <2> HIDE DEF Is
  <2> QED
    BY <2>1
<1>3. Login = taken[ArgN].out
  BY DEF Login, Unpacket
<1> HIDE DEF taken
<1>4. taken[0] = none /\ \A i \in 0..ArgN - 1 : taken[i + 1] = NextField(taken[i], len)
  <2> HIDE DEF none
  <2>1. taken[0] = none
    BY <1>0, <1>2
  <2>2. ASSUME NEW i \in 0..ArgN - 1
        PROVE  taken[i + 1] = NextField(taken[i], len)
    <3>1. i + 1 \in 0..ArgN /\ i + 1 # 0 /\ i + 1 - 1 = i
      BY <1>0
    <3> QED
      BY <1>2, <3>1
  <2> QED
    BY <2>1, <2>2
<1>5. none = Read(0)
  <2>1. at[0 + 1] - 2 = 0 /\ 1..0 = {}
    BY <1>0
  <2>2. Out(0) = <<>>
    BY <2>1
  <2> QED
    BY <2>1, <2>2
<1> HIDE DEF none
<1>6. count <= ArgN /\ count <= first /\ (count < ArgN => count = first)
  BY <1>0
<1>7. ASSUME NEW m \in Nat, m < count
      PROVE  NextField(Read(m), len) = Read(m + 1)
  <2>1. m \in 0..n /\ m < n /\ m + 1 \in 1..first /\ m + 1 + 1 = m + 2
    BY <1>0, <1>6, <1>7
  <2>2. fields[m + 1] # 0
    BY <2>1
  <2> QED
    <3>1. NextField(Read(m), len) = [length |-> at[m + 2] - 2, stop |-> FALSE, out |-> Out(m + 1)]
      BY <2>1, <2>2, NextFieldTakes
    <3>2. Read(m + 1) = [length |-> at[m + 2] - 2, stop |-> FALSE, out |-> Out(m + 1)]
      BY <2>1
    <3> HIDE DEF Read
    <3> QED
      BY <3>1, <3>2
<1>8. ASSUME count < ArgN
      PROVE  Done(NextField(Read(count), len))
  <2>1. count \in 0..n /\ count = first
    BY <1>0, <1>6, <1>8
  <2>2. count = n \/ fields[count + 1] = 0
    BY <1>0, <2>1
  <2> QED
    BY <2>1, <2>2, NextFieldTakes
<1>9. ASSUME NEW x, Done(x)
      PROVE  Done(NextField(x, len))
  <2>1. x.stop = TRUE
    BY <1>9
  <2>2. NextField(x, len) = [x EXCEPT !.stop = TRUE]
    BY <2>1 DEF NextField
  <2> QED
    BY <1>9, <2>2, StoppedRecord
<1> HIDE DEF Read, Done, len
<1> DEFINE T == {m \in Nat : m <= ArgN => IF m <= count THEN taken[m] = Read(m) ELSE Done(taken[m])}
<1>10. Nat \subseteq T
  <2>1. 0 \in T
    BY <1>0, <1>4, <1>5
  <2>2. ASSUME NEW m \in Nat, m \in T
        PROVE  m + 1 \in T
    <3> SUFFICES ASSUME m + 1 <= ArgN
                 PROVE  IF m + 1 <= count THEN taken[m + 1] = Read(m + 1) ELSE Done(taken[m + 1])
      OBVIOUS
    <3>1. m <= ArgN /\ m \in 0..ArgN - 1
      BY <1>0
    <3>2. taken[m + 1] = NextField(taken[m], len)
      BY <1>4, <3>1
    <3>3. IF m <= count THEN taken[m] = Read(m) ELSE Done(taken[m])
      BY <2>2, <3>1
    <3>4. CASE m < count
      <4>1. m <= count /\ m + 1 <= count
        BY <3>4
      <4> QED
        BY <1>7, <3>2, <3>3, <3>4, <4>1
    <3>5. CASE m = count
      <4>1. count < ArgN /\ ~(m + 1 <= count) /\ m <= count
        BY <1>0, <3>5
      <4> QED
        BY <1>8, <3>2, <3>3, <3>5, <4>1
    <3>6. CASE m > count
      <4>1. ~(m <= count) /\ ~(m + 1 <= count)
        BY <3>6
      <4> QED
        BY <1>9, <3>2, <3>3, <4>1
    <3> QED
      BY <3>4, <3>5, <3>6
  <2> QED
    BY <2>1, <2>2, NaturalsWithZeroAndNext
<1>11. IF ArgN <= count THEN taken[ArgN] = Read(ArgN) ELSE Done(taken[ArgN])
  BY <1>0, <1>10
<1>12. taken[ArgN].out = Out(count)
  <2>1. CASE ArgN <= count
    <3>1. ArgN = count
      BY <1>0, <1>6, <2>1
    <3>2. taken[ArgN] = Read(ArgN)
      BY <1>11, <2>1
    <3>3. Read(ArgN).out = Out(ArgN)
      BY DEF Read
    <3> QED
      BY <3>1, <3>2, <3>3, Zenon
  <2>2. CASE ~(ArgN <= count)
    BY SMTT(30), <1>11, <2>2 DEF Done
  <2> QED
    BY <2>1, <2>2
<1> QED
  BY <1>3, <1>12

(* What the server takes from a message are the fields that were pushed,   *)
(* up to the first empty one and as far as it has arguments; and the       *)
(* buffer is overrun by two bytes at most: MessagesAreUnderstood.          *)
THEOREM MessagesStayUnderstood == CmsgSpec => []MessagesAreUnderstood
<1>1. CmsgInv => MessagesAreUnderstood
  <2> SUFFICES ASSUME CmsgInv PROVE MessagesAreUnderstood
    OBVIOUS
  <2> DEFINE empty == {k \in DOMAIN fields : fields[k] = 0}
             first == IF empty = {} THEN Len(fields)
                      ELSE (CHOOSE k \in empty : \A other \in empty : k <= other) - 1
             count == IF first > ArgN THEN ArgN ELSE first
  <2>1. CmsgTypeOK /\ beyond <= 2
    BY DEF CmsgInv
  <2>2. ASSUME ~wrapped
        PROVE  Login = [k \in 1..count |-> Field(k, fields[k])]
    <3>1. PICK at : LaidOut(at)
      BY <2>2 DEF CmsgInv
    <3>2. fields \in Seq(Nat)
      BY <3>1, ServerSeesFields DEF Seen
    <3>3. /\ first \in Nat /\ first <= Len(fields)
          /\ \A k \in 1..first : fields[k] # 0
          /\ first < Len(fields) => fields[first + 1] = 0
      BY <3>2, FirstEmpty
    <3> HIDE DEF first
    <3>4. count \in Nat
      BY <3>3, MessageTypeAssumption
    <3> QED
      BY <3>1, <3>3, <3>4, LoginReads
  <2> QED
    BY <2>1, <2>2 DEF MessagesAreUnderstood
<1> QED
  BY <1>1, CmsgInvariant, PTL

-----------------------------------------------------------------------------
(* Sums that wrap.                                                         *)

(* A whole number is a multiple of m and its remainder.                    *)
LEMMA Divided ==
    ASSUME NEW m \in Nat \ {0}, NEW a \in Int
    PROVE  \E q \in Int : a = (m * q) + (a % m)
<1>1. a = (m * (a \div m)) + (a % m)
  OBVIOUS
<1>2. a \div m \in Int
  OBVIOUS
<1> QED
  BY <1>1, <1>2

(* Two remainders that differ by a multiple of m are the same.             *)
LEMMA OneRemainder ==
    ASSUME NEW m \in Nat \ {0}, NEW k \in Int, NEW r \in 0..m - 1, NEW s \in 0..m - 1,
           r = s + m * k
    PROVE  r = s
OBVIOUS

(* A multiple of m changes no remainder.                                   *)
LEMMA MultiplesWrap ==
    ASSUME NEW m \in Nat \ {0}, NEW a \in Int, NEW k \in Int
    PROVE  (a + m * k) % m = a % m
<1>1. PICK p \in Int : a = (m * p) + (a % m)
  BY Divided
<1>2. m * k \in Int /\ a + m * k \in Int
  OBVIOUS
<1>3. PICK q \in Int : a + m * k = (m * q) + ((a + m * k) % m)
  BY <1>2, Divided
<1>4. a % m \in 0..m - 1 /\ (a + m * k) % m \in 0..m - 1
  BY <1>2
<1>5. ASSUME NEW r \in 0..m - 1, NEW s \in 0..m - 1, a = m * p + r, a + m * k = m * q + s
      PROVE  s = r
  <2>1. s = r + (m * p + m * k - m * q)
    BY <1>5
  <2>2. m * p + m * k - m * q = m * (p + k - q) /\ p + k - q \in Int
    OBVIOUS
  <2> QED
    BY <2>1, <2>2, OneRemainder
<1> QED
  BY <1>1, <1>3, <1>4, <1>5

(* Whether a sum wraps before or after something is added.                 *)
LEMMA WrapsOnce ==
    ASSUME NEW m \in Nat \ {0}, NEW a \in Int, NEW b \in Int
    PROVE  ((a % m) + b) % m = (a + b) % m
<1>1. PICK p \in Int : a = (m * p) + (a % m)
  BY Divided
<1>2. a % m \in Int
  OBVIOUS
<1>3. (a % m) + b \in Int /\ a + b = ((a % m) + b) + m * p
  BY <1>1, <1>2
<1> QED
  BY <1>3, MultiplesWrap

(* A number that wraps is a size_t; a size_t does not wrap.                *)
LEMMA SizesAreBounded ==
    ASSUME NEW a \in Int
    PROVE  a % SizeMod \in Size_t /\ (a \in Size_t => a % SizeMod = a)
           /\ (a \in Nat => a % SizeMod <= a)
BY BufferListAssumption DEF Size_t

(* A size_t sum that wraps at every addition is the sum that wraps at the  *)
(* end.                                                                    *)
LEMMA SizesWrap ==
    ASSUME NEW a \in Int, NEW b \in Int
    PROVE  ((a % SizeMod) + b) % SizeMod = (a + b) % SizeMod
BY BufferListAssumption, WrapsOnce

(* Sums of whole numbers may be added in any order.                        *)
LEMMA SumsAreIntegers ==
    ASSUME NEW a \in Int, NEW b \in Int, NEW c \in Int
    PROVE  /\ a + b \in Int /\ a + c \in Int /\ b + c \in Int /\ b + a = a + b
           /\ (a + b) + c = (a + c) + b /\ (b + c) + a = (a + b) + c
OBVIOUS

(* Heaps, as far as their lengths.                                         *)
Measured(h) == \A x \in Bufs : h[x].len \in Size_t

(* SumOf adds the lengths of a list's elements one by one, each sum        *)
(* wrapping.                                                               *)
LEMMA SumSteps ==
    ASSUME NEW h, Measured(h), NEW s \in Seq(Bufs)
    PROVE  \E f \in [0..Len(s) -> Size_t] :
             /\ f[0] = 0 /\ SumOf(h, s) = f[Len(s)]
             /\ \A n \in 1..Len(s) : f[n] = (f[n - 1] + h[s[n]].len) % SizeMod
<1> DEFINE Plus(x, n) == (x + h[s[n]].len) % SizeMod
           Fill(f, n) == IF n = 0 THEN 0 ELSE Plus(f[n - 1], n)
           Is(f, m) == f = [n \in 0..m |-> Fill(f, n)]
           S == {m \in Nat : m <= Len(s) => \E f : Is(f, m)}
           sum == CHOOSE f : Is(f, Len(s))
<1>0. Len(s) \in Nat /\ \A n \in 1..Len(s) : s[n] \in Bufs /\ h[s[n]].len \in Size_t
  BY DEF Measured
<1>1. Nat \subseteq S
  <2>1. 0 \in S
    <3>1. Is([n \in 0..0 |-> 0], 0)
      OBVIOUS
    <3> QED
      BY <3>1
  <2>2. ASSUME NEW m \in Nat, m \in S
        PROVE  m + 1 \in S
    <3> SUFFICES ASSUME m + 1 <= Len(s) PROVE \E f : Is(f, m + 1)
      BY DEF S
    <3>1. PICK f : Is(f, m)
      BY <1>0, <2>2
    <3> DEFINE g == [n \in 0..m + 1 |-> IF n = m + 1 THEN Plus(f[m], m + 1) ELSE f[n]]
    <3> HIDE DEF Plus
    <3>2. ASSUME NEW n \in 0..m + 1
          PROVE  g[n] = Fill(g, n)
      <4>1. n = 0 \/ n \in 1..m \/ n = m + 1
        OBVIOUS
      <4>2. CASE n = 0
        BY <3>1, <4>2
      <4>3. CASE n \in 1..m
        <5>1. n # 0 /\ n # m + 1 /\ n - 1 # m + 1 /\ n \in 0..m /\ n - 1 \in 0..m
          BY <4>3
        <5>2. f[n] = Plus(f[n - 1], n)
          BY <3>1, <5>1
        <5> QED
          BY <5>1, <5>2
      <4>4. CASE n = m + 1
        <5>1. n # 0 /\ n - 1 = m /\ m # m + 1 /\ m \in 0..m + 1
          BY <4>4
        <5> QED
          BY <4>4, <5>1
      <4> QED
        BY <4>1, <4>2, <4>3, <4>4
    <3>3. Is(g, m + 1)
      BY <3>2
    <3> HIDE DEF Is, g
    <3> QED
      BY <3>3
  <2> QED
    BY <2>1, <2>2, NaturalsWithZeroAndNext
<1>2. Is(sum, Len(s))
  <2> HIDE DEF Is
  <2>1. \E f : Is(f, Len(s))
    BY <1>0, <1>1
  <2> QED
    BY <2>1
<1>3. SumOf(h, s) = sum[Len(s)]
  BY DEF SumOf
<1> HIDE DEF sum
<1>4. sum = [n \in 0..Len(s) |-> sum[n]] /\ \A n \in 0..Len(s) : sum[n] = Fill(sum, n)
  BY <1>2
<1>5. sum[0] = 0 /\ \A n \in 1..Len(s) : sum[n] = (sum[n - 1] + h[s[n]].len) % SizeMod
  BY <1>0, <1>4
<1> DEFINE T == {m \in Nat : m <= Len(s) => sum[m] \in Size_t}
<1>6. Nat \subseteq T
  <2>1. 0 \in T
    BY <1>5, BufferListAssumption DEF Size_t
  <2>2. ASSUME NEW m \in Nat, m \in T
        PROVE  m + 1 \in T
    <3> SUFFICES ASSUME m + 1 <= Len(s) PROVE sum[m + 1] \in Size_t
      OBVIOUS
    <3>1. m + 1 \in 1..Len(s) /\ m + 1 - 1 = m /\ m <= Len(s)
      BY <1>0
    <3>2. sum[m] \in Size_t /\ h[s[m + 1]].len \in Size_t
      BY <1>0, <2>2, <3>1
    <3>3. sum[m + 1] = (sum[m] + h[s[m + 1]].len) % SizeMod
      BY <1>5, <3>1
    <3>4. sum[m] + h[s[m + 1]].len \in Int
      BY <3>2 DEF Size_t
    <3> QED
      BY <3>3, <3>4, SizesAreBounded
  <2> QED
    BY <2>1, <2>2, NaturalsWithZeroAndNext
<1>7. \A n \in 0..Len(s) : sum[n] \in Size_t
  BY <1>0, <1>6
<1>8. sum \in [0..Len(s) -> Size_t]
  BY <1>4, <1>7
<1> QED
  BY <1>3, <1>5, <1>8

(* The sum of the lengths is a size_t.                                     *)
LEMMA SumIsSize ==
    ASSUME NEW h, Measured(h), NEW s \in Seq(Bufs)
    PROVE  SumOf(h, s) \in Size_t
<1>1. Len(s) \in 0..Len(s)
  OBVIOUS
<1> QED
  BY <1>1, SumSteps

(* The sum is that of the lengths.                                         *)
LEMMA SumsAgree ==
    ASSUME NEW h, NEW g, Measured(h), Measured(g), NEW s \in Seq(Bufs),
           \A n \in 1..Len(s) : h[s[n]].len = g[s[n]].len
    PROVE  SumOf(h, s) = SumOf(g, s)
<1>0. Len(s) \in Nat
  OBVIOUS
<1>1. PICK f \in [0..Len(s) -> Size_t] :
             /\ f[0] = 0 /\ SumOf(h, s) = f[Len(s)]
             /\ \A n \in 1..Len(s) : f[n] = (f[n - 1] + h[s[n]].len) % SizeMod
  BY SumSteps
<1>2. PICK e \in [0..Len(s) -> Size_t] :
             /\ e[0] = 0 /\ SumOf(g, s) = e[Len(s)]
             /\ \A n \in 1..Len(s) : e[n] = (e[n - 1] + g[s[n]].len) % SizeMod
  BY SumSteps
<1> DEFINE S == {m \in Nat : m <= Len(s) => f[m] = e[m]}
<1>3. 0 \in S
  BY <1>1, <1>2
<1>4. ASSUME NEW m \in Nat, m \in S
      PROVE  m + 1 \in S
  <2> SUFFICES ASSUME m + 1 <= Len(s) PROVE f[m + 1] = e[m + 1]
    OBVIOUS
  <2>1. m + 1 \in 1..Len(s) /\ m + 1 - 1 = m /\ f[m] = e[m]
    BY <1>0, <1>4
  <2> QED
    BY <1>1, <1>2, <2>1
<1>5. Nat \subseteq S
  BY <1>3, <1>4, NaturalsWithZeroAndNext
<1>6. f[Len(s)] = e[Len(s)]
  BY <1>0, <1>5
<1> QED
  BY <1>1, <1>2, <1>6

(* The sum of one element is its length.                                   *)
LEMMA SumOfOne ==
    ASSUME NEW h, Measured(h), NEW b \in Bufs
    PROVE  SumOf(h, <<b>>) = h[b].len
<1>1. <<b>> \in Seq(Bufs) /\ Len(<<b>>) = 1 /\ <<b>>[1] = b
  OBVIOUS
<1> DEFINE s == <<b>>
<1>2. PICK f \in [0..Len(s) -> Size_t] :
             /\ f[0] = 0 /\ SumOf(h, s) = f[Len(s)]
             /\ \A n \in 1..Len(s) : f[n] = (f[n - 1] + h[s[n]].len) % SizeMod
  <2> HIDE DEF s
  <2> QED
    BY ZenonT(40), <1>1, SumSteps DEF s
<1>3. f[1] = (f[0] + h[b].len) % SizeMod
  BY <1>1, <1>2
<1>4. h[b].len \in Size_t /\ h[b].len \in Int /\ 0 + h[b].len = h[b].len
  BY DEF Measured, Size_t
<1> QED
  BY <1>2, <1>3, <1>4, SizesAreBounded

(* The sum of two lists, one after the other, is the sum of their sums.    *)
LEMMA SumOfTwo ==
    ASSUME NEW h, Measured(h), NEW s \in Seq(Bufs), NEW t \in Seq(Bufs)
    PROVE  SumOf(h, s \o t) = (SumOf(h, s) + SumOf(h, t)) % SizeMod
<1> DEFINE u == s \o t
           len(n) == h[u[n]].len
<1>1. /\ u \in Seq(Bufs) /\ Len(s) \in Nat /\ Len(t) \in Nat /\ Len(u) = Len(s) + Len(t)
      /\ \A n \in 1..Len(s) : u[n] = s[n]
      /\ \A n \in 1..Len(t) : u[Len(s) + n] = t[n]
  OBVIOUS
<1>2. \A n \in 1..Len(u) : u[n] \in Bufs /\ len(n) \in Size_t
  <2> HIDE DEF u
  <2> QED
    BY <1>1 DEF Measured
<1> HIDE DEF u
<1>3. PICK f \in [0..Len(s) -> Size_t] :
             /\ f[0] = 0 /\ SumOf(h, s) = f[Len(s)]
             /\ \A n \in 1..Len(s) : f[n] = (f[n - 1] + h[s[n]].len) % SizeMod
  BY SumSteps
<1>4. PICK e \in [0..Len(t) -> Size_t] :
             /\ e[0] = 0 /\ SumOf(h, t) = e[Len(t)]
             /\ \A n \in 1..Len(t) : e[n] = (e[n - 1] + h[t[n]].len) % SizeMod
  BY SumSteps
<1>5. PICK k \in [0..Len(u) -> Size_t] :
             /\ k[0] = 0 /\ SumOf(h, u) = k[Len(u)]
             /\ \A n \in 1..Len(u) : k[n] = (k[n - 1] + h[u[n]].len) % SizeMod
  BY <1>1, SumSteps
<1> DEFINE S == {m \in Nat : m <= Len(s) => k[m] = f[m]}
<1>6. 0 \in S
  BY <1>3, <1>5
<1>7. ASSUME NEW m \in Nat, m \in S
      PROVE  m + 1 \in S
  <2> SUFFICES ASSUME m + 1 <= Len(s) PROVE k[m + 1] = f[m + 1]
    OBVIOUS
  <2>1. m + 1 \in 1..Len(s) /\ m + 1 \in 1..Len(u) /\ m + 1 - 1 = m /\ k[m] = f[m]
    BY <1>1, <1>7
  <2>2. u[m + 1] = s[m + 1]
    BY <1>1, <2>1
  <2>3. k[m + 1] = (k[m] + h[u[m + 1]].len) % SizeMod
    BY <1>5, <2>1
  <2>4. f[m + 1] = (f[m] + h[s[m + 1]].len) % SizeMod
    BY <1>3, <2>1
  <2> QED
    BY <2>1, <2>2, <2>3, <2>4
<1>8. Nat \subseteq S
  BY <1>6, <1>7, NaturalsWithZeroAndNext
<1>9. k[Len(s)] = f[Len(s)] /\ f[Len(s)] \in Size_t
  BY <1>1, <1>3, <1>8
<1> DEFINE first == f[Len(s)]
           T == {m \in Nat : m <= Len(t) => k[Len(s) + m] = (first + e[m]) % SizeMod}
<1>10. first \in Int /\ first \in Size_t
  BY <1>9 DEF Size_t
<1>11. 0 \in T
  BY <1>1, <1>4, <1>9, <1>10, SizesAreBounded
<1> HIDE DEF first
<1>12. ASSUME NEW m \in Nat, m \in T
       PROVE  m + 1 \in T
  <2> SUFFICES ASSUME m + 1 <= Len(t)
               PROVE  k[Len(s) + (m + 1)] = (first + e[m + 1]) % SizeMod
    OBVIOUS
  <2> DEFINE at == Len(s) + (m + 1)
             l == h[t[m + 1]].len
  <2>1. /\ m + 1 \in 1..Len(t) /\ m \in 0..Len(t) /\ at \in 1..Len(u)
        /\ at - 1 = Len(s) + m /\ m + 1 - 1 = m
    BY <1>1
  <2>2. u[at] = t[m + 1] /\ k[at - 1] = (first + e[m]) % SizeMod
    BY <1>1, <1>12, <2>1
  <2>3. k[at] = (k[at - 1] + l) % SizeMod
    BY <1>5, <2>1, <2>2
  <2>4. l \in Int /\ e[m] \in Int
    <3>1. l \in Size_t /\ e[m] \in Size_t
      BY <1>2, <1>4, <2>1, <2>2
    <3> QED
      BY <3>1 DEF Size_t
  <2>6. e[m + 1] = (e[m] + l) % SizeMod
    BY SMTT(40), <1>4, <2>1
  <2> HIDE DEF l
  <2> DEFINE E == e[m]
  <2>11. /\ E + l \in Int /\ first + E \in Int /\ E + first = first + E
         /\ (E + l) + first = (first + E) + l
    BY <1>10, <2>4, SumsAreIntegers
  <2>5. k[at] = ((first + E) + l) % SizeMod
    BY <2>2, <2>3, <2>4, <2>11, SizesWrap
  <2>7. (((E + l) % SizeMod) + first) % SizeMod = ((E + l) + first) % SizeMod
    BY <1>10, <2>11, SizesWrap
  <2>8. (E + l) % SizeMod \in Int
    BY <2>11, SizesAreBounded DEF Size_t
  <2>9. ((E + l) % SizeMod) + first = first + ((E + l) % SizeMod)
    BY <1>10, <2>8, SumsAreIntegers
  <2>10. k[at] = (first + e[m + 1]) % SizeMod
    BY <2>5, <2>6, <2>7, <2>9, <2>11
  <2> QED
    BY <2>10
<1>13. Nat \subseteq T
  BY <1>11, <1>12, NaturalsWithZeroAndNext
<1>14. k[Len(u)] = (first + e[Len(t)]) % SizeMod
  BY <1>1, <1>13
<1> QED
  BY <1>3, <1>4, <1>5, <1>14 DEF u, first

(* The length of one element of a list is changed.                         *)
LEMMA SumChanges ==
    ASSUME NEW h, NEW g, Measured(h), Measured(g), NEW s \in Seq(Bufs), NEW k \in 1..Len(s),
           \A n \in 1..Len(s) : n # k => h[s[n]].len = g[s[n]].len
    PROVE  SumOf(g, s) = (SumOf(h, s) + (g[s[k]].len - h[s[k]].len)) % SizeMod
<1> DEFINE new == g[s[k]].len
           old == h[s[k]].len
<1>0. Len(s) \in Nat /\ \A n \in 1..Len(s) : s[n] \in Bufs
  OBVIOUS
<1>1. PICK f \in [0..Len(s) -> Size_t] :
             /\ f[0] = 0 /\ SumOf(h, s) = f[Len(s)]
             /\ \A n \in 1..Len(s) : f[n] = (f[n - 1] + h[s[n]].len) % SizeMod
  BY SumSteps
<1>2. PICK e \in [0..Len(s) -> Size_t] :
             /\ e[0] = 0 /\ SumOf(g, s) = e[Len(s)]
             /\ \A n \in 1..Len(s) : e[n] = (e[n - 1] + g[s[n]].len) % SizeMod
  BY SumSteps
<1>3. new \in Int /\ old \in Int /\ new - old \in Int
  BY <1>0 DEF Measured, Size_t
<1> DEFINE S == {m \in Nat : m < k => f[m] = e[m]}
<1>4. 0 \in S
  BY <1>1, <1>2
<1>5. ASSUME NEW m \in Nat, m \in S
      PROVE  m + 1 \in S
  <2> SUFFICES ASSUME m + 1 < k PROVE f[m + 1] = e[m + 1]
    OBVIOUS
  <2>1. m + 1 \in 1..Len(s) /\ m + 1 - 1 = m /\ f[m] = e[m] /\ m + 1 # k
    BY <1>0, <1>5
  <2> QED
    BY <1>1, <1>2, <2>1
<1>6. Nat \subseteq S
  BY <1>4, <1>5, NaturalsWithZeroAndNext
<1> DEFINE T == {m \in Nat : k + m <= Len(s) => e[k + m] = (f[k + m] + (new - old)) % SizeMod}
<1>7. 0 \in T
  <2>1. k - 1 \in Nat /\ k - 1 < k /\ k - 1 \in 0..Len(s) /\ k + 0 = k
    BY <1>0
  <2>2. f[k - 1] = e[k - 1]
    BY <1>6, <2>1
  <2>3. f[k - 1] \in Int
    BY <1>1, <2>1 DEF Size_t
  <2>4. e[k] = (f[k - 1] + new) % SizeMod /\ f[k] = (f[k - 1] + old) % SizeMod
    BY <1>1, <1>2, <2>2
  <2>5. f[k - 1] + old \in Int /\ (f[k - 1] + old) + (new - old) = f[k - 1] + new
    BY <1>3, <2>3
  <2>6. (f[k] + (new - old)) % SizeMod = (f[k - 1] + new) % SizeMod
    BY <1>3, <2>4, <2>5, SizesWrap
  <2> QED
    BY <2>1, <2>4, <2>6
<1>8. ASSUME NEW m \in Nat, m \in T
      PROVE  m + 1 \in T
  <2> SUFFICES ASSUME k + (m + 1) <= Len(s)
               PROVE  e[k + (m + 1)] = (f[k + (m + 1)] + (new - old)) % SizeMod
    OBVIOUS
  <2> DEFINE at == k + (m + 1)
             l == h[s[at]].len
  <2>1. at \in 1..Len(s) /\ at - 1 = k + m /\ k + m \in 0..Len(s) /\ at # k
    BY <1>0
  <2>2. e[k + m] = (f[k + m] + (new - old)) % SizeMod /\ f[k + m] \in Int
    BY <1>1, <1>8, <2>1 DEF Size_t
  <2>3. l \in Int
    BY <1>0, <2>1 DEF Measured, Size_t
  <2>4. e[at] = (e[k + m] + l) % SizeMod /\ f[at] = (f[k + m] + l) % SizeMod
    BY <1>1, <1>2, <2>1
  <2> HIDE DEF at, l, new, old
  <2> DEFINE F == f[k + m]
             d == new - old
  <2>9. F \in Int /\ d \in Int
    BY <1>3, <2>2
  <2>5. F + d \in Int /\ F + l \in Int /\ (F + d) + l = (F + l) + d
    BY <2>3, <2>9, SumsAreIntegers
  <2>6. (((F + d) % SizeMod) + l) % SizeMod = ((F + d) + l) % SizeMod
    BY <2>3, <2>5, <2>9, SizesWrap
  <2>7. (((F + l) % SizeMod) + d) % SizeMod = ((F + l) + d) % SizeMod
    BY <2>5, <2>9, SizesWrap
  <2>8. e[at] = (f[at] + (new - old)) % SizeMod
    BY <2>2, <2>4, <2>5, <2>6, <2>7
  <2> QED
    BY <2>8 DEF at
<1>9. Nat \subseteq T
  BY <1>7, <1>8, NaturalsWithZeroAndNext
<1>10. e[Len(s)] = (f[Len(s)] + (new - old)) % SizeMod
  <2>1. Len(s) - k \in Nat /\ k + (Len(s) - k) = Len(s)
    BY <1>0
  <2> QED
    BY <1>9, <2>1
<1> QED
  BY <1>1, <1>2, <1>10

-----------------------------------------------------------------------------
(* Lists: L has the list of an element, P its place there.                 *)

(* Each element is at one place of one list.                               *)
InLists(L, P) ==
    /\ L \in [Bufs -> Seq(Bufs)] /\ P \in [Bufs -> Nat]
    /\ \A b \in Bufs : P[b] \in 1..Len(L[b]) /\ L[b][P[b]] = b
    /\ \A b \in Bufs : \A n \in 1..Len(L[b]) : L[L[b][n]] = L[b] /\ P[L[b][n]] = n

(* The fields that join them.                                              *)
Chained(h, L, P) ==
    \A b \in Bufs : h[b].next = IF P[b] < Len(L[b]) THEN L[b][P[b] + 1] ELSE Null

Linked(h, L, P) ==
    /\ Chained(h, L, P)
    /\ \A b \in Bufs : /\ h[b].head = L[b][1]
                       /\ h[b].prev = IF P[b] > 1 THEN L[b][P[b] - 1] ELSE Null

(* There are finitely many elements, and NULL is none of them.             *)
LEMMA BufsAreFinite == IsFiniteSet(Bufs) /\ Cardinality(Bufs) \in Nat /\ Null \notin Bufs
BY BufferListAssumption, FS_CardinalityType DEF Null

(* A list has as many elements as there are at most, and its first element *)
(* is the first of the list of each of them.                               *)
LEMMA ListsAreShort ==
    ASSUME NEW L, NEW P, InLists(L, P), NEW b \in Bufs
    PROVE  /\ L[b] \in Seq(Bufs) /\ Len(L[b]) \in 1..Cardinality(Bufs) /\ Len(L[b]) \in Nat
           /\ P[b] \in Nat /\ P[b] \in 1..Len(L[b]) /\ L[b][P[b]] = b
           /\ \A n \in 1..Len(L[b]) : L[b][n] \in Bufs
           /\ L[b][1] \in Bufs /\ L[L[b][1]] = L[b] /\ P[L[b][1]] = 1
<1>1. /\ L[b] \in Seq(Bufs) /\ Len(L[b]) \in Nat /\ P[b] \in Nat
      /\ P[b] \in 1..Len(L[b]) /\ L[b][P[b]] = b
  BY DEF InLists
<1>2. \A n \in 1..Len(L[b]) : L[b][n] \in Bufs
  BY <1>1
<1>3. 1 \in 1..Len(L[b])
  BY <1>1
<1>4. \A n \in 1..Len(L[b]) : L[L[b][n]] = L[b] /\ P[L[b][n]] = n
  BY DEF InLists
<1> DEFINE f == [n \in 1..Len(L[b]) |-> L[b][n]]
<1>5. f \in Injection(1..Len(L[b]), Bufs)
  <2>1. f \in [1..Len(L[b]) -> Bufs]
    BY <1>2
  <2>2. ASSUME NEW m \in 1..Len(L[b]), NEW n \in 1..Len(L[b]), f[m] = f[n]
        PROVE  m = n
    BY <1>4, <2>2
  <2> HIDE DEF f
  <2> QED
    BY <2>1, <2>2 DEF Injection, IsInjective
<1>6. Cardinality(1..Len(L[b])) <= Cardinality(Bufs)
  <2> HIDE DEF f
  <2> QED
    BY <1>5, BufsAreFinite, FS_Injection
<1>7. Cardinality(1..Len(L[b])) = Len(L[b])
  BY <1>1, FS_Interval
<1>8. Len(L[b]) \in 1..Cardinality(Bufs)
  BY <1>1, <1>6, <1>7, BufsAreFinite
<1> QED
  BY <1>1, <1>2, <1>3, <1>4, <1>8

(* The elements from b on are those of its list from its place on.         *)
LEMMA FromIsTheRest ==
    ASSUME NEW h, NEW L, NEW P, InLists(L, P), Chained(h, L, P), NEW b \in Bufs
    PROVE  From(h, b) = [n \in 1..Len(L[b]) + 1 - P[b] |-> L[b][P[b] - 1 + n]]
<1> DEFINE C == Cardinality(Bufs)
           s == L[b]
           p == P[b]
           N == Len(s) + 1 - p
           Fill(f, n) == IF n = 1 THEN b
                         ELSE LET before == f[n - 1] IN IF before = Null THEN Null ELSE h[before].next
           Is(f, m) == f = [n \in 1..m |-> Fill(f, n)]
           S == {m \in Nat : \E f : Is(f, m)}
           at == CHOOSE f : Is(f, C)
<1>1. /\ s \in Seq(Bufs) /\ Len(s) \in 1..C /\ Len(s) \in Nat /\ p \in 1..Len(s) /\ s[p] = b
      /\ C \in Nat /\ \A n \in 1..Len(s) : s[n] \in Bufs /\ L[s[n]] = s /\ P[s[n]] = n
      /\ N \in 1..C /\ N \in Nat
  <2>1. /\ s \in Seq(Bufs) /\ Len(s) \in 1..C /\ Len(s) \in Nat /\ p \in 1..Len(s) /\ s[p] = b
        /\ C \in Nat /\ \A n \in 1..Len(s) : s[n] \in Bufs
    BY ListsAreShort, BufsAreFinite
  <2>2. \A n \in 1..Len(s) : L[s[n]] = s /\ P[s[n]] = n
    BY DEF InLists
  <2> HIDE DEF s, p, C
  <2> QED
    BY <2>1, <2>2
<1>2. Nat \subseteq S
  <2>1. 0 \in S
    <3>1. Is([n \in 1..0 |-> 0], 0)
      OBVIOUS
    <3> QED
      BY <3>1
  <2>2. ASSUME NEW m \in Nat, m \in S
        PROVE  m + 1 \in S
    <3>1. PICK f : Is(f, m)
      BY <2>2
    <3> DEFINE g == [n \in 1..m + 1 |-> IF n = m + 1 THEN Fill(f, m + 1) ELSE f[n]]
    <3>2. ASSUME NEW n \in 1..m + 1
          PROVE  g[n] = Fill(g, n)
      <4>1. n = 1 \/ n - 1 \in 1..m
        OBVIOUS
      <4>2. CASE n = m + 1
        <5>1. n - 1 \in 1..m => g[n - 1] = f[n - 1]
          OBVIOUS
        <5>2. n - 1 = m /\ g[n] = Fill(f, n)
          BY <4>2
        <5> HIDE DEF g
        <5> QED
          BY <4>1, <5>1, <5>2
      <4>3. CASE n \in 1..m
        <5>1. f[n] = Fill(f, n)
          BY <3>1, <4>3
        <5> QED
          BY <4>1, <4>3, <5>1
      <4> QED
        BY <4>2, <4>3
    <3>3. Is(g, m + 1)
      BY <3>2
    <3> HIDE DEF Is, g
    <3> QED
      BY <3>3
  <2> QED
    BY <2>1, <2>2, NaturalsWithZeroAndNext
<1>3. Is(at, C)
  <2> HIDE DEF Is
  <2>1. \E f : Is(f, C)
    BY <1>1, <1>2
  <2> QED
    BY <2>1
<1>4. From(h, b) = [n \in 1..Cardinality({m \in DOMAIN at : at[m] # Null}) |-> at[n]]
  BY DEF From
<1> HIDE DEF at
<1>5. DOMAIN at = 1..C /\ \A n \in 1..C : at[n] = Fill(at, n)
  BY <1>3
<1> HIDE DEF C, s, p, N
<1> DEFINE Shows(n) == at[n] = IF n <= N THEN s[p - 1 + n] ELSE Null
           T == {m \in Nat : m + 1 <= C => Shows(m + 1)}
<1>6. Nat \subseteq T
  <2>1. 0 \in T
    <3>1. at[1] = b /\ 1 \in 1..C
      BY <1>1, <1>5
    <3>2. 1 <= N /\ s[p - 1 + 1] = b /\ 0 + 1 = 1
      BY <1>1 DEF N
    <3>3. Shows(0 + 1)
      BY <3>1, <3>2
    <3> QED
      BY <3>3
  <2>2. ASSUME NEW m \in Nat, m \in T
        PROVE  m + 1 \in T
    <3> SUFFICES ASSUME (m + 1) + 1 <= C PROVE Shows((m + 1) + 1)
      OBVIOUS
    <3> DEFINE k == m + 1
    <3>1. k \in 1..C /\ k + 1 \in 1..C /\ k + 1 # 1 /\ (k + 1) - 1 = k /\ k \in Nat
      BY <1>1
    <3>2. Shows(k)
      BY <2>2, <3>1
    <3>3. at[k + 1] = IF at[k] = Null THEN Null ELSE h[at[k]].next
      BY <1>5, <3>1
    <3> HIDE DEF k
    <3>6. Shows(k + 1)
      <4>1. CASE k > N
        BY <1>1, <3>1, <3>2, <3>3, <4>1
      <4>2. CASE k <= N
        <5> DEFINE x == s[p - 1 + k]
        <5>1. p - 1 + k \in 1..Len(s) /\ (p - 1 + k) + 1 = p - 1 + (k + 1)
              /\ (p - 1 + k < Len(s) <=> k + 1 <= N)
          BY <1>1, <3>1, <4>2 DEF N
        <5>2. x \in Bufs /\ L[x] = s /\ P[x] = p - 1 + k /\ x # Null /\ at[k] = x
          BY <1>1, <3>2, <4>2, <5>1, BufsAreFinite
        <5> HIDE DEF x
        <5>3. h[x].next = IF p - 1 + k < Len(s) THEN s[(p - 1 + k) + 1] ELSE Null
          BY <5>2 DEF Chained
        <5>4. at[k + 1] = h[x].next
          BY <3>3, <5>2
        <5> QED
          BY <5>1, <5>3, <5>4
      <4> QED
        BY <1>1, <3>1, <4>1, <4>2
    <3> QED
      BY <3>6 DEF k
  <2> QED
    BY <2>1, <2>2, NaturalsWithZeroAndNext
<1>7. ASSUME NEW n \in 1..C
      PROVE  Shows(n)
  <2>1. n - 1 \in Nat /\ (n - 1) + 1 = n /\ n <= C
    BY <1>1
  <2> QED
    BY <1>6, <2>1
<1>8. {m \in DOMAIN at : at[m] # Null} = 1..N
  <2>1. ASSUME NEW m \in 1..C
        PROVE  at[m] # Null <=> m <= N
    <3>1. CASE m <= N
      <4>1. p - 1 + m \in 1..Len(s)
        BY <1>1, <3>1 DEF N
      <4>2. s[p - 1 + m] # Null
        BY <1>1, <4>1, BufsAreFinite
      <4> QED
        BY <1>7, <3>1, <4>2
    <3>2. CASE ~(m <= N)
      BY <1>7, <3>2
    <3> QED
      BY <3>1, <3>2
  <2> QED
    BY <1>1, <1>5, <2>1
<1>9. Cardinality(1..N) = N
  BY <1>1, FS_Interval
<1>10. \A n \in 1..N : at[n] = s[p - 1 + n]
  BY <1>1, <1>7
<1>11. From(h, b) = [n \in 1..N |-> s[p - 1 + n]]
  BY <1>4, <1>8, <1>9, <1>10
<1> QED
  BY <1>11 DEF N, s, p

(* The list of an element.                                                 *)
LEMMA ItemsAreListed ==
    ASSUME NEW h, NEW L, NEW P, InLists(L, P), Linked(h, L, P), NEW b \in Bufs
    PROVE  Items(h, b) = L[b]
<1> DEFINE s == L[b]
           d == s[1]
<1>1. /\ s \in Seq(Bufs) /\ Len(s) \in Nat
      /\ d \in Bufs /\ L[d] = s /\ P[d] = 1 /\ h[b].head = d
  BY ListsAreShort DEF Linked
<1>2. From(h, d) = [n \in 1..Len(L[d]) + 1 - P[d] |-> L[d][P[d] - 1 + n]]
  <2>1. Chained(h, L, P)
    BY DEF Linked
  <2> HIDE DEF d
  <2> QED
    BY <1>1, <2>1, FromIsTheRest
<1> HIDE DEF d
<1> HIDE DEF s
<1>3. From(h, d) = [n \in 1..Len(s) |-> s[n]]
  <2>1. Len(s) + 1 - 1 = Len(s) /\ \A n \in 1..Len(s) : 1 - 1 + n = n
    BY <1>1
  <2>2. From(h, d) = [n \in 1..Len(s) + 1 - 1 |-> s[1 - 1 + n]]
    BY <1>1, <1>2
  <2> QED
    BY <2>1, <2>2
<1>4. s = [n \in 1..Len(s) |-> s[n]]
  BY <1>1
<1> QED
  BY <1>1, <1>3, <1>4 DEF Items, s

Element ==
    [len : {0} \cup BufLens, consumed : Size_t, bytes_trans : Size_t, bytes_total : Size_t,
     count : 1..Cardinality(Bufs), next : Pointer, prev : Pointer, head : Bufs, end : Bufs,
     cur : Pointer]

(* The first element counts the elements and their bytes.                  *)
Counted(h, L) ==
    \A b \in Bufs : /\ h[L[b][1]].count = Len(L[b])
                    /\ h[L[b][1]].bytes_total = SumOf(h, L[b])

(* Only the first element of a list of which something was transferred has *)
(* a cursor at another element.                                            *)
Cursors(h, L) ==
    \A b \in Bufs :
        \/ h[b].cur \in {b, Null}
        \/ L[b][1] = b /\ h[b].bytes_trans > 0 /\ \E n \in 1..Len(L[b]) : h[b].cur = L[b][n]

Kept(h, L, P) ==
    h \in [Bufs -> Element] /\ InLists(L, P) /\ Linked(h, L, P) /\ Counted(h, L) /\ Cursors(h, L)

(* The lengths of the elements are size_t.                                 *)
LEMMA KeptAreMeasured ==
    ASSUME NEW h \in [Bufs -> Element]
    PROVE  Measured(h)
<1>1. \A len \in {0} \cup BufLens : len \in Size_t
  BY BufferListAssumption DEF Size_t
<1>2. \A x \in Bufs : h[x].len \in {0} \cup BufLens
  BY DEF Element
<1> QED
  BY <1>1, <1>2 DEF Measured

(* The constructor makes an element.                                       *)
LEMMA ConstructedElement ==
    ASSUME NEW b \in Bufs, NEW len \in {0} \cup BufLens
    PROVE  Constructed(b, len) \in Element
<1>1. 1 \in 1..Cardinality(Bufs)
  <2>1. Cardinality(Bufs) \in Nat /\ Cardinality(Bufs) # 0
    BY BufsAreFinite, FS_EmptySet
  <2> QED
    BY <2>1
<1>2. len \in Size_t /\ 0 \in Size_t
  BY BufferListAssumption DEF Size_t
<1> QED
  BY <1>1, <1>2 DEF Constructed, Element, Pointer

(* Elements by themselves.                                                 *)
LEMMA Apart ==
    ASSUME NEW L, NEW P, InLists(L, P), NEW s
    PROVE  InLists([x \in Bufs |-> IF L[x] = s THEN <<x>> ELSE L[x]],
                  [x \in Bufs |-> IF L[x] = s THEN 1 ELSE P[x]])
<1> DEFINE L2 == [x \in Bufs |-> IF L[x] = s THEN <<x>> ELSE L[x]]
           P2 == [x \in Bufs |-> IF L[x] = s THEN 1 ELSE P[x]]
<1>1. L2 \in [Bufs -> Seq(Bufs)] /\ P2 \in [Bufs -> Nat]
  BY DEF InLists
<1>2. ASSUME NEW b \in Bufs
      PROVE  /\ P2[b] \in 1..Len(L2[b]) /\ L2[b][P2[b]] = b
             /\ \A n \in 1..Len(L2[b]) : L2[L2[b][n]] = L2[b] /\ P2[L2[b][n]] = n
  <2>1. CASE L[b] = s
    <3>1. L2[b] = <<b>> /\ P2[b] = 1
      BY <2>1
    <3> HIDE DEF L2, P2
    <3> QED
      BY <3>1
  <2>2. CASE L[b] # s
    <3>1. L2[b] = L[b] /\ P2[b] = P[b]
      BY <2>2
    <3>2. ASSUME NEW n \in 1..Len(L[b])
          PROVE  L2[L[b][n]] = L[b] /\ P2[L[b][n]] = n
      <4>1. L[b][n] \in Bufs /\ L[L[b][n]] = L[b] /\ P[L[b][n]] = n
        <5>1. L[b][n] \in Bufs
          BY ListsAreShort
        <5> QED
          BY <5>1 DEF InLists
      <4> QED
        BY <2>2, <4>1
    <3>3. P[b] \in 1..Len(L[b]) /\ L[b][P[b]] = b
      BY DEF InLists
    <3> HIDE DEF L2, P2
    <3> QED
      BY <3>1, <3>2, <3>3
  <2> QED
    BY <2>1, <2>2
<1> HIDE DEF L2, P2
<1>3. InLists(L2, P2)
  BY <1>1, <1>2 DEF InLists
<1> QED
  BY <1>3 DEF L2, P2

(* At the start every element is a list of its own.                        *)
LEMMA BuffersStart ==
    ASSUME BufferInit
    PROVE  \E L, P : Kept(heap, L, P)
<1>1. PICK lens \in [Bufs -> {0} \cup BufLens] : heap = [b \in Bufs |-> Constructed(b, lens[b])]
  BY DEF BufferInit
<1> DEFINE L == [b \in Bufs |-> <<b>>]
           P == [b \in Bufs |-> 1]
<1>2. /\ \A b \in Bufs : L[b] = <<b>> /\ P[b] = 1 /\ Len(<<b>>) = 1 /\ <<b>>[1] = b
      /\ L \in [Bufs -> Seq(Bufs)] /\ P \in [Bufs -> Nat]
  OBVIOUS
<1> HIDE DEF L, P
<1>3. InLists(L, P)
  BY <1>2 DEF InLists
<1>4. heap \in [Bufs -> Element]
  BY <1>1, ConstructedElement
<1>5. ASSUME NEW b \in Bufs
      PROVE  /\ heap[b].head = b /\ heap[b].next = Null /\ heap[b].prev = Null /\ heap[b].cur = b
             /\ heap[b].count = 1 /\ heap[b].bytes_total = heap[b].len
  BY <1>1 DEF Constructed
<1>6. Linked(heap, L, P)
  BY <1>2, <1>5 DEF Linked, Chained
<1>7. Counted(heap, L)
  <2>1. \A b \in Bufs : SumOf(heap, <<b>>) = heap[b].len
    BY <1>4, KeptAreMeasured, SumOfOne
  <2>2. \A b \in Bufs : L[b] = <<b>> /\ L[b][1] = b /\ Len(L[b]) = 1
    BY <1>2
  <2>3. ASSUME NEW b \in Bufs
        PROVE  heap[L[b][1]].count = Len(L[b]) /\ heap[L[b][1]].bytes_total = SumOf(heap, L[b])
    <3>1. heap[L[b][1]] = heap[b] /\ Len(L[b]) = 1 /\ SumOf(heap, L[b]) = heap[b].len
      BY <2>1, <2>2
    <3> QED
      BY <1>5, <3>1
  <2> QED
    BY <2>3 DEF Counted
<1>8. Cursors(heap, L)
  BY <1>5 DEF Cursors
<1> QED
  BY <1>3, <1>4, <1>6, <1>7, <1>8 DEF Kept

(* reset(), and the destructor, leave every element of the list a list of  *)
(* its own, and the other lists as they were.                              *)
LEMMA TakenApart ==
    ASSUME NEW L, NEW P, Kept(heap, L, P), NEW b \in Bufs, NEW keeps \in BOOLEAN,
           TakeApart(b, keeps)
    PROVE  \E L2, P2 : Kept(heap', L2, P2)
<1> DEFINE s == L[b]
           L2 == [x \in Bufs |-> IF L[x] = s THEN <<x>> ELSE L[x]]
           P2 == [x \in Bufs |-> IF L[x] = s THEN 1 ELSE P[x]]
           E(x) == Constructed(x, IF keeps THEN heap[x].len ELSE 0)
<1>1. heap \in [Bufs -> Element] /\ InLists(L, P) /\ Linked(heap, L, P)
      /\ Counted(heap, L) /\ Cursors(heap, L)
  BY DEF Kept
<1>2. InLists(L2, P2)
  <2> HIDE DEF s
  <2> QED
    BY <1>1, Apart
<1>3. \A x \in Bufs : x \in ToSet(s) <=> L[x] = s
  <2>1. \A n \in 1..Len(s) : L[s[n]] = s
    BY <1>1 DEF InLists
  <2>2. \A x \in Bufs : P[x] \in 1..Len(L[x]) /\ L[x][P[x]] = x
    BY <1>1 DEF InLists
  <2>3. s \in Seq(Bufs)
    BY <1>1 DEF InLists
  <2>4. DOMAIN s = 1..Len(s)
    BY <2>3
  <2>5. ToSet(s) = {s[n] : n \in 1..Len(s)}
    BY <2>4 DEF ToSet
  <2> HIDE DEF s
  <2> QED
    BY <2>1, <2>2, <2>5
<1>4. heap' = [x \in Bufs |-> IF L[x] = s THEN E(x) ELSE heap[x]]
  <2>1. Items(heap, b) = s
    BY <1>1, ItemsAreListed
  <2> QED
    BY <1>3, <2>1 DEF TakeApart
<1>5. ASSUME NEW x \in Bufs
      PROVE  E(x) \in Element
  <2>1. heap[x].len \in {0} \cup BufLens
    BY <1>1 DEF Element
  <2> QED
    BY <2>1, ConstructedElement
<1>6. heap' \in [Bufs -> Element]
  <2> HIDE DEF E, s
  <2> QED
    BY <1>1, <1>4, <1>5
<1>7. ASSUME NEW x \in Bufs, L[x] = s
      PROVE  /\ heap'[x].head = x /\ heap'[x].next = Null /\ heap'[x].prev = Null
             /\ heap'[x].cur = x /\ heap'[x].count = 1 /\ heap'[x].bytes_total = heap'[x].len
             /\ L2[x] = <<x>> /\ P2[x] = 1 /\ Len(<<x>>) = 1 /\ <<x>>[1] = x
  BY <1>4, <1>7 DEF Constructed
<1>8. ASSUME NEW x \in Bufs, L[x] # s
      PROVE  heap'[x] = heap[x] /\ L2[x] = L[x] /\ P2[x] = P[x]
  BY <1>4, <1>8
<1> HIDE DEF L2, P2, E, s
<1>9. Linked(heap', L2, P2)
  BY <1>1, <1>7, <1>8 DEF Linked, Chained
<1>10. Counted(heap', L2)
  <2>1. ASSUME NEW x \in Bufs
        PROVE  heap'[L2[x][1]].count = Len(L2[x])
               /\ heap'[L2[x][1]].bytes_total = SumOf(heap', L2[x])
    <3>1. CASE L[x] = s
      <4>1. SumOf(heap', <<x>>) = heap'[x].len
        BY <1>6, KeptAreMeasured, SumOfOne
      <4>2. L2[x] = <<x>> /\ L2[x][1] = x /\ Len(L2[x]) = 1
        BY <1>7, <3>1
      <4> QED
        BY <1>7, <3>1, <4>1, <4>2
    <3>2. CASE L[x] # s
      <4>1. /\ L[x] \in Seq(Bufs) /\ L[x][1] \in Bufs /\ L[L[x][1]] = L[x]
            /\ \A n \in 1..Len(L[x]) : L[x][n] \in Bufs /\ L[L[x][n]] = L[x]
        <5>1. L[x] \in Seq(Bufs) /\ L[x][1] \in Bufs /\ L[L[x][1]] = L[x]
              /\ \A n \in 1..Len(L[x]) : L[x][n] \in Bufs
          BY <1>1, ListsAreShort
        <5>2. \A n \in 1..Len(L[x]) : L[L[x][n]] = L[x]
          BY <1>1 DEF InLists
        <5> QED
          BY <5>1, <5>2
      <4>2. \A n \in 1..Len(L[x]) : heap'[L[x][n]] = heap[L[x][n]]
        BY <1>8, <3>2, <4>1
      <4>3. SumOf(heap', L[x]) = SumOf(heap, L[x])
        BY <1>1, <1>6, <4>1, <4>2, KeptAreMeasured, SumsAgree
      <4>4. heap'[L[x][1]] = heap[L[x][1]] /\ L2[x] = L[x]
        BY <1>8, <3>2, <4>1
      <4> QED
        BY <1>1, <4>3, <4>4 DEF Counted
    <3> QED
      BY <3>1, <3>2
  <2> QED
    BY <2>1 DEF Counted
<1>11. Cursors(heap', L2)
  BY <1>1, <1>7, <1>8 DEF Cursors
<1> QED
  BY <1>2, <1>6, <1>9, <1>10, <1>11 DEF Kept

(* set_data() keeps the lists, and the total of the head is the sum again. *)
LEMMA DataIsSet ==
    ASSUME NEW L, NEW P, Kept(heap, L, P), NEW b \in Bufs, NEW len \in {0} \cup BufLens,
           SetData(b, len)
    PROVE  Kept(heap', L, P)
<1> DEFINE s == L[b]
           hd == s[1]
           total == (heap[hd].bytes_total + (len - heap[b].len)) % SizeMod
<1>1. heap \in [Bufs -> Element] /\ InLists(L, P) /\ Linked(heap, L, P)
      /\ Counted(heap, L) /\ Cursors(heap, L)
  BY DEF Kept
<1>2. /\ s \in Seq(Bufs) /\ hd \in Bufs /\ L[hd] = s /\ heap[b].head = hd /\ Len(s) \in Nat
      /\ P[b] \in 1..Len(s) /\ s[P[b]] = b
  BY <1>1, ListsAreShort DEF Linked
<1> HIDE DEF hd
<1>3. heap' = [heap EXCEPT ![hd].bytes_total = total, ![b].len = len]
  BY <1>1, <1>2 DEF SetData
<1>4. total \in Size_t
  <2>1. heap[hd].bytes_total \in Size_t /\ heap[b].len \in {0} \cup BufLens
    BY <1>1, <1>2 DEF Element
  <2>2. \A l \in {0} \cup BufLens : l \in Int
    BY BufferListAssumption
  <2>3. len \in Int /\ heap[b].len \in Int
    BY <2>1, <2>2
  <2>4. heap[hd].bytes_total \in Int
    BY <2>1 DEF Size_t
  <2>5. heap[hd].bytes_total + (len - heap[b].len) \in Int
    BY <2>3, <2>4
  <2> QED
    BY <2>5, SizesAreBounded
<1> HIDE DEF s
<1>5. ASSUME NEW x \in Bufs
      PROVE  /\ heap'[x].len = (IF x = b THEN len ELSE heap[x].len)
             /\ heap'[x].bytes_total = (IF x = hd THEN total ELSE heap[x].bytes_total)
             /\ heap'[x].consumed = heap[x].consumed /\ heap'[x].bytes_trans = heap[x].bytes_trans
             /\ heap'[x].count = heap[x].count /\ heap'[x].next = heap[x].next
             /\ heap'[x].prev = heap[x].prev /\ heap'[x].head = heap[x].head
             /\ heap'[x].end = heap[x].end /\ heap'[x].cur = heap[x].cur
             /\ heap'[x] \in Element
  <2> HIDE DEF total
  <2>1. heap[x] \in Element
    BY <1>1
  <2> QED
    BY <1>1, <1>2, <1>3, <1>4, <2>1 DEF Element
<1>6. heap' \in [Bufs -> Element]
  <2>1. heap' = [x \in Bufs |-> heap'[x]]
    <3> HIDE DEF total
    <3> QED
      BY <1>1, <1>3
  <2> QED
    BY <1>5, <2>1
<1>7. Measured(heap) /\ Measured(heap')
  BY <1>1, <1>6, KeptAreMeasured
<1>8. Linked(heap', L, P)
  BY <1>1, <1>5 DEF Linked, Chained
<1>9. Cursors(heap', L)
  BY <1>1, <1>5 DEF Cursors
<1>10. ASSUME NEW y \in Bufs
       PROVE  heap'[L[y][1]].count = Len(L[y])
              /\ heap'[L[y][1]].bytes_total = SumOf(heap', L[y])
  <2>1. L[y] \in Seq(Bufs) /\ L[y][1] \in Bufs /\ L[L[y][1]] = L[y] /\ Len(L[y]) \in Nat
        /\ \A n \in 1..Len(L[y]) : L[y][n] \in Bufs
    BY <1>1, ListsAreShort
  <2>2. heap[L[y][1]].count = Len(L[y]) /\ heap[L[y][1]].bytes_total = SumOf(heap, L[y])
    BY <1>1 DEF Counted
  <2>3. \A n \in 1..Len(L[y]) : L[L[y][n]] = L[y] /\ P[L[y][n]] = n
    BY <1>1 DEF InLists
  <2>4. CASE L[y] = s
    <3>1. L[y][1] = hd /\ heap[hd].bytes_total = SumOf(heap, s)
      BY <2>2, <2>4 DEF hd
    <3>2. \A n \in 1..Len(s) : n # P[b] => heap[s[n]].len = heap'[s[n]].len
      BY <1>5, <2>1, <2>3, <2>4
    <3>3. SumOf(heap', s) = (SumOf(heap, s) + (heap'[s[P[b]]].len - heap[s[P[b]]].len)) % SizeMod
      <4>1. PICK g : g = heap'
        OBVIOUS
      <4>2. \A n \in 1..Len(s) : n # P[b] => heap[s[n]].len = g[s[n]].len
        BY <3>2, <4>1
      <4>3. SumOf(g, s) = (SumOf(heap, s) + (g[s[P[b]]].len - heap[s[P[b]]].len)) % SizeMod
        BY SMTT(30), <1>2, <1>7, <4>1, <4>2, SumChanges
      <4> QED
        BY <4>1, <4>3
    <3>4. heap'[b].len = len /\ heap'[hd].bytes_total = total /\ heap'[hd].count = heap[hd].count
      BY <1>2, <1>5
    <3> HIDE DEF total
    <3>5. SumOf(heap', s) = total
      BY <1>2, <3>1, <3>3, <3>4 DEF total
    <3> QED
      BY <2>2, <2>4, <3>1, <3>4, <3>5
  <2>5. CASE L[y] # s
    <3>1. L[y][1] # hd /\ \A n \in 1..Len(L[y]) : L[y][n] # b
      BY <1>2, <2>1, <2>3, <2>5 DEF s
    <3>2. \A n \in 1..Len(L[y]) : heap[L[y][n]].len = heap'[L[y][n]].len
      BY <1>5, <2>1, <3>1
    <3>3. SumOf(heap', L[y]) = SumOf(heap, L[y])
      BY <1>7, <2>1, <3>2, SumsAgree
    <3>4. heap'[L[y][1]].bytes_total = heap[L[y][1]].bytes_total
          /\ heap'[L[y][1]].count = heap[L[y][1]].count
      BY <1>5, <2>1, <3>1
    <3> QED
      BY <2>2, <3>3, <3>4
  <2> QED
    BY <2>4, <2>5
<1>11. Counted(heap', L)
  BY <1>10 DEF Counted
<1> QED
  BY <1>1, <1>6, <1>8, <1>9, <1>11 DEF Kept

-----------------------------------------------------------------------------
(* set_bytes(), turn by turn.                                              *)

ChargeFirst(b, bytes, items) ==
    [left |-> bytes, cur |-> heap[heap[b].head].cur, done |-> FALSE,
     consumed |-> [x \in Bufs |-> IF x \in ToSet(items) THEN 0 ELSE heap[x].consumed]]

(* Charged takes one turn for each element of the list, in order.          *)
LEMMA ChargeSteps ==
    ASSUME NEW b, NEW bytes, NEW s \in Seq(Bufs), Items(heap, b) = s
    PROVE  \E f : /\ f[0] = ChargeFirst(b, bytes, s) /\ Charged(b, bytes) = f[Len(s)]
                  /\ \A n \in 1..Len(s) : f[n] = Charge(b, s[n], f[n - 1])
<1> DEFINE first == ChargeFirst(b, bytes, s)
           Fill(f, n) == IF n = 0 THEN first ELSE Charge(b, s[n], f[n - 1])
           Is(f, m) == f = [n \in 0..m |-> Fill(f, n)]
           S == {m \in Nat : \E f : Is(f, m)}
           acc == CHOOSE f : Is(f, Len(s))
<1>0. Len(s) \in Nat
  OBVIOUS
<1>1. Charged(b, bytes) = acc[Len(s)]
  BY DEF Charged, ChargeFirst
<1> HIDE DEF first
<1>2. Nat \subseteq S
  <2>1. 0 \in S
    <3>1. Is([n \in 0..0 |-> first], 0)
      OBVIOUS
    <3> QED
      BY <3>1
  <2>2. ASSUME NEW m \in Nat, m \in S
        PROVE  m + 1 \in S
    <3>1. PICK f : Is(f, m)
      BY <2>2
    <3> DEFINE g == [n \in 0..m + 1 |-> IF n = m + 1 THEN Charge(b, s[m + 1], f[m]) ELSE f[n]]
    <3>2. ASSUME NEW n \in 0..m + 1
          PROVE  g[n] = Fill(g, n)
      <4>1. n = 0 \/ n \in 1..m \/ n = m + 1
        OBVIOUS
      <4> QED
        BY <3>1, <4>1
    <3>3. Is(g, m + 1)
      BY <3>2
    <3> HIDE DEF Is, g
    <3> QED
      BY <3>3
  <2> QED
    BY <2>1, <2>2, NaturalsWithZeroAndNext
<1>3. Is(acc, Len(s))
  <2> HIDE DEF Is
  <2>1. \E f : Is(f, Len(s))
    BY <1>0, <1>2
  <2> QED
    BY <2>1
<1> HIDE DEF acc
<1>4. \A n \in 0..Len(s) : acc[n] = Fill(acc, n)
  BY <1>3
<1>5. acc[0] = first /\ \A n \in 1..Len(s) : acc[n] = Charge(b, s[n], acc[n - 1])
  BY <1>0, <1>4
<1> QED
  BY <1>1, <1>5 DEF first


(* What a turn keeps.                                                      *)
Charging == [left : Size_t, cur : Pointer, done : BOOLEAN, consumed : [Bufs -> Size_t]]

(* A turn leaves the cursor where it was, at the element or at the next.   *)
LEMMA ChargeKeeps ==
    ASSUME heap \in [Bufs -> Element], NEW b \in Bufs, NEW i \in Bufs,
           NEW acc \in Charging
    PROVE  /\ Charge(b, i, acc) \in Charging
           /\ Charge(b, i, acc).cur \in {acc.cur, i, heap[i].next}
<1>1. heap[b].len \in {0} \cup BufLens /\ heap[i].next \in Pointer
  BY DEF Element
<1>2. heap[b].len \in Size_t /\ 0 \in Size_t
  <2>1. \A len \in {0} \cup BufLens : len \in Size_t
    BY BufferListAssumption DEF Size_t
  <2>2. 0 \in {0} \cup BufLens
    OBVIOUS
  <2> QED
    BY <1>1, <2>1, <2>2
<1>3. acc.left - heap[b].len \in Int
  BY <1>2 DEF Size_t, Charging
<1>4. (acc.left - heap[b].len) % SizeMod \in Size_t
  BY <1>3, SizesAreBounded
<1> DEFINE lower == (acc.left - heap[b].len) % SizeMod
<1> HIDE DEF lower
<1>5. CASE acc.done
  BY <1>5 DEF Charge
<1>6. CASE ~acc.done /\ IsFull(heap[i].len, acc.left)
  <2> DEFINE new == [acc.consumed EXCEPT ![i] = heap[b].len]
  <2>1. Charge(b, i, acc) = [acc EXCEPT !.consumed = new, !.left = lower]
    BY <1>6 DEF Charge, lower
  <2>2. lower \in Size_t
    BY <1>4 DEF lower
  <2>3. new \in [Bufs -> Size_t]
    BY <1>2 DEF Charging
  <2> HIDE DEF new
  <2> QED
    BY <2>1, <2>2, <2>3 DEF Charging
<1>7. CASE ~acc.done /\ ~IsFull(heap[i].len, acc.left)
  <2>1. Charge(b, i, acc) =
            [acc EXCEPT !.consumed[i] = acc.left, !.left = 0, !.done = TRUE,
                        !.cur = IF heap[i].len > acc.left THEN i ELSE heap[i].next]
    BY <1>7 DEF Charge
  <2> DEFINE cur == IF heap[i].len > acc.left THEN i ELSE heap[i].next
  <2>2. cur \in Pointer /\ cur \in {i, heap[i].next}
    BY <1>1 DEF Pointer
  <2> HIDE DEF cur
  <2>3. Charge(b, i, acc) = [acc EXCEPT !.consumed[i] = acc.left, !.left = 0, !.done = TRUE,
                                        !.cur = cur]
    BY <2>1 DEF cur
  <2> QED
    <3>1. Charge(b, i, acc).cur = cur
      BY <2>3 DEF Charging
    <3>2. Charge(b, i, acc) \in Charging
      <4> DEFINE consumed == [acc.consumed EXCEPT ![i] = acc.left]
      <4>1. consumed \in [Bufs -> Size_t]
        BY DEF Charging
      <4>2. Charge(b, i, acc) =
                [left |-> 0, cur |-> cur, done |-> TRUE, consumed |-> consumed]
        BY <2>3 DEF Charging
      <4> HIDE DEF consumed
      <4> QED
        BY <1>2, <2>2, <4>1, <4>2 DEF Charging
    <3> QED
      BY <2>2, <3>1, <3>2
<1> QED
  BY <1>5, <1>6, <1>7

(* The bytes that set_bytes() is called with.                              *)
LEMMA BytesAreInRange ==
    ASSUME NEW L, NEW P, Kept(heap, L, P), NEW b \in Bufs, NEW n \in 1..Left(b), AddBytes(b, n)
    PROVE  \E bytes \in 1..heap[heap[b].head].bytes_total :
             /\ bytes \in Size_t
             /\ heap' = [x \in Bufs |->
                           [heap[x] EXCEPT !.consumed = Charged(b, bytes).consumed[x],
                                           !.bytes_trans = IF x = heap[b].head THEN bytes ELSE @,
                                           !.cur = IF x = heap[b].head
                                                   THEN Charged(b, bytes).cur ELSE @]]
<1> DEFINE hd == heap[b].head
           all == heap[hd].bytes_total
           trans == heap[hd].bytes_trans
           bytes == IF trans + n > all THEN all ELSE trans + n
<1>1. heap[b].head = L[b][1] /\ L[b][1] \in Bufs
  BY ListsAreShort DEF Kept, Linked
<1>2. all \in Size_t /\ trans \in Size_t
  BY <1>1 DEF Kept, Element
<1>3. Size_t \subseteq Nat /\ \A x \in Nat : \A y \in Size_t : x <= y => x \in Size_t
  BY BufferListAssumption DEF Size_t
<1>4. n \in 1..all - trans
  BY DEF Left
<1>5. heap' = [x \in Bufs |->
                 [heap[x] EXCEPT !.consumed = Charged(b, bytes).consumed[x],
                                 !.bytes_trans = IF x = hd THEN bytes ELSE @,
                                 !.cur = IF x = hd THEN Charged(b, bytes).cur ELSE @]]
  BY DEF AddBytes
<1>6. all \in Nat /\ trans \in Nat
  BY <1>2, <1>3
<1> HIDE DEF all, trans
<1>7. bytes \in 1..all
  BY <1>4, <1>6
<1>8. bytes \in Size_t
  BY <1>2, <1>3, <1>6, <1>7
<1> HIDE DEF bytes
<1> QED
  BY <1>5, <1>7, <1>8 DEF all

(* What set_bytes() finds, whatever the lengths.                           *)
LEMMA ChargedIsSafe ==
    ASSUME NEW L, NEW P, Kept(heap, L, P), NEW b \in Bufs, NEW bytes \in Size_t
    PROVE  /\ Charged(b, bytes).consumed \in [Bufs -> Size_t]
           /\ Charged(b, bytes).cur \in Pointer
           /\ \/ Charged(b, bytes).cur = Null
              \/ \E n \in 1..Len(L[b]) : Charged(b, bytes).cur = L[b][n]
<1> DEFINE s == L[b]
           hd == heap[b].head
           Items2 == {s[n] : n \in 1..Len(s)} \cup {Null}
           Good(acc) == acc \in Charging /\ acc.cur \in Items2
<1>1. heap \in [Bufs -> Element] /\ InLists(L, P) /\ Linked(heap, L, P)
      /\ Counted(heap, L) /\ Cursors(heap, L) /\ Chained(heap, L, P)
  BY DEF Kept, Linked
<1>2. /\ s \in Seq(Bufs) /\ Len(s) \in Nat /\ 1 \in 1..Len(s) /\ hd = s[1] /\ L[hd] = s
      /\ hd \in Bufs /\ \A n \in 1..Len(s) : s[n] \in Bufs
  BY <1>1, ListsAreShort DEF Linked
<1>3. \A n \in 1..Len(s) : L[s[n]] = s /\ P[s[n]] = n
  BY <1>1 DEF InLists
<1>4. Items(heap, b) = s
  BY <1>1, ItemsAreListed
<1> HIDE DEF s
<1>5. PICK f : /\ f[0] = ChargeFirst(b, bytes, s) /\ Charged(b, bytes) = f[Len(s)]
               /\ \A n \in 1..Len(s) : f[n] = Charge(b, s[n], f[n - 1])
  BY <1>2, <1>4, ChargeSteps
<1>6. \A n \in 1..Len(s) : heap[s[n]].next \in Items2
  <2> SUFFICES ASSUME NEW n \in 1..Len(s) PROVE heap[s[n]].next \in Items2
    OBVIOUS
  <2>1. heap[s[n]].next = IF n < Len(s) THEN s[n + 1] ELSE Null
    BY <1>1, <1>2, <1>3 DEF Chained
  <2>2. n < Len(s) => n + 1 \in 1..Len(s)
    BY <1>2
  <2> QED
    BY <2>1, <2>2
<1>7. Good(f[0])
  <2>1. heap[hd].cur \in Items2
    <3>1. heap[hd].cur \in {hd, Null} \/ \E n \in 1..Len(s) : heap[hd].cur = s[n]
      BY <1>1, <1>2 DEF Cursors
    <3> QED
      BY <1>2, <3>1
  <2>2. Items2 \subseteq Pointer
    BY <1>2 DEF Pointer
  <2> DEFINE consumed == [x \in Bufs |-> IF x \in ToSet(s) THEN 0 ELSE heap[x].consumed]
  <2>3. consumed \in [Bufs -> Size_t]
    <3>1. 0 \in Size_t
      BY BufferListAssumption DEF Size_t
    <3>2. \A x \in Bufs : heap[x].consumed \in Size_t
      BY <1>1 DEF Element
    <3> QED
      BY <3>1, <3>2
  <2>4. f[0] = [left |-> bytes, cur |-> heap[hd].cur, done |-> FALSE, consumed |-> consumed]
    BY <1>5 DEF ChargeFirst
  <2> HIDE DEF consumed, Items2
  <2> QED
    BY <2>1, <2>2, <2>3, <2>4 DEF Charging
<1> DEFINE T == {m \in Nat : m <= Len(s) => Good(f[m])}
<1>8. 0 \in T
  BY <1>7
<1>9. ASSUME NEW m \in Nat, m \in T
      PROVE  m + 1 \in T
  <2> SUFFICES ASSUME m + 1 <= Len(s) PROVE Good(f[m + 1])
    OBVIOUS
  <2>1. m + 1 \in 1..Len(s) /\ m + 1 - 1 = m /\ Good(f[m])
    BY <1>2, <1>9
  <2>2. f[m + 1] = Charge(b, s[m + 1], f[m])
    BY <1>5, <2>1
  <2>3. s[m + 1] \in Bufs /\ s[m + 1] \in Items2 /\ heap[s[m + 1]].next \in Items2
    BY <1>2, <1>6, <2>1
  <2> HIDE DEF Items2
  <2> QED
    BY <1>1, <2>1, <2>2, <2>3, ChargeKeeps
<1>10. Nat \subseteq T
  <2> HIDE DEF Good
  <2> QED
    BY <1>8, <1>9, NaturalsWithZeroAndNext
<1>11. Good(f[Len(s)])
  BY <1>2, <1>10
<1>12. Charged(b, bytes) \in Charging /\ Charged(b, bytes).cur \in Items2
  BY <1>5, <1>11
<1> QED
  BY <1>12 DEF Charging, s

(* add_bytes() keeps the lists and their totals, and the cursor is on the  *)
(* list or NULL.                                                           *)
LEMMA BytesAreAdded ==
    ASSUME NEW L, NEW P, Kept(heap, L, P), NEW b \in Bufs, NEW n \in 1..Left(b), AddBytes(b, n)
    PROVE  Kept(heap', L, P)
<1> DEFINE s == L[b]
           hd == heap[b].head
<1>1. heap \in [Bufs -> Element] /\ InLists(L, P) /\ Linked(heap, L, P)
      /\ Counted(heap, L) /\ Cursors(heap, L)
  BY DEF Kept
<1>2. hd \in Bufs /\ L[hd] = s /\ hd = s[1]
  BY <1>1, ListsAreShort DEF Linked
<1>3. PICK bytes \in 1..heap[hd].bytes_total :
             /\ bytes \in Size_t
             /\ heap' = [x \in Bufs |->
                           [heap[x] EXCEPT !.consumed = Charged(b, bytes).consumed[x],
                                           !.bytes_trans = IF x = hd THEN bytes ELSE @,
                                           !.cur = IF x = hd THEN Charged(b, bytes).cur ELSE @]]
  BY BytesAreInRange
<1> DEFINE consumed == Charged(b, bytes).consumed
           cur == Charged(b, bytes).cur
<1>4. consumed \in [Bufs -> Size_t] /\ cur \in Pointer
      /\ (cur = Null \/ \E k \in 1..Len(s) : cur = s[k])
  <2>1. bytes \in Size_t
    BY <1>3
  <2> QED
    BY <2>1, ChargedIsSafe
<1> HIDE DEF consumed, cur, hd, s
<1>5. ASSUME NEW x \in Bufs
      PROVE  /\ heap'[x].len = heap[x].len
             /\ heap'[x].bytes_total = heap[x].bytes_total
             /\ heap'[x].bytes_trans = (IF x = hd THEN bytes ELSE heap[x].bytes_trans)
             /\ heap'[x].count = heap[x].count /\ heap'[x].next = heap[x].next
             /\ heap'[x].prev = heap[x].prev /\ heap'[x].head = heap[x].head
             /\ heap'[x].end = heap[x].end
             /\ heap'[x].cur = (IF x = hd THEN cur ELSE heap[x].cur)
             /\ heap'[x] \in Element
  <2>1. heap[x] \in Element
    BY <1>1
  <2>2. heap'[x] = [heap[x] EXCEPT !.consumed = consumed[x],
                                   !.bytes_trans = IF x = hd THEN bytes ELSE @,
                                   !.cur = IF x = hd THEN cur ELSE @]
    BY <1>3 DEF consumed, cur
  <2>3. consumed[x] \in Size_t
    BY <1>4
  <2> QED
    BY <1>3, <1>4, <2>1, <2>2, <2>3 DEF Element
<1>6. heap' \in [Bufs -> Element]
  <2>1. heap' = [x \in Bufs |-> heap'[x]]
    BY <1>3
  <2> QED
    BY <1>5, <2>1
<1>7. Linked(heap', L, P)
  BY <1>1, <1>5 DEF Linked, Chained
<1>8. Cursors(heap', L)
  <2>1. bytes > 0 /\ L[hd][1] = hd
    <3>1. heap[hd].bytes_total \in Int
      BY <1>1, <1>2 DEF Element, Size_t
    <3>2. bytes \in 1..heap[hd].bytes_total
      BY <1>3
    <3>3. bytes > 0
      BY <3>1, <3>2
    <3>4. L[hd][1] = hd
      BY <1>2
    <3> QED
      BY <3>3, <3>4
  <2>2. ASSUME NEW x \in Bufs
        PROVE  \/ heap'[x].cur \in {x, Null}
               \/ L[x][1] = x /\ heap'[x].bytes_trans > 0
                  /\ \E k \in 1..Len(L[x]) : heap'[x].cur = L[x][k]
    <3>1. CASE x = hd
      BY <1>2, <1>4, <1>5, <2>1, <3>1
    <3>2. CASE x # hd
      BY <1>1, <1>5, <3>2 DEF Cursors
    <3> QED
      BY <3>1, <3>2
  <2> QED
    BY <2>2 DEF Cursors
<1>9. ASSUME NEW y \in Bufs
      PROVE  heap'[L[y][1]].count = Len(L[y])
             /\ heap'[L[y][1]].bytes_total = SumOf(heap', L[y])
  <2>1. L[y] \in Seq(Bufs) /\ L[y][1] \in Bufs /\ \A k \in 1..Len(L[y]) : L[y][k] \in Bufs
    BY <1>1, ListsAreShort
  <2>2. heap[L[y][1]].count = Len(L[y]) /\ heap[L[y][1]].bytes_total = SumOf(heap, L[y])
    BY <1>1 DEF Counted
  <2>3. \A k \in 1..Len(L[y]) : heap'[L[y][k]].len = heap[L[y][k]].len
    BY <1>5, <2>1
  <2>4. SumOf(heap', L[y]) = SumOf(heap, L[y])
    BY <1>1, <1>6, <2>1, <2>3, KeptAreMeasured, SumsAgree
  <2> QED
    BY <1>5, <2>1, <2>2, <2>4
<1>10. Counted(heap', L)
  BY <1>9 DEF Counted
<1> QED
  BY <1>1, <1>6, <1>7, <1>8, <1>10 DEF Kept

(* Two lists, one after the other.                                         *)
ListsJoined(L, s, t) == [x \in Bufs |-> IF L[x] \in {s, t} THEN s \o t ELSE L[x]]
PlacesJoined(L, P, s, t) == [x \in Bufs |-> IF L[x] = t THEN Len(s) + P[x] ELSE P[x]]

(* Two lists that are joined are one.                                      *)
LEMMA Together ==
    ASSUME NEW L, NEW P, InLists(L, P), NEW a \in Bufs, NEW b \in Bufs, L[a] # L[b]
    PROVE  InLists(ListsJoined(L, L[a], L[b]), PlacesJoined(L, P, L[a], L[b]))
<1> DEFINE s == L[a]
           t == L[b]
           u == s \o t
           L2 == [x \in Bufs |-> IF L[x] \in {s, t} THEN u ELSE L[x]]
           P2 == [x \in Bufs |-> IF L[x] = t THEN Len(s) + P[x] ELSE P[x]]
<1>1. /\ s \in Seq(Bufs) /\ t \in Seq(Bufs) /\ Len(s) \in Nat /\ Len(t) \in Nat
      /\ \A n \in 1..Len(s) : s[n] \in Bufs /\ L[s[n]] = s /\ P[s[n]] = n
      /\ \A n \in 1..Len(t) : t[n] \in Bufs /\ L[t[n]] = t /\ P[t[n]] = n
  <2>1. s \in Seq(Bufs) /\ t \in Seq(Bufs)
    BY DEF InLists
  <2>2. \A n \in 1..Len(s) : L[s[n]] = s /\ P[s[n]] = n
    BY DEF InLists
  <2>3. \A n \in 1..Len(t) : L[t[n]] = t /\ P[t[n]] = n
    BY DEF InLists
  <2> HIDE DEF s, t
  <2> QED
    BY <2>1, <2>2, <2>3
<1> HIDE DEF s, t
<1>2. /\ u \in Seq(Bufs) /\ Len(u) = Len(s) + Len(t)
      /\ \A n \in 1..Len(s) : u[n] = s[n]
      /\ \A n \in 1..Len(t) : u[Len(s) + n] = t[n]
  BY <1>1
<1> HIDE DEF u
<1>3. L2 \in [Bufs -> Seq(Bufs)] /\ P2 \in [Bufs -> Nat]
  <2>1. \A x \in Bufs : L[x] \in Seq(Bufs) /\ P[x] \in Nat
    BY DEF InLists
  <2>2. \A x \in Bufs : Len(s) + P[x] \in Nat
    BY <1>1, <2>1
  <2> QED
    BY <1>2, <2>1, <2>2
<1>4. ASSUME NEW n \in 1..Len(u)
      PROVE  L2[u[n]] = u /\ P2[u[n]] = n
  <2>1. CASE n \in 1..Len(s)
    <3>1. u[n] = s[n] /\ u[n] \in Bufs /\ L[u[n]] = s /\ P[u[n]] = n
      BY <1>1, <1>2, <2>1
    <3>2. s # t
      BY DEF s, t
    <3> QED
      BY <3>1, <3>2
  <2>2. CASE n \notin 1..Len(s)
    <3> DEFINE k == n - Len(s)
    <3>1. k \in 1..Len(t) /\ n = Len(s) + k
      BY <1>1, <1>2, <2>2
    <3>2. u[n] = t[k] /\ t[k] \in Bufs /\ L[t[k]] = t /\ P[t[k]] = k
      BY <1>1, <1>2, <3>1
    <3> HIDE DEF k
    <3> QED
      BY <3>1, <3>2
  <2> QED
    BY <2>1, <2>2
<1>5. ASSUME NEW x \in Bufs
      PROVE  /\ P2[x] \in 1..Len(L2[x]) /\ L2[x][P2[x]] = x
             /\ \A n \in 1..Len(L2[x]) : L2[L2[x][n]] = L2[x] /\ P2[L2[x][n]] = n
  <2>1. P[x] \in 1..Len(L[x]) /\ L[x][P[x]] = x /\ L[x] \in Seq(Bufs)
    BY DEF InLists
  <2>2. CASE L[x] = s
    <3>1. L2[x] = u /\ P2[x] = P[x]
      BY <2>2 DEF s, t
    <3> HIDE DEF L2, P2
    <3> QED
      BY <1>1, <1>2, <1>4, <2>1, <2>2, <3>1
  <2>3. CASE L[x] = t
    <3>1. L2[x] = u /\ P2[x] = Len(s) + P[x]
      BY <2>3
    <3>2. Len(s) + P[x] \in 1..Len(u)
      BY <1>1, <1>2, <2>1, <2>3
    <3> HIDE DEF L2, P2
    <3> QED
      BY <1>2, <1>4, <2>1, <2>3, <3>1, <3>2
  <2>4. CASE L[x] \notin {s, t}
    <3>1. L2[x] = L[x] /\ P2[x] = P[x]
      BY <2>4
    <3>2. ASSUME NEW n \in 1..Len(L[x])
          PROVE  L2[L[x][n]] = L[x] /\ P2[L[x][n]] = n
      <4>1. L[x][n] \in Bufs
        BY <2>1
      <4>2. L[L[x][n]] = L[x] /\ P[L[x][n]] = n
        BY DEF InLists
      <4> QED
        BY <2>4, <4>1, <4>2
    <3> HIDE DEF L2, P2
    <3> QED
      BY <2>1, <3>1, <3>2
  <2> QED
    BY <2>2, <2>3, <2>4
<1> HIDE DEF L2, P2
<1>6. InLists(L2, P2)
  BY <1>3, <1>5 DEF InLists
<1> QED
  BY <1>6 DEF ListsJoined, PlacesJoined, L2, P2, s, t, u

(* append() makes one list of two, with their elements, count and total.   *)
LEMMA ListIsAppended ==
    ASSUME NEW L, NEW P, Kept(heap, L, P), NEW a \in Bufs, NEW b \in Bufs, AppendList(a, b)
    PROVE  \E L2, P2 : Kept(heap', L2, P2)
<1> DEFINE s == L[a]
           t == L[b]
           u == s \o t
           L2 == ListsJoined(L, s, t)
           P2 == PlacesJoined(L, P, s, t)
           hd == s[1]
           total == (heap[hd].bytes_total + heap[b].bytes_total) % SizeMod
           count == heap[hd].count + heap[b].count
           linked == [heap EXCEPT ![a].next = b, ![b].prev = a, ![hd].bytes_total = total,
                                  ![hd].count = count, ![hd].end = heap[b].end]
<1>1. heap \in [Bufs -> Element] /\ InLists(L, P) /\ Linked(heap, L, P)
      /\ Counted(heap, L) /\ Cursors(heap, L) /\ Chained(heap, L, P)
  BY DEF Kept, Linked
<1>2. /\ s \in Seq(Bufs) /\ Len(s) \in Nat /\ P[a] \in 1..Len(s) /\ s[P[a]] = a
      /\ hd \in Bufs /\ L[hd] = s /\ P[hd] = 1 /\ heap[a].head = hd
      /\ \A n \in 1..Len(s) : s[n] \in Bufs
  BY <1>1, ListsAreShort DEF Linked
<1>3. \A n \in 1..Len(s) : L[s[n]] = s /\ P[s[n]] = n
  BY <1>1 DEF InLists
<1>4. /\ t \in Seq(Bufs) /\ Len(t) \in Nat /\ P[b] \in 1..Len(t) /\ t[P[b]] = b
      /\ t[1] \in Bufs /\ heap[b].head = t[1] /\ \A n \in 1..Len(t) : t[n] \in Bufs
  BY <1>1, ListsAreShort DEF Linked
<1>5. \A n \in 1..Len(t) : L[t[n]] = t /\ P[t[n]] = n
  BY <1>1 DEF InLists
<1> HIDE DEF hd
<1>6. b # hd /\ heap[a].next = Null /\ heap[b].prev = Null
      /\ heap[heap[b].head].bytes_trans = 0
  BY <1>2 DEF AppendList
<1>7. P[a] = Len(s)
  <2>1. P[a] < Len(s) => heap[a].next = s[P[a] + 1] /\ P[a] + 1 \in 1..Len(s)
    BY <1>1, <1>2 DEF Chained
  <2>2. P[a] < Len(s) => heap[a].next \in Bufs
    BY <1>2, <2>1
  <2> QED
    BY <1>2, <1>6, <2>2, BufsAreFinite
<1>8. P[b] = 1 /\ t[1] = b /\ heap[b].head = b /\ heap[b].bytes_trans = 0
  <2>1. P[b] > 1 => heap[b].prev = t[P[b] - 1] /\ P[b] - 1 \in 1..Len(t)
    BY <1>1, <1>4 DEF Linked
  <2>2. P[b] > 1 => heap[b].prev \in Bufs
    BY <1>4, <2>1
  <2>3. P[b] = 1
    BY <1>4, <1>6, <2>2, BufsAreFinite
  <2> QED
    BY <1>4, <1>6, <2>3
<1>9. s # t
  BY <1>6, <1>8 DEF hd
<1>10. InLists(L2, P2)
  <2>1. InLists(L, P) /\ L[a] # L[b]
    BY <1>1, <1>9
  <2> QED
    BY <2>1, Together
<1> HIDE DEF s, t
<1>11. /\ u \in Seq(Bufs) /\ Len(u) = Len(s) + Len(t) /\ Len(u) \in Nat /\ u[1] = hd
       /\ \A n \in 1..Len(s) : u[n] = s[n]
       /\ \A n \in 1..Len(t) : u[Len(s) + n] = t[n]
  BY <1>2, <1>4 DEF hd
<1> HIDE DEF u
<1>12. ASSUME NEW x \in Bufs
       PROVE  /\ L[x] = s => L2[x] = u /\ P2[x] = P[x]
              /\ L[x] = t => L2[x] = u /\ P2[x] = Len(s) + P[x]
              /\ L[x] \notin {s, t} => L2[x] = L[x] /\ P2[x] = P[x]
              /\ P[x] \in 1..Len(L[x]) /\ L[x][P[x]] = x
              /\ L[a] = s /\ L[b] = t
  <2>1. P[x] \in 1..Len(L[x]) /\ L[x][P[x]] = x /\ L[a] = s /\ L[b] = t
    BY <1>1 DEF InLists, s, t
  <2> QED
    BY <1>9, <2>1 DEF ListsJoined, PlacesJoined, u
<1>13. /\ \A x \in Bufs : /\ linked[x].next = (IF x = a THEN b ELSE heap[x].next)
                          /\ linked[x].prev = (IF x = b THEN a ELSE heap[x].prev)
                          /\ linked[x].bytes_total = (IF x = hd THEN total ELSE heap[x].bytes_total)
                          /\ linked[x].count = (IF x = hd THEN count ELSE heap[x].count)
                          /\ linked[x].end = (IF x = hd THEN heap[b].end ELSE heap[x].end)
                          /\ linked[x].len = heap[x].len /\ linked[x].consumed = heap[x].consumed
                          /\ linked[x].bytes_trans = heap[x].bytes_trans
                          /\ linked[x].head = heap[x].head /\ linked[x].cur = heap[x].cur
       /\ linked = [x \in Bufs |-> linked[x]]
  <2> HIDE DEF total, count
  <2>1. linked = [x \in Bufs |-> linked[x]]
    BY <1>1
  <2>2. ASSUME NEW x \in Bufs
        PROVE  /\ linked[x].next = (IF x = a THEN b ELSE heap[x].next)
               /\ linked[x].prev = (IF x = b THEN a ELSE heap[x].prev)
               /\ linked[x].bytes_total = (IF x = hd THEN total ELSE heap[x].bytes_total)
               /\ linked[x].count = (IF x = hd THEN count ELSE heap[x].count)
               /\ linked[x].end = (IF x = hd THEN heap[b].end ELSE heap[x].end)
               /\ linked[x].len = heap[x].len /\ linked[x].consumed = heap[x].consumed
               /\ linked[x].bytes_trans = heap[x].bytes_trans
               /\ linked[x].head = heap[x].head /\ linked[x].cur = heap[x].cur
    <3>1. heap[x] \in Element
      BY <1>1
    <3> QED
      BY <1>1, <1>2, <3>1 DEF Element
  <2> QED
    BY <2>1, <2>2
<1>14. heap' = [x \in Bufs |-> IF x \in ToSet(From(linked, hd))
                               THEN [linked[x] EXCEPT !.head = hd] ELSE linked[x]]
  <2> DEFINE Joined(first, second) ==
                 [heap EXCEPT ![a].next = b, ![b].prev = a,
                              ![first].bytes_total = (@ + heap[second].bytes_total) % SizeMod,
                              ![first].count = @ + heap[second].count,
                              ![first].end = heap[second].end]
             Headed(h, first) == [x \in Bufs |-> IF x \in ToSet(From(h, first))
                                                 THEN [h[x] EXCEPT !.head = first] ELSE h[x]]
  <2>1. heap[a].head = hd /\ heap[b].head = b
    BY <1>2, <1>8
  <2>2. heap' = Headed(Joined(heap[a].head, heap[b].head), heap[a].head)
    BY DEF AppendList
  <2>3. Joined(hd, b) = linked
    OBVIOUS
  <2> HIDE DEF Joined, hd, linked
  <2>4. heap' = Headed(linked, hd)
    <3> HIDE DEF Headed
    <3> QED
      BY <2>1, <2>2, <2>3
  <2> QED
    BY <2>4
<1> HIDE DEF linked, L2, P2
<1>15. Chained(linked, L2, P2)
  <2>1. ASSUME NEW x \in Bufs
        PROVE  linked[x].next = IF P2[x] < Len(L2[x]) THEN L2[x][P2[x] + 1] ELSE Null
    <3>1. heap[x].next = IF P[x] < Len(L[x]) THEN L[x][P[x] + 1] ELSE Null
      BY <1>1 DEF Chained
    <3>2. P[x] \in 1..Len(L[x]) /\ L[x][P[x]] = x
      BY <1>12
    <3>3. CASE L[x] = s /\ x = a
      <4>1. P2[x] = Len(s) /\ L2[x] = u /\ linked[x].next = b
        BY <1>7, <1>12, <1>13, <3>3
      <4>2. 1 \in 1..Len(t) /\ Len(s) < Len(u) /\ u[Len(s) + 1] = t[1]
        BY <1>2, <1>4, <1>11
      <4> QED
        BY <1>8, <4>1, <4>2
    <3>4. CASE L[x] = s /\ x # a
      <4>1. P[x] # Len(s)
        BY <1>2, <1>7, <3>2, <3>4
      <4>2. P[x] < Len(s) /\ P[x] + 1 \in 1..Len(s) /\ P[x] < Len(u)
        BY <1>2, <1>4, <1>11, <3>2, <3>4, <4>1
      <4>3. u[P[x] + 1] = s[P[x] + 1]
        BY <1>11, <4>2
      <4>4. P2[x] = P[x] /\ L2[x] = u /\ linked[x].next = heap[x].next
        BY <1>12, <1>13, <3>4
      <4> QED
        BY <3>1, <3>4, <4>2, <4>3, <4>4
    <3>5. CASE L[x] = t
      <4>1. x # a
        BY <1>9, <1>12, <3>5
      <4>2. P2[x] = Len(s) + P[x] /\ L2[x] = u /\ linked[x].next = heap[x].next
        BY <1>12, <1>13, <3>5, <4>1
      <4>3. P[x] \in 1..Len(t)
        BY <3>2, <3>5
      <4>4. (Len(s) + P[x] < Len(u) <=> P[x] < Len(t))
            /\ (Len(s) + P[x]) + 1 = Len(s) + (P[x] + 1)
        BY <1>2, <1>4, <1>11, <4>3
      <4>5. P[x] < Len(t) => P[x] + 1 \in 1..Len(t)
        BY <1>4, <4>3
      <4>6. P[x] < Len(t) => u[Len(s) + (P[x] + 1)] = t[P[x] + 1]
        BY <1>11, <4>5
      <4> QED
        BY <3>1, <3>5, <4>2, <4>4, <4>6
    <3>6. CASE L[x] \notin {s, t}
      <4>1. x # a
        BY <1>12, <3>6
      <4>2. P2[x] = P[x] /\ L2[x] = L[x] /\ linked[x].next = heap[x].next
        BY <1>12, <1>13, <3>6, <4>1
      <4> QED
        BY <3>1, <4>2
    <3> QED
      BY <3>3, <3>4, <3>5, <3>6
  <2> QED
    BY <2>1 DEF Chained
<1>16. \A x \in Bufs : x \in ToSet(From(linked, hd)) <=> L[x] \in {s, t}
  <2>1. L2[hd] = u /\ P2[hd] = 1
    BY <1>2, <1>12
  <2>2. From(linked, hd) = [n \in 1..Len(L2[hd]) + 1 - P2[hd] |-> L2[hd][P2[hd] - 1 + n]]
    BY <1>2, <1>10, <1>15, FromIsTheRest DEF L2, P2
  <2>3. Len(u) + 1 - 1 = Len(u) /\ \A n \in 1..Len(u) : 1 - 1 + n = n
    BY <1>11
  <2>4. From(linked, hd) = [n \in 1..Len(u) |-> u[n]]
    BY <2>1, <2>2, <2>3
  <2>5. ToSet(From(linked, hd)) = {u[n] : n \in 1..Len(u)}
    BY <2>4 DEF ToSet
  <2>6. InLists(L2, P2)
    BY <1>10 DEF L2, P2
  <2>7. \A x \in Bufs : P2[x] \in 1..Len(L2[x]) /\ L2[x][P2[x]] = x
    BY <2>6 DEF InLists
  <2>8. \A x \in Bufs : L[x] \in {s, t} => L2[x] = u
    BY <1>12
  <2>9. \A n \in 1..Len(u) : L[u[n]] \in {s, t}
    <3> SUFFICES ASSUME NEW n \in 1..Len(u) PROVE L[u[n]] \in {s, t}
      OBVIOUS
    <3>1. CASE n \in 1..Len(s)
      <4>1. u[n] = s[n] /\ L[s[n]] = s
        BY <1>3, <1>11, <3>1 DEF s
      <4> QED
        BY <4>1
    <3>2. CASE n \notin 1..Len(s)
      <4>1. n - Len(s) \in 1..Len(t) /\ n = Len(s) + (n - Len(s))
        BY <1>2, <1>4, <1>11, <3>2
      <4>2. u[n] = t[n - Len(s)] /\ L[t[n - Len(s)]] = t
        BY <1>5, <1>11, <4>1
      <4> QED
        BY <4>2
    <3> QED
      BY <3>1, <3>2
  <2> QED
    BY <2>5, <2>7, <2>8, <2>9
<1>17. InLists(L2, P2)
  BY <1>10 DEF L2, P2
<1>18. total \in Size_t /\ count = Len(u) /\ count \in 1..Cardinality(Bufs)
       /\ heap[b].end \in Bufs
  <2>1. heap[hd] \in Element /\ heap[b] \in Element
    BY <1>1, <1>2
  <2>2. heap[hd].bytes_total \in Int /\ heap[b].bytes_total \in Int /\ heap[b].end \in Bufs
    BY <2>1 DEF Element, Size_t
  <2>3. heap[hd].bytes_total + heap[b].bytes_total \in Int
    BY <2>2
  <2>4. heap[hd].count = Len(s)
    BY <1>1 DEF Counted, hd, s
  <2>5. heap[b].count = Len(t)
    <3>1. heap[L[b][1]].count = Len(L[b])
      BY <1>1 DEF Counted
    <3> QED
      BY <1>8, <3>1 DEF t
  <2>6. Len(L2[hd]) \in 1..Cardinality(Bufs) /\ L2[hd] = u
    <3>1. L2[hd] = u
      BY <1>2, <1>12
    <3> QED
      BY <1>2, <1>17, <3>1, ListsAreShort
  <2> QED
    BY <1>11, <2>2, <2>3, <2>4, <2>5, <2>6, SizesAreBounded
<1> HIDE DEF total, count
<1>19. ASSUME NEW x \in Bufs
       PROVE  /\ heap'[x].next = linked[x].next /\ heap'[x].prev = (IF x = b THEN a ELSE heap[x].prev)
              /\ heap'[x].head = (IF L[x] \in {s, t} THEN hd ELSE heap[x].head)
              /\ heap'[x].bytes_total = (IF x = hd THEN total ELSE heap[x].bytes_total)
              /\ heap'[x].count = (IF x = hd THEN count ELSE heap[x].count)
              /\ heap'[x].bytes_trans = heap[x].bytes_trans /\ heap'[x].cur = heap[x].cur
              /\ heap'[x].len = heap[x].len /\ heap'[x] \in Element
  <2>1. heap[x] \in Element
    BY <1>1
  <2>2. linked[x] \in Element
    <3> DEFINE h1 == [heap EXCEPT ![a].next = b]
               h2 == [h1 EXCEPT ![b].prev = a]
               h3 == [h2 EXCEPT ![hd].bytes_total = total]
               h4 == [h3 EXCEPT ![hd].count = count]
               h5 == [h4 EXCEPT ![hd].end = heap[b].end]
    <3>0. a \in Pointer /\ b \in Pointer /\ hd \in Bufs
      BY <1>2 DEF Pointer
    <3>1. h1 \in [Bufs -> Element]
      BY <1>1, <3>0 DEF Element
    <3> HIDE DEF h1
    <3>2. h2 \in [Bufs -> Element]
      BY <3>0, <3>1 DEF Element
    <3> HIDE DEF h2
    <3>3. h3 \in [Bufs -> Element]
      BY <1>18, <3>0, <3>2 DEF Element
    <3> HIDE DEF h3
    <3>4. h4 \in [Bufs -> Element]
      BY <1>18, <3>0, <3>3 DEF Element
    <3> HIDE DEF h4
    <3>5. h5 \in [Bufs -> Element]
      BY <1>18, <3>0, <3>4 DEF Element
    <3>6. linked = h5
      BY DEF linked, h1, h2, h3, h4
    <3> HIDE DEF h5
    <3> QED
      BY <3>5, <3>6
  <2>3. heap'[x] = IF L[x] \in {s, t} THEN [linked[x] EXCEPT !.head = hd] ELSE linked[x]
    BY <1>14, <1>16
  <2>4. /\ heap'[x].next = linked[x].next /\ heap'[x].prev = linked[x].prev
        /\ heap'[x].head = (IF L[x] \in {s, t} THEN hd ELSE linked[x].head)
        /\ heap'[x].bytes_total = linked[x].bytes_total /\ heap'[x].count = linked[x].count
        /\ heap'[x].bytes_trans = linked[x].bytes_trans /\ heap'[x].cur = linked[x].cur
        /\ heap'[x].len = linked[x].len /\ heap'[x] \in Element
    BY <1>2, <2>2, <2>3 DEF Element
  <2> QED
    BY <1>13, <2>4
<1>20. heap' \in [Bufs -> Element]
  <2>1. heap' = [x \in Bufs |-> heap'[x]]
    BY <1>14
  <2> QED
    BY <1>19, <2>1
<1>21. Linked(heap', L2, P2)
  <2>1. Chained(heap', L2, P2)
    BY <1>15, <1>19 DEF Chained
  <2>2. ASSUME NEW x \in Bufs
        PROVE  /\ heap'[x].head = L2[x][1]
               /\ heap'[x].prev = IF P2[x] > 1 THEN L2[x][P2[x] - 1] ELSE Null
    <3>1. heap[x].prev = (IF P[x] > 1 THEN L[x][P[x] - 1] ELSE Null) /\ heap[x].head = L[x][1]
      BY <1>1 DEF Linked
    <3>2. P[x] \in 1..Len(L[x]) /\ L[x][P[x]] = x
      BY <1>12
    <3>3. CASE L[x] = s
      <4>1. x # b /\ P2[x] = P[x] /\ L2[x] = u
        BY <1>9, <1>12, <3>3
      <4>2. P[x] > 1 => P[x] - 1 \in 1..Len(s)
        BY <1>2, <3>2, <3>3
      <4>3. P[x] > 1 => u[P[x] - 1] = s[P[x] - 1]
        BY <1>11, <4>2
      <4> QED
        BY <1>11, <1>19, <3>1, <3>3, <4>1, <4>3
    <3>4. CASE L[x] = t /\ x = b
      <4>1. P2[x] = Len(s) + 1 /\ L2[x] = u /\ heap'[x].head = hd /\ heap'[x].prev = a
        BY <1>8, <1>12, <1>19, <3>4
      <4>2. Len(s) \in 1..Len(s) /\ Len(s) + 1 > 1 /\ (Len(s) + 1) - 1 = Len(s)
        BY <1>2
      <4>3. u[Len(s)] = a
        BY <1>2, <1>7, <1>11, <4>2
      <4> QED
        BY <1>11, <4>1, <4>2, <4>3
    <3>5. CASE L[x] = t /\ x # b
      <4>1. P2[x] = Len(s) + P[x] /\ L2[x] = u /\ heap'[x].head = hd /\ heap'[x].prev = heap[x].prev
        BY <1>12, <1>19, <3>5
      <4>2. P[x] # 1
        BY <1>8, <3>2, <3>5
      <4>3. P[x] > 1 /\ P[x] - 1 \in 1..Len(t) /\ Len(s) + P[x] > 1
            /\ (Len(s) + P[x]) - 1 = Len(s) + (P[x] - 1)
        <5>1. P[x] \in 1..Len(t) /\ Len(s) \in Nat /\ Len(t) \in Nat
          BY <1>2, <1>4, <3>2, <3>5
        <5> QED
          BY <4>2, <5>1
      <4>4. u[Len(s) + (P[x] - 1)] = t[P[x] - 1]
        BY <1>11, <4>3
      <4> QED
        BY <1>11, <3>1, <3>5, <4>1, <4>3, <4>4
    <3>6. CASE L[x] \notin {s, t}
      <4>1. x # b /\ P2[x] = P[x] /\ L2[x] = L[x]
        BY <1>12, <3>6
      <4> QED
        BY <1>19, <3>1, <3>6, <4>1
    <3> QED
      BY <3>3, <3>4, <3>5, <3>6
  <2> QED
    BY <2>1, <2>2 DEF Linked
<1>22. Measured(heap) /\ Measured(heap')
  BY <1>1, <1>20, KeptAreMeasured
<1>23. ASSUME NEW y \in Bufs
       PROVE  heap'[L2[y][1]].count = Len(L2[y])
              /\ heap'[L2[y][1]].bytes_total = SumOf(heap', L2[y])
  <2>1. /\ L2[y] \in Seq(Bufs) /\ L2[y][1] \in Bufs
        /\ \A n \in 1..Len(L2[y]) : L2[y][n] \in Bufs
    BY <1>17, ListsAreShort
  <2>2. \A n \in 1..Len(L2[y]) : heap'[L2[y][n]].len = heap[L2[y][n]].len
    BY <1>19, <2>1
  <2>3. SumOf(heap', L2[y]) = SumOf(heap, L2[y])
    BY <1>22, <2>1, <2>2, SumsAgree
  <2>4. CASE L[y] \in {s, t}
    <3>1. L2[y] = u /\ L2[y][1] = hd
      BY <1>11, <1>12, <2>4
    <3>2. SumOf(heap, u) = (SumOf(heap, s) + SumOf(heap, t)) % SizeMod
      BY <1>2, <1>4, <1>22, SumOfTwo DEF u
    <3>3. heap[hd].bytes_total = SumOf(heap, s)
      BY <1>1 DEF Counted, hd, s
    <3>4. heap[b].bytes_total = SumOf(heap, t)
      <4>1. heap[L[b][1]].bytes_total = SumOf(heap, L[b])
        BY <1>1 DEF Counted
      <4> QED
        BY <1>8, <4>1 DEF t
    <3>5. SumOf(heap, u) = total
      BY <3>2, <3>3, <3>4 DEF total
    <3> QED
      BY <1>2, <1>18, <1>19, <2>3, <3>1, <3>5
  <2>5. CASE L[y] \notin {s, t}
    <3>1. L2[y] = L[y] /\ L[L[y][1]] = L[y] /\ L[y][1] \in Bufs
      BY <1>1, <1>12, <2>5, ListsAreShort
    <3>2. L[y][1] # hd
      BY <1>2, <2>5, <3>1 DEF s
    <3>3. heap[L[y][1]].count = Len(L[y]) /\ heap[L[y][1]].bytes_total = SumOf(heap, L[y])
      BY <1>1 DEF Counted
    <3> QED
      BY <1>19, <2>3, <3>1, <3>2, <3>3
  <2> QED
    BY <2>4, <2>5
<1>24. ASSUME NEW x \in Bufs
       PROVE  \/ heap'[x].cur \in {x, Null}
              \/ L2[x][1] = x /\ heap'[x].bytes_trans > 0
                 /\ \E n \in 1..Len(L2[x]) : heap'[x].cur = L2[x][n]
  <2>1. heap'[x].cur = heap[x].cur /\ heap'[x].bytes_trans = heap[x].bytes_trans
    BY <1>19
  <2>2. SUFFICES ASSUME heap[x].cur \notin {x, Null}
                 PROVE  L2[x][1] = x /\ heap[x].bytes_trans > 0
                        /\ \E n \in 1..Len(L2[x]) : heap[x].cur = L2[x][n]
    BY <2>1
  <2>3. PICK n \in 1..Len(L[x]) : /\ L[x][1] = x /\ heap[x].bytes_trans > 0
                                  /\ heap[x].cur = L[x][n]
    BY <1>1, <2>2 DEF Cursors
  <2>4. CASE L[x] = s
    <3>1. L2[x] = u /\ x = hd /\ n \in 1..Len(s)
      BY <1>12, <2>3, <2>4 DEF hd
    <3>2. u[n] = s[n] /\ n \in 1..Len(u)
      BY <1>2, <1>4, <1>11, <3>1
    <3> QED
      BY <1>11, <2>3, <2>4, <3>1, <3>2
  <2>5. CASE L[x] = t
    BY <1>8, <2>3, <2>5
  <2>6. CASE L[x] \notin {s, t}
    BY <1>12, <2>3, <2>6
  <2> QED
    BY <2>4, <2>5, <2>6
<1>25. Counted(heap', L2) /\ Cursors(heap', L2)
  BY <1>23, <1>24 DEF Counted, Cursors
<1>26. Kept(heap', L2, P2)
  BY <1>17, <1>20, <1>21, <1>25 DEF Kept
<1> QED
  BY <1>26

(* The elements before a place of a list, and those from there on.         *)
Before(s, k) == SubSeq(s, 1, k - 1)
Behind(s, k) == [n \in 1..Len(s) + 1 - k |-> s[k - 1 + n]]

(* The two parts of a list at a place, and their lengths.                  *)
LEMMA Halves ==
    ASSUME NEW s \in Seq(Bufs), NEW k \in 2..Len(s)
    PROVE  /\ Before(s, k) \in Seq(Bufs) /\ Len(Before(s, k)) = k - 1
           /\ \A n \in 1..k - 1 : Before(s, k)[n] = s[n]
           /\ Behind(s, k) \in Seq(Bufs) /\ Len(Behind(s, k)) = Len(s) + 1 - k
           /\ \A n \in 1..Len(s) + 1 - k : Behind(s, k)[n] = s[k - 1 + n]
           /\ Len(s) \in Nat /\ k - 1 \in Nat /\ Len(s) + 1 - k \in Nat
<1>1. Len(s) \in Nat /\ k - 1 \in Nat /\ Len(s) + 1 - k \in Nat /\ 1 \in Int /\ k - 1 \in Int
      /\ 1 <= k - 1 /\ k - 1 - 1 + 1 = k - 1
  OBVIOUS
<1>2. \A n \in 1..k - 1 : s[n] \in Bufs
  OBVIOUS
<1>3. /\ Before(s, k) \in Seq(Bufs) /\ Len(Before(s, k)) = k - 1
      /\ \A n \in 1..k - 1 : Before(s, k)[n] = s[n]
  <2> DEFINE m == k - 1
  <2>1. m \in Int /\ 1 \in Int /\ 1 <= m /\ m - 1 + 1 = m /\ \A n \in 1..m : 1 + n - 1 = n
    OBVIOUS
  <2>2. \A n \in 1..m : s[n] \in Bufs
    BY <1>2
  <2> HIDE DEF m
  <2>3. /\ SubSeq(s, 1, m) \in Seq(Bufs)
        /\ Len(SubSeq(s, 1, m)) = IF 1 <= m THEN m - 1 + 1 ELSE 0
        /\ \A n \in 1..m - 1 + 1 : SubSeq(s, 1, m)[n] = s[1 + n - 1]
    BY <2>1, <2>2, SubSeqProperties
  <2>4. /\ SubSeq(s, 1, m) \in Seq(Bufs) /\ Len(SubSeq(s, 1, m)) = m
        /\ \A n \in 1..m : SubSeq(s, 1, m)[n] = s[n]
    BY <2>1, <2>3
  <2> QED
    BY <2>4 DEF Before, m
<1>4. \A n \in 1..Len(s) + 1 - k : k - 1 + n \in 1..Len(s) /\ s[k - 1 + n] \in Bufs
  BY <1>1
<1>5. Behind(s, k) \in Seq(Bufs) /\ Len(Behind(s, k)) = Len(s) + 1 - k
      /\ \A n \in 1..Len(s) + 1 - k : Behind(s, k)[n] = s[k - 1 + n]
  BY <1>1, <1>4 DEF Behind
<1> QED
  BY <1>1, <1>3, <1>5

(* A list that ends before one of its elements, and a list that begins     *)
(* there.                                                                  *)
LEMMA Parted ==
    ASSUME NEW L, NEW P, InLists(L, P), NEW c \in Bufs, P[c] > 1
    PROVE  InLists([x \in Bufs |-> IF L[x] # L[c] THEN L[x]
                                  ELSE IF P[x] < P[c] THEN Before(L[c], P[c])
                                  ELSE Behind(L[c], P[c])],
                  [x \in Bufs |-> IF L[x] = L[c] /\ P[x] >= P[c] THEN P[x] + 1 - P[c] ELSE P[x]])
<1> DEFINE s == L[c]
           k == P[c]
           first == Before(s, k)
           rest == Behind(s, k)
           L2 == [x \in Bufs |-> IF L[x] # s THEN L[x] ELSE IF P[x] < k THEN first ELSE rest]
           P2 == [x \in Bufs |-> IF L[x] = s /\ P[x] >= k THEN P[x] + 1 - k ELSE P[x]]
<1>1. /\ s \in Seq(Bufs) /\ Len(s) \in Nat /\ k \in 2..Len(s)
      /\ \A n \in 1..Len(s) : s[n] \in Bufs /\ L[s[n]] = s /\ P[s[n]] = n
  <2>1. s \in Seq(Bufs) /\ k \in 1..Len(s)
    BY DEF InLists
  <2>2. \A n \in 1..Len(s) : L[s[n]] = s /\ P[s[n]] = n
    BY DEF InLists
  <2>3. k > 1
    OBVIOUS
  <2> HIDE DEF s, k
  <2> QED
    BY <2>1, <2>2, <2>3
<1> HIDE DEF s, k
<1>2. /\ first \in Seq(Bufs) /\ Len(first) = k - 1 /\ \A n \in 1..k - 1 : first[n] = s[n]
      /\ rest \in Seq(Bufs) /\ Len(rest) = Len(s) + 1 - k
      /\ \A n \in 1..Len(s) + 1 - k : rest[n] = s[k - 1 + n]
  BY <1>1, Halves
<1> HIDE DEF first, rest
<1>3. L2 \in [Bufs -> Seq(Bufs)] /\ P2 \in [Bufs -> Nat]
  <2>1. \A x \in Bufs : L[x] \in Seq(Bufs) /\ P[x] \in Nat
    BY DEF InLists
  <2>2. \A x \in Bufs : P[x] >= k => P[x] + 1 - k \in Nat
    BY <1>1, <2>1
  <2> QED
    BY <1>2, <2>1, <2>2
<1>4. ASSUME NEW n \in 1..k - 1
      PROVE  L2[first[n]] = first /\ P2[first[n]] = n
  <2>1. n \in 1..Len(s) /\ n < k /\ ~(n >= k)
    BY <1>1
  <2>2. first[n] \in Bufs /\ L[first[n]] = s /\ P[first[n]] = n
    BY <1>1, <1>2, <2>1
  <2> QED
    BY <2>1, <2>2
<1>5. ASSUME NEW n \in 1..Len(s) + 1 - k
      PROVE  L2[rest[n]] = rest /\ P2[rest[n]] = n
  <2>1. k - 1 + n \in 1..Len(s) /\ ~(k - 1 + n < k) /\ k - 1 + n >= k /\ (k - 1 + n) + 1 - k = n
    BY <1>1
  <2>2. rest[n] \in Bufs /\ L[rest[n]] = s /\ P[rest[n]] = k - 1 + n
    <3> DEFINE m == k - 1 + n
    <3>1. m \in 1..Len(s) /\ rest[n] = s[m]
      BY <1>2, <2>1
    <3> HIDE DEF m
    <3>2. rest[n] \in Bufs /\ L[rest[n]] = s /\ P[rest[n]] = m
      BY <1>1, <3>1
    <3> QED
      BY <3>2 DEF m
  <2> QED
    BY <2>1, <2>2
<1>6. ASSUME NEW x \in Bufs
      PROVE  /\ P2[x] \in 1..Len(L2[x]) /\ L2[x][P2[x]] = x
             /\ \A n \in 1..Len(L2[x]) : L2[L2[x][n]] = L2[x] /\ P2[L2[x][n]] = n
  <2>1. P[x] \in 1..Len(L[x]) /\ L[x][P[x]] = x /\ L[x] \in Seq(Bufs)
    BY DEF InLists
  <2>2. CASE L[x] # s
    <3>1. L2[x] = L[x] /\ P2[x] = P[x]
      BY <2>2
    <3>2. ASSUME NEW n \in 1..Len(L[x])
          PROVE  L2[L[x][n]] = L[x] /\ P2[L[x][n]] = n
      <4>1. L[x][n] \in Bufs
        BY <2>1
      <4>2. L[L[x][n]] = L[x] /\ P[L[x][n]] = n
        BY DEF InLists
      <4> QED
        BY <2>2, <4>1, <4>2
    <3> HIDE DEF L2, P2
    <3> QED
      BY <2>1, <3>1, <3>2
  <2>3. CASE L[x] = s /\ P[x] < k
    <3>1. P[x] \in 1..k - 1 /\ ~(P[x] >= k)
      BY <1>1, <2>1, <2>3
    <3>2. L2[x] = first /\ P2[x] = P[x]
      BY <2>3, <3>1
    <3> HIDE DEF L2, P2
    <3> QED
      BY <1>2, <1>4, <2>1, <2>3, <3>1, <3>2
  <2>4. CASE L[x] = s /\ ~(P[x] < k)
    <3>1. P[x] + 1 - k \in 1..Len(s) + 1 - k /\ P[x] >= k /\ k - 1 + (P[x] + 1 - k) = P[x]
      BY <1>1, <2>1, <2>4
    <3>2. L2[x] = rest /\ P2[x] = P[x] + 1 - k
      BY <2>4, <3>1
    <3> HIDE DEF L2, P2
    <3> QED
      BY <1>2, <1>5, <2>1, <2>4, <3>1, <3>2
  <2> QED
    BY <2>2, <2>3, <2>4
<1> HIDE DEF L2, P2
<1>7. InLists(L2, P2)
  BY <1>3, <1>6 DEF InLists
<1> QED
  BY <1>7 DEF L2, P2, first, rest, s, k

(* split() makes two lists of one, with the count and the total of each.   *)
LEMMA ListIsSplit ==
    ASSUME NEW L, NEW P, Kept(heap, L, P), NEW b \in Bufs, SplitFromCur(b)
    PROVE  \E L2, P2 : Kept(heap', L2, P2)
<1> DEFINE c == heap[b].cur
           s == L[c]
           k == P[c]
           hd == heap[b].head
           p == heap[c].prev
           first == Before(s, k)
           rest == Behind(s, k)
           L2 == [x \in Bufs |-> IF L[x] # s THEN L[x] ELSE IF P[x] < k THEN first ELSE rest]
           P2 == [x \in Bufs |-> IF L[x] = s /\ P[x] >= k THEN P[x] + 1 - k ELSE P[x]]
           cut == [heap EXCEPT ![p].next = Null]
           half == DoneHalf(cut, hd, first)
<1>1. heap \in [Bufs -> Element] /\ InLists(L, P) /\ Linked(heap, L, P)
      /\ Counted(heap, L) /\ Cursors(heap, L) /\ Chained(heap, L, P)
  BY DEF Kept, Linked
<1>2. c # Null /\ p # Null
  BY DEF SplitFromCur
<1>3. c \in Bufs /\ L[b] = s
  <2>1. c = b \/ \E n \in 1..Len(L[b]) : c = L[b][n]
    BY <1>1, <1>2 DEF Cursors
  <2>2. \A n \in 1..Len(L[b]) : L[b][n] \in Bufs /\ L[L[b][n]] = L[b]
    <3>1. \A n \in 1..Len(L[b]) : L[b][n] \in Bufs
      BY <1>1, ListsAreShort
    <3>2. \A n \in 1..Len(L[b]) : L[L[b][n]] = L[b]
      BY <1>1 DEF InLists
    <3> QED
      BY <3>1, <3>2
  <2> QED
    BY <2>1, <2>2
<1>4. /\ s \in Seq(Bufs) /\ Len(s) \in Nat /\ k \in 1..Len(s) /\ s[k] = c
      /\ \A n \in 1..Len(s) : s[n] \in Bufs
      /\ hd = s[1] /\ hd \in Bufs /\ L[hd] = s /\ P[hd] = 1
  <2>1. /\ s \in Seq(Bufs) /\ Len(s) \in Nat /\ k \in 1..Len(s) /\ s[k] = c
        /\ \A n \in 1..Len(s) : s[n] \in Bufs
        /\ s[1] \in Bufs /\ L[s[1]] = s /\ P[s[1]] = 1
    BY <1>1, <1>3, ListsAreShort
  <2>2. hd = L[b][1]
    BY <1>1 DEF Linked
  <2> QED
    BY <1>3, <2>1, <2>2
<1>5. \A n \in 1..Len(s) : L[s[n]] = s /\ P[s[n]] = n
  BY <1>1, <1>3 DEF InLists
<1>6. k \in 2..Len(s) /\ p = s[k - 1] /\ k - 1 \in 1..Len(s) /\ p \in Bufs /\ L[p] = s /\ P[p] = k - 1
  <2>1. p = IF k > 1 THEN s[k - 1] ELSE Null
    BY <1>1, <1>3 DEF Linked
  <2>2. k > 1
    BY <1>2, <2>1
  <2> HIDE DEF k, s, p
  <2> QED
    BY <1>4, <1>5, <2>1, <2>2
<1>7. InLists(L2, P2)
  <2>1. P[c] > 1
    BY SMTT(30), <1>4, <1>6
  <2> HIDE DEF c
  <2> QED
    BY <1>1, <1>3, <2>1, Parted
<1>8. SubSeq(Items(heap, b), 1, (CHOOSE n \in DOMAIN Items(heap, b) : Items(heap, b)[n] = c) - 1)
      = first
  <2>1. Items(heap, b) = s
    BY <1>1, <1>3, ItemsAreListed
  <2>2. DOMAIN s = 1..Len(s)
    BY <1>4
  <2> HIDE DEF s, k, c
  <2>3. \A n \in 1..Len(s) : s[n] = c => n = k
    BY <1>3, <1>4, <1>5 DEF k
  <2>4. (CHOOSE n \in 1..Len(s) : s[n] = c) = k
    BY <1>4, <2>3
  <2> QED
    BY <2>1, <2>2, <2>4 DEF Before
<1>9. From(heap, c) = rest
  <2> HIDE DEF c
  <2> QED
    BY <1>1, <1>3, FromIsTheRest DEF Behind
<1>10. heap' = OpenHalf(half, c, rest)
  BY <1>8, <1>9 DEF SplitFromCur
<1>11. c # hd /\ c # p
  BY SMTT(30), <1>4, <1>6
<1> HIDE DEF c, s, k, hd, p
<1>12. /\ first \in Seq(Bufs) /\ Len(first) = k - 1 /\ \A n \in 1..k - 1 : first[n] = s[n]
       /\ rest \in Seq(Bufs) /\ Len(rest) = Len(s) + 1 - k
       /\ \A n \in 1..Len(s) + 1 - k : rest[n] = s[k - 1 + n]
  BY <1>4, <1>6, Halves
<1> HIDE DEF first, rest
<1>13. ASSUME NEW x \in Bufs
       PROVE  /\ L[x] # s => L2[x] = L[x] /\ P2[x] = P[x]
              /\ L[x] = s /\ P[x] < k => L2[x] = first /\ P2[x] = P[x]
              /\ L[x] = s /\ ~(P[x] < k) => L2[x] = rest /\ P2[x] = P[x] + 1 - k
              /\ P[x] \in 1..Len(L[x]) /\ L[x][P[x]] = x /\ L[x] \in Seq(Bufs)
  <2>1. P[x] \in 1..Len(L[x]) /\ L[x][P[x]] = x /\ L[x] \in Seq(Bufs)
    BY <1>1 DEF InLists
  <2>2. P[x] \in Nat /\ k \in Nat
    BY <1>6, <2>1
  <2>3. P[x] < k <=> ~(P[x] >= k)
    BY <2>2
  <2> QED
    BY <2>1, <2>3
<1> HIDE DEF L2, P2
<1>14. \A x \in Bufs : x \in ToSet(rest) <=> L[x] = s /\ ~(P[x] < k)
  <2>1. ToSet(rest) = {rest[n] : n \in 1..Len(s) + 1 - k}
    <3>1. DOMAIN rest = 1..Len(s) + 1 - k
      BY <1>12
    <3> QED
      BY <3>1 DEF ToSet
  <2>2. ASSUME NEW n \in 1..Len(s) + 1 - k
        PROVE  L[rest[n]] = s /\ ~(P[rest[n]] < k)
    <3>1. k - 1 + n \in 1..Len(s) /\ ~(k - 1 + n < k)
      BY <1>4, <1>6
    <3> QED
      BY <1>5, <1>12, <3>1
  <2>3. ASSUME NEW x \in Bufs, L[x] = s, ~(P[x] < k)
        PROVE  x \in ToSet(rest)
    <3>1. P[x] \in 1..Len(s) /\ s[P[x]] = x
      BY <1>13, <2>3
    <3>2. P[x] + 1 - k \in 1..Len(s) + 1 - k /\ k - 1 + (P[x] + 1 - k) = P[x]
      <4>1. P[x] \in Nat /\ k \in Nat /\ Len(s) \in Nat
        BY <1>4, <1>6, <3>1
      <4>2. P[x] <= Len(s) /\ ~(P[x] < k)
        BY <1>4, <2>3, <3>1
      <4> QED
        BY <4>1, <4>2
    <3>3. rest[P[x] + 1 - k] = x
      BY <1>12, <3>1, <3>2
    <3> QED
      BY <2>1, <3>2, <3>3
  <2> QED
    BY <2>1, <2>2, <2>3
<1> DEFINE total1 == SumOf(cut, first)
           total2 == SumOf(half, rest)
<1>15. cut \in [Bufs -> Element]
       /\ \A x \in Bufs : cut[x] = IF x = p THEN [heap[x] EXCEPT !.next = Null] ELSE heap[x]
  BY <1>1, <1>6 DEF Element, Pointer
<1> HIDE DEF cut
<1>16. total1 \in Size_t
  BY <1>12, <1>15, KeptAreMeasured, SumIsSize
<1>17. /\ k - 1 \in 1..Cardinality(Bufs) /\ Len(s) + 1 - k \in 1..Cardinality(Bufs)
       /\ first[k - 1] \in Bufs
  <2>1. Len(s) \in 1..Cardinality(Bufs)
    BY <1>1, <1>3, ListsAreShort DEF s
  <2>2. first[k - 1] = s[k - 1]
    BY <1>6, <1>12
  <2> QED
    BY <1>4, <1>6, <2>1, <2>2, BufsAreFinite
<1>18. /\ half \in [Bufs -> Element]
       /\ \A x \in Bufs :
             half[x] = IF x = hd THEN [cut[x] EXCEPT !.bytes_total = total1, !.bytes_trans = total1,
                                                    !.count = k - 1, !.end = first[k - 1],
                                                    !.cur = Null]
                       ELSE cut[x]
  <2> HIDE DEF total1
  <2>1. half = [cut EXCEPT ![hd].bytes_total = total1, ![hd].bytes_trans = total1,
                           ![hd].count = k - 1, ![hd].end = first[k - 1], ![hd].cur = Null]
    BY <1>12 DEF DoneHalf, total1
  <2>2. ASSUME NEW x \in Bufs
        PROVE  half[x] = IF x = hd
                         THEN [cut[x] EXCEPT !.bytes_total = total1, !.bytes_trans = total1,
                                             !.count = k - 1, !.end = first[k - 1], !.cur = Null]
                         ELSE cut[x]
    <3>1. cut[x] \in Element
      BY <1>15
    <3> HIDE DEF half
    <3> QED
      BY <1>4, <1>15, <2>1, <3>1 DEF Element
  <2>3. ASSUME NEW x \in Bufs
        PROVE  half[x] \in Element
    <3>1. cut[x] \in Element
      BY <1>15
    <3> DEFINE e == [cut[x] EXCEPT !.bytes_total = total1, !.bytes_trans = total1,
                                   !.count = k - 1, !.end = first[k - 1], !.cur = Null]
    <3>2. e \in Element
      BY <1>16, <1>17, <3>1 DEF Element, Pointer
    <3> HIDE DEF e
    <3>3. half[x] = IF x = hd THEN e ELSE cut[x]
      BY <2>2 DEF e
    <3> HIDE DEF half
    <3> QED
      BY <3>1, <3>2, <3>3
  <2>4. half = [x \in Bufs |-> half[x]]
    <3> HIDE DEF half
    <3> QED
      BY <1>15, <2>1
  <2> HIDE DEF half
  <2> QED
    BY <2>2, <2>3, <2>4
<1> HIDE DEF half
<1>19. total2 \in Size_t
  BY <1>12, <1>18, KeptAreMeasured, SumIsSize
<1> HIDE DEF total1, total2
<1>20. heap' = [x \in Bufs |->
                  IF x = c THEN [half[x] EXCEPT !.prev = Null, !.head = c, !.bytes_total = total2,
                                               !.bytes_trans = half[x].consumed,
                                               !.count = Len(s) + 1 - k]
                  ELSE IF x \in ToSet(rest) THEN [half[x] EXCEPT !.head = c] ELSE half[x]]
  BY <1>10, <1>12 DEF OpenHalf, total2
<1>21. ASSUME NEW x \in Bufs
       PROVE  /\ heap'[x].next = (IF x = p THEN Null ELSE heap[x].next)
              /\ heap'[x].prev = (IF x = c THEN Null ELSE heap[x].prev)
              /\ heap'[x].head = (IF L[x] = s /\ ~(P[x] < k) THEN c ELSE heap[x].head)
              /\ heap'[x].bytes_total = (IF x = hd THEN total1 ELSE IF x = c THEN total2
                                         ELSE heap[x].bytes_total)
              /\ heap'[x].count = (IF x = hd THEN k - 1 ELSE IF x = c THEN Len(s) + 1 - k
                                   ELSE heap[x].count)
              /\ x \notin {hd, c} => heap'[x].bytes_trans = heap[x].bytes_trans
              /\ heap'[x].cur = (IF x = hd THEN Null ELSE heap[x].cur)
              /\ heap'[x].len = heap[x].len /\ cut[x].len = heap[x].len /\ half[x].len = heap[x].len
              /\ heap'[x] \in Element
  <2>1. heap[x] \in Element /\ cut[x] \in Element /\ half[x] \in Element
    BY <1>1, <1>15, <1>18
  <2>2. cut[x] = IF x = p THEN [heap[x] EXCEPT !.next = Null] ELSE heap[x]
    BY <1>15
  <2>3. half[x] = IF x = hd THEN [cut[x] EXCEPT !.bytes_total = total1, !.bytes_trans = total1,
                                               !.count = k - 1, !.end = first[k - 1], !.cur = Null]
                  ELSE cut[x]
    BY <1>18
  <2>4. heap'[x] = IF x = c THEN [half[x] EXCEPT !.prev = Null, !.head = c, !.bytes_total = total2,
                                                !.bytes_trans = half[x].consumed,
                                                !.count = Len(s) + 1 - k]
                   ELSE IF x \in ToSet(rest) THEN [half[x] EXCEPT !.head = c] ELSE half[x]
    BY <1>20
  <2>5. x = c => L[x] = s /\ ~(P[x] < k)
    BY <1>4 DEF s, k
  <2>6. x \in ToSet(rest) <=> L[x] = s /\ ~(P[x] < k)
    BY <1>14
  <2> DEFINE in == L[x] = s /\ ~(P[x] < k)
  <2> HIDE DEF in
  <2>7. (x = c => in) /\ (x \in ToSet(rest) <=> in)
    BY <2>5, <2>6 DEF in
  <2>8. /\ cut[x].next = (IF x = p THEN Null ELSE heap[x].next) /\ cut[x].prev = heap[x].prev
        /\ cut[x].head = heap[x].head /\ cut[x].bytes_total = heap[x].bytes_total
        /\ cut[x].count = heap[x].count /\ cut[x].bytes_trans = heap[x].bytes_trans
        /\ cut[x].cur = heap[x].cur /\ cut[x].len = heap[x].len
    BY <2>1, <2>2 DEF Element
  <2>9. /\ half[x].next = cut[x].next /\ half[x].prev = cut[x].prev /\ half[x].head = cut[x].head
        /\ half[x].bytes_total = (IF x = hd THEN total1 ELSE cut[x].bytes_total)
        /\ half[x].count = (IF x = hd THEN k - 1 ELSE cut[x].count)
        /\ x # hd => half[x].bytes_trans = cut[x].bytes_trans
        /\ half[x].cur = (IF x = hd THEN Null ELSE cut[x].cur) /\ half[x].len = cut[x].len
    BY <2>1, <2>3 DEF Element
  <2>10. /\ heap'[x].next = half[x].next /\ heap'[x].prev = (IF x = c THEN Null ELSE half[x].prev)
         /\ heap'[x].head = (IF in THEN c ELSE half[x].head)
         /\ heap'[x].bytes_total = (IF x = c THEN total2 ELSE half[x].bytes_total)
         /\ heap'[x].count = (IF x = c THEN Len(s) + 1 - k ELSE half[x].count)
         /\ x # c => heap'[x].bytes_trans = half[x].bytes_trans
         /\ heap'[x].cur = half[x].cur /\ heap'[x].len = half[x].len
    BY <2>1, <2>4, <2>7 DEF Element
  <2>11. heap'[x] \in Element
    <3>1. half[x].consumed \in Size_t /\ Null \in Pointer
      BY <2>1 DEF Element, Pointer
    <3>2. c \in Bufs
      BY <1>3
    <3> QED
      BY <1>17, <1>19, <2>1, <2>4, <3>1, <3>2 DEF Element
  <2> QED
    BY <1>11, <2>8, <2>9, <2>10, <2>11 DEF in
<1>22. heap' \in [Bufs -> Element]
  <2>1. heap' = [x \in Bufs |-> heap'[x]]
    BY <1>20
  <2> QED
    BY <1>21, <2>1
<1>23. Linked(heap', L2, P2)
  <2>1. ASSUME NEW x \in Bufs
        PROVE  /\ heap'[x].head = L2[x][1]
               /\ heap'[x].next = IF P2[x] < Len(L2[x]) THEN L2[x][P2[x] + 1] ELSE Null
               /\ heap'[x].prev = IF P2[x] > 1 THEN L2[x][P2[x] - 1] ELSE Null
    <3>1. /\ heap[x].prev = (IF P[x] > 1 THEN L[x][P[x] - 1] ELSE Null) /\ heap[x].head = L[x][1]
          /\ heap[x].next = IF P[x] < Len(L[x]) THEN L[x][P[x] + 1] ELSE Null
      BY <1>1 DEF Linked, Chained
    <3>2. P[x] \in 1..Len(L[x]) /\ L[x][P[x]] = x
      BY <1>13
    <3>3. CASE L[x] # s
      <4>1. x # p /\ x # c /\ L2[x] = L[x] /\ P2[x] = P[x]
        BY <1>6, <1>13, <3>3 DEF s
      <4> QED
        BY <1>21, <3>1, <3>3, <4>1
    <3>4. CASE L[x] = s /\ P[x] < k
      <4>1. L2[x] = first /\ P2[x] = P[x] /\ P[x] \in 1..k - 1 /\ first[1] = s[1]
        BY <1>6, <1>12, <1>13, <3>2, <3>4
      <4>2. x # c
        <5>1. x = c => P[x] = k
          BY DEF k
        <5>2. P[x] \in Int /\ k \in Int
          BY <1>6, <4>1
        <5> QED
          BY <3>4, <5>1, <5>2
      <4>3. heap'[x].prev = heap[x].prev /\ heap'[x].head = s[1]
            /\ heap'[x].next = IF x = p THEN Null ELSE heap[x].next
        BY <1>21, <3>1, <3>4, <4>2
      <4>4. P[x] > 1 => first[P[x] - 1] = s[P[x] - 1]
        <5>1. P[x] > 1 => P[x] - 1 \in 1..k - 1
          BY <1>6, <4>1
        <5> QED
          BY <1>12, <5>1
      <4>5. x = p <=> P[x] = k - 1
        BY <1>6, <3>2, <3>4
      <4>6. P[x] # k - 1 => P[x] + 1 \in 1..k - 1 /\ P[x] < k - 1 /\ P[x] < Len(s)
        BY <1>4, <1>6, <4>1
      <4>7. P[x] # k - 1 => first[P[x] + 1] = s[P[x] + 1]
        BY <1>12, <4>6
      <4>8. ~(k - 1 < k - 1) /\ Len(first) = k - 1
        BY <1>6, <1>12
      <4>9. heap'[x].next = IF P2[x] < Len(L2[x]) THEN L2[x][P2[x] + 1] ELSE Null
        BY <3>1, <3>4, <4>1, <4>3, <4>5, <4>6, <4>7, <4>8
      <4> QED
        BY <3>1, <3>4, <4>1, <4>3, <4>4, <4>9
    <3>5. CASE L[x] = s /\ ~(P[x] < k)
      <4> DEFINE n == P[x] + 1 - k
      <4>0. /\ Len(s) \in Nat /\ k \in 2..Len(s) /\ P[x] \in 1..Len(s) /\ ~(P[x] < k)
            /\ Len(rest) = Len(s) + 1 - k
        <5>1. P[x] \in 1..Len(s)
          BY <3>2, <3>5
        <5>2. Len(rest) = Len(s) + 1 - k
          BY <1>12
        <5> QED
          BY <1>4, <1>6, <3>5, <5>1, <5>2
      <4>12. n \in 1..Len(s) + 1 - k /\ k - 1 + n = P[x]
        BY <4>0
      <4>1. L2[x] = rest /\ P2[x] = n /\ n \in 1..Len(s) + 1 - k /\ k - 1 + n = P[x]
        BY <1>13, <3>5, <4>12
      <4>2. rest[1] = c
        <5>1. 1 \in 1..Len(s) + 1 - k /\ k - 1 + 1 = k
          BY <1>4, <1>6
        <5> QED
          BY <1>4, <1>12, <5>1
      <4>3. x # p
        BY <1>6, <3>5
      <4>4. /\ heap'[x].next = heap[x].next /\ heap'[x].head = c
            /\ heap'[x].prev = IF x = c THEN Null ELSE heap[x].prev
        BY <1>21, <3>5, <4>3
      <4>5. x = c <=> n = 1
        <5>1. n = 1 <=> P[x] = k
          BY <4>0
        <5>2. x = c => P[x] = k
          BY DEF k
        <5>3. P[x] = k => x = c
          BY <1>4, <3>2, <3>5
        <5> QED
          BY <5>1, <5>2, <5>3
      <4>6. (P[x] < Len(s) <=> n < Len(rest)) /\ k - 1 + (n + 1) = P[x] + 1
            /\ (n < Len(rest) => n + 1 \in 1..Len(s) + 1 - k)
        BY <4>0
      <4>7. n < Len(rest) => rest[n + 1] = s[P[x] + 1]
        BY <1>12, <4>6
      <4>8. n # 1 => n - 1 \in 1..Len(s) + 1 - k /\ k - 1 + (n - 1) = P[x] - 1 /\ P[x] > 1 /\ n > 1
        BY <4>0
      <4>9. n # 1 => rest[n - 1] = s[P[x] - 1]
        BY <1>12, <4>8
      <4> HIDE DEF n
      <4>10. heap'[x].next = IF P2[x] < Len(L2[x]) THEN L2[x][P2[x] + 1] ELSE Null
        BY <3>1, <3>5, <4>1, <4>4, <4>6, <4>7
      <4>11. heap'[x].prev = IF P2[x] > 1 THEN L2[x][P2[x] - 1] ELSE Null
        BY <3>1, <3>5, <4>1, <4>4, <4>5, <4>8, <4>9
      <4> QED
        BY <4>1, <4>2, <4>4, <4>10, <4>11
    <3> QED
      BY <3>3, <3>4, <3>5
  <2> QED
    BY <2>1 DEF Linked, Chained
<1>24. ASSUME NEW y \in Bufs
       PROVE  heap'[L2[y][1]].count = Len(L2[y])
              /\ heap'[L2[y][1]].bytes_total = SumOf(heap', L2[y])
  <2>1. Measured(heap) /\ Measured(heap') /\ Measured(cut) /\ Measured(half)
    BY <1>1, <1>15, <1>18, <1>22, KeptAreMeasured
  <2>2. /\ L2[y] \in Seq(Bufs) /\ L2[y][1] \in Bufs
        /\ \A n \in 1..Len(L2[y]) : L2[y][n] \in Bufs
    BY <1>7, ListsAreShort DEF L2, P2
  <2>3. CASE L[y] # s
    <3>1. L2[y] = L[y] /\ L[L[y][1]] = L[y] /\ L[y][1] \in Bufs
      BY <1>1, <1>13, <2>3, ListsAreShort
    <3>2. L[y][1] # hd /\ L[y][1] # c
      BY <1>4, <2>3, <3>1 DEF s
    <3>3. heap[L[y][1]].count = Len(L[y]) /\ heap[L[y][1]].bytes_total = SumOf(heap, L[y])
      BY <1>1 DEF Counted
    <3>4. \A n \in 1..Len(L2[y]) : heap'[L2[y][n]].len = heap[L2[y][n]].len
      BY <1>21, <2>2
    <3>5. SumOf(heap', L2[y]) = SumOf(heap, L2[y])
      BY <2>1, <2>2, <3>4, SumsAgree
    <3> QED
      BY <1>21, <3>1, <3>2, <3>3, <3>5
  <2>4. CASE L[y] = s /\ P[y] < k
    <3>1. L2[y] = first
      BY <1>13, <2>4
    <3>2. first[1] = hd /\ Len(first) = k - 1
      <4>1. 1 \in 1..k - 1
        BY <1>6
      <4>2. first[1] = s[1] /\ Len(first) = k - 1
        BY <1>12, <4>1
      <4> QED
        BY <1>4, <4>2
    <3>3. \A n \in 1..Len(first) : heap'[first[n]].len = cut[first[n]].len
      BY <1>21, <2>2, <3>1
    <3>4. SumOf(heap', first) = total1
      BY <2>1, <1>12, <3>3, SumsAgree DEF total1
    <3> QED
      BY <1>4, <1>21, <3>1, <3>2, <3>4
  <2>5. CASE L[y] = s /\ ~(P[y] < k)
    <3>1. L2[y] = rest
      BY <1>13, <2>5
    <3>2. rest[1] = c /\ Len(rest) = Len(s) + 1 - k
      <4>1. 1 \in 1..Len(s) + 1 - k /\ k - 1 + 1 = k
        BY <1>4, <1>6
      <4> QED
        BY <1>4, <1>12, <4>1
    <3>3. \A n \in 1..Len(rest) : heap'[rest[n]].len = half[rest[n]].len
      BY <1>21, <2>2, <3>1
    <3>4. SumOf(heap', rest) = total2
      BY <2>1, <1>12, <3>3, SumsAgree DEF total2
    <3> QED
      BY <1>3, <1>11, <1>21, <3>1, <3>2, <3>4
  <2> QED
    BY <2>3, <2>4, <2>5
<1>25. ASSUME NEW x \in Bufs
       PROVE  \/ heap'[x].cur \in {x, Null}
              \/ L2[x][1] = x /\ heap'[x].bytes_trans > 0
                 /\ \E n \in 1..Len(L2[x]) : heap'[x].cur = L2[x][n]
  <2>1. CASE x = hd \/ heap[x].cur \in {x, Null}
    BY <1>21, <2>1
  <2>2. CASE x # hd /\ heap[x].cur \notin {x, Null}
    <3>1. PICK n \in 1..Len(L[x]) : /\ L[x][1] = x /\ heap[x].bytes_trans > 0
                                    /\ heap[x].cur = L[x][n]
      BY <1>1, <2>2 DEF Cursors
    <3>2. L[x] # s
      BY <1>4, <2>2, <3>1
    <3>3. x # c /\ L2[x] = L[x]
      BY <1>13, <3>2 DEF s
    <3> QED
      BY <1>21, <2>2, <3>1, <3>3
  <2> QED
    BY <2>1, <2>2
<1>26. Counted(heap', L2) /\ Cursors(heap', L2)
  BY <1>24, <1>25 DEF Counted, Cursors
<1>27. InLists(L2, P2)
  BY <1>7 DEF L2, P2
<1>28. Kept(heap', L2, P2)
  BY <1>22, <1>23, <1>26, <1>27 DEF Kept
<1> QED
  BY <1>28

(* Multiples of a length.                                                  *)
LEMMA Multiples ==
    ASSUME NEW n \in Nat, NEW l \in Nat
    PROVE  n * l \in Nat /\ (n + 1) * l = (n * l) + l /\ 0 * l = 0
OBVIOUS

(* The total of elements of one length is at most their count times it:    *)
(* less, when the sum wraps.                                               *)
LEMMA SumIsAtMost ==
    ASSUME NEW h, Measured(h), NEW s \in Seq(Bufs), NEW l \in Nat,
           \A n \in 1..Len(s) : h[s[n]].len = l
    PROVE  SumOf(h, s) <= Len(s) * l /\ SumOf(h, s) \in Nat
<1>0. Len(s) \in Nat /\ Size_t \subseteq Nat
  BY DEF Size_t
<1>1. PICK f \in [0..Len(s) -> Size_t] :
             /\ f[0] = 0 /\ SumOf(h, s) = f[Len(s)]
             /\ \A n \in 1..Len(s) : f[n] = (f[n - 1] + h[s[n]].len) % SizeMod
  BY SumSteps
<1>2. \A n \in 0..Len(s) : f[n] \in Nat
  BY <1>0, <1>1
<1> DEFINE S == {m \in Nat : m <= Len(s) => f[m] <= m * l}
<1>3. 0 \in S
  BY <1>1, Multiples
<1>4. ASSUME NEW m \in Nat, m \in S
      PROVE  m + 1 \in S
  <2> SUFFICES ASSUME m + 1 <= Len(s) PROVE f[m + 1] <= (m + 1) * l
    OBVIOUS
  <2>1. m + 1 \in 1..Len(s) /\ m + 1 - 1 = m /\ m \in 0..Len(s)
    BY <1>0
  <2>7. f[m] <= m * l
    BY <1>4, <2>1
  <2>2. f[m + 1] = (f[m] + l) % SizeMod
    BY <1>1, <2>1
  <2>3. f[m] \in Nat /\ f[m] + l \in Nat /\ f[m] + l \in Int
    BY <1>2, <2>1
  <2>4. f[m + 1] <= f[m] + l
    BY <2>2, <2>3, SizesAreBounded
  <2>5. (m + 1) * l = (m * l) + l /\ m * l \in Nat
    BY Multiples
  <2>6. f[m + 1] \in Nat
    BY <1>0, <1>2, <2>1
  <2> QED
    BY <2>3, <2>4, <2>5, <2>6, <2>7
<1>5. Nat \subseteq S
  BY <1>3, <1>4, NaturalsWithZeroAndNext
<1>6. f[Len(s)] <= Len(s) * l /\ f[Len(s)] \in Nat
  BY <1>0, <1>2, <1>5
<1> QED
  BY <1>1, <1>6

(* Buffers of one length: the first ones are full, one has the last bytes, *)
(* and the others are empty.                                               *)
Filled(consumed, s, l, m, q) ==
    \A n \in 1..Len(s) : consumed[s[n]] = IF n < m THEN l ELSE IF n = m THEN q ELSE 0

(* When the elements have one length, set_bytes() fills them in order up   *)
(* to one, m, which gets what is left, q; the cursor is at m, or behind it *)
(* when that is full too.                                                  *)
LEMMA ChargedFills ==
    ASSUME NEW L, NEW P, Kept(heap, L, P), NEW b \in Bufs, heap[b].len > 0,
           \A n \in 1..Len(L[b]) : heap[L[b][n]].len = heap[b].len,
           NEW bytes \in 1..heap[heap[b].head].bytes_total, bytes \in Size_t
    PROVE  \E m \in 1..Len(L[b]) : \E q \in 1..heap[b].len :
             /\ bytes = ((m - 1) * heap[b].len) + q
             /\ Filled(Charged(b, bytes).consumed, L[b], heap[b].len, m, q)
             /\ Charged(b, bytes).cur = IF heap[b].len > q THEN L[b][m] ELSE heap[L[b][m]].next
<1> DEFINE s == L[b]
           l == heap[b].len
           hd == heap[b].head
<1>1. heap \in [Bufs -> Element] /\ InLists(L, P) /\ Linked(heap, L, P)
      /\ Counted(heap, L) /\ Cursors(heap, L)
  BY DEF Kept
<1>2. /\ s \in Seq(Bufs) /\ Len(s) \in Nat /\ hd = s[1] /\ hd \in Bufs
      /\ \A n \in 1..Len(s) : s[n] \in Bufs
  BY <1>1, ListsAreShort DEF Linked
<1>3. \A n \in 1..Len(s) : L[s[n]] = s /\ P[s[n]] = n
  BY <1>1 DEF InLists
<1>4. Items(heap, b) = s
  BY <1>1, ItemsAreListed
<1>5. l \in Size_t /\ l \in Nat /\ l > 0
  <2>1. l \in Size_t
    BY <1>1, KeptAreMeasured DEF Measured
  <2> QED
    BY <2>1 DEF Size_t
<1>6. bytes <= Len(s) * l /\ bytes \in Nat
  <2>1. heap[hd].bytes_total = SumOf(heap, s)
    BY <1>1, <1>2 DEF Counted
  <2>2. Measured(heap)
    BY <1>1, KeptAreMeasured
  <2>3. \A n \in 1..Len(s) : heap[s[n]].len = l
    OBVIOUS
  <2> HIDE DEF s, l
  <2>4. SumOf(heap, s) <= Len(s) * l /\ SumOf(heap, s) \in Nat
    BY <1>2, <1>5, <2>2, <2>3, SumIsAtMost
  <2>5. Len(s) * l \in Nat
    BY <1>2, <1>5, Multiples
  <2>6. bytes \in 1..heap[hd].bytes_total
    OBVIOUS
  <2> HIDE DEF hd
  <2> QED
    BY <2>1, <2>4, <2>5, <2>6
<1>7. PICK f : /\ f[0] = ChargeFirst(b, bytes, s) /\ Charged(b, bytes) = f[Len(s)]
               /\ \A n \in 1..Len(s) : f[n] = Charge(b, s[n], f[n - 1])
  <2> HIDE DEF s
  <2> QED
    BY SMTT(30), <1>2, <1>4, ChargeSteps
<1> DEFINE Goes(n) == /\ f[n].done = FALSE /\ f[n].left \in Size_t /\ f[n].left > 0
                      /\ bytes = (n * l) + f[n].left
                      /\ Filled(f[n].consumed, s, l, n + 1, 0)
           Ends(n) == /\ f[n].done = TRUE
                      /\ \E m \in 1..n : \E q \in 1..l :
                            /\ bytes = ((m - 1) * l) + q
                            /\ Filled(f[n].consumed, s, l, m, q)
                            /\ f[n].cur = IF l > q THEN s[m] ELSE heap[s[m]].next
           S == {n \in Nat : n <= Len(s) => f[n] \in Charging /\ (Goes(n) \/ Ends(n))}
<1>8. \A n \in 1..Len(s) : heap[s[n]].len = l
  OBVIOUS
<1> HIDE DEF s, l
<1>9. 0 \in S
  <2> DEFINE consumed == [x \in Bufs |-> IF x \in ToSet(s) THEN 0 ELSE heap[x].consumed]
  <2>1. f[0] = [left |-> bytes, cur |-> heap[hd].cur, done |-> FALSE, consumed |-> consumed]
    BY <1>7 DEF ChargeFirst
  <2>2. consumed \in [Bufs -> Size_t]
    <3>1. 0 \in Size_t
      BY BufferListAssumption DEF Size_t
    <3>2. \A x \in Bufs : heap[x].consumed \in Size_t
      BY <1>1 DEF Element
    <3> QED
      BY <3>1, <3>2
  <2>3. heap[hd].cur \in Pointer
    BY <1>1, <1>2 DEF Element
  <2>4. \A n \in 1..Len(s) : consumed[s[n]] = 0
    <3>1. DOMAIN s = 1..Len(s)
      BY <1>2
    <3>2. \A n \in 1..Len(s) : s[n] \in ToSet(s)
      BY <3>1 DEF ToSet
    <3> QED
      BY <1>2, <3>2
  <2> HIDE DEF consumed, hd
  <2>5. f[0].left = bytes /\ f[0].done = FALSE /\ f[0].consumed = consumed
    BY <2>1
  <2>6. f[0] \in Charging
    BY <2>1, <2>2, <2>3 DEF Charging
  <2>7. bytes = (0 * l) + bytes /\ bytes > 0
    <3>1. 0 * l = 0
      BY <1>5, Multiples
    <3> QED
      BY <1>6, <3>1
  <2>8. Filled(consumed, s, l, 0 + 1, 0)
    <3>1. ASSUME NEW n \in 1..Len(s)
          PROVE  consumed[s[n]] = IF n < 0 + 1 THEN l ELSE IF n = 0 + 1 THEN 0 ELSE 0
      BY <2>4
    <3> QED
      BY <3>1 DEF Filled
  <2> QED
    BY <2>5, <2>6, <2>7, <2>8
<1>10. ASSUME NEW n \in Nat, n \in S
       PROVE  n + 1 \in S
  <2> HIDE DEF Goes, Ends
  <2> SUFFICES ASSUME n + 1 <= Len(s)
               PROVE  f[n + 1] \in Charging /\ (Goes(n + 1) \/ Ends(n + 1))
    OBVIOUS
  <2> USE DEF Goes, Ends
  <2> DEFINE i == s[n + 1]
             acc == f[n]
             new == f[n + 1]
  <2>1. n + 1 \in 1..Len(s) /\ n + 1 - 1 = n /\ acc \in Charging /\ (Goes(n) \/ Ends(n))
    BY <1>2, <1>10
  <2>2. new = Charge(b, i, acc) /\ i \in Bufs /\ heap[i].len = l
    BY <1>2, <1>7, <1>8, <2>1
  <2>3. new \in Charging
    BY <1>1, <2>1, <2>2, ChargeKeeps
  <2>4. \A k \in 1..Len(s) : s[k] \in Bufs /\ (s[k] = i <=> k = n + 1)
    BY <1>2, <1>3, <2>1
  <2>5. acc.consumed \in [Bufs -> Size_t]
    BY <2>1 DEF Charging
  <2>6. CASE Ends(n)
    <3>1. new = acc
      BY <2>2, <2>6 DEF Charge
    <3>2. 1..n \subseteq 1..n + 1
      OBVIOUS
    <3>3. Ends(n + 1)
      BY <2>6, <3>1, <3>2
    <3> QED
      BY <2>3, <3>3
  <2>7. CASE Goes(n) /\ IsFull(l, acc.left)
    <3> DEFINE lower == (acc.left - l) % SizeMod
    <3>1. new = [acc EXCEPT !.consumed[i] = l, !.left = lower]
      BY <2>2, <2>7 DEF Charge, l
    <3>2. acc.left - l \in Nat /\ acc.left - l > 0 /\ acc.left - l \in Size_t
      BY <1>5, <2>7, BufferListAssumption DEF IsFull, Size_t
    <3>3. lower = acc.left - l
      BY <3>2, SizesAreBounded
    <3> HIDE DEF lower
    <3>4. new.left = lower /\ new.done = acc.done /\ new.consumed = [acc.consumed EXCEPT ![i] = l]
      BY <2>1, <3>1 DEF Charging
    <3>5. bytes = ((n + 1) * l) + new.left
      <4>1. (n + 1) * l = (n * l) + l /\ n * l \in Nat
        BY <1>5, Multiples
      <4>2. bytes = (n * l) + acc.left /\ acc.left \in Nat
        BY <2>7 DEF Size_t
      <4> QED
        BY <1>5, <3>3, <3>4, <4>1, <4>2
    <3>6. Filled(new.consumed, s, l, (n + 1) + 1, 0)
      <4>1. ASSUME NEW k \in 1..Len(s)
            PROVE  new.consumed[s[k]] = IF k < (n + 1) + 1 THEN l ELSE IF k = (n + 1) + 1 THEN 0 ELSE 0
        <5>1. acc.consumed[s[k]] = IF k < n + 1 THEN l ELSE IF k = n + 1 THEN 0 ELSE 0
          BY <2>7 DEF Filled
        <5>2. new.consumed[s[k]] = IF k = n + 1 THEN l ELSE acc.consumed[s[k]]
          BY <2>4, <2>5, <3>4
        <5> QED
          BY <5>1, <5>2
      <4> QED
        BY <4>1 DEF Filled
    <3>7. Goes(n + 1)
      BY <2>7, <3>2, <3>3, <3>4, <3>5, <3>6
    <3> QED
      BY <2>3, <3>7
  <2>8. CASE Goes(n) /\ ~IsFull(l, acc.left)
    <3> DEFINE q == acc.left
               cur == IF l > q THEN i ELSE heap[i].next
    <3>1. new = [acc EXCEPT !.consumed[i] = acc.left, !.left = 0, !.done = TRUE, !.cur = cur]
      BY <2>2, <2>8 DEF Charge
    <3>2. q \in 1..l
      BY <1>5, <2>8 DEF IsFull, Size_t
    <3> HIDE DEF cur
    <3>3. new.done = TRUE /\ new.cur = cur /\ new.consumed = [acc.consumed EXCEPT ![i] = q]
      BY <2>1, <3>1 DEF Charging
    <3> HIDE DEF q
    <3>4. Filled(new.consumed, s, l, n + 1, q)
      <4>1. ASSUME NEW k \in 1..Len(s)
            PROVE  new.consumed[s[k]] = IF k < n + 1 THEN l ELSE IF k = n + 1 THEN q ELSE 0
        <5>1. acc.consumed[s[k]] = IF k < n + 1 THEN l ELSE IF k = n + 1 THEN 0 ELSE 0
          BY <2>8 DEF Filled
        <5>2. new.consumed[s[k]] = IF k = n + 1 THEN q ELSE acc.consumed[s[k]]
          BY <2>4, <2>5, <3>3
        <5> QED
          BY <5>1, <5>2
      <4> QED
        BY <4>1 DEF Filled
    <3>5. n + 1 \in 1..n + 1 /\ bytes = (((n + 1) - 1) * l) + q
      BY <2>1, <2>8 DEF q
    <3>6. new.cur = IF l > q THEN s[n + 1] ELSE heap[s[n + 1]].next
      BY <3>3 DEF cur
    <3>7. Ends(n + 1)
      BY <3>2, <3>3, <3>4, <3>5, <3>6
    <3> QED
      BY <2>3, <3>7
  <2> QED
    BY <2>1, <2>6, <2>7, <2>8
<1>11. Nat \subseteq S
  <2> HIDE DEF Goes, Ends
  <2> QED
    BY <1>9, <1>10, NaturalsWithZeroAndNext
<1>12. ~Goes(Len(s))
  <2>1. ASSUME Goes(Len(s))
        PROVE  FALSE
    <3>1. f[Len(s)].left > 0 /\ f[Len(s)].left \in Nat /\ bytes = (Len(s) * l) + f[Len(s)].left
      BY <2>1 DEF Size_t
    <3>2. Len(s) * l \in Nat
      BY <1>2, <1>5, Multiples
    <3> QED
      BY <1>6, <3>1, <3>2
  <2> QED
    BY <2>1
<1>13. Ends(Len(s))
  BY <1>2, <1>11, <1>12
<1> QED
  BY <1>7, <1>13 DEF s, l

(* ConsumedOf adds the elements' bytes one by one.                         *)
LEMMA ConsumedSteps ==
    ASSUME NEW h, NEW s \in Seq(Bufs)
    PROVE  \E f : /\ f[0] = 0 /\ ConsumedOf(h, s) = f[Len(s)]
                  /\ \A n \in 1..Len(s) : f[n] = f[n - 1] + h[s[n]].consumed
<1> DEFINE Fill(f, n) == IF n = 0 THEN 0 ELSE f[n - 1] + h[s[n]].consumed
           Is(f, m) == f = [n \in 0..m |-> Fill(f, n)]
           S == {m \in Nat : \E f : Is(f, m)}
           sum == CHOOSE f : Is(f, Len(s))
<1>0. Len(s) \in Nat
  OBVIOUS
<1>1. Nat \subseteq S
  <2>1. 0 \in S
    <3>1. Is([n \in 0..0 |-> 0], 0)
      OBVIOUS
    <3> QED
      BY <3>1
  <2>2. ASSUME NEW m \in Nat, m \in S
        PROVE  m + 1 \in S
    <3>1. PICK f : Is(f, m)
      BY <2>2
    <3> DEFINE g == [n \in 0..m + 1 |-> IF n = m + 1 THEN f[m] + h[s[m + 1]].consumed ELSE f[n]]
    <3>2. ASSUME NEW n \in 0..m + 1
          PROVE  g[n] = Fill(g, n)
      <4>1. n = 0 \/ n \in 1..m \/ n = m + 1
        OBVIOUS
      <4> QED
        BY <3>1, <4>1
    <3>3. Is(g, m + 1)
      BY <3>2
    <3> HIDE DEF Is, g
    <3> QED
      BY <3>3
  <2> QED
    BY <2>1, <2>2, NaturalsWithZeroAndNext
<1>2. Is(sum, Len(s))
  <2> HIDE DEF Is
  <2>1. \E f : Is(f, Len(s))
    BY <1>0, <1>1
  <2> QED
    BY <2>1
<1>3. ConsumedOf(h, s) = sum[Len(s)]
  BY DEF ConsumedOf
<1> HIDE DEF sum
<1>4. \A n \in 0..Len(s) : sum[n] = Fill(sum, n)
  BY <1>2
<1>5. sum[0] = 0 /\ \A n \in 1..Len(s) : sum[n] = sum[n - 1] + h[s[n]].consumed
  BY <1>0, <1>4
<1> QED
  BY <1>3, <1>5

(* The bytes in m buffers of the length l, the last with q of them.        *)
UpTo(l, m, q) == ((m - 1) * l) + q

(* Elements filled in order hold what was put into them.                   *)
LEMMA FilledAddsUp ==
    ASSUME NEW h, NEW s \in Seq(Bufs), NEW l \in Nat, NEW m \in 1..Len(s), NEW q \in 1..l,
           \A n \in 1..Len(s) : h[s[n]].consumed = IF n < m THEN l ELSE IF n = m THEN q ELSE 0
    PROVE  ConsumedOf(h, s) = UpTo(l, m, q)
<1>0. Len(s) \in Nat /\ m \in Nat /\ m - 1 \in Nat /\ q \in Nat
  OBVIOUS
<1>1. PICK f : /\ f[0] = 0 /\ ConsumedOf(h, s) = f[Len(s)]
               /\ \A n \in 1..Len(s) : f[n] = f[n - 1] + h[s[n]].consumed
  BY ConsumedSteps
<1> DEFINE total == ((m - 1) * l) + q
           S == {n \in Nat : n < m => f[n] = n * l}
           T == {n \in Nat : m + n <= Len(s) => f[m + n] = total}
<1>2. 0 \in S
  BY <1>1, Multiples
<1>3. ASSUME NEW n \in Nat, n \in S
      PROVE  n + 1 \in S
  <2> SUFFICES ASSUME n + 1 < m PROVE f[n + 1] = (n + 1) * l
    OBVIOUS
  <2>1. n + 1 \in 1..Len(s) /\ n + 1 - 1 = n /\ f[n] = n * l
    BY <1>0, <1>3
  <2>2. f[n + 1] = f[n] + l
    BY <1>1, <2>1
  <2>3. (n + 1) * l = (n * l) + l
    BY Multiples
  <2> QED
    BY <2>1, <2>2, <2>3
<1>4. Nat \subseteq S
  BY <1>2, <1>3, NaturalsWithZeroAndNext
<1>5. f[m - 1] = (m - 1) * l
  <2> DEFINE n == m - 1
  <2>1. n \in Nat /\ n < m
    BY <1>0
  <2> HIDE DEF n
  <2>2. n \in S
    BY <1>4, <2>1
  <2>3. f[n] = n * l
    BY <2>1, <2>2
  <2> QED
    BY <2>3 DEF n
<1>6. f[m] = total
  <2>1. m < m <=> FALSE
    BY <1>0
  <2>2. f[m] = f[m - 1] + q
    BY <1>1, <2>1
  <2> QED
    BY <1>5, <2>2
<1>7. total \in Nat
  <2>1. (m - 1) * l \in Nat
    BY <1>0, Multiples
  <2> QED
    BY <1>0, <2>1
<1> HIDE DEF total
<1>8. 0 \in T
  BY <1>0, <1>6
<1>9. ASSUME NEW n \in Nat, n \in T
      PROVE  n + 1 \in T
  <2> SUFFICES ASSUME m + (n + 1) <= Len(s) PROVE f[m + (n + 1)] = total
    OBVIOUS
  <2> DEFINE k == m + (n + 1)
  <2>1. k \in 1..Len(s) /\ k - 1 = m + n /\ m + n <= Len(s) /\ ~(k < m) /\ k # m
    BY <1>0
  <2>2. f[k - 1] = total
    BY <1>9, <2>1
  <2> HIDE DEF k
  <2>3. f[k] = f[k - 1] + 0
    BY <1>1, <2>1
  <2>4. f[k] = total
    BY <1>7, <2>2, <2>3
  <2> QED
    BY <2>4 DEF k
<1>10. Nat \subseteq T
  BY <1>8, <1>9, NaturalsWithZeroAndNext
<1>11. f[Len(s)] = total
  <2> DEFINE n == Len(s) - m
  <2>1. n \in Nat /\ m + n = Len(s) /\ m + n <= Len(s)
    BY <1>0
  <2> HIDE DEF n
  <2>2. n \in T
    BY <1>10, <2>1
  <2>3. f[m + n] = total
    BY <2>1, <2>2
  <2> QED
    BY <2>1, <2>3
<1> QED
  BY <1>1, <1>11 DEF total, UpTo

(* After add_bytes the cursor is right.                                    *)
LEMMA CursorIsMoved ==
    ASSUME NEW L, NEW P, Kept(heap, L, P), NEW b \in Bufs, NEW n \in 1..Left(b), AddBytes(b, n)
    PROVE  CursorIsRight'
<1> DEFINE s == L[b]
           l == heap[b].len
           hd == heap[b].head
<1>1. Kept(heap', L, P) /\ InLists(L, P) /\ Linked(heap, L, P) /\ Linked(heap', L, P)
      /\ heap \in [Bufs -> Element] /\ heap' \in [Bufs -> Element]
  BY BytesAreAdded DEF Kept
<1>2. /\ s \in Seq(Bufs) /\ Len(s) \in Nat /\ hd = s[1] /\ hd \in Bufs /\ heap'[b].head = hd
      /\ \A k \in 1..Len(s) : s[k] \in Bufs
  BY <1>1, ListsAreShort DEF Linked
<1>3. Items(heap', b) = s /\ added' = b
  BY <1>1, ItemsAreListed DEF AddBytes
<1>4. PICK bytes \in 1..heap[hd].bytes_total :
             /\ bytes \in Size_t
             /\ heap' = [x \in Bufs |->
                           [heap[x] EXCEPT !.consumed = Charged(b, bytes).consumed[x],
                                           !.bytes_trans = IF x = hd THEN bytes ELSE @,
                                           !.cur = IF x = hd THEN Charged(b, bytes).cur ELSE @]]
  BY BytesAreInRange
<1> DEFINE consumed == Charged(b, bytes).consumed
           cur == Charged(b, bytes).cur
<1> HIDE DEF consumed, cur, hd, s
<1>5. ASSUME NEW x \in Bufs
      PROVE  /\ heap'[x].len = heap[x].len /\ heap'[x].consumed = consumed[x]
             /\ heap'[x].next = heap[x].next
             /\ x = hd => heap'[x].cur = cur /\ heap'[x].bytes_trans = bytes
  <2>1. heap[x] \in Element
    BY <1>1
  <2>2. heap'[x] = [heap[x] EXCEPT !.consumed = consumed[x],
                                   !.bytes_trans = IF x = hd THEN bytes ELSE @,
                                   !.cur = IF x = hd THEN cur ELSE @]
    BY <1>4 DEF consumed, cur
  <2> QED
    BY <2>1, <2>2 DEF Element
<1> DEFINE Open(k) == heap'[s[k]].consumed < heap'[s[k]].len
           open == {k \in 1..Len(s) : Open(k)}
<1>6. ASSUME \A k \in 1..Len(s) : heap'[s[k]].len = heap'[b].len, heap'[b].len > 0
      PROVE  /\ heap'[hd].cur = IF open = {} THEN Null
                                ELSE s[CHOOSE k \in open : \A j \in open : k <= j]
             /\ heap'[hd].bytes_trans = ConsumedOf(heap', s)
  <2>1. l > 0 /\ \A k \in 1..Len(s) : heap[s[k]].len = l /\ heap'[s[k]].len = l
    BY <1>2, <1>5, <1>6
  <2>2. l \in Nat
    <3>1. l \in Size_t
      BY <1>1, KeptAreMeasured DEF Measured
    <3> QED
      BY <3>1 DEF Size_t
  <2>3. PICK m \in 1..Len(s) : \E q \in 1..l :
             /\ bytes = ((m - 1) * l) + q
             /\ Filled(consumed, s, l, m, q)
             /\ cur = IF l > q THEN s[m] ELSE heap[s[m]].next
    <3>1. bytes \in 1..heap[heap[b].head].bytes_total /\ bytes \in Size_t
      BY <1>4 DEF hd
    <3> QED
      BY <2>1, <3>1, ChargedFills DEF consumed, cur, s
  <2>4. PICK q \in 1..l :
             /\ bytes = ((m - 1) * l) + q
             /\ Filled(consumed, s, l, m, q)
             /\ cur = IF l > q THEN s[m] ELSE heap[s[m]].next
    BY <2>3
  <2> HIDE DEF l
  <2>5. \A k \in 1..Len(s) : heap'[s[k]].consumed = IF k < m THEN l ELSE IF k = m THEN q ELSE 0
    BY <1>2, <1>5, <2>4 DEF Filled
  <2>6. ConsumedOf(heap', s) = UpTo(l, m, q)
    <3>1. PICK g : g = heap'
      OBVIOUS
    <3>2. \A k \in 1..Len(s) : g[s[k]].consumed = IF k < m THEN l ELSE IF k = m THEN q ELSE 0
      BY <2>5, <3>1
    <3>3. ConsumedOf(g, s) = UpTo(l, m, q)
      BY <1>2, <2>2, <3>2, FilledAddsUp
    <3> QED
      BY <3>1, <3>3
  <2>7. heap'[hd].bytes_trans = ConsumedOf(heap', s) /\ heap'[hd].cur = cur
    BY <1>2, <1>5, <2>4, <2>6 DEF UpTo
  <2>8. \A k \in 1..Len(s) : Open(k) <=> k > m \/ (k = m /\ q < l)
    <3> SUFFICES ASSUME NEW k \in 1..Len(s) PROVE Open(k) <=> k > m \/ (k = m /\ q < l)
      OBVIOUS
    <3>1. heap'[s[k]].consumed = (IF k < m THEN l ELSE IF k = m THEN q ELSE 0)
          /\ heap'[s[k]].len = l
      BY <2>1, <2>5
    <3>2. q \in 1..l /\ l > 0 /\ l \in Nat /\ m \in Nat /\ k \in Nat
      BY <2>1, <2>2
    <3> QED
      BY <3>1, <3>2
  <2> HIDE DEF Open
  <2>9. ASSUME NEW first \in 1..Len(s), open = first..Len(s)
        PROVE  open # {} /\ (CHOOSE k \in open : \A j \in open : k <= j) = first
    <3>1. first \in open /\ \A j \in open : first <= j
      BY <1>2, <2>9
    <3>2. \A k \in open : (\A j \in open : k <= j) => k = first
      <4> SUFFICES ASSUME NEW k \in open, \A j \in open : k <= j PROVE k = first
        OBVIOUS
      <4>1. k <= first /\ first <= k /\ k \in Int /\ first \in Int
        BY <1>2, <3>1
      <4> QED
        BY <4>1
    <3> HIDE DEF open
    <3> QED
      BY <3>1, <3>2
  <2>10. CASE q < l
    <3>1. open = m..Len(s)
      BY <1>2, <2>8, <2>10
    <3>2. cur = s[m]
      BY <2>2, <2>4, <2>10
    <3> HIDE DEF open
    <3>3. open # {} /\ (CHOOSE k \in open : \A j \in open : k <= j) = m
      BY <2>9, <3>1
    <3> QED
      BY <2>7, <3>2, <3>3
  <2>11. CASE ~(q < l)
    <3>1. cur = heap[s[m]].next
      BY <2>2, <2>4, <2>11
    <3>2. heap[s[m]].next = IF m < Len(s) THEN s[m + 1] ELSE Null
      <4>1. s[m] \in Bufs /\ L[s[m]] = s /\ P[s[m]] = m
        BY <1>1, <1>2 DEF InLists, s
      <4> QED
        BY <1>1, <4>1 DEF Linked, Chained
    <3>3. CASE m < Len(s)
      <4>1. m + 1 \in 1..Len(s)
        BY <1>2, <3>3
      <4>2. open = m + 1..Len(s)
        BY <1>2, <2>8, <2>11
      <4> HIDE DEF open
      <4>3. open # {} /\ (CHOOSE k \in open : \A j \in open : k <= j) = m + 1
        BY <2>9, <4>1, <4>2
      <4> QED
        BY <2>7, <3>1, <3>2, <3>3, <4>3
    <3>4. CASE ~(m < Len(s))
      <4>1. open = {}
        BY <1>2, <2>8, <2>11, <3>4
      <4> QED
        BY <2>7, <3>1, <3>2, <3>4, <4>1
    <3> QED
      BY <3>3, <3>4
  <2> QED
    BY <2>10, <2>11
<1>7. DOMAIN s = 1..Len(s)
  BY <1>2
<1> QED
  BY <1>2, <1>3, <1>6, <1>7 DEF CursorIsRight

BufferInv == (\E L, P : Kept(heap, L, P)) /\ CursorIsRight

(* Every operation on the lists keeps the invariant.                       *)
LEMMA BufferSteps == ASSUME BufferInv, [BufferNext]_bufferVars PROVE BufferInv'
<1>1. PICK L, P : Kept(heap, L, P)
  BY DEF BufferInv
<1>2. CASE UNCHANGED bufferVars
  BY <1>2 DEF BufferInv, bufferVars, CursorIsRight
<1>3. CASE BufferNext
  <2>1. PICK b \in Bufs :
          \/ \E x \in Bufs : AppendList(b, x)
          \/ \E n \in {0} \cup BufLens : SetData(b, n)
          \/ \E n \in 1..Left(b) : AddBytes(b, n)
          \/ SplitFromCur(b)
          \/ TakeApart(b, TRUE) \/ TakeApart(b, FALSE)
    BY <1>3 DEF BufferNext
  <2>2. ASSUME added' = Null
        PROVE  CursorIsRight'
    BY <2>2 DEF CursorIsRight
  <2>3. ASSUME NEW x \in Bufs, AppendList(b, x)
        PROVE  BufferInv'
    <3>1. added' = Null
      BY <2>3 DEF AppendList
    <3> QED
      BY <1>1, <2>2, <2>3, <3>1, ListIsAppended DEF BufferInv
  <2>4. ASSUME NEW n \in {0} \cup BufLens, SetData(b, n)
        PROVE  BufferInv'
    <3>1. added' = Null
      BY <2>4 DEF SetData
    <3> QED
      BY <1>1, <2>2, <2>4, <3>1, DataIsSet DEF BufferInv
  <2>5. ASSUME NEW n \in 1..Left(b), AddBytes(b, n)
        PROVE  BufferInv'
    BY <1>1, <2>5, BytesAreAdded, CursorIsMoved DEF BufferInv
  <2>6. CASE SplitFromCur(b)
    <3>1. added' = Null
      BY <2>6 DEF SplitFromCur
    <3> QED
      BY <1>1, <2>2, <2>6, <3>1, ListIsSplit DEF BufferInv
  <2>7. ASSUME NEW keeps \in BOOLEAN, TakeApart(b, keeps)
        PROVE  BufferInv'
    <3>1. added' = Null
      BY <2>7 DEF TakeApart
    <3> QED
      BY <1>1, <2>2, <2>7, <3>1, TakenApart DEF BufferInv
  <2> QED
    BY <2>1, <2>3, <2>4, <2>5, <2>6, <2>7
<1> QED
  BY <1>2, <1>3

(* Lists that are kept have the types and the books that ListsAreSound     *)
(* asks for.                                                               *)
LEMMA KeptListsAgree ==
    ASSUME NEW L, NEW P, Kept(heap, L, P)
    PROVE  BufferTypeOK /\ ListsAgree
<1>1. heap \in [Bufs -> Element] /\ InLists(L, P) /\ Linked(heap, L, P) /\ Counted(heap, L)
  BY DEF Kept
<1>2. BufferTypeOK
  BY <1>1 DEF BufferTypeOK, Element
<1>3. ASSUME NEW b \in Bufs
      PROVE  LET hd == heap[b].head
                 items == Items(heap, b)
             IN /\ b \in ToSet(items) /\ heap[hd].head = hd /\ heap[hd].prev = Null
                /\ heap[hd].count = Len(items)
                /\ heap[hd].bytes_total = SumOf(heap, items)
  <2> DEFINE s == L[b]
             hd == heap[b].head
  <2>1. /\ s \in Seq(Bufs) /\ hd = s[1] /\ hd \in Bufs /\ L[hd] = s /\ P[hd] = 1
        /\ P[b] \in 1..Len(s) /\ s[P[b]] = b
    BY <1>1, ListsAreShort DEF Linked
  <2>2. Items(heap, b) = s
    BY <1>1, ItemsAreListed
  <2>3. b \in ToSet(s)
    <3>1. DOMAIN s = 1..Len(s)
      BY <2>1
    <3> HIDE DEF s
    <3> QED
      BY <2>1, <3>1 DEF ToSet
  <2>4. heap[hd].head = hd /\ heap[hd].prev = Null
    <3> HIDE DEF hd
    <3>1. heap[hd].head = L[hd][1] /\ heap[hd].prev = IF P[hd] > 1 THEN L[hd][P[hd] - 1] ELSE Null
      BY <1>1, <2>1 DEF Linked
    <3> QED
      BY <2>1, <3>1
  <2>5. heap[hd].count = Len(s) /\ heap[hd].bytes_total = SumOf(heap, s)
    BY <1>1, <2>1 DEF Counted
  <2> QED
    BY <2>2, <2>3, <2>4, <2>5
<1> QED
  BY <1>2, <1>3 DEF ListsAgree

(* The invariant holds when the elements are constructed.                  *)
LEMMA BufferStarts == BufferInit => BufferInv
BY BuffersStart DEF BufferInit, BufferInv, CursorIsRight

(* The invariant holds in every state.                                     *)
LEMMA BufferInvariant == BufferSpec => []BufferInv
BY BufferStarts, BufferSteps, PTL DEF BufferSpec

(* Whatever is appended to, split off, filled, measured or taken apart, in *)
(* any order, with any number of buffers of any lengths, and also when the *)
(* size_t sums wrap: every element is at one place of one list, the links  *)
(* of io_buffer agree with it, the head has its count and its total, and   *)
(* after add_bytes() the cursor is at the first buffer that is not full.   *)
THEOREM ListsStaySound == BufferSpec => []ListsAreSound
<1>1. BufferInv => ListsAreSound
  BY KeptListsAgree DEF BufferInv, ListsAreSound
<1> QED
  BY <1>1, BufferInvariant, PTL
=============================================================================
