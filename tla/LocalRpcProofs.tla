----------------------------- MODULE LocalRpcProofs -----------------------------
(***************************************************************************)
(* What LocalRpc guarantees for every number of calls, every backlog and   *)
(* every number of descriptors: its safety invariants, and that it         *)
(* implements RemoteCall.                                                  *)
(***************************************************************************)
EXTENDS LocalRpc, FiniteSetTheorems, TLAPS

Waiting == {backlog[i] : i \in DOMAIN backlog}

(* A request is sent part by part, and the server reads what was sent.     *)
PartsInOrder ==
    \A k \in Calls :
        /\ cpc[k] = "idle" => sent[k] = 0
        /\ cpc[k] = "send" => sent[k] < RequestParts
        /\ up[k] <= sent[k]

(* The server serves somebody only between accept and reply.               *)
CurIsServed == cur # NoCall => spc \in {"head", "params", "reply"}

(* A call is made before it waits, waits before it is served, and runs     *)
(* when its parameters are there.                                          *)
StagesInOrder ==
    /\ \A k \in Waiting : cpc[k] # "idle" /\ k \notin executed /\ k \notin cur
    /\ \A i, j \in DOMAIN backlog : backlog[i] = backlog[j] => i = j
    /\ \A k \in cur : cpc[k] # "idle" /\ (k \in executed <=> spc = "reply")
    /\ \A k \in executed : k \in Calls /\ cpc[k] # "idle"

(* A reply is on its way only when the call has run.                       *)
ReplyMeansRun == \A k \in Calls : down[k] > 0 => k \in executed

(* The inductive invariant.                                                *)
CallInv ==
    /\ TypeOK
    /\ IsFiniteSet(handles)
    /\ PartsInOrder
    /\ CurIsServed
    /\ StagesInOrder
    /\ ReplyMeansRun
    /\ GivenUpIsClosed

LEMMA CallInit == Init => CallInv
<1> SUFFICES ASSUME Init PROVE CallInv
  OBVIOUS
<1> USE LocalRpcAssumption DEF Init, RequestParts, ReplyParts, NoCall
<1>1. IsFiniteSet(handles) /\ Cardinality(handles) = 0
  BY FS_EmptySet
<1>2. TypeOK
  <2>1. backlog \in Seq(Calls) /\ Len(backlog) = 0
    OBVIOUS
  <2>2. Len(backlog) <= Backlog /\ Cardinality(handles) <= MaxHandles
    BY <1>1, <2>1
  <2>3. /\ up \in [Calls -> 0..RequestParts] /\ sent \in [Calls -> 0..RequestParts]
        /\ down \in [Calls -> 0..ReplyParts]
    OBVIOUS
  <2>4. cpc \in [Calls -> {"idle", "send", "recv", "ok", "error", "killed"}]
    OBVIOUS
  <2>5. cur \in {NoCall} \cup {{k} : k \in Calls}
    OBVIOUS
  <2>6. handles \in SUBSET Calls /\ reset \in SUBSET Calls /\ executed \in SUBSET Calls
    OBVIOUS
  <2>7. /\ spc \in {"start", "accept", "head", "params", "reply", "stopped", "killed"}
        /\ listening \in BOOLEAN
    OBVIOUS
  <2> QED
    BY <2>1, <2>2, <2>3, <2>4, <2>5, <2>6, <2>7 DEF TypeOK
<1>3. PartsInOrder /\ CurIsServed /\ ReplyMeansRun /\ GivenUpIsClosed
  BY DEF PartsInOrder, CurIsServed, ReplyMeansRun, GivenUpIsClosed
<1>4. StagesInOrder
  BY DEF StagesInOrder, Waiting
<1> QED
  BY <1>1, <1>2, <1>3, <1>4 DEF CallInv

-----------------------------------------------------------------------------
(* Steps of a caller.                                                      *)

LEMMA ConnectStep == ASSUME CallInv, NEW k \in Calls, Connect(k) PROVE CallInv'
<1> USE LocalRpcAssumption DEF CallInv, Connect, RequestParts, ReplyParts, NoCall, serverVars
<1>1. CASE listening
  <2> USE <1>1
  <2>1. /\ backlog' = Append(backlog, k) /\ backlog \in Seq(Calls)
        /\ backlog' \in Seq(Calls) /\ Len(backlog') = Len(backlog) + 1
        /\ backlog'[Len(backlog) + 1] = k
        /\ \A i \in 1..Len(backlog) : backlog'[i] = backlog[i]
    <3>1. backlog' = Append(backlog, k) /\ backlog \in Seq(Calls)
      BY DEF TypeOK
    <3> QED
      BY <3>1
  <2>2. cpc[k] = "idle" /\ cpc' = [cpc EXCEPT ![k] = "send"]
    OBVIOUS
  <2>3. TypeOK'
    BY <2>1, <2>2 DEF TypeOK
  <2>4. k \notin Waiting /\ k \notin executed /\ k \notin cur
    BY <2>2 DEF StagesInOrder
  <2>5. \A i, j \in DOMAIN backlog' : backlog'[i] = backlog'[j] => i = j
    BY <2>1, <2>4 DEF StagesInOrder, Waiting
  <2>6. Waiting' = Waiting \cup {k}
    BY <2>1 DEF Waiting
  <2>7. StagesInOrder'
    BY <2>2, <2>4, <2>5, <2>6 DEF StagesInOrder, TypeOK
  <2>8. PartsInOrder' /\ CurIsServed' /\ ReplyMeansRun' /\ GivenUpIsClosed'
    BY <2>2 DEF TypeOK, PartsInOrder, CurIsServed, ReplyMeansRun, GivenUpIsClosed
  <2> QED
    BY <2>3, <2>7, <2>8
<1>2. CASE ~listening
  <2> USE <1>2
  <2>1. cpc' = [cpc EXCEPT ![k] = "error"] /\ UNCHANGED backlog
    OBVIOUS
  <2>2. TypeOK' /\ PartsInOrder'
    BY <2>1 DEF TypeOK, PartsInOrder
  <2>3. StagesInOrder'
    BY <2>1 DEF StagesInOrder, Waiting, TypeOK
  <2>4. CurIsServed' /\ ReplyMeansRun' /\ GivenUpIsClosed'
    BY DEF CurIsServed, ReplyMeansRun, GivenUpIsClosed
  <2> QED
    BY <2>2, <2>3, <2>4
<1> QED
  BY <1>1, <1>2

LEMMA SendRequestStep == ASSUME CallInv, NEW k \in Calls, SendRequest(k) PROVE CallInv'
<1> USE LocalRpcAssumption
    DEF CallInv, SendRequest, EndCli, RequestParts, ReplyParts, NoCall, serverVars
<1>1. cpc[k] = "send" /\ UNCHANGED <<serverVars, backlog, handles, reset, down>>
  OBVIOUS
<1>2. \E to \in {"killed", "send", "recv"} : cpc' = [cpc EXCEPT ![k] = to]
  BY DEF TypeOK
<1>3. \/ UNCHANGED <<sent, up>> /\ cpc' = [cpc EXCEPT ![k] = "killed"]
      \/ /\ sent' = [sent EXCEPT ![k] = @ + 1]
         /\ up' = [up EXCEPT ![k] = @ + 1]
         /\ cpc'[k] = "send" => sent[k] + 1 # RequestParts
  BY DEF TypeOK
<1>4. sent[k] < RequestParts /\ up[k] <= sent[k] /\ up[k] \in 0..2 /\ sent[k] \in 0..2
  BY <1>1 DEF PartsInOrder, TypeOK
<1>5. TypeOK'
  BY <1>1, <1>2, <1>3, <1>4 DEF TypeOK
<1>6. PartsInOrder'
  BY <1>1, <1>2, <1>3, <1>4 DEF TypeOK, PartsInOrder
<1>7. StagesInOrder'
  BY <1>1, <1>2 DEF StagesInOrder, Waiting, TypeOK
<1>8. CurIsServed' /\ ReplyMeansRun' /\ IsFiniteSet(handles)'
  BY <1>1 DEF CurIsServed, ReplyMeansRun
<1>9. GivenUpIsClosed'
  BY <1>1, <1>3 DEF GivenUpIsClosed, TypeOK
<1> QED
  BY <1>5, <1>6, <1>7, <1>8, <1>9

(* The caller's last step: its result, or the end of its time.             *)
LEMMA EndStep ==
    ASSUME CallInv, NEW k \in Calls, Connected(k), NEW with \in {"ok", "error"},
           EndCli(k, with), UNCHANGED <<sent, serverVars, backlog, handles, reset, up>>,
           down' = down \/ down' = [down EXCEPT ![k] = 0]
    PROVE  CallInv'
<1> USE LocalRpcAssumption DEF CallInv, EndCli, RequestParts, ReplyParts, NoCall, serverVars
<1>1. TypeOK' /\ PartsInOrder'
  BY DEF TypeOK, PartsInOrder
<1>2. StagesInOrder'
  BY DEF StagesInOrder, Waiting, TypeOK
<1>3. CurIsServed' /\ ReplyMeansRun' /\ GivenUpIsClosed'
  BY DEF CurIsServed, ReplyMeansRun, GivenUpIsClosed, TypeOK
<1> QED
  BY <1>1, <1>2, <1>3

-----------------------------------------------------------------------------
(* Steps of the server.                                                    *)

LEMMA AcceptStep == ASSUME CallInv, Accept PROVE CallInv'
<1> USE LocalRpcAssumption DEF CallInv, Accept, RequestParts, ReplyParts, NoCall, clientVars
<1>1. CASE Cardinality(handles) < MaxHandles
  <2> USE <1>1
  <2> DEFINE h == Head(backlog)
  <2>1. backlog # <<>> /\ backlog \in Seq(Calls)
    BY DEF TypeOK
  <2>2. /\ h \in Calls /\ h = backlog[1] /\ backlog' \in Seq(Calls)
        /\ Len(backlog) > 0 /\ Len(backlog') = Len(backlog) - 1
        /\ \A i \in 1..Len(backlog') : backlog'[i] = backlog[i + 1]
    BY <2>1
  <2>3. cur = {} /\ cur' = {h} /\ spc' = "head" /\ handles' = handles \cup {h}
    BY DEF CurIsServed
  <2> HIDE DEF h
  <2>4. IsFiniteSet(handles') /\ Cardinality(handles') <= MaxHandles
    <3>1. /\ IsFiniteSet(handles \cup {h})
          /\ Cardinality(handles \cup {h}) =
                IF h \in handles THEN Cardinality(handles) ELSE Cardinality(handles) + 1
      BY FS_AddElement
    <3>2. Cardinality(handles) \in Nat
      BY FS_CardinalityType
    <3> QED
      BY <2>3, <3>1, <3>2
  <2>5. TypeOK'
    BY <2>2, <2>3, <2>4 DEF TypeOK
  <2>6. \A i, j \in DOMAIN backlog' : backlog'[i] = backlog'[j] => i = j
    BY <2>2 DEF StagesInOrder
  <2>7. Waiting' \subseteq Waiting \ {h}
    <3> SUFFICES ASSUME NEW i \in DOMAIN backlog'
                 PROVE backlog'[i] \in Waiting /\ backlog'[i] # h
      BY DEF Waiting
    <3>1. i \in 1..Len(backlog') /\ i + 1 \in DOMAIN backlog /\ 1 \in DOMAIN backlog
      BY <2>1, <2>2
    <3> QED
      BY <3>1, <2>2 DEF Waiting, StagesInOrder
  <2>8. h \in Waiting
    BY <2>1, <2>2 DEF Waiting
  <2>9. StagesInOrder'
    BY <2>3, <2>6, <2>7, <2>8 DEF StagesInOrder
  <2>10. PartsInOrder' /\ CurIsServed' /\ ReplyMeansRun'
    BY <2>3 DEF PartsInOrder, CurIsServed, ReplyMeansRun
  <2>11. GivenUpIsClosed'
    BY <2>3 DEF GivenUpIsClosed
  <2> QED
    BY <2>4, <2>5, <2>9, <2>10, <2>11
<1>2. CASE ~(Cardinality(handles) < MaxHandles)
  <2> USE <1>2
  <2>1. cur = {} /\ UNCHANGED <<cur, handles, cpc, sent, executed, up, down>>
    BY DEF CurIsServed
  <2>2. /\ backlog' = <<>> /\ backlog' \in Seq(Calls) /\ Len(backlog') = 0
        /\ spc' = "stopped" /\ listening' = FALSE
    OBVIOUS
  <2>3. reset' \in SUBSET Calls
    BY DEF TypeOK
  <2>4. TypeOK'
    <3>1. Len(backlog') <= Backlog
      BY <2>2
    <3> QED
      BY <2>1, <2>2, <2>3, <3>1 DEF TypeOK
  <2>5. StagesInOrder'
    BY <2>1, <2>2 DEF StagesInOrder, Waiting
  <2>6. PartsInOrder' /\ CurIsServed' /\ ReplyMeansRun' /\ GivenUpIsClosed'
    BY <2>1 DEF PartsInOrder, CurIsServed, ReplyMeansRun, GivenUpIsClosed
  <2> QED
    BY <2>1, <2>4, <2>5, <2>6
<1> QED
  BY <1>1, <1>2

LEMMA FetchHeadEffect ==
    ASSUME CallInv, FetchHead
    PROVE  \E k \in cur :
             /\ up[k] > 0
             /\ up' = [up EXCEPT ![k] = @ - 1]
             /\ spc' = IF k \in Plus THEN "params" ELSE "accept"
             /\ cur' = IF k \in Plus THEN cur ELSE {}
             /\ executed' = executed
<1> DEFINE to == [k \in Calls |-> IF k \in Plus THEN "params" ELSE "accept"]
<1>1. cur \subseteq Calls
  BY DEF CallInv, TypeOK, NoCall
<1>2. \A k \in cur : to[k] = IF k \in Plus THEN "params" ELSE "accept"
  BY <1>1
<1>3. Fetch("head", to)
  BY DEF FetchHead
<1> HIDE DEF to
<1>4. PICK k \in cur :
        /\ up[k] > 0
        /\ up' = [up EXCEPT ![k] = @ - 1]
        /\ spc' = to[k]
        /\ cur' = IF to[k] = "accept" THEN NoCall ELSE cur
        /\ executed' = IF to[k] = "reply" THEN executed \cup {k} ELSE executed
  BY <1>3 DEF Fetch
<1> QED
  BY <1>2, <1>4 DEF NoCall

LEMMA FetchHeadStep == ASSUME CallInv, FetchHead PROVE CallInv'
<1> USE LocalRpcAssumption
    DEF CallInv, FetchHead, Fetch, RequestParts, ReplyParts, NoCall, clientVars
<1> PICK k \in cur :
        /\ up[k] > 0
        /\ up' = [up EXCEPT ![k] = @ - 1]
        /\ spc' = IF k \in Plus THEN "params" ELSE "accept"
        /\ cur' = IF k \in Plus THEN cur ELSE {}
        /\ executed' = executed
  BY FetchHeadEffect
<1>1. /\ spc = "head" /\ k \in Calls /\ cur = {k} /\ up[k] \in 1..2 /\ up[k] <= sent[k]
      /\ UNCHANGED <<cpc, sent, listening, backlog, handles, reset, down>>
  BY DEF TypeOK, PartsInOrder
<1>2. TypeOK'
  BY <1>1 DEF TypeOK
<1>3. PartsInOrder'
  BY <1>1 DEF TypeOK, PartsInOrder
<1>4. StagesInOrder'
  BY <1>1 DEF StagesInOrder, Waiting
<1>5. CurIsServed' /\ ReplyMeansRun'
  BY <1>1 DEF CurIsServed, ReplyMeansRun
<1>6. GivenUpIsClosed'
  BY <1>1 DEF TypeOK, GivenUpIsClosed, PartsInOrder
<1> QED
  BY <1>1, <1>2, <1>3, <1>4, <1>5, <1>6

LEMMA FetchParamsEffect ==
    ASSUME CallInv, FetchParams
    PROVE  \E k \in cur :
             /\ up[k] > 0
             /\ up' = [up EXCEPT ![k] = @ - 1]
             /\ spc' = "reply"
             /\ cur' = cur
             /\ executed' = executed \cup {k}
<1>1. cur \subseteq Calls
  BY DEF CallInv, TypeOK, NoCall
<1>2. \A k \in cur : [c \in Calls |-> "reply"][k] = "reply"
  BY <1>1
<1> QED
  BY <1>2 DEF FetchParams, Fetch

LEMMA FetchParamsStep == ASSUME CallInv, FetchParams PROVE CallInv'
<1> USE LocalRpcAssumption
    DEF CallInv, FetchParams, Fetch, RequestParts, ReplyParts, NoCall, clientVars
<1> PICK k \in cur :
        /\ up[k] > 0
        /\ up' = [up EXCEPT ![k] = @ - 1]
        /\ spc' = "reply"
        /\ cur' = cur
        /\ executed' = executed \cup {k}
  BY FetchParamsEffect
<1>1. /\ spc = "params" /\ k \in Calls /\ cur = {k} /\ up[k] \in 1..2 /\ up[k] <= sent[k]
      /\ UNCHANGED <<cpc, sent, listening, backlog, handles, reset, down>>
  BY DEF TypeOK, PartsInOrder
<1>2. TypeOK'
  BY <1>1 DEF TypeOK
<1>3. PartsInOrder'
  BY <1>1 DEF TypeOK, PartsInOrder
<1>4. StagesInOrder'
  BY <1>1 DEF StagesInOrder, Waiting
<1>5. CurIsServed' /\ ReplyMeansRun'
  BY <1>1 DEF CurIsServed, ReplyMeansRun
<1>6. GivenUpIsClosed'
  BY <1>1 DEF TypeOK, GivenUpIsClosed
<1> QED
  BY <1>1, <1>2, <1>3, <1>4, <1>5, <1>6

LEMMA FetchFailsStep == ASSUME CallInv, FetchFails PROVE CallInv'
<1> USE LocalRpcAssumption
    DEF CallInv, FetchFails, RequestParts, ReplyParts, NoCall, clientVars
<1>1. /\ cur' = {} /\ spc' = "accept" /\ handles' = handles \ cur /\ reset' = reset \cup cur
      /\ UNCHANGED <<cpc, sent, listening, executed, backlog, up, down>>
  OBVIOUS
<1>2. IsFiniteSet(handles') /\ Cardinality(handles') <= MaxHandles
  <2>1. IsFiniteSet(handles') /\ Cardinality(handles') <= Cardinality(handles)
    BY <1>1, FS_Subset
  <2> QED
    BY <2>1, FS_CardinalityType DEF TypeOK
<1>3. TypeOK'
  BY <1>1, <1>2 DEF TypeOK
<1>4. PartsInOrder' /\ CurIsServed' /\ ReplyMeansRun'
  BY <1>1 DEF PartsInOrder, CurIsServed, ReplyMeansRun
<1>5. StagesInOrder'
  BY <1>1 DEF StagesInOrder, Waiting
<1>6. GivenUpIsClosed'
  BY <1>1 DEF GivenUpIsClosed
<1> QED
  BY <1>2, <1>3, <1>4, <1>5, <1>6

LEMMA ReplyStep == ASSUME CallInv, Reply PROVE CallInv'
<1> USE LocalRpcAssumption DEF CallInv, Reply, RequestParts, ReplyParts, NoCall, clientVars
<1>1. PICK k \in cur :
         IF Connected(k)
         THEN /\ down' = [down EXCEPT ![k] = 1]
              /\ spc' = "accept"
              /\ cur' = {}
              /\ UNCHANGED <<listening, backlog, handles, reset>>
         ELSE /\ spc' = "killed"
              /\ cur' = {}
              /\ listening' = FALSE
              /\ backlog' = <<>>
              /\ handles' = {}
              /\ reset' = reset \cup handles \cup {backlog[i] : i \in DOMAIN backlog}
              /\ UNCHANGED down
  OBVIOUS
<1>2. spc = "reply" /\ k \in Calls /\ cur = {k} /\ k \in executed
      /\ UNCHANGED <<cpc, sent, executed, up>>
  BY DEF TypeOK, StagesInOrder
<1>3. /\ cur' = {} /\ spc' \in {"accept", "killed"}
      /\ backlog' = backlog \/ backlog' = <<>>
      /\ handles' = handles \/ handles' = {}
      /\ down' = down \/ down' = [down EXCEPT ![k] = 1]
      /\ listening' \in {listening, FALSE}
      /\ \/ UNCHANGED reset
         \/ reset' = reset \cup handles \cup {backlog[i] : i \in DOMAIN backlog}
  BY <1>1
<1>4. IsFiniteSet(handles') /\ Cardinality(handles') <= MaxHandles
  <2>1. handles' = handles => IsFiniteSet(handles') /\ Cardinality(handles') <= MaxHandles
    BY DEF TypeOK
  <2>2. handles' = {} => IsFiniteSet(handles') /\ Cardinality(handles') = 0
    BY FS_EmptySet
  <2> QED
    BY <1>3, <2>1, <2>2
<1>5. reset' \in SUBSET Calls
  BY <1>3 DEF TypeOK
<1>6. TypeOK'
  <2>1. backlog' \in Seq(Calls) /\ Len(backlog') <= Backlog
    <3>1. CASE backlog' = backlog
      BY <3>1 DEF TypeOK
    <3>2. CASE backlog' = <<>>
      <4>1. backlog' \in Seq(Calls) /\ Len(backlog') = 0
        BY <3>2
      <4> QED
        BY <4>1
    <3> QED
      BY <1>3, <3>1, <3>2
  <2>2. handles' \in SUBSET Calls /\ down' \in [Calls -> 0..ReplyParts]
    BY <1>2, <1>3 DEF TypeOK
  <2> QED
    BY <1>2, <1>3, <1>4, <1>5, <2>1, <2>2 DEF TypeOK
<1>7. PartsInOrder' /\ CurIsServed'
  BY <1>2, <1>3 DEF PartsInOrder, CurIsServed
<1>8. ReplyMeansRun'
  BY <1>2, <1>3 DEF ReplyMeansRun, TypeOK
<1>9. StagesInOrder'
  BY <1>2, <1>3 DEF StagesInOrder, Waiting
<1>10. GivenUpIsClosed'
  BY <1>2, <1>3 DEF GivenUpIsClosed
<1> QED
  BY <1>4, <1>6, <1>7, <1>8, <1>9, <1>10

LEMMA CallStep == CallInv /\ [Next]_vars => CallInv'
<1> SUFFICES ASSUME CallInv, [Next]_vars PROVE CallInv'
  OBVIOUS
<1>1. ASSUME NEW k \in Calls, Connect(k) PROVE CallInv'
  BY <1>1, ConnectStep
<1>2. ASSUME NEW k \in Calls, SendRequest(k) PROVE CallInv'
  BY <1>2, SendRequestStep
<1>3. ASSUME NEW k \in Calls, RecvReply(k) PROVE CallInv'
  BY <1>3, EndStep DEF RecvReply, Connected
<1>4. ASSUME NEW k \in Calls, RecvClosed(k) PROVE CallInv'
  BY <1>4, EndStep DEF RecvClosed, Connected, kernelVars
<1>5. ASSUME NEW k \in Calls, CliTimeout(k) PROVE CallInv'
  BY <1>5, EndStep DEF CliTimeout, kernelVars
<1>6. CASE InitSrv
  BY <1>6 DEF InitSrv, CallInv, TypeOK, PartsInOrder, CurIsServed, StagesInOrder, Waiting,
     ReplyMeansRun, GivenUpIsClosed, clientVars, kernelVars
<1>7. CASE Accept
  BY <1>7, AcceptStep
<1>8. CASE FetchHead
  BY <1>8, FetchHeadStep
<1>9. CASE FetchParams
  BY <1>9, FetchParamsStep
<1>10. CASE FetchFails
  BY <1>10, FetchFailsStep
<1>11. CASE Reply
  BY <1>11, ReplyStep
<1>12. CASE UNCHANGED vars
  BY <1>12 DEF vars, clientVars, serverVars, kernelVars, CallInv, TypeOK, PartsInOrder,
     CurIsServed, StagesInOrder, Waiting, ReplyMeansRun, GivenUpIsClosed
<1> QED
  BY <1>1, <1>2, <1>3, <1>4, <1>5, <1>6, <1>7, <1>8, <1>9, <1>10, <1>11, <1>12
  DEF Next, Proceed, Server

LEMMA CallInvariance == Spec => []CallInv
BY CallInit, CallStep, PTL DEF Spec

(* Every variable keeps its type, within the backlog and the descriptors.  *)
THEOREM RpcTypeCorrect == Spec => []TypeOK
BY CallInvariance, PTL DEF CallInv

(* The server closes the handle of every call it gives up.                 *)
THEOREM NoHandleForgotten == Spec => []GivenUpIsClosed
BY CallInvariance, PTL DEF CallInv

-----------------------------------------------------------------------------
(* Refinement: every step is a step of RemoteCall or stutters.             *)

LEMMA RpcInit == Init => Abstract!Init
BY DEF Init, Abstract!Init, Result

LEMMA RpcStep == CallInv /\ [Next]_vars => [Abstract!Next]_(Abstract!vars)
<1> DEFINE asked == {k \in Calls : cpc[k] # "idle"}
           result == [k \in Calls |-> Result(k)]
<1> SUFFICES ASSUME CallInv, [Next]_vars PROVE [Abstract!Next]_(Abstract!vars)
  OBVIOUS
<1>t. cpc \in [Calls -> {"idle", "send", "recv", "ok", "error", "killed"}]
  BY DEF CallInv, TypeOK
<1>e. ASSUME NEW k \in Calls, NEW to \in {"send", "recv", "ok", "error", "killed"},
             cpc' = [cpc EXCEPT ![k] = to]
      PROVE  /\ asked' = asked \cup {k}
             /\ result' = [result EXCEPT ![k] = CASE to = "ok" -> "ok"
                                                   [] to \in {"error", "killed"} -> "error"
                                                   [] OTHER -> "none"]
  BY <1>e, <1>t DEF Result
<1>s. ASSUME UNCHANGED <<cpc, executed>> PROVE [Abstract!Next]_(Abstract!vars)
  BY <1>s DEF Abstract!vars, Result
<1>1. ASSUME NEW k \in Calls, Connect(k) PROVE [Abstract!Next]_(Abstract!vars)
  <2>1. cpc[k] = "idle" /\ result[k] = "none" /\ UNCHANGED executed
    BY <1>1 DEF Connect, serverVars, Result
  <2>2. CASE cpc' = [cpc EXCEPT ![k] = "send"]
    <3>1. asked' = asked \cup {k} /\ result' = [result EXCEPT ![k] = "none"]
      BY <2>2, <1>e
    <3>2. result' = result
      BY <2>1, <3>1
    <3> QED
      BY <2>1, <3>1, <3>2 DEF Abstract!Next, Abstract!Ask
  <2>3. CASE cpc' = [cpc EXCEPT ![k] = "error"]
    <3>1. asked' = asked \cup {k} /\ result' = [result EXCEPT ![k] = "error"]
      BY <2>3, <1>e
    <3> QED
      BY <2>1, <3>1 DEF Abstract!Next, Abstract!Refuse
  <2> QED
    BY <1>1, <2>2, <2>3 DEF Connect
<1>f. ASSUME NEW k \in Calls, cpc[k] \in {"send", "recv"}, UNCHANGED executed,
             cpc' = [cpc EXCEPT ![k] = "error"] \/ cpc' = [cpc EXCEPT ![k] = "killed"]
      PROVE  [Abstract!Next]_(Abstract!vars)
  <2>1. asked' = asked \cup {k} /\ result' = [result EXCEPT ![k] = "error"]
    BY <1>f, <1>e
  <2>2. k \in asked /\ result[k] = "none"
    BY <1>f DEF Result
  <2> QED
    BY <1>f, <2>1, <2>2 DEF Abstract!Next, Abstract!Fail
<1>2. ASSUME NEW k \in Calls, SendRequest(k) PROVE [Abstract!Next]_(Abstract!vars)
  <2>1. cpc[k] = "send" /\ UNCHANGED executed
    BY <1>2 DEF SendRequest, serverVars
  <2>2. CASE k \in reset
    BY <1>2, <2>1, <2>2, <1>f DEF SendRequest, EndCli
  <2>3. CASE k \notin reset
    <3>1. \E to \in {"send", "recv"} : cpc' = [cpc EXCEPT ![k] = to]
      BY <1>2, <2>1, <2>3 DEF SendRequest
    <3>2. asked' = asked /\ result' = result
      BY <2>1, <3>1, <1>t, <1>e DEF Result
    <3> QED
      BY <2>1, <3>2 DEF Abstract!vars
  <2> QED
    BY <2>2, <2>3
<1>3. ASSUME NEW k \in Calls, RecvReply(k) PROVE [Abstract!Next]_(Abstract!vars)
  <2>1. cpc[k] = "recv" /\ cpc' = [cpc EXCEPT ![k] = "ok"] /\ UNCHANGED executed
    BY <1>3 DEF RecvReply, EndCli, serverVars
  <2>2. k \in executed
    BY <1>3 DEF RecvReply, ReplyParts, CallInv, ReplyMeansRun
  <2>3. asked' = asked \cup {k} /\ result' = [result EXCEPT ![k] = "ok"]
    BY <2>1, <1>e
  <2>4. k \in asked /\ result[k] = "none"
    BY <2>1 DEF Result
  <2> QED
    BY <2>1, <2>2, <2>3, <2>4 DEF Abstract!Next, Abstract!Succeed
<1>4. ASSUME NEW k \in Calls, RecvClosed(k) PROVE [Abstract!Next]_(Abstract!vars)
  BY <1>4, <1>f DEF RecvClosed, EndCli, serverVars
<1>5. ASSUME NEW k \in Calls, CliTimeout(k) PROVE [Abstract!Next]_(Abstract!vars)
  BY <1>5, <1>f DEF CliTimeout, Connected, EndCli, serverVars
<1>6. CASE InitSrv
  BY <1>6, <1>s DEF InitSrv, clientVars
<1>7. CASE Accept
  BY <1>7, <1>s DEF Accept, clientVars
<1>8. CASE FetchHead
  <2>1. UNCHANGED <<cpc, executed>>
    BY <1>8 DEF FetchHead, Fetch, clientVars, CallInv, TypeOK, NoCall
  <2> QED
    BY <2>1, <1>s
<1>9. CASE FetchParams
  <2>1. PICK k \in cur : executed' = executed \cup {k} /\ spc = "params" /\ UNCHANGED cpc
    BY <1>9, FetchParamsEffect DEF FetchParams, Fetch, clientVars
  <2>2. k \in Calls /\ k \in asked \ executed
    BY <2>1 DEF CallInv, StagesInOrder, TypeOK, NoCall
  <2>3. asked' = asked /\ result' = result
    BY <2>1 DEF Result
  <2> QED
    BY <2>1, <2>2, <2>3 DEF Abstract!Next, Abstract!Execute
<1>10. CASE FetchFails
  BY <1>10, <1>s DEF FetchFails, clientVars
<1>11. CASE Reply
  BY <1>11, <1>s DEF Reply, clientVars
<1>12. CASE UNCHANGED vars
  BY <1>12, <1>s DEF vars, clientVars, serverVars
<1> QED
  BY <1>1, <1>2, <1>3, <1>4, <1>5, <1>6, <1>7, <1>8, <1>9, <1>10, <1>11, <1>12
  DEF Next, Proceed, Server

(* A call runs at most once, and has run when its caller gets a result,    *)
(* for any number of callers that give up at any moment.                   *)
THEOREM RpcKeepsPromise == Spec => ImplementsRemoteCall
BY RpcInit, RpcStep, CallInvariance, PTL DEF Spec, Abstract!Spec, ImplementsRemoteCall
=============================================================================
