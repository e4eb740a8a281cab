-------------------------------- MODULE LocalRpc --------------------------------
(***************************************************************************)
(* src/local_rpc/drpc_core.cpp: remote calls over a Unix domain socket.    *)
(* drpc_srv_routine serves one connection at a time; drpc_cli_plus makes a *)
(* connection for each call.  A message is counted in parts: the request   *)
(* is a header the server reads first and the parameters it reads next.    *)
(* IovTransfer has what happens inside one __posix_do_send or              *)
(* __posix_do_recv; here a part arrives whole or not at all.               *)
(***************************************************************************)
EXTENDS Naturals, Sequences, FiniteSets

CONSTANTS Calls,       \* calls, each by a process of its own
          Plus,        \* the calls with cmd 1; dispatch knows no other
          Backlog,     \* connections listen() lets wait
          MaxHandles   \* descriptors left to the server

ASSUME LocalRpcAssumption ==
    Plus \subseteq Calls /\ Backlog \in Nat /\ MaxHandles \in Nat

VARIABLES
    \* callers
    cpc,         \* [Calls -> where the caller is]
    \* the server
    spc,
    cur,         \* the call being served, or none
    listening,
    \* the kernel
    backlog,     \* connections waiting for accept
    handles,     \* calls whose connection the server holds
    reset,       \* calls whose connection the server's side has closed
    up,          \* parts of the request waiting for the server
    sent,        \* parts of the request sent
    down,        \* parts of the reply waiting for the caller
    \* history
    executed

clientVars == <<cpc, sent>>
serverVars == <<spc, cur, listening, executed>>
kernelVars == <<backlog, handles, reset, up, down>>
vars == <<clientVars, serverVars, kernelVars>>

RequestParts == 2
ReplyParts == 1
NoCall == {}

TypeOK ==
    /\ cpc \in [Calls -> {"idle", "send", "recv", "ok", "error", "killed"}]
    /\ spc \in {"start", "accept", "head", "params", "reply", "stopped", "killed"}
    /\ cur \in {NoCall} \cup {{k} : k \in Calls}
    /\ listening \in BOOLEAN
    /\ backlog \in Seq(Calls)
    /\ Len(backlog) <= Backlog
    /\ handles \in SUBSET Calls
    /\ Cardinality(handles) <= MaxHandles
    /\ reset \in SUBSET Calls
    /\ up \in [Calls -> 0..RequestParts]
    /\ sent \in [Calls -> 0..RequestParts]
    /\ down \in [Calls -> 0..ReplyParts]
    /\ executed \in SUBSET Calls

Init ==
    /\ cpc = [k \in Calls |-> "idle"]
    /\ spc = "start"
    /\ cur = NoCall
    /\ listening = FALSE
    /\ backlog = <<>>
    /\ handles = {}
    /\ reset = {}
    /\ up = [k \in Calls |-> 0]
    /\ sent = [k \in Calls |-> 0]
    /\ down = [k \in Calls |-> 0]
    /\ executed = {}

-----------------------------------------------------------------------------
(* Operators whose name starts with "Slip" are plausible mistakes in the   *)
(* operator that follows, and no part of the model.                        *)

(* The caller still has its end of the connection.                         *)
Connected(k) == cpc[k] \in {"send", "recv"}

(* drpc_call_core_end_cli and the value the caller sees.                   *)
EndCli(k, with) == cpc' = [cpc EXCEPT ![k] = with]

-----------------------------------------------------------------------------
(* A caller.                                                               *)

(* cli_init: socket and connect.  It waits while the backlog is full.      *)
Connect(k) ==
    /\ cpc[k] = "idle"
    /\ IF listening
       THEN /\ Len(backlog) < Backlog
            /\ backlog' = Append(backlog, k)
            /\ cpc' = [cpc EXCEPT ![k] = "send"]
       ELSE cpc' = [cpc EXCEPT ![k] = "error"] /\ UNCHANGED backlog
    /\ UNCHANGED <<sent, serverVars, handles, reset, up, down>>

(* input_paramv: one part more.  A write to a connection the server has    *)
(* closed raises SIGPIPE, which nobody handles.                            *)
SendRequest(k) ==
    /\ cpc[k] = "send"
    /\ IF k \in reset
       THEN EndCli(k, "killed") /\ UNCHANGED <<sent, up>>
       ELSE /\ sent' = [sent EXCEPT ![k] = @ + 1]
            /\ up' = [up EXCEPT ![k] = @ + 1]
            /\ cpc' = [cpc EXCEPT ![k] = IF sent'[k] = RequestParts THEN "recv" ELSE @]
    /\ UNCHANGED <<serverVars, backlog, handles, reset, down>>

SlipPartial(k) ==
    /\ cpc[k] = "recv"
    /\ EndCli(k, "ok")
    /\ UNCHANGED <<sent, serverVars, backlog, handles, reset, up, down>>

(* output_paramv: the reply is there.                                      *)
RecvReply(k) ==
    /\ cpc[k] = "recv"
    /\ down[k] = ReplyParts
    /\ down' = [down EXCEPT ![k] = 0]
    /\ EndCli(k, "ok")
    /\ UNCHANGED <<sent, serverVars, backlog, handles, reset, up>>

(* output_paramv: the server has closed without a reply.                   *)
RecvClosed(k) ==
    /\ cpc[k] = "recv"
    /\ down[k] = 0 /\ k \in reset
    /\ EndCli(k, "error")
    /\ UNCHANGED <<sent, serverVars, kernelVars>>

(* The time the caller gives input_paramv or output_paramv is over.        *)
CliTimeout(k) ==
    /\ Connected(k)
    /\ EndCli(k, "error")
    /\ UNCHANGED <<sent, serverVars, kernelVars>>

-----------------------------------------------------------------------------
(* The server.                                                             *)

(* init_srv: any old socket of that name is unlinked; bind and listen.     *)
InitSrv ==
    /\ spc = "start"
    /\ \/ listening' = TRUE /\ spc' = "accept"
       \/ listening' = FALSE /\ spc' = "stopped"
    /\ UNCHANGED <<clientVars, cur, executed, kernelVars>>

SlipStillOpen ==
    /\ spc = "accept"
    /\ backlog # <<>>
    /\ IF Cardinality(handles) < MaxHandles
       THEN /\ handles' = handles \cup {Head(backlog)}
            /\ cur' = {Head(backlog)}
            /\ backlog' = Tail(backlog)
            /\ spc' = "head"
       ELSE spc' = "stopped" /\ UNCHANGED <<handles, cur, backlog>>
    /\ UNCHANGED <<clientVars, listening, reset, executed, up, down>>

(* accept_srv.  With no descriptor left accept fails, the loop is over and *)
(* end_srv closes the listener: whoever waits in the backlog is reset.     *)
Accept ==
    /\ spc = "accept"
    /\ backlog # <<>>
    /\ IF Cardinality(handles) < MaxHandles
       THEN /\ handles' = handles \cup {Head(backlog)}
            /\ cur' = {Head(backlog)}
            /\ backlog' = Tail(backlog)
            /\ spc' = "head"
            /\ UNCHANGED <<listening, reset>>
       ELSE /\ reset' = reset \cup {backlog[i] : i \in DOMAIN backlog}
            /\ backlog' = <<>>
            /\ listening' = FALSE
            /\ spc' = "stopped"
            /\ UNCHANGED <<handles, cur>>
    /\ UNCHANGED <<clientVars, executed, up, down>>

(* fetch_head_srv and input_param_srv: the next part of the request.       *)
Fetch(from, to) ==
    /\ spc = from
    /\ \E k \in cur :
         /\ up[k] > 0
         /\ up' = [up EXCEPT ![k] = @ - 1]
         /\ spc' = to[k]
         /\ cur' = IF to[k] = "accept" THEN NoCall ELSE cur
         /\ executed' = IF to[k] = "reply" THEN executed \cup {k} ELSE executed
    /\ UNCHANGED <<clientVars, listening, backlog, handles, reset, down>>

(* dispatch: a command it does not know is done, without a reply, and the  *)
(* handle is kept.                                                         *)
FetchHead ==
    Fetch("head", [k \in Calls |-> IF k \in Plus THEN "params" ELSE "accept"])

FetchParams == Fetch("params", [k \in Calls |-> "reply"])

SlipKeepsHandle ==
    /\ spc \in {"head", "params"}
    /\ \A k \in cur : up[k] = 0
    /\ cur' = NoCall
    /\ spc' = "accept"
    /\ UNCHANGED <<clientVars, listening, executed, kernelVars>>

(* The request does not come: its time is over, or the caller has closed.  *)
FetchFails ==
    /\ spc \in {"head", "params"}
    /\ \A k \in cur : up[k] = 0
    /\ handles' = handles \ cur
    /\ reset' = reset \cup cur
    /\ cur' = NoCall
    /\ spc' = "accept"
    /\ UNCHANGED <<clientVars, listening, executed, backlog, up, down>>

(* output_param_srv.  The reply goes to a caller who is there, and the     *)
(* handle is kept ("add to handle list"); SIGPIPE ends the server if the   *)
(* caller is not.                                                          *)
Reply ==
    /\ spc = "reply"
    /\ \E k \in cur :
         IF Connected(k)
         THEN /\ down' = [down EXCEPT ![k] = ReplyParts]
              /\ spc' = "accept"
              /\ cur' = NoCall
              /\ UNCHANGED <<listening, backlog, handles, reset>>
         ELSE /\ spc' = "killed"
              /\ cur' = NoCall
              /\ listening' = FALSE
              /\ backlog' = <<>>
              /\ handles' = {}
              /\ reset' = reset \cup handles \cup {backlog[i] : i \in DOMAIN backlog}
              /\ UNCHANGED down
    /\ UNCHANGED <<clientVars, executed, up>>

-----------------------------------------------------------------------------
Proceed(k) == SendRequest(k) \/ RecvReply(k) \/ RecvClosed(k)

Server ==
    InitSrv \/ Accept \/ FetchHead \/ FetchParams \/ FetchFails \/ Reply

Next == Server \/ \E k \in Calls : Connect(k) \/ Proceed(k) \/ CliTimeout(k)

Spec == Init /\ [][Next]_vars

(* The server and the callers go on.  No timeout of a caller is relied on. *)
FairSpec == Spec /\ WF_vars(Server) /\ \A k \in Calls : WF_vars(Proceed(k))

-----------------------------------------------------------------------------
(* Properties.                                                             *)

(* The caller's view of a call.                                            *)
Result(k) == CASE cpc[k] = "ok" -> "ok"
               [] cpc[k] \in {"error", "killed"} -> "error"
               [] OTHER -> "none"

Abstract == INSTANCE RemoteCall
    WITH asked <- {k \in Calls : cpc[k] # "idle"},
         result <- [k \in Calls |-> Result(k)]

(* A call runs at most once, and has run if its caller gets a result,      *)
(* whenever the caller or the server gives up waiting for the other.       *)
ImplementsRemoteCall == Abstract!Spec

(* The server closes the handle of every call it gives up: those it holds  *)
(* on to are the one it serves and those it has dispatched.                *)
GivenUpIsClosed ==
    \A k \in handles \ cur : k \in executed \/ (k \notin Plus /\ up[k] < sent[k])

(* The sequential server starves nobody: a caller of plus who has got      *)
(* through to it has an answer or an error in the end without waiting for  *)
(* its own timeout, whatever the callers before it do, and also when the   *)
(* server stops.                                                           *)
ServedInTurn == \A k \in Plus : Connected(k) ~> ~Connected(k)

(* "return < 0 error; =0 success" (drpc_core.cpp:97, of __posix_do_send):  *)
(* a reply that cannot be sent is an error of that call, and the server    *)
(* goes on.                                                                *)
ServerSurvives == spc # "killed"
=============================================================================
