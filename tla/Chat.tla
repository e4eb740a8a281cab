---------------------------------- MODULE Chat ----------------------------------
(***************************************************************************)
(* The chat server and its clients, src/chat/chat_server.cpp and           *)
(* chat_client.cpp: one room, a session per connection, and clients whose  *)
(* main thread reads lines while another runs the io_service.              *)
(*                                                                         *)
(* The server runs its handlers on one thread, so a handler is one step; a *)
(* client posts to its io_service and a posted call is one step.  A        *)
(* message crosses a connection as two units, its header and its body,     *)
(* and a connection holds Cap of them.  An async_write is under way from   *)
(* its call to its handler; if two were, their units could mix.            *)
(***************************************************************************)
EXTENDS Integers, Sequences, FiniteSets, SequencesExt, Functions

CONSTANTS Clients,
          Lines,          \* bound: [Clients -> lines the user types]
          Quitters,       \* users who may end their input
          Fragile,        \* connections that the network may cut
          max_recent_msgs,
          Cap             \* bound: units on their way in one direction

ASSUME ChatAssumption ==
    /\ IsFiniteSet(Clients) /\ Lines \in [Clients -> Nat]
    /\ Quitters \subseteq Clients /\ Fragile \subseteq Clients
    /\ max_recent_msgs \in Nat \ {0} /\ Cap \in Nat \ {0}

VARIABLES client,      \* [Clients -> the state of a chat_client]
          session,     \* [Clients -> the state of its chat_session]
          participants, recent_msgs,
          toServer, toClient,   \* [Clients -> units on their way]
          broken,      \* connections the network has cut
          \* history
          log,         \* what the room has delivered
          since,       \* [Clients -> the first message of log a session was given]
          got,         \* [Clients -> messages a session has finished writing]
          printed      \* [Clients -> what a client has printed]

roomVars == <<participants, recent_msgs, log, since>>
wireVars == <<toServer, toClient, broken>>
chatVars == <<client, session, roomVars, wireVars, got, printed>>

Messages == {m \in Clients \X Nat : m[2] \in 1..Lines[m[1]]}
Units == {"header", "body"} \X Messages
Reading == {"no", "header", "body"}
\* A queue of messages and the async_writes that are under way.
Writer == [q : Seq(Messages), writes : Seq(Seq(Units))]

ChatTypeOK ==
    /\ \A c \in Clients :
         /\ client[c].st \in {"connecting", "up", "closed", "failed"}
         /\ client[c].reads \in Reading
         /\ client[c].w \in Writer
         /\ client[c].posted \in Seq(Messages \cup {<<"close">>})
         /\ client[c].typed \in 0..Lines[c]
         /\ client[c].input \in BOOLEAN
         /\ client[c].runs \in BOOLEAN
         /\ session[c].st \in {"none", "started"}
         /\ session[c].reads \in Reading
         /\ session[c].w \in Writer
    /\ participants \subseteq Clients
    /\ recent_msgs \in Seq(Messages) /\ Len(recent_msgs) <= max_recent_msgs
    /\ toServer \in [Clients -> Seq(Units)] /\ toClient \in [Clients -> Seq(Units)]
    /\ broken \subseteq Clients
    /\ log \in Seq(Messages)
    /\ since \in [Clients -> Nat]
    /\ got \in [Clients -> Seq(Messages)] /\ printed \in [Clients -> Seq(Messages)]

NoWriter == [q |-> <<>>, writes |-> <<>>]
ForEach(x) == [c \in Clients |-> x]

ChatInit ==
    /\ client = ForEach([st |-> "connecting", reads |-> "no", w |-> NoWriter, posted |-> <<>>,
                         typed |-> 0, input |-> TRUE, runs |-> TRUE])
    /\ session = ForEach([st |-> "none", reads |-> "no", w |-> NoWriter])
    /\ participants = {} /\ recent_msgs = <<>>
    /\ toServer = ForEach(<<>>) /\ toClient = ForEach(<<>>) /\ broken = {}
    /\ log = <<>> /\ since = ForEach(0) /\ got = ForEach(<<>>) /\ printed = ForEach(<<>>)

-----------------------------------------------------------------------------
(* The queue of outgoing messages, the same in both programs.              *)

Sent(m) == << <<"header", m>>, <<"body", m>> >>

SlipAlwaysWrites(w, m) == [q |-> Append(w.q, m), writes |-> Append(w.writes, Sent(m))]

(* deliver and do_write: an async_write is started only if none is under   *)
(* way, which an empty queue tells.                                        *)
Pushed(w, m) ==
    [q |-> Append(w.q, m), writes |-> IF w.q = <<>> THEN <<Sent(m)>> ELSE w.writes]

(* deliver of msgs in turn to an empty queue: only the first finds it empty.*)
Filled(msgs) == [q |-> msgs, writes |-> IF msgs = <<>> THEN <<>> ELSE <<Sent(msgs[1])>>]

SlipNoNextWrite(w) == [q |-> Tail(w.q), writes |-> Tail(w.writes)]

(* handle_write without error: the next message of the queue.              *)
Popped(w) ==
    LET rest == Tail(w.q)
    IN [q |-> rest, writes |-> Tail(w.writes) \o IF rest = <<>> THEN <<>> ELSE <<Sent(rest[1])>>]

(* handle_write with an error: the message stays, and no write follows.    *)
Failed(w) == [w EXCEPT !.writes = Tail(@)]

(* The socket takes a unit of a write that is under way.                   *)
Moved(w, i) == [w EXCEPT !.writes[i] = Tail(@)]

-----------------------------------------------------------------------------
(* The room.                                                               *)

SlipNotClipped(msgs) == msgs

(* The room remembers the last max_recent_msgs messages.                   *)
Recent(msgs) ==
    IF Len(msgs) > max_recent_msgs THEN SubSeq(msgs, 2, Len(msgs)) ELSE msgs

SlipOnlyIdle(ses, m) ==
    [c \in Clients |-> IF c \in participants /\ ses[c].w.q = <<>>
                       THEN [ses[c] EXCEPT !.w = Pushed(@, m)] ELSE ses[c]]

(* chat_room::deliver: to the history and to every participant.            *)
Deliver(ses, m) ==
    [c \in Clients |-> IF c \in participants THEN [ses[c] EXCEPT !.w = Pushed(@, m)] ELSE ses[c]]

(* chat_session::start: join the room, hear its history, begin to read.    *)
Start(c) ==
    /\ session' = [session EXCEPT ![c] =
                     [st |-> "started", reads |-> "header", w |-> Filled(recent_msgs)]]
    /\ participants' = participants \cup {c}
    /\ since' = [since EXCEPT ![c] = Len(log) - Len(recent_msgs) + 1]

Leave(c) == participants' = participants \ {c}

(* A session is destroyed, and its socket closed, with the last reference  *)
(* to it: the room's, or that of a handler.                                *)
Gone(c) ==
    /\ session[c].st = "started" /\ c \notin participants
    /\ session[c].reads = "no" /\ session[c].w.writes = <<>>

-----------------------------------------------------------------------------
(* The server's handlers.                                                  *)

HandleAccept(c) ==
    /\ client[c].st \in {"up", "closed"}
    /\ session[c].st = "none"
    /\ Start(c)
    /\ UNCHANGED <<client, recent_msgs, wireVars, log, got, printed>>

(* No more units come to the session of c.                                 *)
UpEnds(c) == c \in broken \/ (toServer[c] = <<>> /\ client[c].st = "closed")

(* handle_read_header and handle_read_body with an error.                  *)
SReadError(c) ==
    /\ session[c].reads # "no" /\ UpEnds(c)
    /\ session' = [session EXCEPT ![c].reads = "no"]
    /\ Leave(c)
    /\ UNCHANGED <<client, recent_msgs, wireVars, log, since, got, printed>>

(* What is not a header does not decode as one.                            *)
SReadHeader(c) ==
    /\ session[c].reads = "header" /\ toServer[c] # <<>>
    /\ toServer' = [toServer EXCEPT ![c] = Tail(@)]
    /\ IF toServer[c][1][1] = "header"
       THEN /\ session' = [session EXCEPT ![c].reads = "body"]
            /\ UNCHANGED participants
       ELSE /\ session' = [session EXCEPT ![c].reads = "no"]
            /\ Leave(c)
    /\ UNCHANGED <<client, recent_msgs, toClient, broken, log, since, got, printed>>

SReadBody(c) ==
    /\ session[c].reads = "body" /\ toServer[c] # <<>>
    /\ toServer' = [toServer EXCEPT ![c] = Tail(@)]
    /\ LET m == toServer[c][1][2]
       IN /\ session' = Deliver([session EXCEPT ![c].reads = "header"], m)
          /\ recent_msgs' = Recent(Append(recent_msgs, m))
          /\ log' = Append(log, m)
    /\ UNCHANGED <<client, participants, toClient, broken, since, got, printed>>

(* The first of the writes that are under way is done.                     *)
Done(w) == w.writes # <<>> /\ w.writes[1] = <<>>

SWritten(c) ==
    /\ Done(session[c].w)
    /\ session' = [session EXCEPT ![c].w = Popped(@)]
    /\ got' = [got EXCEPT ![c] = Append(@, session[c].w.q[1])]
    /\ UNCHANGED <<client, roomVars, wireVars, printed>>

(* handle_write with an error: the session leaves the room, and goes on    *)
(* reading.                                                                *)
SWriteError(c) ==
    /\ session[c].w.writes # <<>> /\ ~Done(session[c].w)
    /\ c \in broken \/ client[c].st = "closed"
    /\ session' = [session EXCEPT ![c].w = Failed(@)]
    /\ Leave(c)
    /\ UNCHANGED <<client, recent_msgs, wireVars, log, since, got, printed>>

-----------------------------------------------------------------------------
(* The client's main thread.                                               *)

(* A line is posted to the io_service, whether or not anybody runs it.     *)
Type(c) ==
    /\ client[c].input /\ client[c].typed < Lines[c]
    /\ client' = [client EXCEPT ![c].typed = @ + 1,
                                ![c].posted = Append(@, <<c, client[c].typed + 1>>)]
    /\ UNCHANGED <<session, roomVars, wireVars, got, printed>>

EndOfInput(c) ==
    /\ c \in Quitters /\ client[c].input
    /\ client' = [client EXCEPT ![c].input = FALSE, ![c].posted = Append(@, <<"close">>)]
    /\ UNCHANGED <<session, roomVars, wireVars, got, printed>>

-----------------------------------------------------------------------------
(* The client's io_service.                                                *)

Runs(c) == client[c].runs

ClientStep(c, new) ==
    /\ client' = [client EXCEPT ![c] = new]
    /\ UNCHANGED <<session, roomVars, got>>

(* do_close; a connect that is under way is given up.                      *)
Closed(cl) == [cl EXCEPT !.st = "closed"]

HandleConnect(c) ==
    /\ Runs(c) /\ client[c].st = "connecting"
    /\ \/ ClientStep(c, [client[c] EXCEPT !.st = "up", !.reads = "header"])
       \/ ClientStep(c, [client[c] EXCEPT !.st = "failed"])
    /\ UNCHANGED <<wireVars, printed>>

DoWrite(cl, m) == [cl EXCEPT !.w = Pushed(@, m)]

RunPosted(c) ==
    /\ Runs(c) /\ client[c].posted # <<>>
    /\ LET m == client[c].posted[1]
           cl == [client[c] EXCEPT !.posted = Tail(@)]
       IN ClientStep(c, IF m = <<"close">>
                        THEN [cl EXCEPT !.st = IF @ = "up" THEN "closed" ELSE "failed"]
                        ELSE DoWrite(cl, m))
    /\ UNCHANGED <<wireVars, printed>>

(* No more units come to the client.                                       *)
DownEnds(c) ==
    client[c].st = "closed" \/ c \in broken \/ (toClient[c] = <<>> /\ Gone(c))

CReadError(c) ==
    /\ Runs(c) /\ client[c].reads # "no" /\ DownEnds(c)
    /\ ClientStep(c, Closed([client[c] EXCEPT !.reads = "no"]))
    /\ UNCHANGED <<wireVars, printed>>

CReadHeader(c) ==
    /\ Runs(c) /\ client[c].reads = "header" /\ client[c].st = "up" /\ toClient[c] # <<>>
    /\ toClient' = [toClient EXCEPT ![c] = Tail(@)]
    /\ ClientStep(c, IF toClient[c][1][1] = "header" THEN [client[c] EXCEPT !.reads = "body"]
                     ELSE Closed([client[c] EXCEPT !.reads = "no"]))
    /\ UNCHANGED <<toServer, broken, printed>>

CReadBody(c) ==
    /\ Runs(c) /\ client[c].reads = "body" /\ client[c].st = "up" /\ toClient[c] # <<>>
    /\ toClient' = [toClient EXCEPT ![c] = Tail(@)]
    /\ printed' = [printed EXCEPT ![c] = Append(@, toClient[c][1][2])]
    /\ ClientStep(c, [client[c] EXCEPT !.reads = "header"])
    /\ UNCHANGED <<toServer, broken>>

CWritten(c) ==
    /\ Runs(c) /\ Done(client[c].w)
    /\ ClientStep(c, [client[c] EXCEPT !.w = Popped(@)])
    /\ UNCHANGED <<wireVars, printed>>

(* Also the write of a line that was typed before the client is connected. *)
CWriteError(c) ==
    /\ Runs(c) /\ client[c].w.writes # <<>> /\ ~Done(client[c].w)
    /\ client[c].st # "up" \/ c \in broken \/ Gone(c)
    /\ LET cl == [client[c] EXCEPT !.w = Failed(@)]
       IN ClientStep(c, IF cl.st = "up" THEN Closed(cl) ELSE [cl EXCEPT !.st =
                            IF @ = "connecting" THEN "failed" ELSE @])
    /\ UNCHANGED <<wireVars, printed>>

(* run() returns when nothing is left to wait for; what is posted later    *)
(* stays where it is.                                                      *)
RunReturns(c) ==
    /\ Runs(c) /\ client[c].st # "connecting" /\ client[c].reads = "no"
    /\ client[c].posted = <<>> /\ client[c].w.writes = <<>>
    /\ ClientStep(c, [client[c] EXCEPT !.runs = FALSE])
    /\ UNCHANGED <<wireVars, printed>>

-----------------------------------------------------------------------------
(* The network.                                                            *)

SendUp(c) ==
    /\ client[c].st = "up" /\ c \notin broken /\ Len(toServer[c]) < Cap
    /\ \E i \in DOMAIN client[c].w.writes :
         LET left == client[c].w.writes[i]
         IN /\ left # <<>>
            /\ toServer' = [toServer EXCEPT ![c] = Append(@, left[1])]
            /\ client' = [client EXCEPT ![c].w = Moved(@, i)]
    /\ UNCHANGED <<session, roomVars, toClient, broken, got, printed>>

SendDown(c) ==
    /\ client[c].st = "up" /\ c \notin broken /\ Len(toClient[c]) < Cap
    /\ \E i \in DOMAIN session[c].w.writes :
         LET left == session[c].w.writes[i]
         IN /\ left # <<>>
            /\ toClient' = [toClient EXCEPT ![c] = Append(@, left[1])]
            /\ session' = [session EXCEPT ![c].w = Moved(@, i)]
    /\ UNCHANGED <<client, roomVars, toServer, broken, got, printed>>

(* The connection is cut and what is on its way is lost.                   *)
Break(c) ==
    /\ c \in Fragile /\ client[c].st \in {"up", "closed"} /\ c \notin broken
    /\ broken' = broken \cup {c}
    /\ toServer' = [toServer EXCEPT ![c] = <<>>] /\ toClient' = [toClient EXCEPT ![c] = <<>>]
    /\ UNCHANGED <<client, session, roomVars, got, printed>>

ServerStep(c) ==
    \/ HandleAccept(c) \/ SReadError(c) \/ SReadHeader(c) \/ SReadBody(c)
    \/ SWritten(c) \/ SWriteError(c)

IoStep(c) ==
    \/ HandleConnect(c) \/ RunPosted(c) \/ CReadError(c) \/ CReadHeader(c) \/ CReadBody(c)
    \/ CWritten(c) \/ CWriteError(c) \/ RunReturns(c)

ChatNext ==
    \E c \in Clients :
        \/ ServerStep(c) \/ IoStep(c)
        \/ Type(c) \/ EndOfInput(c)
        \/ SendUp(c) \/ SendDown(c) \/ Break(c)

(***************************************************************************)
(* The server's thread and the io_service threads run the handlers that    *)
(* are ready, and the kernel moves data while there is room for it.        *)
(* Nothing obliges a user to type, and nothing makes the network fail.     *)
(***************************************************************************)
ChatFairness ==
    \A c \in Clients : /\ WF_chatVars(ServerStep(c)) /\ WF_chatVars(IoStep(c))
                       /\ WF_chatVars(SendUp(c)) /\ WF_chatVars(SendDown(c))

ChatSpec == ChatInit /\ [][ChatNext]_chatVars /\ ChatFairness

-----------------------------------------------------------------------------
(* Properties.                                                             *)

(* What a session has written and what it still has to write are together  *)
(* one segment of what the room has delivered, without a gap, a repetition *)
(* or a change of order, from the history it was given when it joined; and *)
(* up to the last message as long as it is in the room.                    *)
NoGaps ==
    \A c \in Clients :
        LET heard == got[c] \o session[c].w.q
        IN session[c].st = "started" =>
             /\ heard = SubSeq(log, since[c], since[c] + Len(heard) - 1)
             /\ since[c] + Len(heard) - 1 <= Len(log)
             /\ c \in participants => since[c] + Len(heard) - 1 = Len(log)

(* Writes never mix on a connection: a client prints what its session      *)
(* wrote, from the first message on, and a user's lines reach the room in  *)
(* the order in which they were typed, none of them twice: the n-th of his *)
(* lines in the room is the n-th he typed.                                 *)
NothingMixes ==
    \A c \in Clients :
        /\ IsPrefix(printed[c], got[c] \o session[c].w.q)
        /\ \A i \in DOMAIN log : log[i][1] = c =>
                 log[i][2] = Cardinality({j \in 1..i : log[j][1] = c})

(* A message the room delivers reaches every participant, unless its       *)
(* connection ends.                                                        *)
EveryoneHears ==
    \A c \in Clients, n \in 1..SumFunction(Lines) :
        (c \in participants /\ since[c] > 0 /\ since[c] <= n /\ n <= Len(log))
            ~> (Len(printed[c]) >= n - since[c] + 1 \/ client[c].st # "up" \/ c \in broken)
=============================================================================
