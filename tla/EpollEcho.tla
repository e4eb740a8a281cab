------------------------------- MODULE EpollEcho -------------------------------
(***************************************************************************)
(* The echo server and its client, src/epoll_echo/serv.c and cli.c.        *)
(*                                                                         *)
(* Each is one thread and one level-triggered epoll loop; each has ONE     *)
(* buffer, which every descriptor's do_read fills and every do_write sends *)
(* as a string and clears.  The server answers a connection in two events, *)
(* so another connection may use the buffer in between.                    *)
(*                                                                         *)
(* A handler changes the registration of its own descriptor only, and a    *)
(* ready descriptor stays ready, so handling the events of one batch in    *)
(* turn is the same as waiting for each of them: a step handles one event. *)
(***************************************************************************)
EXTENDS Integers, Sequences, FiniteSets, SequencesExt

CONSTANTS Socks,       \* the server's connections
          SendMax,     \* bound: how many characters each peer sends
          MAXSIZE      \* the size of the buffer, in characters

ASSUME EchoAssumption == SendMax \in [Socks -> Nat] /\ MAXSIZE \in Nat \ {0}

VARIABLES esock,       \* [Socks -> the state of a connection]
          ebuf,        \* the server's buffer; behind it there are only NULs
          eup,         \* FALSE once SIGPIPE has ended the server
          emixed,      \* history: connections that shared the buffer, or filled it
          kwatch,      \* what the client's epoll waits for
          kin, kbuf,   \* what has come for the client, and the client's buffer
          kdue,        \* history: what came from the server and is to be printed
          kmixed       \* history: a line was typed before it was

echoServerVars == <<esock, ebuf, eup, emixed>>
echoClientVars == <<kwatch, kin, kbuf, kdue, kmixed>>
echoVars == <<echoServerVars, echoClientVars>>

Nul == <<"nul", 0>>
Junk == <<"junk", 0>>              \* what lies behind a buffer in memory
Net == <<"net", 0>>                \* the client's: a character of its server,
Keyed == <<"keyed", 0>>            \* and of the user
Chars == (Socks \X Nat) \cup {Nul}  \* known by its sender and its place
Peer == {"absent", "open", "closed", "reset", "broken"}

EchoTypeOK ==
    /\ \A s \in Socks :
         /\ esock[s].peer \in Peer
         /\ esock[s].watch \in {"none", "in", "out", "closed"}
         /\ esock[s].sent \in 0..SendMax[s]
         /\ \A f \in {"in", "read", "due", "wrote"} : esock[s][f] \in Seq(Chars \cup {Junk})
    /\ ebuf \in Seq(Chars) /\ Len(ebuf) <= MAXSIZE
    /\ emixed \subseteq Socks /\ eup \in BOOLEAN
    /\ kwatch \subseteq {"stdin", "sock", "stdout"}
    /\ kin \in Seq({Net, Nul}) /\ kbuf \in Seq({Net, Nul, Keyed}) /\ kdue \in Seq({Net})
    /\ Len(kin) <= MAXSIZE /\ Len(kbuf) <= MAXSIZE /\ kmixed \in BOOLEAN

EchoInit ==
    /\ esock = [s \in Socks |-> [peer |-> "absent", watch |-> "none", sent |-> 0,
                                 in |-> <<>>, read |-> <<>>, due |-> <<>>,
                                 wrote |-> <<>>]]
    /\ ebuf = <<>> /\ eup = TRUE /\ emixed = {}
    /\ kwatch = {"stdin"} /\ kin = <<>> /\ kbuf = <<>> /\ kdue = <<>> /\ kmixed = FALSE

-----------------------------------------------------------------------------
(* The buffer.                                                             *)

(* read() overwrites the beginning; what was longer stays behind it.       *)
Overlaid(buf, data) == data \o SubSeq(buf, Len(data) + 1, Len(buf))

StrLen(buf) == CHOOSE n \in 0..Len(buf) :
                  /\ \A i \in 1..n : buf[i] # Nul
                  /\ n < Len(buf) => buf[n + 1] = Nul

(* The characters before the first NUL.                                    *)
String(buf) == SubSeq(buf, 1, StrLen(buf))

(* What write(fd, buf, strlen(buf)) sends: of a buffer without a NUL also  *)
(* what is behind it, up to the next NUL.                                  *)
Strings(buf) ==
    {String(buf)} \cup IF StrLen(buf) = MAXSIZE THEN {Append(buf, Junk)} ELSE {}

SlipNoMemset(buf) == buf

Memset(buf) == <<>>

-----------------------------------------------------------------------------
(* The server.                                                             *)

HandleEchoAccept(s) ==
    /\ eup /\ esock[s].peer # "absent" /\ esock[s].watch = "none"
    /\ esock' = [esock EXCEPT ![s].watch = "in"]
    /\ UNCHANGED <<ebuf, eup, emixed, echoClientVars>>

(* The connections that have been read and not answered.                   *)
Owed == {s \in Socks : esock[s].watch = "out"}

(* do_read: a connection that has ended is closed, one that has sent is    *)
(* answered when it can take the answer.                                   *)
EchoRead(s) ==
    /\ eup /\ esock[s].watch = "in"
    /\ \/ /\ esock[s].in = <<>> /\ esock[s].peer # "open"
          /\ esock' = [esock EXCEPT ![s].watch = "closed"]
          /\ UNCHANGED <<ebuf, emixed>>
       \/ \E n \in 1..MAXSIZE :
            LET data == SubSeq(esock[s].in, 1, n)
            IN /\ n = Len(esock[s].in) \/ (n = MAXSIZE /\ n < Len(esock[s].in))
               /\ ebuf' = Overlaid(ebuf, data)
               /\ esock' = [esock EXCEPT ![s].watch = "out", ![s].read = @ \o data,
                                         ![s].due = @ \o String(data),
                                         ![s].in = SubSeq(@, n + 1, Len(@))]
               /\ emixed' = emixed \cup (IF Owed # {} THEN Owed \cup {s} ELSE {})
                                   \cup (IF n = MAXSIZE THEN {s} ELSE {})
    /\ UNCHANGED <<eup, echoClientVars>>

(* do_write sends the buffer as a string.  Sending to a peer that has      *)
(* closed succeeds, and breaks the connection; writing to a broken one     *)
(* raises SIGPIPE.                                                         *)
EchoWrite(s) ==
    /\ eup /\ s \in Owed
    /\ \/ /\ esock[s].peer \in {"open", "closed"}
          /\ \E string \in Strings(ebuf), peer \in Peer :
               /\ \/ peer = esock[s].peer
                  \/ esock[s].peer = "closed" /\ string # <<>> /\ peer = "broken"
               /\ esock' = [esock EXCEPT ![s].wrote = @ \o string, ![s].peer = peer,
                                         ![s].watch = "in"]
          /\ ebuf' = Memset(ebuf)
          /\ UNCHANGED eup
       \/ /\ esock[s].peer = "reset"
          /\ esock' = [esock EXCEPT ![s].watch = "closed"]
          /\ ebuf' = Memset(ebuf)
          /\ UNCHANGED eup
       \/ /\ esock[s].peer = "broken"
          /\ eup' = FALSE
          /\ UNCHANGED <<esock, ebuf>>
    /\ UNCHANGED <<emixed, echoClientVars>>

(* The peers: connect, send, close, reset.                                 *)
PeerActs(s) ==
    /\ \/ /\ esock[s].peer = "absent"
          /\ esock' = [esock EXCEPT ![s].peer = "open"]
       \/ /\ esock[s].peer = "open" /\ esock[s].sent < SendMax[s]
          /\ \E char \in {<<s, esock[s].sent + 1>>, Nul} :
               esock' = [esock EXCEPT ![s].sent = @ + 1, ![s].in = Append(@, char)]
       \/ /\ esock[s].peer = "open"
          /\ \E end \in {"closed", "reset"} : esock' = [esock EXCEPT ![s].peer = end]
    /\ UNCHANGED <<ebuf, eup, emixed, echoClientVars>>

-----------------------------------------------------------------------------
(* The client.  It waits for its server only after a line was typed, and   *)
(* never for the socket to take anything.                                  *)

(* do_read of the input: a line, or the end.                               *)
ClientReadsInput ==
    /\ "stdin" \in kwatch
    /\ \/ /\ kwatch' = kwatch \cup {"sock"}
          /\ \E n \in 1..MAXSIZE : kbuf' = Overlaid(kbuf, [i \in 1..n |-> Keyed])
          /\ kmixed' = (kmixed \/ "stdout" \in kwatch)
       \/ /\ kwatch' = kwatch \ {"stdin"}
          /\ UNCHANGED <<kbuf, kmixed>>
    /\ UNCHANGED <<kin, kdue, echoServerVars>>

ClientReadsSocket ==
    /\ "sock" \in kwatch /\ kin # <<>>
    /\ kbuf' = Overlaid(kbuf, kin)
    /\ kin' = <<>>
    /\ kwatch' = (kwatch \ {"sock"}) \cup {"stdout"}
    /\ kdue' = String(kin)
    /\ UNCHANGED <<kmixed, echoServerVars>>

(* do_write of the output, which takes what Strings says.                  *)
ClientPrints ==
    /\ "stdout" \in kwatch
    /\ kwatch' = kwatch \ {"stdout"}
    /\ kbuf' = Memset(kbuf) /\ kdue' = <<>> /\ kmixed' = FALSE
    /\ UNCHANGED <<kin, echoServerVars>>

(* The client's server sends.                                              *)
ServerSends ==
    /\ Len(kin) < MAXSIZE
    /\ \E char \in {Net, Nul} : kin' = Append(kin, char)
    /\ UNCHANGED <<kwatch, kbuf, kdue, kmixed, echoServerVars>>

EchoServer == \E s \in Socks : HandleEchoAccept(s) \/ EchoRead(s) \/ EchoWrite(s) \/ PeerActs(s)

EchoClient == ClientReadsInput \/ ClientReadsSocket \/ ClientPrints \/ ServerSends

EchoSpec == EchoInit /\ [][EchoServer \/ EchoClient]_echoVars

-----------------------------------------------------------------------------
(* Properties.                                                             *)

(* A connection is answered exactly unless another one was read between    *)
(* its read and its answer, or it filled the buffer: of every read it gets *)
(* back what precedes the first NUL, so all of it when it sends no NUL,    *)
(* and nothing of another's.  The client prints what its server sent       *)
(* before a NUL, and behind it only what is left of typed lines, unless a  *)
(* line was typed in between.                                              *)
EchoesItself ==
    /\ \A s \in Socks \ emixed :
         /\ IF s \in Owed THEN esock[s].due = esock[s].wrote \o String(ebuf)
            ELSE esock[s].watch = "in" => esock[s].wrote = esock[s].due
         /\ Nul \notin ToSet(esock[s].read) => esock[s].due = esock[s].read
    /\ ("stdout" \in kwatch /\ ~kmixed) =>
         /\ kdue = SubSeq(String(kbuf), 1, Len(kdue))
         /\ \A i \in Len(kdue) + 1..StrLen(kbuf) : kbuf[i] = Keyed
=============================================================================
