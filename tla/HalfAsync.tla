------------------------------- MODULE HalfAsync -------------------------------
(***************************************************************************)
(* The client that waits for edges, src/epoll_half_async/demo.cc, and the  *)
(* two servers it is measured with: send_server.cc, which sends until it   *)
(* cannot, and server.c, which receives until the peer is done.  A server  *)
(* has one thread and serves one connection at a time.                     *)
(*                                                                         *)
(* The demo registers its socket edge-triggered and reads once per event,  *)
(* at most ReadMax of what is there.  Data is counted in units.            *)
(***************************************************************************)
EXTENDS Integers, Sequences, FiniteSets, SequencesExt

CONSTANTS Hosts,       \* the processes that connect to the server
          ReadMax,     \* what the demo's buffer holds, MAXBUF * 1024
          HCap,        \* bound: what is on its way in one direction
          Total        \* bound: what one host sends to server.c

ASSUME HalfAssumption ==
    /\ "none" \notin Hosts
    /\ ReadMax \in Nat \ {0} /\ HCap \in Nat /\ Total \in Nat

VARIABLES hmode,       \* which server runs, "send" or "recv"
          hqueue,      \* connections that are not accepted yet
          hcur,        \* the connection that is served, or "none"
          hserver,     \* FALSE once SIGPIPE has ended the server
          hhost,       \* [Hosts -> the state of a host]
          hbytes,      \* what server.c has counted of hcur, total_len
          hreport      \* history: [Hosts -> what server.c has reported of a host]

halfVars == <<hmode, hqueue, hcur, hserver, hhost, hbytes, hreport>>

HalfTypeOK ==
    /\ hmode \in {"send", "recv"}
    /\ hqueue \in Seq(Hosts) /\ hcur \in Hosts \cup {"none"}
    /\ \A h \in Hosts :
         /\ hhost[h].st \in {"new", "up", "closed", "killed", "exited"}
         /\ hhost[h].wire \in 0..HCap      \* what is in the socket
         /\ hhost[h].edge \in BOOLEAN      \* an event that epoll_wait has not returned
         /\ hhost[h].full \in BOOLEAN      \* the last read filled the buffer
         /\ hhost[h].eof \in BOOLEAN       \* the server has closed
         /\ hhost[h].sent \in 0..Total
    /\ hserver \in BOOLEAN
    /\ hbytes \in 0..Total /\ hreport \in [Hosts -> {-1} \cup 0..Total]

HalfInit ==
    /\ hmode \in {"send", "recv"}
    /\ hqueue = <<>> /\ hcur = "none" /\ hserver = TRUE
    /\ hhost = [h \in Hosts |-> [st |-> "new", wire |-> 0, edge |-> FALSE, full |-> FALSE,
                                 eof |-> FALSE, sent |-> 0]]
    /\ hbytes = 0 /\ hreport = [h \in Hosts |-> -1]

(* connect, and the demo's registration.                                   *)
HostConnects(h) ==
    /\ hhost[h].st = "new" /\ hserver
    /\ hhost' = [hhost EXCEPT ![h].st = "up"]
    /\ hqueue' = Append(hqueue, h)
    /\ UNCHANGED <<hmode, hcur, hserver, hbytes, hreport>>

-----------------------------------------------------------------------------
(* The servers.                                                            *)

HalfAccept ==
    /\ hserver /\ hcur = "none" /\ hqueue # <<>>
    /\ hcur' = hqueue[1] /\ hqueue' = Tail(hqueue)
    /\ hbytes' = 0
    /\ UNCHANGED <<hmode, hserver, hhost, hreport>>

(* Data comes to a socket: an edge, whether or not there was data before.  *)
Arrives(host) == [host EXCEPT !.wire = @ + 1, !.edge = TRUE]

(* send() of the next chunk, while there is room.                          *)
SendLoop ==
    /\ hserver /\ hmode = "send" /\ hcur # "none"
    /\ hhost[hcur].st = "up" /\ hhost[hcur].wire < HCap
    /\ hhost' = [hhost EXCEPT ![hcur] = Arrives(@)]
    /\ UNCHANGED <<hmode, hqueue, hcur, hserver, hbytes, hreport>>

(* send() to a host that is gone: an error, and the next connection; or    *)
(* SIGPIPE.                                                                *)
SendFails ==
    /\ hserver /\ hmode = "send" /\ hcur # "none" /\ hhost[hcur].st \in {"killed", "exited"}
    /\ \/ hserver' = TRUE /\ hcur' = "none"
       \/ hserver' = FALSE /\ UNCHANGED hcur
    /\ UNCHANGED <<hmode, hqueue, hhost, hbytes, hreport>>

(* recv() in server.c, any part of what is there.                          *)
RecvLoop ==
    /\ hmode = "recv" /\ hcur # "none"
    /\ \E n \in 1..hhost[hcur].wire :
         /\ hbytes' = hbytes + n
         /\ hhost' = [hhost EXCEPT ![hcur].wire = @ - n]
    /\ UNCHANGED <<hmode, hqueue, hcur, hserver, hreport>>

SlipReportsEarly == hcur # "none" /\ hhost[hcur].wire = 0

(* recv() <= 0 only when the peer has closed and nothing is left.          *)
RecvEnds == hcur # "none" /\ hhost[hcur].st = "closed" /\ hhost[hcur].wire = 0

Reports ==
    /\ hmode = "recv" /\ RecvEnds
    /\ hreport' = [hreport EXCEPT ![hcur] = hbytes]
    /\ hcur' = "none"
    /\ UNCHANGED <<hmode, hqueue, hserver, hhost, hbytes>>

-----------------------------------------------------------------------------
(* The demo, with send_server.                                             *)

Least(a, b) == IF a <= b THEN a ELSE b

(* epoll_wait returns the event and handler() reads once.                  *)
HandleEvent(h) ==
    /\ hmode = "send" /\ hhost[h].st = "up" /\ hhost[h].edge
    /\ LET n == Least(hhost[h].wire, ReadMax)
       IN hhost' = [hhost EXCEPT ![h].edge = FALSE, ![h].wire = @ - n, ![h].full = (n = ReadMax)]
    /\ UNCHANGED <<hmode, hqueue, hcur, hserver, hbytes, hreport>>

(* The server is gone: what was sent can still be read.  If the connection *)
(* was reset the event has EPOLLERR and the demo ends; if it was closed it *)
(* waits on.                                                               *)
ServerGone(h) ==
    /\ hmode = "send" /\ ~hserver /\ hhost[h].st = "up" /\ ~hhost[h].eof
    /\ \/ hhost' = [hhost EXCEPT ![h].eof = TRUE, ![h].edge = TRUE]
       \/ hhost' = [hhost EXCEPT ![h].eof = TRUE, ![h].st = "exited"]
    /\ UNCHANGED <<hmode, hqueue, hcur, hserver, hbytes, hreport>>

(* Somebody kills the demo, which ends only with EPOLLERR of its own.      *)
Kill(h) ==
    /\ hmode = "send" /\ hhost[h].st = "up"
    /\ hhost' = [hhost EXCEPT ![h].st = "killed", ![h].wire = 0]
    /\ UNCHANGED <<hmode, hqueue, hcur, hserver, hbytes, hreport>>

(* A host of server.c sends, and closes (or is killed, which closes too).  *)
HostSends(h) ==
    /\ hmode = "recv" /\ hhost[h].st = "up"
    /\ \/ /\ hhost[h].wire < HCap /\ hhost[h].sent < Total
          /\ hhost' = [hhost EXCEPT ![h].wire = @ + 1, ![h].sent = @ + 1]
       \/ hhost' = [hhost EXCEPT ![h].st = "closed"]
    /\ UNCHANGED <<hmode, hqueue, hcur, hserver, hbytes, hreport>>

HalfNext ==
    \/ HalfAccept \/ SendLoop \/ SendFails \/ RecvLoop \/ Reports
    \/ \E h \in Hosts : \/ HostConnects(h) \/ HandleEvent(h) \/ ServerGone(h) \/ Kill(h)
                        \/ HostSends(h)

HalfSpec == HalfInit /\ [][HalfNext]_halfVars

-----------------------------------------------------------------------------
(* Properties.                                                             *)

(* The demo leaves data in the socket without an event only after a read   *)
(* that filled its buffer; and server.c reports all that a host has sent   *)
(* before it closed, and of one connection only.                           *)
NothingIsMissed ==
    \A h \in Hosts :
        /\ hmode = "send" /\ hhost[h].st = "up" /\ hhost[h].wire > 0 /\ ~hhost[h].edge
             => hhost[h].full
        /\ hreport[h] # -1 => hreport[h] = hhost[h].sent
=============================================================================
