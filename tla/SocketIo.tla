-------------------------------- MODULE SocketIo --------------------------------
(***************************************************************************)
(* Sockets on the reactor of the proactor library,                         *)
(* src/deviceagent/2deviceagent/io: socket_object, its read and write      *)
(* operations, and the epoller with its pool of op_sets.  Version "old" is *)
(* that of src/deviceagent/deviceagent/io, which differs in what its       *)
(* operations make of a result and in one path of start_read_op.           *)
(*                                                                         *)
(* Descriptors are edge-triggered: an event is reported once.  Whoever     *)
(* consumes it must leave the descriptor drained, or nobody looks again.   *)
(* An op_set goes back to a pool when its socket is closed and is handed   *)
(* out to the next one, while polls and threads may still hold a pointer   *)
(* to it.  A critical section under an op_set's mutex is one step, but for *)
(* perform_io, which may call the kernel many times: there each do_work is *)
(* one, and the peer can come between two of them.                         *)
(*                                                                         *)
(* The scheduler (TaskIoService) appears by what it promises: op_sets that *)
(* a poll has found are all taken before the next poll, each by one        *)
(* thread, and a posted operation's handler is run once.                   *)
(***************************************************************************)
EXTENDS Integers, Sequences, FiniteSets, SequencesExt

CONSTANTS Socks,       \* socket objects
          Slots,       \* addresses the pool of op_sets hands out
          Fds,         \* descriptor numbers
          Ops,         \* operations that can wait at the same time
          Threads,
          None,
          Scopes,      \* what a behaviour may use: its version, sockets, kinds, ...
          MaxConns     \* bound: calls of socket()

ASSUME SocketIoAssumption ==
    /\ MaxConns \in Nat
    /\ \A x \in Scopes : /\ x.lib \in {"new", "old"}
                         /\ x.socks \subseteq Socks /\ x.ops \subseteq Ops
                         /\ x.uses \subseteq Socks \X {"read", "write"}
                         /\ x.cap \in Nat \ {0}      \* bound: units a kernel buffer holds
    /\ None \notin Socks \cup Slots \cup Fds \cup Ops \cup Threads \cup (1..MaxConns)
    /\ IsFiniteSet(Fds) /\ IsFiniteSet(Slots)

Conns == 1..MaxConns
Kinds == {"read", "write"}

VARIABLES scope,
          \* kernel
          file,        \* [Fds -> the connection behind a descriptor, or None]
          conn,        \* [Conns -> both kernel buffers of a connection]
          entry,       \* [Fds -> what epoll has for it: the op_set, EPOLLOUT]
          edge,        \* [Fds -> events not yet reported]
          opened,
          \* library
          sock,        \* [Socks -> descriptor_ and descriptor_data_]
          slot,        \* [Slots -> the op_set there]
          live, free,  \* registered_descriptors_
          que,         \* op_sets a poll has found, not yet taken
          op,
          \* threads
          cur,         \* the op_set a thread has taken, its events, and whether
                       \* the thread is inside perform_io, with the op_set's mutex
          closing,     \* the socket a thread is inside do_close of
          \* history
          overwritten  \* op_sets whose event was overwritten by another one's

\* An event is the set of the queues it is for.
kernelVars == <<file, conn, entry, edge, opened>>
poolVars == <<live, free>>
vars == <<scope, kernelVars, sock, slot, poolVars, que, op, cur, closing,
          overwritten>>

NoSet == [set |-> None, out |-> FALSE]
NoConn == [eof |-> FALSE, avail |-> 0, room |-> scope.cap]
NewOp == [st |-> "new", kind |-> "read", want |-> 0, fd |-> None, conn |-> 0]
NoWork == [set |-> None, ev |-> {}, locked |-> FALSE]
Empty == [k \in Kinds |-> <<>>]

TypeOK ==
    /\ scope \in Scopes
    /\ file \in [Fds -> Conns \cup {None}]
    /\ conn \in [Conns -> [eof : BOOLEAN, avail : 0..scope.cap, room : 0..scope.cap]]
    /\ entry \in [Fds -> [set : Slots \cup {None}, out : BOOLEAN]]
    /\ edge \in [Fds -> SUBSET Kinds]
    /\ opened \in 0..MaxConns
    /\ sock \in [Socks -> [fd : Fds \cup {None}, set : Slots \cup {None}]]
    /\ slot \in [Slots -> [q : [Kinds -> Seq(Ops)], out : BOOLEAN, shut : BOOLEAN,
                           result : SUBSET Kinds]]
    /\ live \subseteq Slots /\ free \in Seq(Slots) /\ que \in Seq(Slots)
    /\ op \in [Ops -> [st : {"new", "waiting"}, kind : Kinds,
                       want : 0..scope.cap, fd : Fds \cup {None}, conn : Conns \cup {0}]]
    /\ cur \in [Threads -> [set : Slots \cup {None}, ev : SUBSET Kinds, locked : BOOLEAN]]
    /\ closing \in [Threads -> Socks \cup {None}]
    /\ overwritten \subseteq Slots

Init ==
    /\ scope \in Scopes
    /\ file = [f \in Fds |-> None]
    /\ conn = [c \in Conns |-> NoConn]
    /\ entry = [f \in Fds |-> NoSet]
    /\ edge = [f \in Fds |-> {}]
    /\ opened = 0
    /\ sock = [s \in Socks |-> [fd |-> None, set |-> None]]
    /\ slot = [k \in Slots |-> [q |-> Empty, out |-> FALSE, shut |-> FALSE, result |-> {}]]
    /\ live = {} /\ free = <<>> /\ que = <<>>
    /\ op = [o \in Ops |-> NewOp]
    /\ cur = [t \in Threads |-> NoWork]
    /\ closing = [t \in Threads |-> None]
    /\ overwritten = {}

-----------------------------------------------------------------------------
(* do_work of one operation.                                               *)

Lesser(a, b) == IF a < b THEN a ELSE b

(* What recvmsg or sendmsg can move for the operation p.                   *)
Amount(c, p) ==
    IF p.kind = "write" /\ c.eof THEN 0
    ELSE Lesser(p.want, IF p.kind = "read" THEN c.avail ELSE c.room)

(* What a try comes to.  At the end of the stream recvmsg returns 0, and   *)
(* ec_ is set to whatever an earlier call of the thread has left in errno: *)
(* if that is EAGAIN, do_work takes it for its own.                        *)
StaleErrno == {"0", "EAGAIN"}

Outcome(c, p, stale) ==
    IF p.kind = "write" /\ c.eof THEN "error"
    ELSE IF Amount(c, p) > 0 THEN "data"
    ELSE IF p.kind = "read" /\ c.eof /\ (scope.lib = "old" \/ stale # "EAGAIN") THEN "eof"
    ELSE "none"

(* Whether do_work says the operation is finished.  The old version takes  *)
(* any negative result for "not yet".                                      *)
Finished(res) == res \in {"data", "eof"} \/ (scope.lib = "new" /\ res = "error")

(* post_immediate_completion or post_deferred_completions: the operation   *)
(* is the scheduler's from here on.                                        *)
Posted == NewOp

(* What do_work of p leaves in its connection.                             *)
Moved(c, p) ==
    IF p.kind = "read" THEN [c EXCEPT !.avail = @ - Amount(c, p)]
    ELSE [c EXCEPT !.room = @ - Amount(c, p)]

Works(p) == conn' = [conn EXCEPT ![p.conn] = Moved(@, p)]

Done(p, stale) == Finished(Outcome(conn[p.conn], p, stale))

-----------------------------------------------------------------------------
(* Calls of the application.  A socket object is used by one thread at a   *)
(* time; different sockets by different threads.                           *)

Idle(t) == cur[t].set = None /\ closing[t] = None

Calls(t, s) == Idle(t) /\ \A u \in Threads : closing[u] # s

(* No other thread is inside perform_io of the op_set.                     *)
Unlocked(t, k) == \A u \in Threads \ {t} : ~(cur[u].locked /\ cur[u].set = k)

(* What already holds of a connection, as EPOLL_CTL_MOD reports it.        *)
Level(c) ==
    {k \in Kinds : c.eof \/ (k = "read" /\ c.avail > 0) \/ (k = "write" /\ c.room > 0)}

SlipHeadStays(k) ==
    IF free # <<>>
    THEN k = Head(free) /\ UNCHANGED free /\ live' = live \cup {k}
    ELSE k \notin live /\ UNCHANGED free /\ live' = live \cup {k}

(* object_pool::alloc: the op_set that was freed last, else a new one.     *)
Alloc(k) ==
    IF free # <<>>
    THEN k = Head(free) /\ free' = Tail(free) /\ live' = live \cup {k}
    ELSE k \notin live /\ UNCHANGED free /\ live' = live \cup {k}

(* object_pool::free.                                                      *)
Freed(k) == live' = live \ {k} /\ free' = <<k>> \o free

(* register_descriptor: the op_set's fields.  An op_set from the pool      *)
(* brings its empty queues.                                                *)
Registered(k) ==
    slot' = [slot EXCEPT ![k] = [@ EXCEPT !.shut = FALSE, !.out = FALSE]]

(* do_open and do_connect: socket(), attach, and a connect that blocks.    *)
(* Until it is connected epoll reports the socket as hung up.              *)
Open(t, s) ==
    /\ Calls(t, s)
    /\ sock[s].fd = None
    /\ opened < MaxConns
    /\ opened' = opened + 1
    /\ \E f \in Fds, k \in Slots :
         /\ file[f] = None
         /\ file' = [file EXCEPT ![f] = opened + 1]
         /\ Alloc(k)
         /\ Unlocked(t, k)
         /\ Registered(k)
         /\ entry' = [entry EXCEPT ![f] = [set |-> k, out |-> FALSE]]
         /\ edge' = [edge EXCEPT ![f] = Kinds]
         /\ sock' = [sock EXCEPT ![s] = [fd |-> f, set |-> k]]
    /\ UNCHANGED <<scope, conn, que, op, cur, closing, overwritten>>

SlipAlwaysTries(q) == TRUE

(* An operation is tried at once only if nobody waits in front of it.      *)
Speculates(q) == q = <<>>

SlipNeverWatches(k, kind) == FALSE

(* A write that must wait asks for EPOLLOUT, once per op_set.              *)
Watches(k, kind) == kind = "write" /\ ~slot[k].out

(* epoller::start_op on an op_set that is in use.                          *)
StartOp(s, o, p, stale) ==
    LET k == sock[s].set
        f == sock[s].fd
        tries == Speculates(slot[k].q[p.kind])
        waits == ~(tries /\ Done(p, stale))
        watch == waits /\ tries /\ Watches(k, p.kind)
    IN /\ IF tries THEN Works(p) ELSE UNCHANGED conn
       /\ op' = IF waits THEN [op EXCEPT ![o] = p] ELSE op
       /\ slot' = IF waits
                  THEN [slot EXCEPT ![k].q[p.kind] = Append(@, o), ![k].out = @ \/ watch]
                  ELSE slot
       /\ IF watch
          THEN /\ entry' = [entry EXCEPT ![f].out = TRUE]
               /\ edge' = [edge EXCEPT ![f] = @ \cup Level(conn[file[f]])]
          ELSE UNCHANGED <<entry, edge>>

(* async_read or async_write makes an operation for a buffer that has room *)
(* for want units.                                                         *)
NewFor(s, kind, want) ==
    [st |-> "waiting", kind |-> kind, want |-> want,
     fd |-> sock[s].fd, conn |-> file[sock[s].fd]]

(* start_read_op and start_write_op.  (On a socket that is not open, or    *)
(* with nothing left to transfer, the operation is posted at once; the old *)
(* start_read_op then forgets it.)                                         *)
Start(t, s, o, kind, want) ==
    /\ Calls(t, s)
    /\ op[o].st = "new"
    /\ sock[s].fd # None
    /\ Unlocked(t, sock[s].set)
    /\ \E stale \in StaleErrno : StartOp(s, o, NewFor(s, kind, want), stale)
    /\ UNCHANGED <<scope, file, opened, sock, poolVars, que, cur, closing, overwritten>>

Queued(k) == UNION {ToSet(slot[k].q[kind]) : kind \in Kinds}

Cancelled(ops) ==
    op' = [o \in Ops |-> IF o \in ops
                         THEN Posted ELSE op[o]]

(* epoller::cancel_ops.                                                    *)
CancelOps(t, s) ==
    /\ Calls(t, s)
    /\ sock[s].set # None
    /\ Unlocked(t, sock[s].set)
    /\ LET k == sock[s].set
       IN /\ Queued(k) # {}
          /\ Cancelled(Queued(k))
          /\ slot' = [slot EXCEPT ![k].q = Empty]
    /\ UNCHANGED <<scope, kernelVars, sock, poolVars, que, cur, closing,
                   overwritten>>

SlipQueueKept(k) == slot' = [slot EXCEPT ![k].shut = TRUE]

(* deregister_descriptor leaves an op_set empty and marked.                *)
Deregistered(k) ==
    slot' = [slot EXCEPT ![k] = [@ EXCEPT !.q = Empty, !.shut = TRUE]]

(* do_close, first part: detach.  The entry stays in epoll until the       *)
(* descriptor is closed.                                                   *)
Detach(t, s) ==
    /\ Calls(t, s)
    /\ sock[s].fd # None
    /\ Unlocked(t, sock[s].set)
    /\ LET k == sock[s].set
       IN /\ Cancelled(Queued(k))
          /\ Deregistered(k)
          /\ Freed(k)
    /\ sock' = [sock EXCEPT ![s].set = None]
    /\ closing' = [closing EXCEPT ![t] = s]
    /\ UNCHANGED <<scope, kernelVars, que, cur, overwritten>>

(* do_close, second part: ::close.                                         *)
CloseFd(t) ==
    /\ closing[t] # None
    /\ LET f == sock[closing[t]].fd
       IN /\ conn' = [conn EXCEPT ![file[f]] = NoConn]
          /\ file' = [file EXCEPT ![f] = None]
          /\ entry' = [entry EXCEPT ![f] = NoSet]
          /\ edge' = [edge EXCEPT ![f] = {}]
    /\ sock' = [sock EXCEPT ![closing[t]].fd = None]
    /\ closing' = [closing EXCEPT ![t] = None]
    /\ UNCHANGED <<scope, opened, slot, poolVars, que, op, cur, overwritten>>

-----------------------------------------------------------------------------
(* The reactor.                                                            *)

(* epoller::run: every descriptor with an event is reported, and an op_set *)
(* keeps the events of the last report only.                               *)
Poll(t) ==
    /\ Idle(t)
    /\ que = <<>>
    /\ LET hot == {f \in Fds : edge[f] # {} /\ entry[f].set # None}
       IN /\ hot # {}
          /\ \E fds \in SetToSeqs(hot) :
               LET sets == [i \in DOMAIN fds |-> entry[fds[i]].set]
                   last(k) == CHOOSE i \in DOMAIN fds :
                                 sets[i] = k /\ \A j \in DOMAIN fds : sets[j] = k => j <= i
               IN /\ que' = sets
                  /\ slot' = [k \in Slots |-> IF k \in ToSet(sets)
                                 THEN [slot[k] EXCEPT !.result = edge[fds[last(k)]]]
                                 ELSE slot[k]]
                  /\ overwritten' = overwritten \cup
                        {k \in Slots : Cardinality({i \in DOMAIN sets : sets[i] = k}) > 1}
          /\ edge' = [f \in Fds |-> IF f \in hot THEN {} ELSE edge[f]]
    /\ UNCHANGED <<scope, file, conn, entry, opened, sock, poolVars, op, cur, closing>>

(* A thread takes an op_set off the scheduler's queue, with its events.    *)
TakeSet(t) ==
    /\ Idle(t)
    /\ que # <<>>
    /\ que' = Tail(que)
    /\ LET k == Head(que)
       IN /\ cur' = [cur EXCEPT ![t] = [set |-> k, ev |-> slot[k].result, locked |-> FALSE]]
          /\ slot' = IF k \in ToSet(Tail(que)) THEN slot
                     ELSE [slot EXCEPT ![k].result = {}]      \* not read again
    /\ UNCHANGED <<scope, kernelVars, sock, poolVars, op, closing,
                   overwritten>>

(* The events of the op_set in hand that an operation waits for.           *)
Due(t) == {kind \in cur[t].ev : slot[cur[t].set].q[kind] # <<>>}

(* A turn of the loops of op_set::perform_io: do_work of the first one that*)
(* waits, for writing before reading.  If it is not finished, the loop over*)
(* its queue is.                                                           *)
DoWork(t) ==
    /\ cur[t].set # None /\ Due(t) # {}
    /\ Unlocked(t, cur[t].set)
    /\ \E stale \in StaleErrno :
       LET k == cur[t].set
           kind == IF "write" \in Due(t) THEN "write" ELSE "read"
           o == Head(slot[k].q[kind])
       IN /\ Works(op[o])
          /\ IF Done(op[o], stale)
             THEN /\ op' = [op EXCEPT ![o] = Posted]
                  /\ slot' = [slot EXCEPT ![k].q[kind] = Tail(@)]
                  /\ cur' = [cur EXCEPT ![t].locked = TRUE]
             ELSE /\ cur' = [cur EXCEPT ![t].locked = TRUE, ![t].ev = @ \ {kind}]
                  /\ UNCHANGED <<op, slot>>
    /\ UNCHANGED <<scope, file, entry, edge, opened, sock, poolVars, que, closing,
                   overwritten>>

(* perform_io is over.                                                     *)
EndIo(t) ==
    /\ cur[t].set # None /\ Due(t) = {}
    /\ Unlocked(t, cur[t].set)
    /\ cur' = [cur EXCEPT ![t] = NoWork]
    /\ UNCHANGED <<scope, kernelVars, sock, slot, poolVars, que, op, closing, overwritten>>

-----------------------------------------------------------------------------
(* The peer of a connection.                                               *)

Fires(f, ev) == edge' = [edge EXCEPT ![f] = @ \cup ev]

Arrive(f) ==
    /\ file[f] # None /\ ~conn[file[f]].eof
    /\ \E s \in Socks : sock[s].fd = f /\ <<s, "read">> \in scope.uses
    /\ conn[file[f]].avail < scope.cap
    /\ conn' = [conn EXCEPT ![file[f]].avail = @ + 1]
    /\ Fires(f, {"read"})
    /\ UNCHANGED <<scope, file, entry, opened, sock, slot, poolVars, que, op, cur,
                   closing, overwritten>>

(* EPOLLIN with EPOLLHUP: an event for all the queues.                     *)
PeerCloses(f) ==
    /\ file[f] # None /\ ~conn[file[f]].eof
    /\ conn' = [conn EXCEPT ![file[f]].eof = TRUE]
    /\ Fires(f, Kinds)
    /\ UNCHANGED <<scope, file, entry, opened, sock, slot, poolVars, que, op, cur,
                   closing, overwritten>>

(* The peer reads: there is room again.                                    *)
Drain(f) ==
    /\ file[f] # None
    /\ conn[file[f]].room < scope.cap
    /\ conn' = [conn EXCEPT ![file[f]].room = scope.cap]
    /\ IF entry[f].out THEN Fires(f, {"write"}) ELSE UNCHANGED edge
    /\ UNCHANGED <<scope, file, entry, opened, sock, slot, poolVars, que, op, cur,
                   closing, overwritten>>

Api(t, s) ==
    \/ Open(t, s) \/ CancelOps(t, s) \/ Detach(t, s)
    \/ \E o \in scope.ops, kind \in Kinds, want \in 1..scope.cap :
          <<s, kind>> \in scope.uses /\ Start(t, s, o, kind, want)

Serve(t) == CloseFd(t) \/ Poll(t) \/ TakeSet(t) \/ DoWork(t) \/ EndIo(t)

Next ==
    \/ \E t \in Threads, s \in scope.socks : Api(t, s)
    \/ \E t \in Threads : Serve(t)
    \/ \E f \in Fds : Arrive(f) \/ PeerCloses(f) \/ Drain(f)

Spec == Init /\ [][Next]_vars

-----------------------------------------------------------------------------
(* Properties.                                                             *)

Waiting == {o \in Ops : op[o].st = "waiting"}

(* Someone will look at the queue of kind of the op_set k.                 *)
OnItsWay(k, kind) ==
    \/ \E f \in Fds : entry[f].set = k /\ kind \in edge[f]
    \/ k \in ToSet(que) /\ kind \in slot[k].result
    \/ \E t \in Threads : cur[t].set = k /\ kind \in cur[t].ev

(* No edge is lost: while an operation waits and its connection could      *)
(* serve it, an event that makes a thread look is pending, however reads,  *)
(* writes, arrivals and polls interleave.  The exceptions are op_sets whose*)
(* event was overwritten: a descriptor that is being closed and a new one  *)
(* shared them in one poll.                                                *)
NoLostEdge ==
    \A s \in Socks, kind \in Kinds :
        LET k == sock[s].set
        IN k # None /\ slot[k].q[kind] # <<>> /\ k \notin overwritten
             => (Amount(conn[file[sock[s].fd]], op[slot[k].q[kind][1]]) > 0
                   => OnItsWay(k, kind))

(* A waiting operation stands in one queue, that of the socket it was      *)
(* started on, and its descriptor is still that socket's connection: it is *)
(* never tried on a descriptor that has been closed or reused, and is      *)
(* never left behind in an op_set that went back to the pool.              *)
WaitsOnItsOwn ==
    /\ \A o \in Waiting : \E s \in Socks :
          /\ sock[s].set # None
          /\ sock[s].fd = op[o].fd /\ file[op[o].fd] = op[o].conn
          /\ o \in ToSet(slot[sock[s].set].q[op[o].kind])
    /\ \A k \in Slots : Queued(k) \subseteq Waiting /\ (k \notin live => Queued(k) = {})

(* Whatever start_op, cancel_ops, perform_io and deregister_descriptor do  *)
(* at the same time, every variable has its type and every waiting         *)
(* operation its place.                                                    *)
OperationsAreSound == TypeOK /\ WaitsOnItsOwn

Bytes(c, kind) == IF kind = "read" THEN c.avail ELSE c.room

BytesInOrder(s, kind) ==
    LET k == sock[s].set
        c == file[sock[s].fd]
        q == slot[k].q[kind]
    IN k # None /\ q # <<>> /\ (sock')[s] = sock[s] =>
         /\ Bytes(conn'[c], kind) < Bytes(conn[c], kind) => op'[q[1]].st # "waiting"
         /\ \A i, j \in DOMAIN q :
                i < j /\ op'[q[i]].st = "waiting" => op'[q[j]].st = "waiting"

(* The bytes of a connection go to the operations of a direction in the    *)
(* order in which they were started: a transfer finishes the one that has  *)
(* waited longest, and none behind it is finished while it waits.          *)
InOrder == [][\A s \in Socks, kind \in Kinds : BytesInOrder(s, kind)]_vars

(* Sockets that are open have op_sets and descriptors of their own: the    *)
(* pool never hands out an op_set that a socket still uses, and until it is*)
(* detached epoll names its op_set for its descriptor.  A start or a close *)
(* of one socket reaches the operations of no other.                       *)
SetHasOneSocket ==
    /\ \A s, r \in Socks : s # r =>
         /\ sock[s].set # None => sock[s].set # sock[r].set
         /\ sock[s].fd # None => sock[s].fd # sock[r].fd
    /\ \A s \in Socks : sock[s].set # None =>
         /\ sock[s].set \in live
         /\ sock[s].fd # None /\ entry[sock[s].fd].set = sock[s].set
    /\ ToSet(free) \cap live = {}
=============================================================================
