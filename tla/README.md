# TLA+ specifications of linux-C-CPP

The repository is a collection of systems code: a proactor library, thread
pools, a gateway between web clients and an SDK's connections, a local RPC
transport, and smaller servers and exercises.  This directory holds TLA+
modules of its concurrent parts and of its sequential routines, TLC configurations
that check them on small instances, and TLAPS proofs about the two thread pools, the
proactor's scheduler and sockets, the gateway's two modes, the RPC calls and their transfer
loops, the stream connection, the packing of messages, the scatter buffers, the chat room, the
echo server and the edge-triggered demo for instances of any size.

Contents: [Inventory](#inventory) · [Modules](#modules-and-the-code-they-model) ·
[Runs](#runs) · [Bounds](#bounds) · [Fairness](#fairness) · [Proofs](#proofs) ·
[Findings](#where-the-code-and-its-comments-disagree) ·
[Not modelled](#what-is-not-modelled) · [Plan](#plan)

Paths below are relative to `src/`; `PA/` stands for `deviceagent/2deviceagent/`.

## Inventory

### Thread pool: `thread_pool/thread_pool.c`
(the same code also as `thconcurrent_frame/src/mhthread_dll`, `PA/libmhthread`,
`deviceagent/deviceagent/thread_pool`)

* State: a linked list of jobs and its counter `curr_queue_size`, both under
  `queue_lock`; the condition variable `queue_ready`; the flag `is_shutdown`.
* Operations: `thpool_init` starts the workers, `thpool_add_worker` appends a job
  and signals, `thread_routine` waits, takes the head and runs it,
  `thpool_destroy` raises the flag, broadcasts, joins, and frees what is left.
* Hard: the client signals after it has let the mutex go; the destroyer raises
  the flag without the mutex; wake-ups may be spurious; what is freed at the end
  must have no user left.
* Correct when: no wake-up is lost, no worker sleeps beside work, a node has one
  owner, jobs start in order, the pool is freed only after its last use, a queued
  job starts, and a destroyed pool comes to its end.

### Proactor library: `PA/io`, `PA/utils`
* **Scheduler** (`io/async/task_io_service.hpp`): threads inside `run()` share
  `op_que_`; idle ones are on a stack, each with an event of its own; one special
  element of the queue, the task, is the right to poll the reactor.  A thread also
  keeps a private queue, merged into the shared one when a poll or a handler is
  over.  `outstanding_work_` decides when the service stops by itself.
* **Reactor** (`io/async/epoll.hpp`): an `op_set` per descriptor with three queues
  of waiting operations under a mutex of its own; `run` polls and hands ready
  op_sets, as operations, to the scheduler; op_sets come from a pool and are used
  again.
* **Facade and sockets** (`io/async/proactor.*`, `io/object/*`, `io/stream_socket.*`):
  forward to the two.
* **Scatter buffers** (`io/object/operation/socket_op_decl.hpp`): a linked list of
  buffers with a position, consumed by `socket_read_op` and `socket_write_op`.
* Hard: three kinds of lock and one counter without any; merging reorders the
  queue; a wake-up has to reach either a sleeper or the thread that polls;
  cancellation races with readiness; handlers call back into the service.
* Correct when: one thread polls at a time; queued work always has somebody on the
  way to it; an operation is in one place and is called once; the service stops by
  itself only when nothing is outstanding.

### Web client gateway: `2webclient/deviceagent.cpp`
* State: `vecConnections` and `vecEndpoints` under `vecConnectionsLock`; a TCP
  socket for each endpoint; `epfd`, edge triggered.
* Operations: the SDK's callbacks `OnSDKConnectionInit`, `OnSDKConnectionData`,
  `OnSDKConnectionClose`, `OnSDKClose` on threads of the SDK; `RecvThread`, which
  carries answers back; the console of `main`.
* The program has a client mode (browser side, one thread per port) and a server
  mode (web server side).  The two talk in messages with a 32-byte header.
* Hard: events that outlive their descriptor; descriptors used again at once; a
  lock held through a blocking read and through retries; callbacks that waited for
  the lock while their connection was closed.
* Correct when: sockets and endpoints match one to one, a handle means one
  endpoint, a closed connection leaves nothing behind, readiness is never lost,
  and only broken sessions are ended.

### Local RPC: `local_rpc/drpc_core.cpp`
* Transport: `__posix_do_send` and `__posix_do_recv` move a vector of buffers in
  as many calls as it takes, with a budget of time; `__recalc_iovec` drops what is
  done from the vector.
* Calls: `drpc_srv_routine` accepts a connection, fetches a header and parameters,
  dispatches, replies, and keeps the handle; `drpc_cli_plus` makes a connection for
  each call.
* Hard: partial transfers, the two sides' timeouts, descriptors that run out,
  a peer that is no longer there.
* Correct when: bytes move once and in order and success means all of them; a call
  runs at most once and a result means that it ran; callers are served in turn;
  what is given up is closed.

### Client mode and the older gateway: `2webclient/deviceagent.cpp`, `MNDBServer.cpp`
* State: a main loop that waits for a key, and int flags (`reinit_flg`, `coninit_flg`,
  `closecon_flg`, `msg_flg`) that the SDK's callbacks raise; `vecConnections` under a
  lock; the ids of requests and the files their answers go to.
* Hard: the loop looks at a flag, serves it and resets it while callbacks raise it
  again; a device may be closed while the loop makes another.
* Correct when: no request is swallowed, a lost device is registered again, the vector
  holds the open connections once each, and a request that was begun can be ended.

### Smaller systems
* **Unstable thread pool** (`thconcurrent_frame/src/thread_pool_test_unstable`): a
  semaphore and a list under a mutex.  Correct when each job has a token and none
  is lost when the pool is destroyed at once.
* **Concurrent message server** (`thconcurrent_frame/src/server`, `client`): each
  connection holds a worker of the thread pool until it ends.  Correct when nobody waits
  for ever for a worker.
* **Message packing** (`thconcurrent_frame/src/mhcomm_dll/message_type.c`): fields
  behind their lengths in a buffer that grows, with counters of 16 bits.
* **Chat** (`chat/`): the chat room of the Boost.Asio examples, with one write in
  progress per session.  Correct when each participant hears one gapless part of what
  was said.
* **Epoll echo** (`epoll_echo/`): one buffer for all connections.
* **Half-asynchronous client** (`epoll_half_async/`): a read per edge.
* **Iostream connection** (`deviceagent/connection.hpp`): a read completed by bytes that
  are supplied by hand or from a stream.
* **Exercises**: `leetcode/`, `resolve6.c`, `template/`.

How the parts depend on one another: the message server runs its handlers on the
thread pool; the proactor's scheduler owns its reactor and is called back by it
(`work_started`, `post_deferred_completions`); the RPC calls use the transport
loops; the gateway's two modes are peers over the SDK.  The rest stand alone.

## Modules and the code they model

| module | models | implements |
|---|---|---|
| `JobPool` | what a pool of workers promises its clients | – |
| `ThreadPool` | `thread_pool.c` | `JobPool` |
| `TaskIoService` | `task_io_service.hpp`, with the reactor's part in it | – |
| `SocketIo` | `epoll.hpp`, `socket_object.cc`, the read and write operations | – |
| `BufferList` | `cbuffer` of `socket_op_decl.hpp` | – |
| `WebGateway` | `deviceagent.cpp`, server mode | – |
| `DeviceAgent` | `deviceagent.cpp`, client mode; `MNDBServer.cpp` | – |
| `IovTransfer` | `__posix_do_send`, `__posix_do_recv`, `__recalc_iovec` | – |
| `RemoteCall` | what a remote call promises its caller | – |
| `LocalRpc` | `drpc_srv_routine`, `drpc_cli_plus` | `RemoteCall` |
| `UnstablePool` | `thread_pool_test_unstable/` | – |
| `MessageServer` | `server.c`, `server_handler.c`, `client.c`, over `JobPool` | – |
| `MessageType` | `message_type.c` | – |
| `Chat` | `chat_server.cpp`, `chat_client.cpp` | – |
| `EpollEcho` | `serv.c`, `cli.c` | – |
| `HalfAsync` | `demo.cc`, `server.c`, `send_server.cc` | – |
| `IostreamConnection` | `connection.hpp` | – |
| `Exercises` | `leetcode/1-100`, `resolve6.c` | – |
| `ThreadPoolProofs`, `LocalRpcProofs`, `WebGatewayProofs`, `SocketIoProofs` | theorems about the module of that name | |
| `TaskIoServiceProofs`, `TaskIoPlacesProofs` | theorems about `TaskIoService`: its threads; its operations and the count of work | |
| `ProgramProofs` | theorems about `Chat`, `UnstablePool`, `HalfAsync`, `EpollEcho` | |
| `RoutineProofs` | theorems about `DeviceAgent`, `IovTransfer`, `IostreamConnection`, `MessageType`, `BufferList` | |
| `MC...` | instances for TLC | |

Three MC modules do no more than name a symmetry.  The others put several small instances
in one state space, of which a behaviour chooses one at the start and leaves the rest
alone: `MCPrograms` the programs (variable `program`), `MCRoutines` the loops and the
sequential code (`code`), `MCTaskIoService` services shared by several threads or built for
one (`service`), `MCSocketIo` the scopes of `SocketIo` (`scope`).  Nothing is shared between the alternatives, so
the states are the sum of theirs and not the product, and a property of one is not helped
by another.

Actions bear the name of the function or of the part of it they stand for.
Operators whose name starts with `Slip` stand before the definition they corrupt.
They are plausible mistakes, and are not part of any model: with one put in the
place of its definition, TLC refutes the property named for it in `PROJECT.json`.

**ThreadPool.**  `queue` is the list, `pc` a worker's place in `thread_routine`,
`cpc` a client's place in its call.  A critical section is split where the mutex
is released or where the code reads something that is not under it: `Lock`
takes the mutex, `FindNothing`, `FindWork` and `Exit` are what the tests of the list and the
flag can find, `CondWait` releases and sleeps, `Take` takes the head of the list.  The flag is
written without the mutex, so it may go up between `FindNothing` and `CondWait`, and between
`FindWork` and `Take`: then a job starts on a pool that is shut down.  `JobPool` therefore
splits the start of a job in `Claim`, which needs an open pool, and `Start`, which does not;
one job at most is claimed at a time (`claimed`).  `AddWorker` is the critical
section of `thpool_add_worker` and `Signal` what follows it.  `Shutdown`,
`Broadcast` and `JoinAndFree` are `thpool_destroy`.  `SpuriousWakeup` is what POSIX
allows.

**TaskIoService.**  `op_que`, `idle` (the stack of `first_idle_thread_`),
`task_interrupted`, `stopped`, `private_op_que` and `private_work` are the code's;
`pc` is a thread's place in `do_run_one` or in a call.  A section under `mutex_` is
one step; `mutex` is kept as a variable because `task_cleanup` and `work_cleanup`
return to the head of the loop with the lock.  `outstanding_work` is loaded and
stored in two steps (`reg` is the register); `lost_work` is history: what overlapping updates
have lost of it, negative when decrements were lost.  `Merged` lets `list::merge`
interleave in any order, which is what a merge by address amounts to.  The reactor
is in the module as far as the scheduler sees it: `Event` makes a descriptor ready,
`Poll` queues op_sets, `PerformIo` completes some of what waits on one.
`InterruptWakes` is FALSE: `epoller::interrupt` modifies a descriptor that was never
added to the epoll set.  One thing is left out on purpose: the loop of
`task_cleanup` over `private_outstanding_work`, which is zero whenever it is
reached, since only a handler makes it grow and `work_cleanup` clears it.

**WebGateway.**  An endpoint is its connection, its handle and its descriptor.
`peer`, `unread`, `registered` and `pending` are the kernel's view of a descriptor,
with the rules of edge-triggered epoll; `link` and `callback` are the SDK's view of
a connection.  A callback's section under the lock is one step.  `RecvThread` is
`EpollWait`, `NextEvent`, `HandleIn`, `Recv`, `Send`, `HandleHup`; in `pc = "read"`
and `"send"` it holds the lock.  `stale` marks an event whose descriptor has been
closed since it was reported; it is history and guards nothing.

**SocketIo.**  A connection is the two buffers of the kernel, counted in units; `entry` and
`edge` are what epoll has of a descriptor, with an edge reported once.  `slot` holds the
op_sets at the addresses the pool hands out; `sock` is `descriptor_` and
`descriptor_data_` of a socket object.  `StartOp` is `epoller::start_op` with its
speculative call, `Detach` and `CloseFd` the two parts of `do_close`, between which the
op_set is already in the pool and the descriptor still in epoll.  `Poll` writes results into
op_sets; `TakeSet` gives one to a thread, with a pointer that may be stale by then.
`op_set::perform_io` is taken apart: a `DoWork` for each `do_work`, `EndIo` when the queues of
the events in hand are empty or have one that must wait.  From its first `do_work` to `EndIo`
the thread holds the op_set's mutex (`cur[t].locked`), which others wait for (`Unlocked`); the
peer does not, and may send or read between two operations.  The other sections under an
op_set's mutex are one step.  `errno` is 0 or a stale
`EAGAIN` (`StaleErrno`).  Version "old" is `deviceagent/deviceagent/io`.
`overwritten` is history: op_sets for which one poll reported a closing descriptor and a
new one, so that one result overwrote the other.

**BufferList.**  `heap` is the elements with their fields as the code keeps them: sums,
cursor and end live in the head and are stale elsewhere.  Sums wrap at `SizeMod`.
`Items` is found as the code finds it, by following `next`; `Charge` is a turn of the second
loop of `set_bytes`, and `Charged` all of them.

**DeviceAgent.**  `pc` is the main loop's place between two looks at a flag; a callback is
cut where it writes a flag.  One module has the three loops (`opt.prog`, `opt.mode`) because
their code is the same but for the order and the flags they have.  `wantCon` and `wantMsg`
are history: what has been asked for and not yet begun.

**IovTransfer.**  A byte is its place in the message, so that order, loss and
repetition show.  `Move` is a `writev` or `readv` that moves some bytes, `NotReady`
a `select` that times out, `TryAgain` EINTR and EAGAIN.  The two loops differ in what
they charge to the time (`Cost`).

**LocalRpc.**  A message is counted in parts as the server reads them.  `Accept`,
`FetchHead`, `FetchParams`, `FetchFails` and `Reply` are `drpc_srv_routine` with
`dispatch`; `Connect`, `SendRequest`, `RecvReply`, `RecvClosed` and `CliTimeout` are
`drpc_cli_plus`.  SIGPIPE has its default disposition, which nothing in the file
changes.

**Chat.**  A handler of the server is one step, since one thread runs its io_service; a
client's two threads meet in posted calls, each one step.  A message is two units on the
wire, header and body; an `async_write` is under way from its call to its handler, so that
two at once could mix.  `log`, `since`, `got` and `printed` are history.

**EpollEcho.**  Server and client each have one buffer, whose characters may be NUL.  A write
sends what `strlen` finds (`String`), or, from a buffer that is full and has no NUL, that and
a character of the memory behind it (`Strings`, with `Junk` for that character).  `emixed`
and `kmixed` mark the connections whose data shared the buffer with others', or filled it; in
these interleavings the code gives wrong answers.  `due` and `kdue` are what the others
are to be given: the part of each read before its first NUL.

**HalfAsync.**  A host's socket with its edge; `handler` reads at most `ReadMax` per event.

**MessageServer.**  A connection is a job of `JobPool`; `AddWorker` and `ThreadDo` are steps
of that pool, `ThreadDo` either half of a start.  A worker stays with its connection until the client closes or is cut.

**UnstablePool.**  `queueSem` is the semaphore, `wpc` a worker's place in
`thpool_thread_do`.  It starts with one token too many, so a worker can read through a null
pointer: `crashed` ends the process.

**MessageType.**  Memory is a function from positions to bytes; `beyond` counts the bytes
written past the allocation.  `NextField` is a turn of `unpacket_message`'s loop.

**IostreamConnection.**  `AllTurn` and `StreamTurn` are a turn of the loops of `read_all` and
`read_from_stream`.  The reading half is one record, with counts of requests made and
handlers called; a handler that makes the next request runs inside the call that completes the
last one.  The writing half is separate; there a write through a vector of buffers may fail
like the others.

**Exercises.**  Each function is an operator over bounded inputs, next to the definition of
what it should return.  `_resolvev6` is a function of the addresses the name has, of the
descriptors that are free, and of the connects that fail: a failed IPv4 connect is tried
again without closing its socket, until one succeeds or `socket()` fails.

## Runs

| run | checks | shows |
|---|---|---|
| `ThreadPoolPromise` | `PoolIsSound` `WorkConserving` `NothingUsesFreedPool` `ImplementsJobPool` `QueuedJobStarts` | signalling after the unlock is sound, jobs start in order and each of them starts, shutdown is overtaken by one job at most, and the pool is freed after its last use, whenever it is destroyed |
| `ThreadPoolDestroy` | `DestroyReturns`, refuted | the broadcast of `thpool_destroy` can be missed |
| `TaskIoPool` | `QueuesAreSound` `NoStrandedWork` `OpInOnePlace` `WorkIsExact` `NoEarlyStop` | with two threads in `run()` and one outside, the queue, the idle stack, the poller and the op_sets stay consistent in every interleaving, the counter is wrong only by lost updates, and unless one was lost the service stops itself only when it has nothing left; the same for a service built for one thread |
| `TaskIoProgress` | `QueuedOpIsTaken` | queued operations are taken, if only because a poll times out |
| `TaskIoStop` | `StopInterruptsPoll`, refuted | `stop` does not end a poll |
| `TaskIoShutdown` | `ShutdownDestroysTasks`, refuted | waiting operations outlive `shutdown_service` |
| `SocketIoSafety` | `NoLostEdge` `OperationsAreSound` `SetHasOneSocket` `InOrder` | edges, op_sets and descriptors stay in step through speculative calls, closing and reuse |
| `WebGatewaySafety` | `EndpointsAreSound` `NoEndpointAfterClose` `ReadinessIsKept` `HangupNamesItsEndpoint` | endpoints, sockets and epoll stay in step through closing, reconnecting and reuse of descriptors |
| `WebGatewayAssert` | `SendAssertHolds`, refuted | a connection lost at the wrong moment ends the process |
| `Programs` | `ProgramsTypeOK` | |
| – chat | `NoGaps` `NothingMixes` `EveryoneHears` | joining, speaking and leaving in any order leave no gap, and no two writes mix |
| – echo | `EchoesItself` | a client gets its own data back, each read up to a NUL, but in the marked interleavings |
| – half-async | `NothingIsMissed` | one read per edge misses data only after a full read |
| – messages | `EveryoneIsServed` | connections beyond the number of workers are served in the end |
| – pool test | `TokensMatchJobs` `UnstableDestroyReturns` | no job is left without a token; the destroyer returns or the process has crashed |
| – local rpc | `GivenUpIsClosed` `ImplementsRemoteCall` `ServedInTurn` | calls run at most once, a result means that the call ran, and nobody is starved |
| `Routines` | | |
| – agent | `NoRequestLost` `Reregisters` `ConnectionsAreListed` `RequestsEnd` | flags, callbacks and keys in any order lose nothing |
| – transfer | `TransferIsExact` | no partial transfer loses, repeats or moves a byte, and 0 means a whole message, also when the last byte uses up the time |
| – buffers | `ListsAreSound` | appending, transferring and splitting keep the sums and, for equal buffers, the cursor |
| – message | `MessagesAreUnderstood` | what is packed is unpacked, and no more than two bytes are written past the buffer |
| – connection, output | `RequestsAreAnswered` | each request is answered once, and what a writer was told has arrived |
| – exercises | `RightAnswers` | the functions return what they are asked for |
| `LocalRpcPipe` | `ServerSurvives`, refuted | an impatient caller ends the server |

Some properties are conjunctions of parts with names of their own: `PoolIsSound` is `TypeOK`,
`SizeIsLength`, `InsideHoldsLock` and `OneOwner`; `QueuesAreSound` is `TypeOK`, `OneTask` and
`SetQueuedOnce`; `EndpointsAreSound` is `TypeOK`, `SocketsOwned` and `KeyUnique`; `OperationsAreSound`
is `TypeOK` and `WaitsOnItsOwn`; `TransferIsExact` is `TypeOK`, `InOrder` and `ZeroMeansAll`;
`ListsAreSound` is `BufferTypeOK`, `ListsAgree` and `CursorIsRight`.

`NoEndpointAfterClose` and `HangupNamesItsEndpoint` say exactly how far the gateway
keeps its promise: an endpoint can outlive its connection in the vector, but only
after the gateway itself closed the connection while a message was waiting for the
lock; a healthy session can be ended, but only by a stale event.

`++` and `--` of `outstanding_work_` lose updates as soon as two threads use the service (the
declaration has a `TODO atomic`): the counter is then too low, and the service stops early, or
too high, and it never stops by itself.  That is what the code does, and the model has it.
`lost_work` records what was lost, and `WorkIsExact` and `NoEarlyStop` say that nothing else is
wrong: the counter is off by exactly that, through posts, starts, cancels, polls without a
completion and the private work of handlers, and a service that has not lost more increments
than decrements stops itself only when nothing is outstanding.

`NoLostEdge`, `EchoesItself`, `NothingIsMissed`, `MessagesAreUnderstood` and `RequestsAreAnswered`
name in the same way the cases in which the code does not do what one would like, and say
that there are no others.

## Bounds

* `ThreadPoolPromise`: 3 workers, 2 clients, 4 jobs, so that a queue of several
  jobs, several sleepers, a second signal and a worker that comes back for another
  job all happen.  The theorems lift the bound for safety.
* `TaskIoPool`: 2 threads in `run()`, 1 outside, 2 operations, 1 descriptor.  Two of
  each are what a race over the task, the idle stack or an operation needs.
  A service's `bound` lets an event come only while `|outstanding_work| <= bound`: a
  lost update repeated for ever would move the counter without end.
  Of the services built for one thread, whose scheduler keeps the work of handlers to itself
  in another way, one is alone and has 3 operations, so that a handler can post or start two
  others; another is also called from outside, with 2 operations.  `TaskIoProgress` has 1 operation, for the cost of liveness.
* `SocketIoSafety`: 2 threads, 2 op_set addresses, 2 descriptors and 3 calls of `socket()`.
  In one scope one socket has two operations in both directions and room for 2 units, so
  that a transfer can be partial and an operation wait behind another; in the other two
  sockets with room for 1 unit open and close in turn, so that an op_set and a descriptor
  pass from one to the other while a poll or a thread holds the old pointer.
* `WebGatewaySafety`: 2 connections, 2 handles, 2 descriptors: the smallest instance
  in which a descriptor passes from one connection's endpoint to another's, a
  batch holds two events, and descriptors run out.  `MaxRetry` is 1 there and the
  code's 10 in `WebGatewayAssert`.
* `Programs`: `Cap` 1 and `max_recent_msgs` 1 make chat sessions wait in the middle of a
  message and the history forget; a client speaks two lines while the other comes and goes.
  `MAXSIZE` 3, with a peer of the echo server that sends up to 3 characters and one that sends 1,
  each of them NUL or not: the buffer is filled, a NUL stands before, between and behind other
  characters, and connections share the buffer.  `ReadMax` 2,
  `HCap` 3 and `Total` 3 let a read fill up and leave data.  `Workers` 1 with 2 clients of 2
  messages, one of which is cut and reconnects: a connection waits behind another's.  3 workers
  and 3 jobs for the first pool.  2 calls of plus and 1 unknown, `Backlog` 1 and `MaxHandles` 2:
  the backlog fills up and the handles run out.
* `Routines`: the three main loops with 2 devices or 2 connections, so that one closes while
  another opens, and `MaxIds` 2 requests.  `MaxCount` 3 buffers of `MaxLen` 2 bytes and
  `MaxTimeout` 3: a first, a middle and a last buffer, each empty, cut or whole.  3 list
  elements of 0 or 2 bytes, set at any time.  4 fields of up to 3 bytes with `ShortMod` 16: the counters
  wrap.  5 requests of up to 3 characters, fed up to 5 at a time: a feed spans requests.
  In the exercises `IMax` 27 with `DigitMax` 1 stands for 2147483647 with digits up to 9, so
  that every branch at a limit is taken.

`CHECK_DEADLOCK FALSE` is set where the system may stop: a freed pool, an
application that has left the service, a failed assertion, a loop that has
returned, a server that has ended.

## Fairness

* **ThreadPool**: weak fairness for each worker and for a client or destroyer inside
  a call: the operating system goes on scheduling them.  A client need not call, and
  a sleeper need not wake by itself.  Weak fairness is
  enough for the mutex too: it does not matter which worker gets it, since each that does
  takes the head of the list.
* **TaskIoService**: strong fairness for a thread's steps inside the service.  They
  take `mutex_`, which others take again and again but leave for the length of a
  poll or of a handler; that such a thread gets the mutex in the end is the one
  assumption, and handlers return.  A blocking poll ends, at the latest with its
  timeout (`PollTimeout`).  No event and no call is assumed.
* **Chat**, **MessageServer**, **UnstablePool** (in `MCPrograms`, while the program runs): weak
  fairness of each thread or io_service, and of a connection that has something on its way.
  Users need not type, clients of the message server go on with their loop, and the network
  need not cut anything.
* **LocalRpc**: weak fairness for the server and for a caller's send and receive.
  `FetchFails` is the server's own timeout; the callers' timeouts are not relied on.

## Proofs

### Thread pool

`ThreadPoolProofs` proves, from `ThreadPoolAssumption` alone (finite sets of workers,
clients and jobs, at least one worker, an owner among the clients, distinct values), for every
number of workers, clients and jobs:

| theorem | property |
|---|---|
| `TypeCorrect` | `TypeOK` |
| `SizeAgrees` | `SizeIsLength` |
| `MutualExclusion` | `InsideHoldsLock` |
| `NodesHaveOneOwner` | `OneOwner` |
| `PoolStaysSound` | `PoolIsSound`, the four above |
| `FreeIsSafe` | `NothingUsesFreedPool` |
| `WakeupsAreNotLost` | `NoLostWakeup` |
| `WorkIsShared` | `WorkConserving` |
| `PoolKeepsPromise` | `ImplementsJobPool` |

The argument:

1. `LockInv` is inductive.  Besides the types and the two invariants `SizeIsLength`
   and `InsideHoldsLock` it needs what the critical sections rely on: the destroyer
   has raised the flag (`DestroyerRaisedFlag`), it frees the pool only when all
   workers are out (`FreedAfterExit`), and a worker about to sleep still holds the
   mutex under which it saw the list empty (`BlockSawEmpty`).  Without the last,
   `CondWait` could put the last worker to sleep beside a queued job.
2. `OwnerInv` adds to `OneOwner` that a worker holds a node exactly while it runs it,
   so that a node is returned only by the worker that took it.
3. `NoLostWakeup` is inductive relative to `LockInv`: the only steps that can complete
   its hypothesis are `CondWait`, which `BlockSawEmpty` excludes, `AddWorker`, which
   leaves its signal to be sent, and `Signal` itself, which wakes a sleeper.
4. `WorkConserving` counts: each step changes the length of the list, the awake
   workers and the signals on their way by one at most, and the lemmas on
   cardinalities balance the two sides.
5. Refinement: each step is a step of `JobPool` or a stutter; a start is claimed while a
   worker is at `"take"`.  The hard one is `FindWork`, which must show that fewer jobs run
   than there are workers: `RoomForOneMore` maps the running jobs one to one into the
   workers other than the one that claims.  `ClaimIsInside` says that the one that claims holds
   the mutex, hence is the only one, and `TakeSawWork` that the list it saw is not empty
   when it takes the head, since only the holder of the mutex takes and the pool is not freed
   before it is out.

### Gateway

`WebGatewayProofs` proves, from `WebGatewayAssumption` and `NoneAssumption` (finitely many
descriptors, a number of retries, and a `None` that is nothing else), for every number of
connections, handles and descriptors:

| theorem | property |
|---|---|
| `GatewayTypeCorrect` | `TypeOK` |
| `EverySocketIsOwned` | `SocketsOwned` |
| `HandleMeansOneEndpoint` | `KeyUnique` |
| `EndpointsStaySound` | `EndpointsAreSound`, the three above |
| `NothingAfterLastCallback` | `NoEndpointAfterClose` |
| `NoEdgeIsLost` | `ReadinessIsKept` |
| `OnlyStaleEventsMislead` | `HangupNamesItsEndpoint` |

The inductive invariant is `GateInv`.  To the invariants it proves it adds four things the
code relies on without saying so:

* `RecvKnows`: where `RecvThread` is tells what it knows of the event in its hand.  In
  particular the endpoint found before a read is still there after it, because the lock
  is held; without that `Send` might find nobody to send to.
* `HupIsTrue`: a hang-up once reported stays true until its descriptor is closed.  The
  action property `HangupNamesItsEndpoint` is a consequence.
* `UnreadIsOpen`: a new socket does not start with somebody else's bytes; otherwise
  `NewEndpoint` and `Forward` would owe an event for them.
* `CallbackHasConnection`: a callback belongs to a connection in the vector, to one about
  to be put there, or to one closed from this side.  It is what limits
  `NoEndpointAfterClose` to the case it names.

All the actions that close or make sockets go through one lemma, `SocketsStep`: if the
endpoints that go and the one that comes agree with the descriptors that are closed and
made, and the new descriptor is free once the old ones are closed, the kernel's part of the
invariant is kept.  The steps of `RecvThread` with an event in its hand go through another,
`SameEvent`.

### RPC calls

`LocalRpcProofs` proves, from `LocalRpcAssumption` alone, for every number of calls and
handles:

| theorem | property |
|---|---|
| `RpcTypeCorrect` | `TypeOK` |
| `NoHandleForgotten` | `GivenUpIsClosed` |
| `RpcKeepsPromise` | `ImplementsRemoteCall` |

The invariant `CallInv` says that the server reads only parts that were sent, and each
sender has parts left (`PartsInOrder`), that the server holds a call only between accept and
reply (`CurIsServed`), that a call waits before it is served and runs when its parameters are
there (`StagesInOrder`), and that a reply exists only after the call ran (`ReplyMeansRun`).
The refinement needs the last two: a result may reach a caller whose server has gone on to
the next call.

### First thread pool

`ProgramProofs` proves `TokensAlwaysMatch`, that is `TokensMatchJobs`, from
`UnstableAssumption` for every number of workers and jobs.  `PoolInv` is inductive: the jobs in
the queue are the ones that were added and have not started, in order (`InSequence`), and while
the pool is alive the tokens in the semaphore and in the hands of workers are one more than
the jobs (`Tokens`).  A worker that has a token and is about to take a job may be the one
too many; it crashes, and nothing moves after that.

### Half-asynchronous client

`ProgramProofs` proves `NothingIsEverMissed`, that is `NothingIsMissed`, from `HalfAssumption`
for every number of hosts and bytes.  For the demo `HalfInv` says that what is left in a socket has
an event or was left by a read that filled the buffer (`SendInv`).  For `server.c` it follows
each connection: one that nobody has read from still holds all that was sent (`Untouched`); of
the one in hand, the bytes counted and those in the socket are what was sent (`Counted`); a
report is of a connection that was closed, and complete (`Reported`); and who waits to be
accepted waits once and was never served (`Pending`).

### Sockets

`SocketIoProofs` proves, from `SocketIoAssumption`, for every number of sockets, threads,
op_sets, descriptors and operations:

| theorem | property |
|---|---|
| `SocketsStayApart` | `SetHasOneSocket` |
| `OperationsStaySound` | `OperationsAreSound` |
| `NoEdgeIsLost` | `NoLostEdge` |
| `TransfersAreInOrder` | `InOrder` |

1. *Registry.*  `RegistryInv` adds to `SetHasOneSocket` that an op_set on the free list is there
   once and nobody has it (`PoolIsApart`), that a descriptor in use is open, so the kernel does
   not give it to another socket (`DescriptorsAreOpen`), and that a descriptor without an op_set
   is in the hands of the one thread that is closing it (`ClosedByOne`).  The last is what keeps
   the two halves of `do_close` apart: the op_set is given back before the descriptor.
2. *Operations and edges.*  `SocketInv` adds the types, that two open descriptors are different
   connections (`FilesApart`), that an op_set nobody has is empty (`NobodysAreEmpty`), that an
   operation stands in one queue of one op_set (`Placed`), and, for every socket in use
   (`AllAreSound`), that its queues hold operations of its own descriptor and connection, each
   once, that epoll reports room for writing where a write waits (`IsWatched`), and that
   an operation at the head of a queue which could go on has an event on its way: at the
   socket's own descriptor, in the report of a poll, or in a thread's hands.
3. *Steps.*  Each step moves one socket; the others are aloof, that is, everything their part of
   the invariant speaks of is as it was.  The steps of the reactor that move no socket pass
   events on: what was at a descriptor is in its report (`Poll`, in whose order of reports each
   descriptor has its place), and what was in a report is in a thread's hands (`TakeSet`).
   Reuse is where it could fail: a thread may hold events of an op_set that another socket has
   by now; they are too many events for that socket, never too few.
4. `InOrder` is an action property: bytes go to the operation at the head of a queue, and a
   speculative call is made only when the queue is empty (`Speculates`).

### Scheduler

`TaskIoServiceProofs` and `TaskIoPlacesProofs`, which extends it, prove, from
`TaskIoAssumption` (finitely many threads, operations and op_sets, all distinct, and a
one-thread service that has one thread in `run()`), for services of any size:

| theorem | property |
|---|---|
| `OnePoller` | `OneTask`, a part of `QueuesAreSound` |
| `NoWorkIsStranded` | `NoStrandedWork` |
| `QueuesStaySound` | `QueuesAreSound` |
| `OneOpOnePlace` | `OpInOnePlace` |
| `WorkStaysExact` | `WorkIsExact` |
| `NothingIsAbandoned` | `NoEarlyStop` |

1. *One poller.*  The queues are merged in an order nobody knows, so the first lemmas are
   about `Merged`: `CountBetween` bounds how many elements of the second list stand before a
   position, `MergedShape` concludes that the others are the first list's, each once, and
   `MergedKeeps` that an element which is not in the second list, as the task never is in a
   private queue, stands in the result once if it stood in the first.  `ServiceInv` is then
   `OneTask`, the types of the queues, and that without a reactor there is no task
   (`TaskIsPlaced`).
2. *No stranded work.*  `WakeInv` adds that the idle stack holds threads that are asleep,
   each once (`IdleAreAsleep`), so that popping one wakes somebody; that only a poller can be
   in need of an interrupt (`OnlyPollersBlock`), so that `wake_one_thread_and_unlock` with an
   empty stack either marks the poller or finds it marked; that a stopped service leaves
   nobody to wake (`StoppedIsAwake`), which is what makes `reset` safe with a queue that is
   not empty; and that threads in `run()` are of this service (`InUse`), since a one-thread
   service passes nothing on and relies on being alone.  The theorem says that the poller has
   been told, not that it wakes: it does not (`TaskIoStop`), and waits for its timeout.
3. *Places.*  `PlacesInv` adds the types of the registers and switches, that nothing is linked
   twice, in one list or in two (`Listed`), that op_sets stand before the task and only a
   thread just back from its poll has some of its own (`SetsInOrder`), and, until shutdown,
   what each state of an operation means (`Lives`): a queued one is on a list (`Queued`), a
   waiting one on one op_set (`Waits`), a running one in one thread's hands (`Runs`), and
   what `perform_io` has taken off an op_set is in its thread's list of completions
   (`Deferring`).  Sorting by address is again what makes this hard: `MergedTurned` (a merge
   seen from its other list is a merge), `MergedHas` (a merge holds what the two held,
   each once) and `MergedOrder` (the first list keeps its order) carry the merges, and
   `OrderLists` (what is drained in any order is listed once) the cancels and `perform_io`.
   After shutdown no thread is in the service and nothing is
   queued (`Over`).
4. *The count of work.*  `WorkInv` has two parts.  `PrivateInv` says that a thread keeps work
   for itself only inside a handler and in `work_cleanup`.  `Balance` is `WorkIsExact`: the
   counter, what was lost and what handlers keep (`Kept`) are together the outstanding
   operations and what threads still owe at their places in the code (`Owing`).  It holds for
   any number of threads because a store is put into the balance with its loss: what
   another thread has counted since the load goes from the counter to `lost_work` (`Loses`).
   There is a lemma for each kind of step: those that move nothing (`Neutral`), those that move a
   unit between an operation and the thread that owes it, those that settle the kept work.
   `NothingIsAbandoned` is an action property: the counter is 1 where `work_finished` takes
   the last one away, or 0 where `run` looks, nobody who owes can be left, and no
   increment was lost, so the outstanding operations are none (`StopsWhenDone`).

### Client mode and the older gateway

`RoutineProofs` proves, from `DeviceAgentAssumption` alone, for every number of devices,
connections and ids:

| theorem | property |
|---|---|
| `RequestsAreKept` | `NoRequestLost` |
| `DevicesComeBack` | `Reregisters` |
| `ConnectionsStayListed` | `ConnectionsAreListed` |
| `EveryRequestEnds` | `RequestsEnd` |

`AgentInv` joins the types and the first three with what they rest on: request numbers are
given once (`Numbered`), what was begun with `'t'` and not ended is on the list of ids
(`Remembered`), only open connections have endpoints (`EndsAreOpen`), and a callback under way
is about the state that caused it (`CallbacksFollow`), so that none can list a connection
that another has closed meanwhile.  `ErasedLeaves` is the lemma about the erasing loop: the
others stay, each once.  `RequestsEnd` is an action property; it is `Remembered` that gives it.

### Transfer loops

`RoutineProofs` proves `TransfersAreExact`, that is `TransferIsExact`, from `IovTransferAssumption`
for every number of buffers, their lengths and any timeout.  `IovInv` says that the buffers which
are left describe, in order, the rest of the message behind what has been moved (`RestIsLeft`),
and that `remain_bytes` counts it.  `RecalcKeeps` is the lemma about `__recalc_iovec`: dropping
the whole buffers that were moved and cutting the next one leaves the rest of the message,
wherever the call stopped; `FirstBytesFollow` says that what a call moves is then what comes next.
The bytes of a vector are found by its ends (`End`), so the lemmas before them are about sums of
lengths: `EndsAscend`, `EndsPass`, `FirstBytesFollow`.

### Stream connection

`RoutineProofs` proves `EveryRequestIsAnswered`, that is `RequestsAreAnswered`, from
`ConnAssumption` for requests and feeds of any size.  `ReadInv` says of the reading half that either
a request is open and owed exactly one call, with what has been taken and not reported in its
buffer (`Owed`), or all are called and all is reported (`Settled`).  A handler makes
the next request inside the call that completes the last one, so the invariant must hold in
the middle of a feed: `ReadSomeAnswers` and `StreamTurnAnswers` prove it for one turn,
`FedAllAnswers` and `FedStreamAnswers` for any number of them.

### Message packing

`RoutineProofs` proves `MessagesStayUnderstood`, that is `MessagesAreUnderstood`, from
`MessageTypeAssumption` (the first buffer holds the type and its length fits 16 bits, and so does a
field's) for any number of fields and arguments.  `CmsgInv` has two halves.  The
memory that is there is at least what `buf_len` says, wrapped or not, and `RoomIsEnough` finds the
turn in which `push_cmsg`'s loop over `MAX_CMSG_BUF_SIZE` ends; hence the two bytes.  And until
`msg_pos` wraps the fields are laid out one behind the other (`LaidOut`), kept by `push_cmsg`
(`PushedIsLaidOut`) and `end_cmsg` (`EndedIsLaidOut`).  `LoginReads` then follows the loop of
`unpacket_message`: turn by turn it stands at the next field and has copied those before
(`NextFieldTakes`), and once it has stopped it copies nothing more.

### Scatter buffers

`RoutineProofs` proves `ListsStaySound`, that is `ListsAreSound`, from `BufferListAssumption`
(finitely many elements, lengths that are a `size_t`) for every number of elements, any lengths
and any order of calls, and also when the sums of lengths wrap.  The invariant finds the lists
without following pointers: there are `L` and `P`, the list and the place of every element
(`InLists`), and `next`, `prev` and `head` are what `L` and `P` say (`Linked`), count and total
of the head those of the list (`Counted`), the cursor an element of it or null (`Cursors`).
`FromIsTheRest` shows once that following `next` finds what `L` has; after that `append`,
`split_from_cur` and `reset` are operations on sequences (`Together`, `Parted`, `Apart`).  A sum that
wraps at each addition is the sum that wraps at the end (`SizesWrap`), which joins and cuts
totals (`SumOfTwo`).  For the cursor `ChargedFills` follows the loop of `set_bytes` turn by turn:
with buffers of one length those before the last are full, that one has the rest, and the cursor
stands there or, when it is full too, behind it; `FilledAddsUp` concludes that the bytes in the
buffers are those that were transferred.  That the lengths are equal is the hypothesis of
`CursorIsRight`, as the code charges the length of the object it was called on.

The loops of these four are recursive functions over the numbers of their turns.  That such a
function exists, and what it is after any number of turns, is proved by induction; the rule is
`NaturalsWithZeroAndNext`: a set that has 0 and with every number the next one
has all of them.  It is a statement about sets, proved from the well-foundedness of `<`, and so
needs no operator as a parameter.

### Chat

`ProgramProofs` proves, from `ChatAssumption` (finitely many participants), for every number
of them and of lines, and every capacity of the connections:

| theorem | property |
|---|---|
| `NobodyMissesOne` | `NoGaps` |
| `WritesNeverMix` | `NothingMixes` |

`ChatInv` follows a message from the keyboard to every screen.  Lines that are posted to the
io_service continue those that have run (`PostedInv`); at most one write is under way on a
connection, and it is of the first message in its queue (`OneWrite`).  What is on the wire is
in step with what the reader has taken, header and body in turn (`InStep`), and the lengths
balance (`Between`): twice the messages read, one for a header already read, and the wire,
are twice the messages written and what the socket has taken of the next.  Neither is
inductive without the other: one says that no message is mixed with another, the other that
none is missing.  `UpInv` uses both for the way to the room and `DownInv` for the
way back; `RoomInv` says that the recent messages are the end of what was said, so that who
joins is given a gapless part, and `InOrderInv` that a user's n-th line in the room is
the n-th he typed.

### Epoll echo

`ProgramProofs` proves `EchoIsExact`, that is `EchoesItself`, from `EchoAssumption` for every
number of connections, every length of what they send, and every size of the buffer.  Of the server, `EchoServerInv` says that a
connection that has not shared the buffer is the only one owed an answer, and the buffer is
not full (`HasTheBuffer`); and what it is due is what it has written and what the buffer
holds before its first NUL (`Answered`), and all of what it has sent if it sent no NUL.  Of the client, `EchoClientInv` says that its buffer holds only typed
lines until the socket has been read, and that it reads only after it has printed.

### Only model-checked

* All liveness (`QueuedJobStarts`, `QueuedOpIsTaken`, `EveryoneHears`, `EveryoneIsServed`,
  `UnstableDestroyReturns`, `ServedInTurn`), which is out of reach of the prover; and with it
  `MessageServer`, of which only this and its type are stated.
* `RightAnswers`: what the exercises compute is defined with the folds and searches of the library.
* `ProgramsTypeOK`, which gathers the types of six programs in one instance.  The inductive
  invariants of those that are proved about say what their proofs need of the types.

## Where the code and its comments disagree

* `thread_pool.c:69`: the flag is raised without the mutex; `thpool_destroy` can wait
  for ever (`ThreadPoolDestroy`).
* `epoll.hpp:390`: `interrupt` wakes nobody (`TaskIoStop`).
* `task_io_service.hpp:235`: `shutdown_service` leaves waiting operations behind
  (`TaskIoShutdown`).
* `deviceagent.cpp:1772`: the assertion fails when a client is lost
  (`WebGatewayAssert`).
* `drpc_core.cpp:128`: SIGPIPE (`LocalRpcPipe`).

The traces are TLC's; each is a few steps long and can be had with
`tlc -config <run>.cfg <module>`.

### Noticed while modelling

These are properties of the code that the models have, or that show in the lines they
stand for; no comment or test of the repository says otherwise, so no run refutes them.

* **Sockets.**  A closing descriptor and a new one may share an op_set in one poll, and the
  second result overwrites the first (`epoll.hpp:364`, `384`).  A read of the end of the stream
  keeps a stale `errno`; after `EAGAIN` it waits for an edge that has been spent
  (`socket_read_op.hpp:64`).  The older `start_read_op` forgets an operation that has
  nothing to read.
* **Scatter buffers.**  `set_bytes` charges the length of the object called on
  (`socket_op_decl.hpp:213`); `split_from_cur` leaves the second half's end and cursor stale;
  appending to a list that is used up leaves the cursor null.
* **Device agent.**  With two connections `'y'` sends each server the other's ids, and the
  server makes endpoints for them that no later `'y'` ends (`deviceagent.cpp:715`, `1513`).
  A first `DeviceInit` that is refused is not tried again.  Flags are looked at after a key
  only.  The exit loop closes the descriptors below 0 and leaks the others (`1581`).  `parse`
  lets negative options through.
* **Message packing.**  Up to two bytes are written past the buffer (`message_type.c:66`,
  `104`).  The server reads one message per `recv` and drops what came with it
  (`server_handler.c:14`).
* **First pool.**  The semaphore starts at 1, so a worker may dereference a null job
  (`thread.c:36`, `104`).
* **Thread pool.**  A worker that has read the flag as 0 starts its job even when
  `thpool_destroy` raises the flag before it takes the job (`thread_pool.c:115`, `130`).
* **Echo.**  Clients can be given each other's data; the answer to a read ends at its first
  NUL (`serv.c:135`); a read that fills the buffer leaves it without a NUL; a peer that has gone ends the server by SIGPIPE.
* **Half-async.**  A read that fills the buffer leaves the rest without an event
  (`demo.cc:34`).
* **Iostream connection.**  A bad stream with a full request completes it twice, and
  `handle_indef` calls itself without end when requests are refused; a stream that has
  failed and is not bad drops what is written and reports success.
* **Exercises.**  `myAtoi` returns 2147483640 for "21474836401"; `_resolvev6` tries IPv6 only where
  there is no IPv4 address other than 0, and when an IPv4 connect fails it tries again without
  closing its socket: it returns -1 when a connect succeeds or no descriptor is left
  (`resolve6.c:82`).

## What is not modelled

* Memory exhaustion, which the code answers with `assert` or not at all.
* In the proactor: the queue of exceptional operations, which nothing starts; socket options and
  addresses; the lifetime of the events on the threads' stacks; `run_one`, `poll`, `poll_one`
  and `start_accept`, which are declared and not defined.
* In the gateway and the agent: the copies of streams into files, the login to the device,
  the width of ids, the text of requests, what the SDK does inside `ConnectionClose`, and
  `SendThread`, which nothing starts.
* In the RPC: the header's fields and the demonstration in `main`; `rpc_call_srv`
  and `rpc_plus_cli`, an earlier form of the same calls.
* In the stream connection: `async_shutdown`, and `eof()`, which does not compile.
* The SDK, which is binary; what the programs use of it is marked external.
* `4-findMedianSortedArray` and `11-Container`, which are unfinished, and the template, which
  only prints; in `_resolvev6` the two `memcpy` that copy a whole address to its last field,
  and so write behind it (`resolve6.c:41`, `45`); `important_backup`, which nothing includes; the stubs of `PA/transport`,
  `device_agent`, `udx_agent`, which have no behaviour.

## Plan

Done: every component but the stubs and the SDK is modelled, at least in part, and checked; the
two thread pools, the scheduler, the sockets, the gateway in both its modes, the RPC calls and their
transfer loops, the stream connection, the packing of messages, the scatter buffers, the chat room,
the echo server and the edge-triggered demo are proved safe.

What is left:

1. Composition of `SocketIo` with `TaskIoService` in one module, by way of the op_sets that are
   queued: now each has the other by its promise.
2. The gateway's two modes over one SDK: `WebGateway` has the messages of the client mode as
   its environment, `DeviceAgent` the answers of the server mode.
3. A second instance of `Chat` with three participants, and of `SocketIo` with three op_sets.
