----------------------------- MODULE TaskIoService -----------------------------
(***************************************************************************)
(* The scheduler of the proactor library,                                  *)
(* src/deviceagent/2deviceagent/io/async/task_io_service.hpp: threads      *)
(* inside run() share one queue of operations.  One special element, the   *)
(* task, stands for the reactor: whoever takes it off the queue polls.     *)
(*                                                                         *)
(* The reactor appears here by what it does to the scheduler: a poll turns *)
(* ready descriptors into op_sets on the poller's private queue, and an    *)
(* op_set that is run completes some of the operations that wait on it.    *)
(*                                                                         *)
(* A critical section under mutex_ is one step.  The mutex is a variable   *)
(* because two paths (task_cleanup and work_cleanup) come back to the head *)
(* of the loop with the lock still held.  outstanding_work_ is a plain int *)
(* that every thread updates without a lock: each ++ and -- is a load and  *)
(* a store.                                                                *)
(***************************************************************************)
EXTENDS Integers, Sequences, FiniteSets

CONSTANTS Runners,     \* threads that call run()
          Users,       \* other threads that use the service
          Ops,         \* operations with a handler: posted ones, reads, writes
          Sets,        \* the reactor's op_sets, one per descriptor
          Task,        \* &task_operation_
          None,        \* no thread, no operation
          Services     \* the services a behaviour may be of: see service

Threads == Runners \cup Users

ASSUME TaskIoAssumption ==
    /\ IsFiniteSet(Runners) /\ Runners \cap Users = {}
    /\ IsFiniteSet(Ops) /\ IsFiniteSet(Sets)
    /\ Ops \cap Sets = {}
    /\ Task \notin Ops \cup Sets
    /\ None \notin Threads \cup Ops \cup Sets \cup {Task}
    /\ \A x \in Services :
          /\ x.one_thread \in BOOLEAN
          /\ x.threads \subseteq Threads
          /\ x.one_thread => \A r, s \in x.threads \cap Runners : r = s
          /\ x.ops \subseteq Ops
          /\ x.bound \in Nat

VARIABLES
    service,           \* one_thread: the member one_thread_, set for a service
                       \* built with hint 1; threads, ops: those in use; bound:
                       \* events come while |outstanding_work| <= bound
    \* shared state, under mutex_
    mutex,             \* the runner at the head of its loop with the lock held
    op_que,
    task_interrupted,
    stopped,
    idle,              \* the stack first_idle_thread_, top first
    poller,            \* whether the reactor exists
    shutdown,
    \* shared state without a lock
    outstanding_work,
    \* each thread
    pc,
    in_run,            \* the runners with a frame of run() on thread_call_stack
    reg,               \* the value a ++ or -- has loaded (0 outside one)
    arg,               \* the operation of the call the thread is making
    deferred,          \* operations of post_deferred_completions
    \* each runner
    signalled,         \* wakeup_event->signalled_
    block,             \* the argument of poller_->run (FALSE outside a poll)
    private_op_que,
    private_work,
    cur,               \* the operation the runner took off the queue
    \* the reactor
    waiting,           \* [Sets -> operations queued on the op_set]
    set_mutex,         \* [Sets -> the thread inside start_op, or None]
    ready,             \* op_sets whose event epoll has not reported yet
    \* history
    status,            \* [Ops -> where the operation is in its life]
    lost_work          \* the units overlapping updates of outstanding_work_
                       \* have lost, less those they have added

queueVars == <<mutex, op_que, task_interrupted, stopped, idle, signalled>>
lifeVars == <<service, poller, shutdown>>
workVars == <<outstanding_work, lost_work, reg>>
runnerVars == <<block, private_op_que, private_work, cur>>
reactorVars == <<waiting, set_mutex, ready>>
callVars == <<in_run, arg, deferred>>
vars == <<queueVars, lifeVars, workVars, runnerVars, reactorVars, callVars,
          pc, status>>

Elements == Ops \cup Sets \cup {Task}

(***************************************************************************)
(* Where a thread is.  "out" and "handler" are code of the application,    *)
(* outside run() and inside a handler: there a thread may call the service.*)
(***************************************************************************)
ApiPc == {"post_store", "post_push", "start_store", "defer"}
Pc == ApiPc \cup
    {"out", "stop_out", "top", "wait", "poll", "polled", "set", "set_defer",
     "none_load", "none_store", "handler", "clean", "finish_store",
     "finish_stop", "clean_store", "merge"}

Status == {"new", "waiting", "starting", "posting", "queued", "running",
           "done", "destroyed"}

TypeOK ==
    /\ service \in Services
    /\ mutex \in Runners \cup {None}
    /\ op_que \in Seq(Elements)
    /\ task_interrupted \in BOOLEAN
    /\ stopped \in BOOLEAN
    /\ idle \in Seq(Runners)
    /\ poller \in BOOLEAN
    /\ shutdown \in BOOLEAN
    /\ outstanding_work \in Int
    /\ lost_work \in Int
    /\ pc \in [Threads -> Pc]
    /\ in_run \in SUBSET Runners
    /\ reg \in [Threads -> Int]
    /\ arg \in [Threads -> Ops \cup {None}]
    /\ deferred \in [Threads -> Seq(Ops)]
    /\ signalled \in [Runners -> BOOLEAN]
    /\ block \in [Runners -> BOOLEAN]
    /\ private_op_que \in [Runners -> Seq(Ops \cup Sets)]
    /\ private_work \in [Runners -> Nat]
    /\ cur \in [Runners -> Ops \cup Sets \cup {None}]
    /\ waiting \in [Sets -> SUBSET Ops]
    /\ set_mutex \in [Sets -> Threads \cup {None}]
    /\ ready \in SUBSET Sets
    /\ status \in [Ops -> Status]

Init ==
    /\ service \in Services
    /\ mutex = None
    /\ op_que = <<>>
    /\ task_interrupted = TRUE
    /\ stopped = FALSE
    /\ idle = <<>>
    /\ poller = FALSE
    /\ shutdown = FALSE
    /\ outstanding_work = 0
    /\ lost_work = 0
    /\ pc = [t \in Threads |-> "out"]
    /\ in_run = {}
    /\ reg = [t \in Threads |-> 0]
    /\ arg = [t \in Threads |-> None]
    /\ deferred = [t \in Threads |-> <<>>]
    /\ signalled = [r \in Runners |-> FALSE]
    /\ block = [r \in Runners |-> FALSE]
    /\ private_op_que = [r \in Runners |-> <<>>]
    /\ private_work = [r \in Runners |-> 0]
    /\ cur = [r \in Runners |-> None]
    /\ waiting = [s \in Sets |-> {}]
    /\ set_mutex = [s \in Sets |-> None]
    /\ ready = {}
    /\ status = [o \in Ops |-> "new"]

-----------------------------------------------------------------------------
(* Operators.  One whose name starts with "Slip" is a plausible mistake in *)
(* the operator that follows it: it is not part of the model.              *)

(* std::list::merge compares pointers, so what it does to two unsorted     *)
(* lists depends on where their elements happen to be allocated: each list *)
(* keeps its own order and they interleave in any way.                     *)
Merged(a, b) ==
    LET n == Len(a) + Len(b)
    IN {[i \in 1..n |->
            IF i \in at THEN b[Cardinality(at \cap 1..i)]
            ELSE a[i - Cardinality(at \cap 1..i)]] :
        at \in {at \in SUBSET (1..n) : Cardinality(at) = Len(b)}}

(* The orders in which a set of distinct operations may be listed.         *)
Orders(S) ==
    {f \in [1..Cardinality(S) -> S] : \A i, k \in DOMAIN f : f[i] = f[k] => i = k}

RangeOf(q) == {q[i] : i \in DOMAIN q}

Goto(t, to) == pc' = [pc EXCEPT ![t] = to]

(* Where an API call returns to.                                           *)
Home(t) == IF t \in in_run THEN "handler" ELSE "out"

(* A thread in application code, on a service that has not been shut down. *)
Calls(t) == t \in service.threads /\ pc[t] = Home(t) /\ ~shutdown

(* epoller::interrupt (epoll.hpp:390) modifies the interrupter's entry in  *)
(* the epoll set.  The constructor has never added one, and nothing writes *)
(* to the descriptor: the call fails and wakes nobody.                     *)
InterruptWakes == FALSE

(* poller_->interrupt() under the conditions its callers share.            *)
Interrupt ==
    IF ~task_interrupted /\ poller
    THEN /\ task_interrupted' = TRUE
         /\ block' = IF InterruptWakes THEN [r \in Runners |-> FALSE] ELSE block
    ELSE UNCHANGED <<task_interrupted, block>>

(* wake_one_idle_thread_and_unlock: the thread on top of the idle stack.   *)
WakeOneIdle ==
    /\ idle # <<>>
    /\ idle' = Tail(idle)
    /\ signalled' = [signalled EXCEPT ![Head(idle)] = TRUE]

SlipNoInterrupt ==
    /\ UNCHANGED <<task_interrupted, block>>
    /\ \/ WakeOneIdle
       \/ idle = <<>> /\ UNCHANGED <<idle, signalled>>

(* wake_one_thread_and_unlock: an idle thread, else the poller.            *)
WakeOne ==
    \/ WakeOneIdle /\ UNCHANGED <<task_interrupted, block>>
    \/ idle = <<>> /\ Interrupt /\ UNCHANGED <<idle, signalled>>

(* stop_all_threads.                                                       *)
StopAll ==
    /\ stopped' = TRUE
    /\ signalled' = [r \in Runners |-> r \in RangeOf(idle) \/ signalled[r]]
    /\ idle' = <<>>
    /\ Interrupt

(* The element at the front of the queue is the reactor task.              *)
TaskIsNext == Head(op_que) = Task

SlipTaskFirst(r) == Merged(Append(op_que, Task), private_op_que[r])

(* The queue as a poller leaves it: what it found is merged in, the task   *)
(* goes to the end.                                                        *)
Requeued(r) == {Append(q, Task) : q \in Merged(op_que, private_op_que[r])}

(* A poller is back: nobody waits in the reactor any more.                 *)
BackFromPoll == task_interrupted' = TRUE

(* A store of t puts its own update in the place of those the others have  *)
(* stored since t loaded.                                                  *)
Loses(t) == lost_work' = lost_work + (outstanding_work - reg[t])

(* The lock can be taken, or is still held by r.                           *)
Locks(r) == mutex \in {None, r}

-----------------------------------------------------------------------------
(* Calls of the application, from a user thread or from a handler.         *)

InitTask(t) ==
    /\ Calls(t)
    /\ ~poller
    /\ mutex = None
    /\ poller' = TRUE
    /\ op_que' = Append(op_que, Task)          \* task_interrupted_ is still true
    /\ \/ WakeOneIdle /\ UNCHANGED <<task_interrupted, block>>
       \/ idle = <<>> /\ UNCHANGED <<idle, signalled, task_interrupted, block>>
    /\ UNCHANGED <<service, mutex, stopped, shutdown, workVars, private_op_que,
                   private_work,
                   cur, reactorVars, pc, callVars, status>>

(* post_immediate_completion by a thread inside run() of a one-thread      *)
(* service: the operation and its unit of work stay private for a while.   *)
PostPrivate(r, o) ==
    /\ Calls(r)
    /\ service.one_thread /\ r \in in_run
    /\ status[o] = "new"
    /\ private_work' = [private_work EXCEPT ![r] = @ + 1]
    /\ private_op_que' = [private_op_que EXCEPT ![r] = Append(@, o)]
    /\ status' = [status EXCEPT ![o] = "queued"]
    /\ UNCHANGED <<queueVars, lifeVars, workVars, block, cur, reactorVars, pc,
                   callVars>>

(* The same by any other thread: ++outstanding_work_ ...                   *)
PostLoad(t, o) ==
    /\ Calls(t)
    /\ ~(service.one_thread /\ t \in in_run)
    /\ status[o] = "new"
    /\ reg' = [reg EXCEPT ![t] = outstanding_work]
    /\ arg' = [arg EXCEPT ![t] = o]
    /\ status' = [status EXCEPT ![o] = "posting"]
    /\ Goto(t, "post_store")
    /\ UNCHANGED <<queueVars, lifeVars, outstanding_work, lost_work, runnerVars, reactorVars,
                   deferred, in_run>>

PostStore(t) ==
    /\ pc[t] = "post_store"
    /\ outstanding_work' = reg[t] + 1
    /\ Loses(t)
    /\ reg' = [reg EXCEPT ![t] = 0]
    /\ Goto(t, "post_push")
    /\ UNCHANGED <<queueVars, lifeVars, runnerVars, reactorVars, callVars, status>>

(* ... then the push under the lock.                                       *)
PostPush(t) ==
    /\ pc[t] = "post_push"
    /\ mutex = None
    /\ op_que' = Append(op_que, arg[t])
    /\ WakeOne
    /\ status' = [status EXCEPT ![arg[t]] = "queued"]
    /\ arg' = [arg EXCEPT ![t] = None]
    /\ Goto(t, Home(t))
    /\ UNCHANGED <<mutex, stopped, lifeVars, workVars, private_op_que, private_work,
                   cur, reactorVars, deferred, in_run>>

(* epoller::start_op for an operation that cannot be done at once: it is   *)
(* queued on the op_set and counted, all under the op_set's mutex.  (One   *)
(* that can is a PostLoad or PostPrivate.)                                 *)
StartLoad(t, s, o) ==
    /\ Calls(t)
    /\ poller
    /\ status[o] = "new"
    /\ set_mutex[s] = None
    /\ set_mutex' = [set_mutex EXCEPT ![s] = t]
    /\ waiting' = [waiting EXCEPT ![s] = @ \cup {o}]
    /\ status' = [status EXCEPT ![o] = "starting"]
    /\ reg' = [reg EXCEPT ![t] = outstanding_work]
    /\ arg' = [arg EXCEPT ![t] = o]
    /\ Goto(t, "start_store")
    /\ UNCHANGED <<queueVars, lifeVars, outstanding_work, lost_work, runnerVars, ready, in_run,
                   deferred>>

StartStore(t) ==
    /\ pc[t] = "start_store"
    /\ outstanding_work' = reg[t] + 1
    /\ Loses(t)
    /\ reg' = [reg EXCEPT ![t] = 0]
    /\ set_mutex' = [s \in Sets |-> IF set_mutex[s] = t THEN None ELSE set_mutex[s]]
    /\ status' = [status EXCEPT ![arg[t]] = "waiting"]
    /\ arg' = [arg EXCEPT ![t] = None]
    /\ Goto(t, Home(t))
    /\ UNCHANGED <<queueVars, lifeVars, runnerVars, waiting, ready, in_run,
                   deferred>>

SlipNotPopped(t, s) ==
    /\ Calls(t) /\ set_mutex[s] = None /\ waiting[s] # {}
    /\ \E d \in Orders(waiting[s]) : deferred' = [deferred EXCEPT ![t] = d]
    /\ status' = [o \in Ops |-> IF o \in waiting[s] THEN "queued" ELSE status[o]]
    /\ Goto(t, "defer")
    /\ UNCHANGED <<queueVars, lifeVars, workVars, runnerVars, reactorVars, arg, in_run>>

(* epoller::cancel_ops: everything the op_set holds goes back with an      *)
(* error code, through post_deferred_completions.                          *)
CancelOps(t, s) ==
    /\ Calls(t)
    /\ set_mutex[s] = None
    /\ waiting[s] # {}
    /\ waiting' = [waiting EXCEPT ![s] = {}]
    /\ \E d \in Orders(waiting[s]) : deferred' = [deferred EXCEPT ![t] = d]
    /\ status' = [o \in Ops |-> IF o \in waiting[s] THEN "queued" ELSE status[o]]
    /\ Goto(t, "defer")
    /\ UNCHANGED <<queueVars, lifeVars, workVars, runnerVars, set_mutex, ready, arg, in_run>>

(* post_deferred_completions, from an API call or from perform_io.         *)
Deferred(t, from, to) ==
    /\ pc[t] = from
    /\ IF service.one_thread /\ t \in in_run
       THEN /\ \E q \in Merged(private_op_que[t], deferred[t]) :
                    private_op_que' = [private_op_que EXCEPT ![t] = q]
            /\ UNCHANGED <<queueVars, block>>
       ELSE /\ mutex = None
            /\ op_que' \in Merged(op_que, deferred[t])
            /\ WakeOne
            /\ UNCHANGED <<mutex, stopped, private_op_que>>
    /\ deferred' = [deferred EXCEPT ![t] = <<>>]
    /\ Goto(t, to)
    /\ UNCHANGED <<lifeVars, workVars, private_work, cur, reactorVars, arg, status, in_run>>

PostDeferred(t) == Deferred(t, "defer", Home(t))

Stop(t) ==
    /\ Calls(t) /\ ~stopped
    /\ mutex = None
    /\ StopAll
    /\ UNCHANGED <<mutex, op_que, lifeVars, workVars, private_op_que, private_work,
                   cur, reactorVars, pc, callVars, status>>

Reset(t) ==
    /\ Calls(t) /\ stopped
    /\ mutex = None
    /\ stopped' = FALSE
    /\ UNCHANGED <<mutex, op_que, task_interrupted, idle, signalled, lifeVars,
                   workVars, runnerVars, reactorVars, pc, callVars, status>>

(* shutdown_service, called when every thread has come out of run(): the   *)
(* queued operations are destroyed without calling their handlers, an      *)
(* op_set's "destroy" runs its do_complete with no event, which counts a   *)
(* unit of work, and the reactor is deleted with the op_sets in it.        *)
ShutdownService ==
    /\ poller
    /\ \A t \in Threads : pc[t] = "out"
    /\ shutdown' = TRUE
    /\ op_que' = <<>>
    /\ status' = [o \in Ops |-> IF o \in RangeOf(op_que) THEN "destroyed" ELSE status[o]]
    /\ outstanding_work' = outstanding_work + Cardinality(RangeOf(op_que) \cap Sets)
    /\ poller' = FALSE
    /\ UNCHANGED <<service, mutex, task_interrupted, stopped, idle, signalled, lost_work,
                   reg, runnerVars, reactorVars, pc, callVars>>

-----------------------------------------------------------------------------
(* run().                                                                  *)

(* The first lines of run read the counter without a lock; at zero the     *)
(* caller stops the service.                                               *)
Run(r) ==
    /\ r \in service.threads
    /\ pc[r] = "out" /\ ~shutdown
    /\ IF outstanding_work = 0
       THEN Goto(r, "stop_out") /\ UNCHANGED in_run
       ELSE Goto(r, "top") /\ in_run' = in_run \cup {r}
    /\ UNCHANGED <<queueVars, lifeVars, workVars, runnerVars, reactorVars, arg,
                   deferred, status>>

(* stop() as called by run and by work_finished.                           *)
StopFrom(r, from, to) ==
    /\ pc[r] = from
    /\ mutex = None
    /\ StopAll
    /\ Goto(r, to)
    /\ UNCHANGED <<mutex, op_que, lifeVars, workVars, private_op_que, private_work,
                   cur, reactorVars, callVars, status>>

RunNoWork(r) == StopFrom(r, "stop_out", "out")

(* do_run_one, stopped: out of the loop, run returns and unlocks.          *)
Leave(r) ==
    /\ pc[r] = "top" /\ Locks(r)
    /\ stopped
    /\ mutex' = None
    /\ in_run' = in_run \ {r}
    /\ Goto(r, "out")
    /\ UNCHANGED <<op_que, task_interrupted, stopped, idle, signalled, lifeVars,
                   workVars, runnerVars, reactorVars, arg, deferred, status>>

(* do_run_one, nothing to run: onto the idle stack, asleep.                *)
GoIdle(r) ==
    /\ pc[r] = "top" /\ Locks(r)
    /\ ~stopped /\ op_que = <<>>
    /\ idle' = <<r>> \o idle
    /\ signalled' = [signalled EXCEPT ![r] = FALSE]
    /\ mutex' = None
    /\ Goto(r, "wait")
    /\ UNCHANGED <<op_que, task_interrupted, stopped, lifeVars, workVars, runnerVars,
                   reactorVars, callVars, status>>

(* wakeup_event->wait returns, with the lock, once signalled_ is set.      *)
WakeUp(r) ==
    /\ pc[r] = "wait" /\ signalled[r]
    /\ mutex = None
    /\ mutex' = r
    /\ Goto(r, "top")
    /\ UNCHANGED <<op_que, task_interrupted, stopped, idle, signalled, lifeVars,
                   workVars, runnerVars, reactorVars, callVars, status>>

(* do_run_one, the task is at the front: this thread becomes the poller.   *)
(* It may block in epoll only if nothing else is queued.                   *)
TakeTask(r) ==
    /\ pc[r] = "top" /\ Locks(r)
    /\ ~stopped /\ op_que # <<>> /\ TaskIsNext
    /\ op_que' = Tail(op_que)
    /\ LET more_handlers == Tail(op_que) # <<>>
       IN /\ task_interrupted' = more_handlers
          /\ block' = [block EXCEPT ![r] = ~more_handlers]
          /\ \/ more_handlers /\ ~service.one_thread /\ WakeOneIdle
             \/ /\ ~(more_handlers /\ ~service.one_thread /\ idle # <<>>)
                /\ UNCHANGED <<idle, signalled>>
    /\ mutex' = None
    /\ Goto(r, "poll")
    /\ UNCHANGED <<stopped, lifeVars, workVars, private_op_que, private_work, cur,
                   reactorVars, callVars, status>>

(* do_run_one, any other element: take it, pass the rest on.               *)
TakeOp(r) ==
    /\ pc[r] = "top" /\ Locks(r)
    /\ ~stopped /\ op_que # <<>> /\ ~TaskIsNext
    /\ op_que' = Tail(op_que)
    /\ cur' = [cur EXCEPT ![r] = Head(op_que)]
    /\ IF Tail(op_que) # <<>> /\ ~service.one_thread
       THEN WakeOne
       ELSE UNCHANGED <<idle, signalled, task_interrupted, block>>
    /\ IF Head(op_que) \in Ops
       THEN /\ status' = [status EXCEPT ![Head(op_que)] = "running"]
            /\ Goto(r, "handler")
       ELSE UNCHANGED status /\ Goto(r, "set")
    /\ mutex' = None
    /\ UNCHANGED <<stopped, lifeVars, workVars, private_op_que, private_work,
                   reactorVars, callVars>>

(* epoller::run: every op_set whose event is pending goes to the private   *)
(* queue.  A poll that may not block returns at once.                      *)
Poll(r) ==
    /\ pc[r] = "poll"
    /\ block[r] => ready # {}
    /\ \E q \in Orders(ready) : private_op_que' = [private_op_que EXCEPT ![r] = @ \o q]
    /\ ready' = {}
    /\ Goto(r, "polled")
    /\ UNCHANGED <<queueVars, lifeVars, workVars, block, private_work, cur, waiting,
                   set_mutex, callVars, status>>

SlipNoTimeout(r) == FALSE

(* The five minutes of a blocking epoll_wait are over.                     *)
PollTimeout(r) ==
    /\ pc[r] = "poll"
    /\ block[r] /\ ready = {}
    /\ Goto(r, "polled")
    /\ UNCHANGED <<queueVars, lifeVars, workVars, runnerVars, reactorVars, callVars, status>>

(* ~task_cleanup: the private queue is merged in front of the task, and    *)
(* the loop goes on with the lock held.  private_outstanding_work is zero  *)
(* here: only a handler adds to it, and work_cleanup clears it.            *)
TaskCleanup(r) ==
    /\ pc[r] = "polled"
    /\ mutex = None
    /\ mutex' = r
    /\ BackFromPoll
    /\ op_que' \in Requeued(r)
    /\ private_op_que' = [private_op_que EXCEPT ![r] = <<>>]
    /\ block' = [block EXCEPT ![r] = FALSE]
    /\ Goto(r, "top")
    /\ UNCHANGED <<stopped, idle, signalled, lifeVars, workVars, private_work,
                   cur, reactorVars, callVars, status>>

(* op_set::do_complete and perform_io, under the op_set's mutex: some of   *)
(* the operations that wait on it are done, perhaps none.  The handler of  *)
(* the first is run by this thread, the others are posted.                 *)
PerformIo(r) ==
    /\ pc[r] = "set"
    /\ LET s == cur[r]
       IN /\ set_mutex[s] = None
          /\ \E done \in SUBSET waiting[s] :
                /\ waiting' = [waiting EXCEPT ![s] = @ \ done]
                /\ \E q \in Orders(done) :
                     IF q = <<>>
                     THEN /\ Goto(r, "none_load")
                          /\ UNCHANGED <<cur, deferred, status>>
                     ELSE /\ cur' = [cur EXCEPT ![r] = Head(q)]
                          /\ deferred' = [deferred EXCEPT ![r] = Tail(q)]
                          /\ status' = [o \in Ops |->
                                IF o = Head(q) THEN "running"
                                ELSE IF o \in done THEN "queued" ELSE status[o]]
                          /\ Goto(r, IF Tail(q) = <<>> THEN "handler" ELSE "set_defer")
    /\ UNCHANGED <<queueVars, lifeVars, workVars, block, private_op_que, private_work,
                   set_mutex, ready, arg, in_run>>

PerformIoDefer(r) == Deferred(r, "set_defer", "handler")

(* perform_io completed nothing: it counts one unit of work to make up for *)
(* the work_finished that follows.                                         *)
NoneLoad(r) ==
    /\ pc[r] = "none_load"
    /\ reg' = [reg EXCEPT ![r] = outstanding_work]
    /\ Goto(r, "none_store")
    /\ UNCHANGED <<queueVars, lifeVars, outstanding_work, lost_work, runnerVars, reactorVars, callVars, status>>

SlipNotCounted(r) ==
    /\ pc[r] = "none_store"
    /\ reg' = [reg EXCEPT ![r] = 0]
    /\ Goto(r, "clean")
    /\ UNCHANGED <<queueVars, lifeVars, outstanding_work, lost_work, runnerVars, reactorVars,
                   callVars, status>>

NoneStore(r) ==
    /\ pc[r] = "none_store"
    /\ outstanding_work' = reg[r] + 1
    /\ Loses(r)
    /\ reg' = [reg EXCEPT ![r] = 0]
    /\ Goto(r, "clean")
    /\ UNCHANGED <<queueVars, lifeVars, runnerVars, reactorVars, callVars,
                   status>>

(* The handler returns.                                                    *)
Return(r) ==
    /\ pc[r] = "handler"
    /\ status' = [status EXCEPT ![cur[r]] = "done"]
    /\ Goto(r, "clean")
    /\ UNCHANGED <<queueVars, lifeVars, workVars, runnerVars, reactorVars, callVars>>

(* ~work_cleanup, first part: settle this operation's unit of work against *)
(* the units its handler started privately.                                *)
WorkCleanup(r) ==
    /\ pc[r] = "clean"
    /\ cur' = [cur EXCEPT ![r] = None]
    /\ IF private_work[r] = 1
       THEN /\ private_work' = [private_work EXCEPT ![r] = 0]
            /\ Goto(r, "merge")
            /\ UNCHANGED reg
       ELSE /\ reg' = [reg EXCEPT ![r] = outstanding_work]
            /\ Goto(r, IF private_work[r] > 1 THEN "clean_store" ELSE "finish_store")
            /\ UNCHANGED private_work
    /\ UNCHANGED <<queueVars, lifeVars, outstanding_work, lost_work, block, private_op_que,
                   reactorVars, callVars, status>>

(* One turn of the loop that adds the surplus.                             *)
CleanStore(r) ==
    /\ pc[r] = "clean_store"
    /\ outstanding_work' = reg[r] + 1
    /\ Loses(r)
    /\ reg' = [reg EXCEPT ![r] = 0]
    /\ private_work' = [private_work EXCEPT ![r] = @ - 1]
    /\ Goto(r, "clean")
    /\ UNCHANGED <<queueVars, lifeVars, block, private_op_que, cur, reactorVars,
                   callVars, status>>

SlipStopAtOne(r) ==
    /\ pc[r] = "finish_store"
    /\ outstanding_work' = reg[r] - 1
    /\ Loses(r)
    /\ reg' = [reg EXCEPT ![r] = 0]
    /\ Goto(r, IF reg[r] - 1 <= 1 THEN "finish_stop" ELSE "merge")
    /\ UNCHANGED <<queueVars, lifeVars, runnerVars, reactorVars, callVars, status>>

(* work_finished: at zero the service stops.                               *)
FinishStore(r) ==
    /\ pc[r] = "finish_store"
    /\ outstanding_work' = reg[r] - 1
    /\ Loses(r)
    /\ reg' = [reg EXCEPT ![r] = 0]
    /\ Goto(r, IF reg[r] - 1 = 0 THEN "finish_stop" ELSE "merge")
    /\ UNCHANGED <<queueVars, lifeVars, runnerVars, reactorVars, callVars,
                   status>>

FinishStop(r) == StopFrom(r, "finish_stop", "merge")

(* ~work_cleanup, second part: what the handler queued privately is merged *)
(* into the queue and the lock is kept.                                    *)
MergePrivate(r) ==
    /\ pc[r] = "merge"
    /\ IF private_op_que[r] = <<>>
       THEN UNCHANGED <<mutex, op_que, private_op_que>>
       ELSE /\ mutex = None
            /\ mutex' = r
            /\ op_que' \in Merged(op_que, private_op_que[r])
            /\ private_op_que' = [private_op_que EXCEPT ![r] = <<>>]
    /\ Goto(r, "top")
    /\ UNCHANGED <<task_interrupted, stopped, idle, signalled, lifeVars, workVars, block,
                   private_work, cur, reactorVars, callVars, status>>

-----------------------------------------------------------------------------
(* The descriptor of s becomes readable, writable or broken.               *)
Event(s) ==
    /\ poller
    /\ s \notin ready
    /\ outstanding_work \in -service.bound..service.bound
    /\ ready' = ready \cup {s}
    /\ UNCHANGED <<queueVars, lifeVars, workVars, runnerVars, waiting, set_mutex, pc,
                   callVars, status>>

Call(t) ==
    \/ \E o \in service.ops : PostPrivate(t, o) \/ PostLoad(t, o)
    \/ \E s \in Sets, o \in service.ops : StartLoad(t, s, o)
    \/ \E s \in Sets : CancelOps(t, s)
    \/ Stop(t) \/ Reset(t)
    \/ InitTask(t)

Continue(t) == PostStore(t) \/ PostPush(t) \/ StartStore(t) \/ PostDeferred(t)

RunStep(r) ==
    \/ RunNoWork(r) \/ Leave(r) \/ GoIdle(r) \/ WakeUp(r) \/ TakeTask(r) \/ TakeOp(r)
    \/ Poll(r) \/ PollTimeout(r) \/ TaskCleanup(r)
    \/ PerformIo(r) \/ PerformIoDefer(r) \/ NoneLoad(r) \/ NoneStore(r)
    \/ Return(r) \/ WorkCleanup(r) \/ CleanStore(r) \/ FinishStore(r) \/ FinishStop(r)
    \/ MergePrivate(r)

Next ==
    \/ \E t \in Threads : Call(t) \/ Continue(t)
    \/ \E r \in Runners : Run(r) \/ RunStep(r)
    \/ ShutdownService
    \/ \E s \in Sets : Event(s)

(***************************************************************************)
(* A thread inside the service goes on; a handler returns; a blocking poll *)
(* ends at the latest when its timeout is over.  A thread that waits for   *)
(* mutex_ gets it in the end (strong fairness): every loop of the other    *)
(* threads leaves it for the length of a poll or of a handler.  Nothing    *)
(* obliges the application to call, or a descriptor to become ready.       *)
(***************************************************************************)
Fairness ==
    /\ \A t \in Threads : SF_vars(Continue(t))
    /\ \A r \in Runners : SF_vars(RunStep(r))

Spec == Init /\ [][Next]_vars
FairSpec == Spec /\ Fairness

-----------------------------------------------------------------------------
(* Properties.                                                             *)

(* Threads that take, or hold, the reactor task.                           *)
Pollers == {r \in Runners : pc[r] \in {"poll", "polled"}}

(* Threads about to look at the queue: running to the head of the loop, or *)
(* asleep with their event already set.                                    *)
OnTheWay == {r \in Runners : pc[r] = "top" \/ (pc[r] = "wait" /\ signalled[r])}

TaskPlaces == {i \in DOMAIN op_que : op_que[i] = Task}

(* The reactor task is always in exactly one place, the queue or the hands *)
(* of one thread: two threads never poll at once, and polling never stops  *)
(* for want of the task.                                                   *)
OneTask ==
    poller => /\ \A i, k \in TaskPlaces : i = k
              /\ \A r, s \in Pollers : r = s
              /\ TaskPlaces = {} <=> Pollers # {}

(* An op_set waits in one place at most, and ahead of the reactor task.    *)
(* So when a poll reports an op_set it is not queued already: it is never  *)
(* linked twice, and its task_result_ is not overwritten before it is read *)
SetQueuedOnce ==
    /\ \A i, k \in DOMAIN op_que : op_que[i] = op_que[k] => i = k
    /\ \A r \in Runners : \A i, k \in DOMAIN private_op_que[r] :
            private_op_que[r][i] = private_op_que[r][k] => i = k
    /\ \A i \in TaskPlaces : \A k \in DOMAIN op_que : op_que[k] \in Sets => k < i
    /\ Pollers # {} => RangeOf(op_que) \cap Sets = {}

(* What do_run_one expects of the queues, however polls, merges and posts  *)
(* interleave: the task in one place, each op_set linked once.             *)
QueuesAreSound == TypeOK /\ OneTask /\ SetQueuedOnce

(* Queued work is not stranded: while the service runs and something is    *)
(* queued, either a thread is on its way to the queue, or there is nobody  *)
(* left to call: no thread is idle and the poller has been interrupted.    *)
NoStrandedWork ==
    (op_que # <<>> /\ ~stopped /\ OnTheWay = {}) => (idle = <<>> /\ task_interrupted)

(* The operations a thread has in queues of its own.                       *)
QueueOf(t) == IF t \in Runners THEN private_op_que[t] \o deferred[t] ELSE deferred[t]

(* Every operation is in one place, and its handler is called once: a      *)
(* queued one is listed once among all the queues, a waiting one is on one *)
(* op_set, a running one belongs to one thread.                            *)
OpInOnePlace ==
    \A o \in Ops :
        LET places == {<<None, i>> : i \in {i \in DOMAIN op_que : op_que[i] = o}}
                      \cup UNION {{<<t, i>> : i \in {i \in DOMAIN QueueOf(t) : QueueOf(t)[i] = o}} :
                                  t \in Threads}
            sets == {s \in Sets : o \in waiting[s]}
            owners == {r \in Runners : cur[r] = o /\ pc[r] # "clean"}
        IN ~shutdown =>
             /\ Cardinality(places) = IF status[o] = "queued" THEN 1 ELSE 0
             /\ Cardinality(sets) = IF status[o] \in {"starting", "waiting"} THEN 1 ELSE 0
             /\ status[o] = "running" => Cardinality(owners) = 1

Outstanding == {o \in Ops : status[o] \in {"waiting", "queued", "running"}}

(* Units counted for an operation on its way to the queue, or not yet      *)
(* uncounted for one that is done or was not needed.                       *)
Owing == {t \in Threads : pc[t] \in {"post_push", "clean", "clean_store", "finish_store"}}

(* The units handlers have started privately and work_cleanup has still to *)
(* settle.                                                                 *)
Kept == UNION {{r} \X (1..private_work[r]) : r \in Runners}

(* Posts, starts, cancels, polls that complete nothing, private units and  *)
(* the two halves of every ++ and --, by any number of threads, add up:    *)
(* the counter is wrong by what overlapping updates have lost, and by      *)
(* nothing else.  Between two operations of a lone thread, where nobody    *)
(* owes and nothing is kept, it counts what is outstanding.                *)
WorkIsExact ==
    ~shutdown => outstanding_work + lost_work + Cardinality(Kept)
                    = Cardinality(Outstanding) + Cardinality(Owing)

(* Unless more ++ than -- have been lost, run() and work_finished find the *)
(* counter at zero, and stop the service, only when nothing that was       *)
(* posted or started is outstanding.                                       *)
NoEarlyStop ==
    [][lost_work' <= 0 =>
        \A r \in Runners :
            \/ pc[r] = "finish_store" /\ pc'[r] = "finish_stop"
            \/ pc[r] = "out" /\ pc'[r] = "stop_out"
            => Outstanding = {}]_vars

(* "stop the service and break off the reactor's blocking"                 *)
(* (proactor.hpp:73): no thread sits out the timeout of its poll once the *)
(* service has been stopped.                                               *)
StopInterruptsPoll ==
    [][\A r \in Runners : (pc[r] = "poll" /\ pc'[r] = "polled" /\ stopped)
                            => ~block[r] \/ ready # {}]_vars

(* "stop the service and destroy the current tasks" (proactor.hpp:68):    *)
(* after shutdown_service no operation is left over.                       *)
ShutdownDestroysTasks ==
    shutdown => \A o \in Ops : status[o] \in {"new", "done", "destroyed"}

(* A queued operation is taken off the queue as long as the service is not *)
(* stopped and some thread stays in run().                                 *)
QueuedOpIsTaken ==
    \A o \in Ops : status[o] = "queued" ~>
                    (status[o] # "queued" \/ stopped \/ in_run = {})
==============================================================================
