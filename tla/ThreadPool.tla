------------------------------ MODULE ThreadPool ------------------------------
(***************************************************************************)
(* The thread pool of src/thread_pool/thread_pool.c: worker threads that   *)
(* sleep on one condition variable, clients that append jobs to a linked   *)
(* list under the mutex, and a destroyer that raises a flag the workers    *)
(* read.                                                                   *)
(*                                                                         *)
(* A step is what one thread does between two points where another thread  *)
(* can see the difference.  A critical section that touches only state     *)
(* guarded by queue_lock is one step.  thpool_destroy writes is_shutdown   *)
(* without the mutex, so what a worker does after it has read the flag,    *)
(* inside its critical section, is a step of its own: the                  *)
(* pthread_cond_wait, and taking the head of the list.                     *)
(***************************************************************************)
EXTENDS Naturals, Sequences, FiniteSets

CONSTANTS Workers,     \* the threads made by thpool_init
          Clients,     \* threads that call thpool_add_worker
          Owner,       \* the client that also calls thpool_destroy
          Jobs,        \* the thread_worker nodes clients hand over
          None         \* no thread, no job

ASSUME ThreadPoolAssumption ==
    /\ Workers # {} /\ IsFiniteSet(Workers)
    /\ IsFiniteSet(Jobs) /\ IsFiniteSet(Clients)
    /\ Owner \in Clients
    /\ Workers \cap Clients = {}
    /\ None \notin Workers \cup Clients \cup Jobs

VARIABLES
    queue,             \* the list that starts at queue_head, as a sequence
    curr_queue_size,
    is_shutdown,
    queue_lock,        \* the worker inside its critical section, or None
    pc,                \* [Workers -> where the thread is in thread_routine]
    worker,            \* [Workers -> the node the thread took off the list]
    cpc,               \* [Clients -> where the client is in its call]
    status             \* [Jobs -> where the node is in its life]

vars == <<queue, curr_queue_size, is_shutdown, queue_lock, pc, worker, cpc, status>>

(***************************************************************************)
(* "lock": about to take queue_lock (at the top of the loop, or woken      *)
(* inside pthread_cond_wait).  "test": inside, about to read the wait      *)
(* condition.  "block": inside, found the condition true, has not yet      *)
(* entered pthread_cond_wait.  "wait": asleep on queue_ready.  "take":     *)
(* inside, found a job and the flag down, has not yet taken the job.       *)
(***************************************************************************)
WorkerPc == {"lock", "test", "block", "wait", "take", "run", "exit"}
ClientPc == {"idle", "signal", "broadcast", "join", "gone"}
Status == {"new", "queued", "running", "done", "discarded"}

TypeOK ==
    /\ queue \in Seq(Jobs)
    /\ curr_queue_size \in Nat
    /\ is_shutdown \in BOOLEAN
    /\ queue_lock \in Workers \cup {None}
    /\ pc \in [Workers -> WorkerPc]
    /\ worker \in [Workers -> Jobs \cup {None}]
    /\ cpc \in [Clients -> ClientPc]
    /\ status \in [Jobs -> Status]

Init ==
    /\ queue = <<>>
    /\ curr_queue_size = 0
    /\ is_shutdown = FALSE
    /\ queue_lock = None
    /\ pc = [w \in Workers |-> "lock"]
    /\ worker = [w \in Workers |-> None]
    /\ cpc = [c \in Clients |-> "idle"]
    /\ status = [j \in Jobs |-> "new"]

Asleep == {w \in Workers : pc[w] = "wait"}

-----------------------------------------------------------------------------
(* The list.  An operator whose name starts with "Slip" is a plausible      *)
(* mistake in the operator that follows it: it is not part of the model.    *)

(* The walk to the end of the list, the link and the count.                *)
Enqueue(j) ==
    /\ queue' = Append(queue, j)
    /\ curr_queue_size' = curr_queue_size + 1

SlipHeadStays(w) ==
    /\ curr_queue_size' = curr_queue_size - 1
    /\ worker' = [worker EXCEPT ![w] = Head(queue)]
    /\ UNCHANGED queue

(* The head of the list goes to w.                                         *)
Dequeue(w) ==
    /\ curr_queue_size' = curr_queue_size - 1
    /\ worker' = [worker EXCEPT ![w] = Head(queue)]
    /\ queue' = Tail(queue)

-----------------------------------------------------------------------------
(* Clients.                                                                *)

SlipSignalIfEmpty(c, j) ==
    /\ cpc[c] = "idle" /\ ~is_shutdown /\ status[j] = "new" /\ queue_lock = None
    /\ Enqueue(j)
    /\ status' = [status EXCEPT ![j] = "queued"]
    /\ cpc' = [cpc EXCEPT ![c] = IF queue = <<>> THEN "signal" ELSE "idle"]
    /\ UNCHANGED <<is_shutdown, queue_lock, pc, worker>>

(* thpool_add_worker up to the unlock: the new node goes to the tail.  A   *)
(* job is handed over by one caller, and no call is made on a pool whose   *)
(* destruction has begun.                                                  *)
AddWorker(c, j) ==
    /\ cpc[c] = "idle"
    /\ ~is_shutdown
    /\ status[j] = "new"
    /\ queue_lock = None
    /\ Enqueue(j)
    /\ status' = [status EXCEPT ![j] = "queued"]
    /\ cpc' = [cpc EXCEPT ![c] = "signal"]
    /\ UNCHANGED <<is_shutdown, queue_lock, pc, worker>>

(* The pthread_cond_signal that follows the unlock: it wakes one sleeper,  *)
(* whichever the system picks, and is lost when there is none.             *)
Signal(c) ==
    /\ cpc[c] = "signal"
    /\ cpc' = [cpc EXCEPT ![c] = "idle"]
    /\ \/ \E w \in Asleep : pc' = [pc EXCEPT ![w] = "lock"]
       \/ Asleep = {} /\ UNCHANGED pc
    /\ UNCHANGED <<queue, curr_queue_size, is_shutdown, queue_lock, worker, status>>

(* thpool_destroy: the flag is written without queue_lock.  The owner      *)
(* calls it when no client is inside thpool_add_worker: the structure the  *)
(* call works on is about to be freed.                                     *)
Shutdown ==
    /\ \A c \in Clients : cpc[c] = "idle"
    /\ ~is_shutdown
    /\ is_shutdown' = TRUE
    /\ cpc' = [cpc EXCEPT ![Owner] = "broadcast"]
    /\ UNCHANGED <<queue, curr_queue_size, queue_lock, pc, worker, status>>

Broadcast ==
    /\ cpc[Owner] = "broadcast"
    /\ cpc' = [cpc EXCEPT ![Owner] = "join"]
    /\ pc' = [w \in Workers |-> IF pc[w] = "wait" THEN "lock" ELSE pc[w]]
    /\ UNCHANGED <<queue, curr_queue_size, is_shutdown, queue_lock, worker, status>>

SlipOneNotJoined == Cardinality({w \in Workers : pc[w] # "exit"}) <= 1

(* pthread_join has returned for every thread.                             *)
Joined == \A w \in Workers : pc[w] = "exit"

(* The joins, then the nodes left on the list are freed without having     *)
(* run, then the pool itself.  curr_queue_size is not touched.             *)
JoinAndFree ==
    /\ cpc[Owner] = "join"
    /\ Joined
    /\ cpc' = [cpc EXCEPT ![Owner] = "gone"]
    /\ queue' = <<>>
    /\ status' = [j \in Jobs |->
                    IF \E i \in DOMAIN queue : queue[i] = j
                    THEN "discarded" ELSE status[j]]
    /\ UNCHANGED <<curr_queue_size, is_shutdown, queue_lock, pc, worker>>

-----------------------------------------------------------------------------
(* Workers.                                                                *)

Goto(w, to) == pc' = [pc EXCEPT ![w] = to]

Lock(w) ==
    /\ pc[w] = "lock"
    /\ queue_lock = None
    /\ queue_lock' = w
    /\ Goto(w, "test")
    /\ UNCHANGED <<queue, curr_queue_size, is_shutdown, worker, cpc, status>>

(* The while condition holds: the thread is going to wait.                 *)
FindNothing(w) ==
    /\ pc[w] = "test"
    /\ curr_queue_size = 0 /\ ~is_shutdown
    /\ Goto(w, "block")
    /\ UNCHANGED <<queue, curr_queue_size, is_shutdown, queue_lock, worker, cpc, status>>

(* pthread_cond_wait: sleep and release the mutex in one step.             *)
CondWait(w) ==
    /\ pc[w] = "block"
    /\ queue_lock' = None
    /\ Goto(w, "wait")
    /\ UNCHANGED <<queue, curr_queue_size, is_shutdown, worker, cpc, status>>

(* pthread_cond_wait may return without a signal.                          *)
SpuriousWakeup(w) ==
    /\ pc[w] = "wait"
    /\ Goto(w, "lock")
    /\ UNCHANGED <<queue, curr_queue_size, is_shutdown, queue_lock, worker, cpc, status>>

(* The flag is looked at before the list: queued jobs are left behind.     *)
Exit(w) ==
    /\ pc[w] = "test"
    /\ is_shutdown
    /\ queue_lock' = None
    /\ Goto(w, "exit")
    /\ UNCHANGED <<queue, curr_queue_size, is_shutdown, worker, cpc, status>>

SlipIgnoresFlag(w) ==
    /\ pc[w] = "test"
    /\ curr_queue_size # 0
    /\ Goto(w, "take")
    /\ UNCHANGED <<queue, curr_queue_size, is_shutdown, queue_lock, worker, cpc, status>>

(* The list is not empty, and the flag is read as 0 after the loop.        *)
FindWork(w) ==
    /\ pc[w] = "test"
    /\ curr_queue_size # 0 /\ ~is_shutdown
    /\ Goto(w, "take")
    /\ UNCHANGED <<queue, curr_queue_size, is_shutdown, queue_lock, worker, cpc, status>>

(* Take the head of the list and leave the critical section, whatever has  *)
(* become of the flag.                                                     *)
Take(w) ==
    /\ pc[w] = "take"
    /\ Dequeue(w)
    /\ status' = [status EXCEPT ![Head(queue)] = "running"]
    /\ queue_lock' = None
    /\ Goto(w, "run")
    /\ UNCHANGED <<is_shutdown, cpc>>

SlipRunOnce(w) ==
    /\ pc[w] = "run"
    /\ status' = [status EXCEPT ![worker[w]] = "done"]
    /\ worker' = [worker EXCEPT ![w] = None]
    /\ Goto(w, "exit")
    /\ UNCHANGED <<queue, curr_queue_size, is_shutdown, queue_lock, cpc>>

(* The job's function returns and the node is freed.                       *)
RunJob(w) ==
    /\ pc[w] = "run"
    /\ status' = [status EXCEPT ![worker[w]] = "done"]
    /\ worker' = [worker EXCEPT ![w] = None]
    /\ Goto(w, "lock")
    /\ UNCHANGED <<queue, curr_queue_size, is_shutdown, queue_lock, cpc>>

thread_routine(w) ==
    \/ Lock(w) \/ FindNothing(w) \/ CondWait(w)
    \/ Exit(w) \/ FindWork(w) \/ Take(w) \/ RunJob(w)

Next ==
    \/ \E c \in Clients, j \in Jobs : AddWorker(c, j)
    \/ \E c \in Clients : Signal(c)
    \/ Shutdown
    \/ Broadcast
    \/ JoinAndFree
    \/ \E w \in Workers : thread_routine(w)
    \/ \E w \in Workers : SpuriousWakeup(w)

(***************************************************************************)
(* A thread inside the pool is scheduled again.  Nothing obliges a client  *)
(* to call the pool, and nothing obliges a sleeper to wake by itself.      *)
(***************************************************************************)
Fairness ==
    /\ \A w \in Workers : WF_vars(thread_routine(w))
    /\ \A c \in Clients : WF_vars(Signal(c))
    /\ WF_vars(Broadcast)
    /\ WF_vars(JoinAndFree)

Spec == Init /\ [][Next]_vars
FairSpec == Spec /\ Fairness

-----------------------------------------------------------------------------
(* Properties.                                                             *)

(* The counter that guards the list agrees with it at every moment another *)
(* thread can look (the asserts of thread_routine and thpool_add_worker),  *)
(* until the destroyer throws the rest of the list away.                   *)
SizeIsLength == cpc[Owner] # "gone" => curr_queue_size = Len(queue)

(* Every node has one owner: a queued node is on the list once, a running  *)
(* node belongs to one worker, and no node is in both places, so that none *)
(* is run or freed twice.                                                  *)
OneOwner ==
    /\ \A i, k \in DOMAIN queue : queue[i] = queue[k] => i = k
    /\ \A j \in Jobs : status[j] = "queued" <=> \E i \in DOMAIN queue : queue[i] = j
    /\ \A j \in Jobs : status[j] = "running" <=> \E w \in Workers : worker[w] = j
    /\ \A v, w \in Workers : worker[v] = worker[w] /\ worker[v] # None => v = w

(* A worker is inside the critical section exactly when it holds the       *)
(* mutex, so two are never inside at once.                                 *)
InsideHoldsLock ==
    \A w \in Workers : queue_lock = w <=> pc[w] \in {"test", "block", "take"}

(* What everybody who takes the mutex relies on: variables in their types, *)
(* the counter that stands for the list, one thread inside, and one owner  *)
(* for every node.                                                         *)
PoolIsSound == TypeOK /\ SizeIsLength /\ InsideHoldsLock /\ OneOwner

(* No wake-up is lost between clients and workers: when jobs are queued    *)
(* and every worker sleeps, a client still has its signal to send.         *)
NoLostWakeup ==
    (queue # <<>> /\ ~is_shutdown /\ Asleep = Workers)
        => \E c \in Clients : cpc[c] = "signal"

(* No worker sleeps beside work it should share: while one sleeps, each    *)
(* queued job has a worker on its way to the list or a signal on its way   *)
(* to a sleeper.                                                           *)
WorkConserving ==
    (~is_shutdown /\ Asleep # {})
        => Len(queue) <= Cardinality({w \in Workers : pc[w] \in {"lock", "test", "take"}})
                         + Cardinality({c \in Clients : cpc[c] = "signal"})

(* When thpool_destroy frees the pool no worker is left that would touch   *)
(* it: all have exited, none holds the mutex, and no job is half done.     *)
NothingUsesFreedPool ==
    cpc[Owner] = "gone" =>
        /\ queue_lock = None
        /\ \A w \in Workers : pc[w] = "exit"
        /\ \A j \in Jobs : status[j] # "running"

(* Jobs start in the order clients handed them over, at most one per       *)
(* worker at a time, and after the flag is up none but the one a worker    *)
(* holding queue_lock was about to take: the pool implements JobPool.      *)
Pool == INSTANCE JobPool WITH pending <- queue, state <- status,
                              open <- ~is_shutdown, Width <- Cardinality(Workers),
                              claimed <- \E w \in Workers : pc[w] = "take"
ImplementsJobPool == Pool!JSpec

(* A queued job is started, as long as the pool is not being destroyed.    *)
QueuedJobStarts ==
    \A j \in Jobs : status[j] = "queued" ~> (status[j] # "queued" \/ is_shutdown)

(* "active threads will exit untill it's done" (thread_pool.c:63): once    *)
(* thpool_destroy is called it comes to its end.                           *)
DestroyReturns == is_shutdown ~> cpc[Owner] = "gone"
=============================================================================
