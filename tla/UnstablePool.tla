------------------------------ MODULE UnstablePool ------------------------------
(***************************************************************************)
(* The first thread pool, thread_pool_test_unstable/thread.c, and its      *)
(* test main.c, which adds its jobs and destroys the pool at once.         *)
(*                                                                         *)
(* A worker waits for a token of a semaphore, and then takes the oldest    *)
(* job under the mutex.  The semaphore starts with one token more than     *)
(* there are jobs, so a worker can find the queue empty, and reads through *)
(* a null pointer: the process ends.                                       *)
(***************************************************************************)
EXTENDS Integers, Sequences, FiniteSets

CONSTANTS Threads,     \* the workers
          JobN         \* jobs that main adds, 40 in main.c

ASSUME UnstableAssumption == IsFiniteSet(Threads) /\ JobN \in Nat

VARIABLES queueSem, jobqueue, keepalive,
          wpc,         \* [Threads -> where a worker is]
          mpc,         \* where main is
          added,       \* jobs added
          crashed,
          started      \* history: jobs in the order in which they started

unstableVars == <<queueSem, jobqueue, keepalive, wpc, mpc, added, crashed, started>>

UnstableTypeOK ==
    /\ queueSem \in Nat
    /\ jobqueue \in Seq(1..JobN) /\ started \in Seq(1..JobN)
    /\ keepalive \in BOOLEAN /\ crashed \in BOOLEAN
    /\ wpc \in [Threads -> {"while", "wait", "test", "take", "run", "returned"}]
    /\ mpc \in {"add", "destroy", "join", "done"}
    /\ added \in 0..JobN

UnstableInit ==
    /\ queueSem = 1 /\ jobqueue = <<>> /\ keepalive = TRUE
    /\ wpc = [t \in Threads |-> "while"] /\ mpc = "add"
    /\ added = 0 /\ crashed = FALSE /\ started = <<>>

-----------------------------------------------------------------------------
(* thpool_thread_do.                                                       *)

Goes(t, from, to) == /\ ~crashed /\ wpc[t] = from
                     /\ wpc' = [wpc EXCEPT ![t] = to]

WhileKeepalive(t) ==
    /\ Goes(t, "while", IF keepalive THEN "wait" ELSE "returned")
    /\ UNCHANGED <<queueSem, jobqueue, keepalive, mpc, added, crashed, started>>

SemWait(t) ==
    /\ queueSem > 0
    /\ queueSem' = queueSem - 1
    /\ Goes(t, "wait", "test")
    /\ UNCHANGED <<jobqueue, keepalive, mpc, added, crashed, started>>

TestKeepalive(t) ==
    /\ Goes(t, "test", IF keepalive THEN "take" ELSE "returned")
    /\ UNCHANGED <<queueSem, jobqueue, keepalive, mpc, added, crashed, started>>

(* Under the mutex: peek at the tail, remove it.                           *)
TakeLast(t) ==
    /\ jobqueue # <<>>
    /\ Goes(t, "take", "run")
    /\ started' = Append(started, jobqueue[1])
    /\ jobqueue' = Tail(jobqueue)
    /\ UNCHANGED <<queueSem, keepalive, mpc, added, crashed>>

TakeNothing(t) ==
    /\ jobqueue = <<>>
    /\ Goes(t, "take", "take")
    /\ crashed' = TRUE
    /\ UNCHANGED <<queueSem, jobqueue, keepalive, mpc, added, started>>

RunJob(t) ==
    /\ Goes(t, "run", "while")
    /\ UNCHANGED <<queueSem, jobqueue, keepalive, mpc, added, crashed, started>>

Worker(t) ==
    \/ WhileKeepalive(t) \/ SemWait(t) \/ TestKeepalive(t)
    \/ TakeLast(t) \/ TakeNothing(t) \/ RunJob(t)

-----------------------------------------------------------------------------
(* main.                                                                   *)

SlipPostsIfEmpty == queueSem' = queueSem + IF jobqueue = <<>> THEN 1 ELSE 0

(* Every job comes with a token.                                           *)
PostsJob == queueSem' = queueSem + 1

(* thpool_add_work, under the mutex.                                       *)
AddWork ==
    /\ ~crashed /\ mpc = "add" /\ added < JobN
    /\ added' = added + 1
    /\ jobqueue' = Append(jobqueue, added + 1)
    /\ PostsJob
    /\ UNCHANGED <<keepalive, wpc, mpc, crashed, started>>

(* thpool_destroy up to the joins, in two steps: the flag, and the tokens. *)
EndKeepalive ==
    /\ ~crashed /\ mpc = "add" /\ added = JobN
    /\ keepalive' = FALSE
    /\ mpc' = "destroy"
    /\ UNCHANGED <<queueSem, jobqueue, wpc, added, crashed, started>>

SlipOnePost == queueSem' = queueSem + 1

(* One token for every worker and one more.                                *)
Posts == queueSem' = queueSem + Cardinality(Threads) + 1

WakeAll ==
    /\ ~crashed /\ mpc = "destroy"
    /\ Posts
    /\ mpc' = "join"
    /\ UNCHANGED <<jobqueue, keepalive, wpc, added, crashed, started>>

(* The joins, thpool_jobqueue_empty, and the frees.                        *)
Joined ==
    /\ ~crashed /\ mpc = "join" /\ \A t \in Threads : wpc[t] = "returned"
    /\ jobqueue' = <<>>
    /\ mpc' = "done"
    /\ UNCHANGED <<queueSem, keepalive, wpc, added, crashed, started>>

UnstableMain == AddWork \/ EndKeepalive \/ WakeAll \/ Joined

UnstableNext == UnstableMain \/ \E t \in Threads : Worker(t)

UnstableSpec == UnstableInit /\ [][UnstableNext]_unstableVars

-----------------------------------------------------------------------------
(* Properties.                                                             *)

(* Workers with a token and no job yet.                                    *)
Holding == {t \in Threads : wpc[t] \in {"test", "take"}}

(* While the pool lives its tokens, those in the hands of workers          *)
(* included, are one more than its jobs; so at most one worker at a time   *)
(* finds the queue empty, and no job is left without a token.  The jobs    *)
(* start in order, none twice.                                             *)
TokensMatchJobs ==
    /\ keepalive => queueSem + Cardinality(Holding) = Len(jobqueue) + 1
    /\ started = [i \in 1..Len(started) |-> i]

(* thpool_destroy returns, or the process has crashed before.              *)
UnstableDestroyReturns == mpc = "destroy" ~> (mpc = "done" \/ crashed)
=============================================================================
