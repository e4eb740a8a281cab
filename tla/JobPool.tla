------------------------------- MODULE JobPool -------------------------------
(***************************************************************************)
(* What a pool of worker threads promises its clients, whatever lists,     *)
(* locks and condition variables it is built from:                         *)
(*   - jobs start in the order in which they were accepted, each of them   *)
(*     at most once, and never more of them at a time than there are       *)
(*     workers;                                                            *)
(*   - the start of a job is decided, for one job at a time, only while    *)
(*     the pool is open: once it is closed the job whose start had been    *)
(*     decided may still start, and no other;                              *)
(*   - what was accepted and not started is thrown away only after every   *)
(*     running job has ended.                                              *)
(* ThreadPool (thread_pool.c) is shown to implement this module.           *)
(***************************************************************************)
EXTENDS Naturals, Sequences, FiniteSets

CONSTANTS Jobs,        \* the jobs clients may hand over
          Width        \* how many jobs may run at once

VARIABLES pending,     \* accepted jobs that have not started, oldest first
          state,       \* where each job is in its life
          open,        \* FALSE once the owner has begun to destroy the pool
          claimed      \* a worker has decided to start the oldest job

jobVars == <<pending, state, open, claimed>>

JobStates == {"new", "queued", "running", "done", "discarded"}

InState(s) == {j \in Jobs : state[j] = s}

JInit ==
    /\ pending = <<>>
    /\ state = [j \in Jobs |-> "new"]
    /\ open = TRUE
    /\ claimed = FALSE

Accept(j) ==
    /\ state[j] = "new"
    /\ pending' = Append(pending, j)
    /\ state' = [state EXCEPT ![j] = "queued"]
    /\ UNCHANGED <<open, claimed>>

Claim ==
    /\ open
    /\ pending # <<>>
    /\ ~claimed
    /\ Cardinality(InState("running")) < Width
    /\ claimed' = TRUE
    /\ UNCHANGED <<pending, state, open>>

Start ==
    /\ claimed
    /\ claimed' = FALSE
    /\ pending' = Tail(pending)
    /\ state' = [state EXCEPT ![Head(pending)] = "running"]
    /\ UNCHANGED open

Finish(j) ==
    /\ state[j] = "running"
    /\ state' = [state EXCEPT ![j] = "done"]
    /\ UNCHANGED <<pending, open, claimed>>

Close ==
    /\ open
    /\ open' = FALSE
    /\ UNCHANGED <<pending, state, claimed>>

Discard ==
    /\ ~open /\ ~claimed
    /\ InState("running") = {}
    /\ pending' = <<>>
    /\ state' = [j \in Jobs |->
                    IF state[j] = "queued" THEN "discarded" ELSE state[j]]
    /\ UNCHANGED <<open, claimed>>

JNext ==
    \/ \E j \in Jobs : Accept(j) \/ Finish(j)
    \/ Claim \/ Start
    \/ Close
    \/ Discard

JSpec == JInit /\ [][JNext]_jobVars
=============================================================================
