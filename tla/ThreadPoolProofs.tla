--------------------------- MODULE ThreadPoolProofs ---------------------------
(***************************************************************************)
(* What ThreadPool guarantees for every number of workers, clients and     *)
(* jobs: its safety invariants, and that it implements JobPool.            *)
(***************************************************************************)
EXTENDS ThreadPool, FiniteSetTheorems, TLAPS

(* A call of thpool_destroy has raised the flag before it broadcasts.      *)
DestroyerRaisedFlag == cpc[Owner] \in {"broadcast", "join", "gone"} => is_shutdown

(* The pool is freed after the last worker has exited.                     *)
FreedAfterExit == cpc[Owner] = "gone" => \A w \in Workers : pc[w] = "exit"

(* A worker about to sleep still has the mutex under which it saw an empty *)
(* list, so the list is still empty.                                       *)
BlockSawEmpty == \A w \in Workers : pc[w] = "block" => queue = <<>>

(* A worker about to take a node still has the mutex under which it saw    *)
(* one on the list.                                                        *)
TakeSawWork == \A w \in Workers : pc[w] = "take" => queue # <<>>

(* A worker holds a node exactly while it runs it.                         *)
RunHoldsNode == \A w \in Workers : worker[w] # None <=> pc[w] = "run"

(* The inductive invariant: what the critical sections rely on.            *)
LockInv ==
    /\ TypeOK
    /\ SizeIsLength
    /\ InsideHoldsLock
    /\ DestroyerRaisedFlag
    /\ FreedAfterExit
    /\ BlockSawEmpty
    /\ TakeSawWork

LEMMA OwnerFacts == Owner \in Clients /\ None \notin Workers /\ None \notin Jobs /\ Workers # {}
BY ThreadPoolAssumption

LEMMA LockInit == Init => LockInv
<1> SUFFICES ASSUME Init PROVE LockInv
  OBVIOUS
<1> USE OwnerFacts DEF Init
<1>1. TypeOK
  <2>1. queue \in Seq(Jobs) /\ curr_queue_size \in Nat
    OBVIOUS
  <2>4. is_shutdown \in BOOLEAN /\ queue_lock \in Workers \cup {None}
    OBVIOUS
  <2>2. pc \in [Workers -> WorkerPc] /\ cpc \in [Clients -> ClientPc]
    BY DEF WorkerPc, ClientPc
  <2>3. worker \in [Workers -> Jobs \cup {None}] /\ status \in [Jobs -> Status]
    BY DEF Status
  <2> QED
    BY <2>1, <2>2, <2>3, <2>4 DEF TypeOK
<1>2. SizeIsLength /\ InsideHoldsLock
  BY DEF SizeIsLength, InsideHoldsLock
<1>3. DestroyerRaisedFlag /\ FreedAfterExit /\ BlockSawEmpty /\ TakeSawWork
  BY DEF DestroyerRaisedFlag, FreedAfterExit, BlockSawEmpty, TakeSawWork
<1> QED
  BY <1>1, <1>2, <1>3 DEF LockInv

LEMMA LockStep == LockInv /\ [Next]_vars => LockInv'
<1> SUFFICES ASSUME LockInv, [Next]_vars PROVE LockInv'
  OBVIOUS
<1> USE OwnerFacts
<1> USE DEF LockInv, TypeOK, SizeIsLength, InsideHoldsLock, DestroyerRaisedFlag,
            FreedAfterExit, BlockSawEmpty, TakeSawWork, WorkerPc, ClientPc, Status, Goto
<1>1. ASSUME NEW c \in Clients, NEW j \in Jobs, AddWorker(c, j) PROVE LockInv'
  BY <1>1 DEF AddWorker, Enqueue
<1>2. ASSUME NEW c \in Clients, Signal(c) PROVE LockInv'
  BY <1>2 DEF Signal, Asleep
<1>3. CASE Shutdown
  BY <1>3 DEF Shutdown
<1>4. CASE Broadcast
  BY <1>4 DEF Broadcast
<1>5. CASE JoinAndFree
  BY <1>5 DEF JoinAndFree, Joined
<1>6. ASSUME NEW w \in Workers, Lock(w) PROVE LockInv'
  BY <1>6 DEF Lock
<1>7. ASSUME NEW w \in Workers, FindNothing(w) PROVE LockInv'
  BY <1>7 DEF FindNothing
<1>8. ASSUME NEW w \in Workers, CondWait(w) PROVE LockInv'
  BY <1>8 DEF CondWait
<1>9. ASSUME NEW w \in Workers, Exit(w) PROVE LockInv'
  BY <1>9 DEF Exit
<1>10. ASSUME NEW w \in Workers, Take(w) PROVE LockInv'
  BY <1>10 DEF Take, Dequeue
<1>11. ASSUME NEW w \in Workers, RunJob(w) PROVE LockInv'
  BY <1>11 DEF RunJob
<1>12. ASSUME NEW w \in Workers, SpuriousWakeup(w) PROVE LockInv'
  BY <1>12 DEF SpuriousWakeup
<1>13. CASE UNCHANGED vars
  BY <1>13 DEF vars
<1>14. ASSUME NEW w \in Workers, FindWork(w) PROVE LockInv'
  BY <1>14 DEF FindWork
<1> QED
  BY <1>1, <1>2, <1>3, <1>4, <1>5, <1>6, <1>7, <1>8, <1>9, <1>10, <1>11, <1>12, <1>13, <1>14
  DEF Next, thread_routine

LEMMA LockInvariance == Spec => []LockInv
BY LockInit, LockStep, PTL DEF Spec

(* Every variable keeps its type.                                          *)
THEOREM TypeCorrect == Spec => []TypeOK
BY LockInvariance, PTL DEF LockInv

(* The counter agrees with the list, so the asserts of thread_routine hold *)
(* and queue_head is never NULL when a worker takes from it.               *)
THEOREM SizeAgrees == Spec => []SizeIsLength
BY LockInvariance, PTL DEF LockInv

(* queue_lock excludes: the worker inside is the one that holds it.        *)
THEOREM MutualExclusion == Spec => []InsideHoldsLock
BY LockInvariance, PTL DEF LockInv

-----------------------------------------------------------------------------
(* Ownership of the nodes.                                                 *)

OwnerInv == OneOwner /\ RunHoldsNode

LEMMA OwnerInit == Init => OwnerInv
BY OwnerFacts DEF Init, OwnerInv, OneOwner, RunHoldsNode

LEMMA OwnerStep == LockInv /\ OwnerInv /\ [Next]_vars => OwnerInv'
<1> SUFFICES ASSUME LockInv, OwnerInv, [Next]_vars PROVE OwnerInv'
  OBVIOUS
<1> USE OwnerFacts
<1> USE DEF LockInv, TypeOK, OwnerInv, OneOwner, RunHoldsNode, Goto, WorkerPc
<1>1. ASSUME NEW c \in Clients, NEW j \in Jobs, AddWorker(c, j) PROVE OwnerInv'
  <2> USE <1>1 DEF AddWorker, Enqueue
  <2>1. /\ Len(queue') = Len(queue) + 1 /\ queue'[Len(queue) + 1] = j
        /\ \A i \in 1..Len(queue) : queue'[i] = queue[i]
        /\ queue' \in Seq(Jobs)
    OBVIOUS
  <2>2. \A i \in DOMAIN queue : queue[i] # j
    OBVIOUS
  <2>3. \A i, k \in DOMAIN queue' : queue'[i] = queue'[k] => i = k
    BY <2>1, <2>2
  <2>4. \A i \in Jobs : status'[i] = "queued" <=> \E k \in DOMAIN queue' : queue'[k] = i
    <3>1. DOMAIN queue = 1..Len(queue) /\ DOMAIN queue' = 1..(Len(queue) + 1)
      BY <2>1
    <3>2. status' = [status EXCEPT ![j] = "queued"]
      OBVIOUS
    <3>3. \A i \in Jobs : status[i] = "queued" <=> \E k \in DOMAIN queue : queue[k] = i
      OBVIOUS
    <3>4. \A i \in Jobs \ {j} : (\E k \in DOMAIN queue : queue[k] = i)
                               <=> (\E k \in DOMAIN queue' : queue'[k] = i)
      BY <3>1, <2>1
    <3>5. \E k \in DOMAIN queue' : queue'[k] = j
      BY <3>1, <2>1
    <3> QED
      BY <3>2, <3>3, <3>4, <3>5
  <2>5. /\ \A i \in Jobs : status'[i] = "running" <=> \E w \in Workers : worker'[w] = i
        /\ \A v, w \in Workers : worker'[v] = worker'[w] /\ worker'[v] # None => v = w
        /\ RunHoldsNode'
    OBVIOUS
  <2> QED
    BY <2>3, <2>4, <2>5
<1>2. ASSUME NEW c \in Clients, Signal(c) PROVE OwnerInv'
  BY <1>2 DEF Signal, Asleep
<1>3. CASE Shutdown
  BY <1>3 DEF Shutdown
<1>4. CASE Broadcast
  BY <1>4 DEF Broadcast
<1>5. CASE JoinAndFree
  BY <1>5 DEF JoinAndFree, Joined
<1>6. ASSUME NEW w \in Workers, Lock(w) PROVE OwnerInv'
  BY <1>6 DEF Lock
<1>7. ASSUME NEW w \in Workers, FindNothing(w) PROVE OwnerInv'
  BY <1>7 DEF FindNothing
<1>8. ASSUME NEW w \in Workers, CondWait(w) PROVE OwnerInv'
  BY <1>8 DEF CondWait
<1>9. ASSUME NEW w \in Workers, Exit(w) PROVE OwnerInv'
  BY <1>9 DEF Exit
<1>10. ASSUME NEW w \in Workers, Take(w) PROVE OwnerInv'
  <2> USE <1>10 DEF Take, Dequeue
  <2>1. Len(queue) > 0
    BY DEF TakeSawWork
  <2> DEFINE h == Head(queue)
  <2>2. /\ h \in Jobs /\ h = queue[1] /\ queue' \in Seq(Jobs)
        /\ Len(queue') = Len(queue) - 1
        /\ \A i \in 1..Len(queue') : queue'[i] = queue[i + 1]
    BY <2>1
  <2>3. h # None /\ status[h] = "queued" /\ \A i \in 2..Len(queue) : queue[i] # h
    <3>1. 1 \in DOMAIN queue /\ queue[1] = h
      BY <2>1, <2>2
    <3>2. h # None
      BY <2>2
    <3>3. status[h] = "queued"
      <4>1. \A j \in Jobs : status[j] = "queued" <=> \E i \in DOMAIN queue : queue[i] = j
        OBVIOUS
      <4>2. h \in Jobs
        BY <2>2
      <4> HIDE DEF h
      <4> QED
        BY <4>1, <4>2, <3>1, Zenon
    <3>4. \A i \in 2..Len(queue) : queue[i] # h
      BY <3>1
    <3> QED
      BY <3>2, <3>3, <3>4
  <2>4. \A i, k \in DOMAIN queue' : queue'[i] = queue'[k] => i = k
    BY <2>1, <2>2
  <2>5. \A j \in Jobs \ {h} : (\E i \in DOMAIN queue : queue[i] = j)
                             <=> (\E i \in DOMAIN queue' : queue'[i] = j)
    <3> SUFFICES ASSUME NEW j \in Jobs, j # h
                 PROVE (\E i \in DOMAIN queue : queue[i] = j)
                         <=> (\E i \in DOMAIN queue' : queue'[i] = j)
      OBVIOUS
    <3>1. ASSUME NEW i \in DOMAIN queue, queue[i] = j
          PROVE i - 1 \in DOMAIN queue' /\ queue'[i - 1] = j
      BY <3>1, <2>1, <2>2
    <3>2. ASSUME NEW i \in DOMAIN queue', queue'[i] = j
          PROVE i + 1 \in DOMAIN queue /\ queue[i + 1] = j
      BY <3>2, <2>1, <2>2
    <3> QED
      BY <3>1, <3>2
  <2>6. \A j \in Jobs : status'[j] = "queued" <=> \E i \in DOMAIN queue' : queue'[i] = j
    BY <2>2, <2>3, <2>5
  <2>7. \A v \in Workers : worker[v] # h
    BY <2>3
  <2>8. worker' = [worker EXCEPT ![w] = h] /\ worker[w] = None
    OBVIOUS
  <2>9. \A j \in Jobs : status'[j] = "running" <=> \E v \in Workers : worker'[v] = j
    BY <2>2, <2>3, <2>7, <2>8
  <2>10. \A u, v \in Workers : worker'[u] = worker'[v] /\ worker'[u] # None => u = v
    BY <2>7, <2>8
  <2>11. RunHoldsNode'
    BY <2>3, <2>8
  <2> QED
    BY <2>4, <2>6, <2>9, <2>10, <2>11
<1>11. ASSUME NEW w \in Workers, RunJob(w) PROVE OwnerInv'
  BY <1>11 DEF RunJob
<1>12. ASSUME NEW w \in Workers, SpuriousWakeup(w) PROVE OwnerInv'
  BY <1>12 DEF SpuriousWakeup
<1>13. CASE UNCHANGED vars
  BY <1>13 DEF vars
<1>14. ASSUME NEW w \in Workers, FindWork(w) PROVE OwnerInv'
  BY <1>14 DEF FindWork
<1> QED
  BY <1>1, <1>2, <1>3, <1>4, <1>5, <1>6, <1>7, <1>8, <1>9, <1>10, <1>11, <1>12, <1>13, <1>14
  DEF Next, thread_routine

LEMMA OwnerInvariance == Spec => [](LockInv /\ OwnerInv)
BY LockInit, LockStep, OwnerInit, OwnerStep, PTL DEF Spec

(* No node is run twice, or freed while it is queued or being run: it is   *)
(* on the list once, or with one worker.                                   *)
THEOREM NodesHaveOneOwner == Spec => []OneOwner
BY OwnerInvariance, PTL DEF OwnerInv

(* Whoever takes the mutex finds the counter, the list and the owners of   *)
(* the nodes in agreement.                                                 *)
THEOREM PoolStaysSound == Spec => []PoolIsSound
BY TypeCorrect, SizeAgrees, MutualExclusion, NodesHaveOneOwner, PTL DEF PoolIsSound

(* The pool is freed when nobody uses it any more.                         *)
THEOREM FreeIsSafe == Spec => []NothingUsesFreedPool
<1>1. LockInv /\ OwnerInv => NothingUsesFreedPool
  BY OwnerFacts DEF LockInv, TypeOK, OwnerInv, OneOwner, RunHoldsNode, InsideHoldsLock,
     FreedAfterExit, NothingUsesFreedPool
<1> QED
  BY <1>1, OwnerInvariance, PTL

-----------------------------------------------------------------------------
(* Wake-ups.                                                               *)

LEMMA WakeupInit == Init => NoLostWakeup
BY DEF Init, NoLostWakeup

LEMMA WakeupStep == LockInv /\ NoLostWakeup /\ [Next]_vars => NoLostWakeup'
<1> SUFFICES ASSUME LockInv, NoLostWakeup, [Next]_vars PROVE NoLostWakeup'
  OBVIOUS
<1> USE OwnerFacts
<1> USE DEF LockInv, TypeOK, NoLostWakeup, Asleep, Goto
<1>1. ASSUME NEW c \in Clients, NEW j \in Jobs, AddWorker(c, j) PROVE NoLostWakeup'
  BY <1>1 DEF AddWorker
<1>2. ASSUME NEW c \in Clients, Signal(c) PROVE NoLostWakeup'
  BY <1>2 DEF Signal
<1>3. CASE Shutdown
  BY <1>3 DEF Shutdown
<1>4. CASE Broadcast
  BY <1>4 DEF Broadcast, DestroyerRaisedFlag
<1>5. CASE JoinAndFree
  BY <1>5 DEF JoinAndFree, DestroyerRaisedFlag
<1>6. ASSUME NEW w \in Workers, Lock(w) PROVE NoLostWakeup'
  BY <1>6 DEF Lock
<1>7. ASSUME NEW w \in Workers, FindNothing(w) PROVE NoLostWakeup'
  BY <1>7 DEF FindNothing
<1>8. ASSUME NEW w \in Workers, CondWait(w) PROVE NoLostWakeup'
  BY <1>8 DEF CondWait, BlockSawEmpty
<1>9. ASSUME NEW w \in Workers, Exit(w) PROVE NoLostWakeup'
  BY <1>9 DEF Exit
<1>10. ASSUME NEW w \in Workers, Take(w) PROVE NoLostWakeup'
  BY <1>10 DEF Take
<1>11. ASSUME NEW w \in Workers, RunJob(w) PROVE NoLostWakeup'
  BY <1>11 DEF RunJob
<1>12. ASSUME NEW w \in Workers, SpuriousWakeup(w) PROVE NoLostWakeup'
  BY <1>12 DEF SpuriousWakeup
<1>13. CASE UNCHANGED vars
  BY <1>13 DEF vars
<1>14. ASSUME NEW w \in Workers, FindWork(w) PROVE NoLostWakeup'
  BY <1>14 DEF FindWork
<1> QED
  BY <1>1, <1>2, <1>3, <1>4, <1>5, <1>6, <1>7, <1>8, <1>9, <1>10, <1>11, <1>12, <1>13, <1>14
  DEF Next, thread_routine

(* Jobs never lie on the list with all workers asleep and no signal due.   *)
THEOREM WakeupsAreNotLost == Spec => []NoLostWakeup
BY LockInit, LockStep, WakeupInit, WakeupStep, PTL DEF Spec
-----------------------------------------------------------------------------
(* Work is shared.                                                         *)

Coming == {w \in Workers : pc[w] \in {"lock", "test", "take"}}
Signalling == {c \in Clients : cpc[c] = "signal"}

LEMMA CountsAreNat ==
    /\ IsFiniteSet(Coming) /\ IsFiniteSet(Signalling)
    /\ Cardinality(Coming) \in Nat /\ Cardinality(Signalling) \in Nat
<1>1. Coming \in SUBSET Workers /\ Signalling \in SUBSET Clients
  BY DEF Coming, Signalling
<1>2. IsFiniteSet(Coming) /\ IsFiniteSet(Signalling)
  BY <1>1, FS_Subset, ThreadPoolAssumption
<1> QED
  BY <1>2, FS_CardinalityType

LEMMA WorkStep ==
  ASSUME LockInv, WorkConserving, [Next]_vars, LockInv'
  PROVE  WorkConserving'
<1> USE OwnerFacts
<1> USE DEF LockInv, TypeOK, Goto
<1> SUFFICES ASSUME ~is_shutdown', Asleep' # {}
             PROVE  Len(queue') <= Cardinality(Coming') + Cardinality(Signalling')
  BY DEF WorkConserving, Coming, Signalling
<1>0. /\ Cardinality(Coming) \in Nat /\ Cardinality(Signalling) \in Nat
      /\ Cardinality(Coming') \in Nat /\ Cardinality(Signalling') \in Nat
      /\ IsFiniteSet(Coming) /\ IsFiniteSet(Signalling)
      /\ IsFiniteSet(Coming') /\ IsFiniteSet(Signalling')
  <2>1. (/\ IsFiniteSet(Coming) /\ IsFiniteSet(Signalling)
         /\ Cardinality(Coming) \in Nat /\ Cardinality(Signalling) \in Nat)'
    BY CountsAreNat, PTL
  <2> QED
    BY <2>1, CountsAreNat
<1>1. ~is_shutdown /\ (Asleep # {} => Len(queue) <= Cardinality(Coming) + Cardinality(Signalling))
  <2>1. ~is_shutdown
    BY DEF Next, thread_routine, vars, AddWorker, Signal, Shutdown, Broadcast, JoinAndFree,
       Lock, FindNothing, CondWait, Exit, FindWork, Take, RunJob, SpuriousWakeup,
       DestroyerRaisedFlag
  <2> QED
    BY <2>1 DEF WorkConserving, Coming, Signalling
<1>2. ASSUME NEW c \in Clients, NEW j \in Jobs, AddWorker(c, j)
      PROVE  Len(queue') <= Cardinality(Coming') + Cardinality(Signalling')
  <2>1. Coming' = Coming /\ Asleep' = Asleep
    BY <1>2 DEF AddWorker, Coming, Asleep
  <2>2. Signalling' = Signalling \cup {c} /\ c \notin Signalling
    BY <1>2 DEF AddWorker, Signalling
  <2>3. Cardinality(Signalling') = Cardinality(Signalling) + 1
    BY <2>2, <1>0, FS_AddElement
  <2>4. Len(queue') = Len(queue) + 1
    BY <1>2 DEF AddWorker, Enqueue
  <2> QED
    BY <2>1, <2>3, <2>4, <1>0, <1>1
<1>3. ASSUME NEW c \in Clients, Signal(c)
      PROVE  Len(queue') <= Cardinality(Coming') + Cardinality(Signalling')
  <2>1. PICK w \in Asleep : pc' = [pc EXCEPT ![w] = "lock"]
    BY <1>3 DEF Signal, Asleep
  <2>2. Signalling' = Signalling \ {c} /\ c \in Signalling
    BY <1>3 DEF Signal, Signalling
  <2>3. Cardinality(Signalling') = Cardinality(Signalling) - 1
    BY <2>2, <1>0, FS_RemoveElement
  <2>4. Coming' = Coming \cup {w} /\ w \notin Coming
    BY <2>1 DEF Coming, Asleep, WorkerPc
  <2>5. Cardinality(Coming') = Cardinality(Coming) + 1
    BY <2>4, <1>0, FS_AddElement
  <2>6. queue' = queue /\ Asleep # {}
    BY <1>3, <2>1 DEF Signal
  <2> QED
    BY <2>3, <2>5, <2>6, <1>0, <1>1
<1>4. ASSUME NEW w \in Workers, Take(w)
      PROVE  Len(queue') <= Cardinality(Coming') + Cardinality(Signalling')
  <2>1. Signalling' = Signalling /\ Asleep' = Asleep
    BY <1>4 DEF Take, Signalling, Asleep
  <2>2. Coming' = Coming \ {w} /\ w \in Coming
    BY <1>4 DEF Take, Coming
  <2>3. Cardinality(Coming') = Cardinality(Coming) - 1
    BY <2>2, <1>0, FS_RemoveElement
  <2>4. Len(queue') = Len(queue) - 1
    <3>1. Len(queue) > 0
      BY <1>4 DEF Take, TakeSawWork
    <3> QED
      BY <3>1, <1>4 DEF Take, Dequeue
  <2> QED
    BY <2>1, <2>3, <2>4, <1>0, <1>1
<1>5. ASSUME NEW w \in Workers, CondWait(w) \/ FindNothing(w)
      PROVE  Len(queue') <= Cardinality(Coming') + Cardinality(Signalling')
  <2>1. queue' = <<>>
    BY <1>5 DEF CondWait, FindNothing, BlockSawEmpty, SizeIsLength, FreedAfterExit
  <2> QED
    BY <2>1, <1>0
<1>6. ASSUME NEW w \in Workers, RunJob(w) \/ SpuriousWakeup(w)
      PROVE  Len(queue') <= Cardinality(Coming') + Cardinality(Signalling')
  <2>1. Signalling' = Signalling /\ queue' = queue /\ Asleep # {}
    BY <1>6 DEF RunJob, SpuriousWakeup, Signalling, Asleep
  <2>2. Coming' = Coming \cup {w} /\ w \notin Coming
    BY <1>6 DEF RunJob, SpuriousWakeup, Coming, WorkerPc
  <2>3. Cardinality(Coming') = Cardinality(Coming) + 1
    BY <2>2, <1>0, FS_AddElement
  <2> QED
    BY <2>1, <2>3, <1>0, <1>1
<1>7. ASSUME NEW w \in Workers, Lock(w) \/ FindWork(w)
      PROVE  Len(queue') <= Cardinality(Coming') + Cardinality(Signalling')
  <2>1. Coming' = Coming /\ Signalling' = Signalling /\ queue' = queue /\ Asleep' = Asleep
    BY <1>7 DEF Lock, FindWork, Coming, Signalling, Asleep
  <2> QED
    BY <2>1, <1>1
<1>8. CASE UNCHANGED vars
  <2>1. Coming' = Coming /\ Signalling' = Signalling /\ queue' = queue /\ Asleep' = Asleep
    BY <1>8 DEF vars, Coming, Signalling, Asleep
  <2> QED
    BY <2>1, <1>1
<1>9. ~Shutdown /\ ~Broadcast /\ ~JoinAndFree /\ \A w \in Workers : ~Exit(w)
  BY <1>1 DEF Shutdown, Broadcast, JoinAndFree, Exit, DestroyerRaisedFlag
<1> QED
  BY <1>2, <1>3, <1>4, <1>5, <1>6, <1>7, <1>8, <1>9 DEF Next, thread_routine

(* While a worker sleeps, every queued job has somebody on the way to it.  *)
THEOREM WorkIsShared == Spec => []WorkConserving
<1>1. Init => WorkConserving
  BY DEF Init, WorkConserving, Asleep
<1>2. LockInv /\ WorkConserving /\ [Next]_vars => WorkConserving'
  BY WorkStep, LockStep
<1> QED
  BY <1>1, <1>2, LockInit, LockStep, PTL DEF Spec

-----------------------------------------------------------------------------
(* Refinement.                                                             *)

Running == {j \in Jobs : status[j] = "running"}

(* A worker without a node leaves room for one more job: the running jobs  *)
(* are held by the others, each by another one.                            *)
LEMMA RoomForOneMore ==
  ASSUME LockInv, OwnerInv, NEW w \in Workers, worker[w] = None
  PROVE  Cardinality(Running) < Cardinality(Workers)
<1> DEFINE holder == [j \in Running |-> CHOOSE v \in Workers : worker[v] = j]
<1>1. \A j \in Running : holder[j] \in Workers /\ worker[holder[j]] = j
  BY DEF Running, OwnerInv, OneOwner
<1>2. \A j \in Running : holder[j] # w
  BY <1>1, OwnerFacts DEF Running
<1>3. holder \in Injection(Running, Workers \ {w})
  <2>1. holder \in [Running -> Workers \ {w}]
    BY <1>1, <1>2
  <2>2. \A i, j \in Running : holder[i] = holder[j] => i = j
    BY <1>1
  <2> QED
    BY <2>1, <2>2 DEF Injection, IsInjective
<1>4. /\ IsFiniteSet(Workers \ {w})
      /\ Cardinality(Workers \ {w}) = Cardinality(Workers) - 1
      /\ Cardinality(Workers) \in Nat
  BY FS_RemoveElement, FS_CardinalityType, ThreadPoolAssumption
<1>5. IsFiniteSet(Running) /\ Cardinality(Running) <= Cardinality(Workers \ {w})
  BY <1>3, <1>4, FS_Injection
<1> QED
  BY <1>4, <1>5, FS_CardinalityType

LEMMA PoolInit == Init => Pool!JInit
BY DEF Init, Pool!JInit

Claimed == \E w \in Workers : pc[w] = "take"

(* Only the worker inside the critical section can have claimed a job.     *)
LEMMA ClaimIsInside ==
  ASSUME InsideHoldsLock, NEW w \in Workers, pc[w] \in {"test", "block", "take"}
  PROVE  \A v \in Workers : pc[v] = "take" => v = w
BY DEF InsideHoldsLock

LEMMA PoolStep == LockInv /\ OwnerInv /\ [Next]_vars => [Pool!JNext]_(Pool!jobVars)
<1> SUFFICES ASSUME LockInv, OwnerInv, Next
             PROVE  Pool!JNext \/ UNCHANGED Pool!jobVars
  BY DEF vars, Pool!jobVars
<1> USE OwnerFacts
<1> USE DEF LockInv, TypeOK
<1>1. ASSUME NEW c \in Clients, NEW j \in Jobs, AddWorker(c, j) PROVE Pool!Accept(j)
  BY <1>1 DEF AddWorker, Enqueue, Pool!Accept
<1>2. ASSUME NEW c \in Clients, Signal(c) PROVE UNCHANGED Pool!jobVars
  <2>1. \A w \in Workers : pc'[w] = "take" <=> pc[w] = "take"
    BY <1>2 DEF Signal, Asleep
  <2> QED
    BY <1>2, <2>1 DEF Signal, Pool!jobVars
<1>3. ASSUME Shutdown PROVE Pool!Close
  BY <1>3 DEF Shutdown, Pool!Close
<1>4. ASSUME Broadcast PROVE UNCHANGED Pool!jobVars
  <2>1. \A w \in Workers : pc'[w] = "take" <=> pc[w] = "take"
    BY <1>4 DEF Broadcast
  <2> QED
    BY <1>4, <2>1 DEF Broadcast, Pool!jobVars
<1>5. ASSUME JoinAndFree PROVE Pool!Discard
  <2>1. is_shutdown
    BY <1>5 DEF JoinAndFree, DestroyerRaisedFlag
  <2>2. Pool!InState("running") = {}
    BY <1>5 DEF JoinAndFree, Joined, OwnerInv, OneOwner, RunHoldsNode, Pool!InState
  <2>3. status' = [j \in Jobs |-> IF status[j] = "queued" THEN "discarded" ELSE status[j]]
    BY <1>5 DEF JoinAndFree, OwnerInv, OneOwner
  <2>4. ~Claimed
    BY <1>5 DEF JoinAndFree, Joined, Claimed
  <2> QED
    BY <1>5, <2>1, <2>2, <2>3, <2>4 DEF JoinAndFree, Pool!Discard, Claimed
<1>6. ASSUME NEW w \in Workers, FindWork(w) PROVE Pool!Claim
  <2>1. queue # <<>>
    BY <1>6 DEF FindWork, SizeIsLength, FreedAfterExit
  <2>2. worker[w] = None
    BY <1>6 DEF FindWork, OwnerInv, RunHoldsNode
  <2>3. Cardinality(Pool!InState("running")) < Cardinality(Workers)
    BY <2>2, RoomForOneMore DEF Running, Pool!InState
  <2>4. ~is_shutdown /\ UNCHANGED <<queue, status, is_shutdown>>
    BY <1>6 DEF FindWork
  <2>5. ~Claimed
    BY <1>6, ClaimIsInside DEF FindWork, Claimed
  <2>6. \E v \in Workers : pc'[v] = "take"
    BY <1>6 DEF FindWork, Goto
  <2> QED
    BY <2>1, <2>3, <2>4, <2>5, <2>6
    DEF Pool!Claim, Pool!Cardinality, Cardinality, Claimed
<1>9. ASSUME NEW w \in Workers, Take(w) PROVE Pool!Start
  <2>1. pc[w] = "take" /\ pc' = [pc EXCEPT ![w] = "run"] /\ UNCHANGED is_shutdown
    BY <1>9 DEF Take, Goto
  <2>2. \A v \in Workers : pc[v] = "take" => v = w
    BY <2>1, ClaimIsInside
  <2>3. ~\E v \in Workers : pc'[v] = "take"
    BY <2>1, <2>2
  <2>4. queue' = Tail(queue) /\ status' = [status EXCEPT ![Head(queue)] = "running"]
    BY <1>9 DEF Take, Dequeue
  <2> QED
    BY <2>1, <2>3, <2>4 DEF Pool!Start
<1>7. ASSUME NEW w \in Workers, RunJob(w) PROVE Pool!Finish(worker[w]) /\ worker[w] \in Jobs
  <2>1. worker[w] \in Jobs /\ status[worker[w]] = "running"
    BY <1>7 DEF RunJob, OwnerInv, OneOwner, RunHoldsNode
  <2>2. \A v \in Workers : pc'[v] = "take" <=> pc[v] = "take"
    BY <1>7 DEF RunJob, Goto
  <2> QED
    BY <1>7, <2>1, <2>2 DEF RunJob, Pool!Finish
<1>8. ASSUME NEW w \in Workers,
             Lock(w) \/ FindNothing(w) \/ CondWait(w) \/ Exit(w) \/ SpuriousWakeup(w)
      PROVE  UNCHANGED Pool!jobVars
  <2>1. \A v \in Workers : pc'[v] = "take" <=> pc[v] = "take"
    BY <1>8 DEF Lock, FindNothing, CondWait, Exit, SpuriousWakeup, Goto
  <2> QED
    BY <1>8, <2>1 DEF Lock, FindNothing, CondWait, Exit, SpuriousWakeup, Pool!jobVars
<1> QED
  BY <1>1, <1>2, <1>3, <1>4, <1>5, <1>6, <1>7, <1>8, <1>9 DEF Next, thread_routine, Pool!JNext

(* The pool keeps its promise to its clients: first come first started,    *)
(* each job at most once, no more at a time than there are workers.  Once  *)
(* thpool_destroy has raised the flag no worker decides to take a job: at  *)
(* most one more starts, which a worker in its critical section was about  *)
(* to take when the flag went up.                                          *)
THEOREM PoolKeepsPromise == Spec => ImplementsJobPool
BY PoolInit, PoolStep, OwnerInvariance, PTL DEF Spec, ImplementsJobPool, Pool!JSpec
=============================================================================
