--------------------------- MODULE TaskIoPlacesProofs ---------------------------
(***************************************************************************)
(* The scheduler, for any number of threads, operations and descriptors:   *)
(* every operation is in one place from its post to its handler, and an    *)
(* op_set is linked once, whatever the interleaving of posts, polls,       *)
(* cancels and merges.                                                     *)
(***************************************************************************)
EXTENDS TaskIoServiceProofs

-----------------------------------------------------------------------------
(* Where an element stands in a list.                                      *)

In(x, q) == At(x, q) # {}

(* Seen from the other list, a merge is a merge too.                       *)
LEMMA MergedTurned ==
    ASSUME NEW S, NEW a \in Seq(S), NEW b \in Seq(S)
    PROVE  Merged(a, b) \subseteq Merged(b, a)
<1> DEFINE n == Len(a) + Len(b)
<1>0. /\ n \in Nat /\ Len(a) \in Nat /\ Len(b) \in Nat
      /\ Len(b) + Len(a) = n
  OBVIOUS
<1> SUFFICES ASSUME NEW q \in Merged(a, b) PROVE q \in Merged(b, a)
  OBVIOUS
<1>1. PICK at \in SUBSET (1..n) :
         /\ Cardinality(at) = Len(b)
         /\ q = [i \in 1..n |-> IF i \in at THEN b[Upto(at, i)] ELSE a[i - Upto(at, i)]]
  BY DEF Merged, Upto
<1> DEFINE rest == (1..n) \ at
<1>2. IsFiniteSet(1..n) /\ Cardinality(1..n) = n
  <2>1. 1 \in Int /\ n \in Int /\ 1 <= n + 1 /\ n - 1 + 1 = n
    BY <1>0
  <2> HIDE DEF n
  <2>2. IsFiniteSet(1..n) /\ Cardinality(1..n) = n - 1 + 1
    BY <2>1, IntervalSize
  <2> QED
    BY <2>1, <2>2
<1> HIDE DEF n
<1>3. Cardinality(rest) = Len(a)
  <2>1. Cardinality(rest) = Cardinality(1..n) - Cardinality((1..n) \cap at)
    BY <1>2, FS_Difference
  <2>2. (1..n) \cap at = at
    BY <1>1
  <2>3. n - Len(b) = Len(a)
    BY <1>0
  <2> QED
    BY <1>1, <1>2, <2>1, <2>2, <2>3
<1>4. ASSUME NEW i \in 1..n PROVE i - Upto(rest, i) = Upto(at, i) /\ i - Upto(at, i) = Upto(rest, i)
  <2>1. IsFiniteSet(1..i) /\ Cardinality(1..i) = i
    <3>1. 1 \in Int /\ i \in Int /\ 1 <= i + 1 /\ i - 1 + 1 = i
      BY <1>0
    <3>2. IsFiniteSet(1..i) /\ Cardinality(1..i) = i - 1 + 1
      BY <3>1, IntervalSize
    <3> QED
      BY <3>1, <3>2
  <2>2. rest \cap (1..i) = (1..i) \ at
    BY <1>0
  <2>3. Cardinality((1..i) \ at) = Cardinality(1..i) - Cardinality((1..i) \cap at)
    BY <2>1, FS_Difference
  <2>4. (1..i) \cap at = at \cap (1..i)
    OBVIOUS
  <2>5. Upto(rest, i) = i - Upto(at, i)
    BY <2>1, <2>2, <2>3, <2>4 DEF Upto
  <2>6. Upto(at, i) \in Nat /\ i \in Int
    <3>1. at \cap (1..i) \subseteq 1..i
      OBVIOUS
    <3>2. Cardinality(at \cap (1..i)) \in Nat
      BY <2>1, <3>1, FS_Subset, FS_CardinalityType, Zenon
    <3> QED
      BY <1>0, <3>2 DEF Upto
  <2> QED
    BY <2>5, <2>6
<1>5. q = [i \in 1..n |-> IF i \in rest THEN a[Upto(rest, i)] ELSE b[i - Upto(rest, i)]]
  BY <1>1, <1>4
<1>6. rest \in SUBSET (1..n)
  OBVIOUS
<1> HIDE DEF rest
<1> QED
  BY <1>0, <1>3, <1>5, <1>6 DEF Merged, Upto

(* An element of one of two lists at most is in the merged one as often.   *)
LEMMA MergedHas ==
    ASSUME NEW S, NEW a \in Seq(S), NEW b \in Seq(S), NEW q \in Merged(a, b), NEW x,
           AtMostOne(x, a), AtMostOne(x, b), ~(In(x, a) /\ In(x, b))
    PROVE  /\ AtMostOne(x, q)
           /\ In(x, q) <=> In(x, a) \/ In(x, b)
<1>1. CASE ~In(x, b)
  <2>1. \A j \in 1..Len(b) : b[j] # x
    BY <1>1 DEF In, At
  <2> QED
    BY <1>1, <2>1, MergedKeeps DEF In
<1>2. CASE ~In(x, a)
  <2>1. \A j \in 1..Len(a) : a[j] # x
    BY <1>2 DEF In, At
  <2>2. q \in Merged(b, a)
    BY MergedTurned
  <2> QED
    BY <1>2, <2>1, <2>2, MergedKeeps DEF In
<1> QED
  BY <1>1, <1>2

LEMMA MergedSeq ==
    ASSUME NEW S, NEW a \in Seq(S), NEW b \in Seq(S), NEW q \in Merged(a, b)
    PROVE  q \in Seq(S)
BY MergedShape

(* A merge keeps the order of the first list.                              *)
LEMMA MergedOrder ==
    ASSUME NEW S, NEW a \in Seq(S), NEW b \in Seq(S), NEW q \in Merged(a, b), NEW x, NEW y,
           ~In(x, b), ~In(y, b),
           \A i \in At(x, a), k \in At(y, a) : i < k
    PROVE  \A i \in At(x, q), k \in At(y, q) : i < k
<1>1. q \in Seq(S)
  BY MergedShape
<1>2. PICK at, place : Interleaves(q, a, b, at, place)
  BY MergedShape
<1>3. ASSUME NEW z, ~In(z, b), NEW i \in At(z, q)
      PROVE  i \in (1..Len(q)) \ at /\ place[i] \in At(z, a)
  <2>1. i \in 1..Len(q) /\ q[i] = z /\ \A j \in 1..Len(b) : b[j] # z
    BY <1>3 DEF At, In
  <2>2. i \notin at
    BY <1>2, <2>1 DEF Interleaves
  <2>3. a[place[i]] = z /\ place[i] \in 1..Len(a)
    BY <1>2, <2>1, <2>2 DEF Interleaves
  <2> QED
    BY <2>1, <2>2, <2>3 DEF At
<1> SUFFICES ASSUME NEW i \in At(x, q), NEW k \in At(y, q), ~(i < k) PROVE FALSE
  OBVIOUS
<1>4. place[i] < place[k] /\ place[i] \in Int /\ place[k] \in Int
  <2>1. place[i] \in At(x, a) /\ place[k] \in At(y, a)
    BY <1>3
  <2> QED
    BY <2>1 DEF At
<1>5. CASE i = k
  BY <1>4, <1>5
<1>6. CASE k < i
  BY <1>2, <1>3, <1>4, <1>6 DEF Interleaves
<1>7. i \in Int /\ k \in Int
  BY DEF At
<1> QED
  BY <1>5, <1>6, <1>7

(* An order of a set lists each of its elements once.                      *)
LEMMA OrderLists ==
    ASSUME NEW S, IsFiniteSet(S), NEW q \in Orders(S)
    PROVE  /\ q \in Seq(S)
           /\ \A x : AtMostOne(x, q) /\ (In(x, q) <=> x \in S)
<1> DEFINE n == Cardinality(S)
<1>1. n \in Nat /\ q \in [1..n -> S] /\ \A i, k \in 1..n : q[i] = q[k] => i = k
  BY FS_CardinalityType DEF Orders
<1>2. q \in Seq(S) /\ Len(q) = n
  BY <1>1
<1>3. IsFiniteSet(1..n) /\ Cardinality(1..n) = n
  <2>1. 1 \in Int /\ n \in Int /\ 1 <= n + 1 /\ n - 1 + 1 = n
    BY <1>1
  <2> HIDE DEF n
  <2>2. IsFiniteSet(1..n) /\ Cardinality(1..n) = n - 1 + 1
    BY <2>1, IntervalSize
  <2> QED
    BY <2>1, <2>2
<1>4. q \in Surjection(1..n, S)
  <2>1. q \in Injection(1..n, S)
    BY <1>1 DEF Injection, IsInjective
  <2> QED
    BY <1>3, <2>1, FS_Injection
<1>5. \A x \in S : \E i \in 1..n : q[i] = x
  BY <1>4 DEF Surjection
<1> HIDE DEF n
<1>6. ASSUME NEW x PROVE AtMostOne(x, q) /\ (In(x, q) <=> x \in S)
  <2>1. \A i \in At(x, q) : i \in 1..n /\ q[i] = x
    BY <1>2 DEF At
  <2>2. x \in S => In(x, q)
    BY <1>2, <1>5 DEF In, At
  <2>3. In(x, q) => x \in S
    BY <1>1, <2>1 DEF In
  <2> QED
    BY <1>1, <2>1, <2>2, <2>3 DEF AtMostOne
<1> QED
  BY <1>2, <1>6

LEMMA EmptyList == \A x : At(x, <<>>) = {} /\ AtMostOne(x, <<>>) /\ ~In(x, <<>>)
BY DEF At, AtMostOne, In

-----------------------------------------------------------------------------
(* The lists an element can be on: the queue of the service, the private   *)
(* queue of a runner, the operations a thread has yet to post.             *)

Shared == <<"shared", None>>
Own(r) == <<"private", r>>
Back(t) == <<"deferred", t>>

Keys == {Shared} \cup {Own(r) : r \in Runners} \cup {Back(t) : t \in Threads}

List(k) == IF k[1] = "shared" THEN op_que
           ELSE IF k[1] = "private" THEN private_op_que[k[2]]
           ELSE deferred[k[2]]

On(x) == {k \in Keys : In(x, List(k))}

(* Nothing is linked twice, on one list or on two.                         *)
Listed ==
    \A x \in Ops \cup Sets : /\ \A k \in Keys : AtMostOne(x, List(k))
                             /\ \A k, l \in On(x) : k = l

LEMMA KeysApart ==
    /\ Shared \in Keys
    /\ \A r \in Runners : Own(r) \in Keys /\ Own(r) # Shared
    /\ \A t \in Threads : Back(t) \in Keys /\ Back(t) # Shared
    /\ \A r \in Runners, t \in Threads : Own(r) # Back(t)
    /\ \A r, u \in Runners : Own(r) = Own(u) => r = u
    /\ \A t, u \in Threads : Back(t) = Back(u) => t = u
    /\ \A k \in Keys : \/ k = Shared
                       \/ \E r \in Runners : k = Own(r)
                       \/ \E t \in Threads : k = Back(t)
BY DEF Keys, Shared, Own, Back

LEMMA ListsAre ==
    /\ List(Shared) = op_que /\ List(Shared)' = op_que'
    /\ \A r : List(Own(r)) = private_op_que[r]
    /\ \A r : List(Own(r))' = private_op_que'[r]
    /\ \A t : List(Back(t)) = deferred[t]
    /\ \A t : List(Back(t))' = deferred'[t]
BY DEF List, Shared, Own, Back

LEMMA ListTypes == ASSUME Types, NEW k \in Keys PROVE List(k) \in Seq(Elements)
<1>1. CASE k = Shared
  BY <1>1, ListsAre DEF Types
<1>2. ASSUME NEW r \in Runners, k = Own(r) PROVE List(k) \in Seq(Elements)
  <2>1. private_op_que[r] \in Seq(Ops \cup Sets)
    BY DEF Types
  <2>2. private_op_que[r] \in Seq(Elements)
    BY <2>1 DEF Elements
  <2> QED
    BY <1>2, <2>2, ListsAre
<1>3. ASSUME NEW t \in Threads, k = Back(t) PROVE List(k) \in Seq(Elements)
  <2>1. deferred[t] \in Seq(Ops)
    BY DEF Types
  <2>2. deferred[t] \in Seq(Elements)
    BY <2>1 DEF Elements
  <2> QED
    BY <1>3, <2>2, ListsAre
<1> QED
  BY <1>1, <1>2, <1>3, KeysApart

(* One list changes; what is new on it was on no other.                    *)
LEMMA OneListChanges ==
    ASSUME Listed, NEW k \in Keys,
           \A m \in Keys : m # k => List(m)' = List(m),
           \A x \in Ops \cup Sets : AtMostOne(x, List(k)'),
           \A x \in Ops \cup Sets : In(x, List(k)') => On(x) \subseteq {k}
    PROVE  /\ Listed'
           /\ \A x \in Ops \cup Sets :
                 On(x)' = IF In(x, List(k)') THEN {k} ELSE On(x) \ {k}
<1>1. ASSUME NEW x \in Ops \cup Sets
      PROVE  On(x)' = IF In(x, List(k)') THEN {k} ELSE On(x) \ {k}
  <2>1. On(x)' = {m \in Keys : In(x, List(m)')}
    BY DEF On
  <2>2. \A m \in Keys : m # k => (In(x, List(m)') <=> In(x, List(m)))
    OBVIOUS
  <2>3. \A m \in Keys : m \in On(x) <=> In(x, List(m))
    BY DEF On
  <2>4. On(x) \subseteq Keys
    BY DEF On
  <2> QED
    BY <2>1, <2>2, <2>3, <2>4
<1>2. ASSUME NEW x \in Ops \cup Sets
      PROVE  (\A m \in Keys : AtMostOne(x, List(m)')) /\ \A m, l \in On(x)' : m = l
  <2>1. \A m \in Keys : AtMostOne(x, List(m)')
    BY DEF Listed
  <2>2. \A m, l \in On(x) : m = l
    BY DEF Listed
  <2> QED
    BY <1>1, <2>1, <2>2
<1>3. Listed'
  BY <1>2 DEF Listed
<1> QED
  BY <1>1, <1>3

(* One list is merged into another.                                        *)
LEMMA ListsMerge ==
    ASSUME Types, Listed, NEW k \in Keys, NEW l \in Keys, k # l,
           List(k)' \in Merged(List(k), List(l)), List(l)' = <<>>,
           \A m \in Keys : m # k /\ m # l => List(m)' = List(m)
    PROVE  /\ Listed'
           /\ \A x \in Ops \cup Sets :
                 /\ In(x, List(k)') <=> In(x, List(k)) \/ In(x, List(l))
                 /\ On(x)' = IF l \in On(x) THEN {k} ELSE On(x)
<1>0. List(k) \in Seq(Elements) /\ List(l) \in Seq(Elements)
  BY ListTypes
<1>1. ASSUME NEW x \in Ops \cup Sets
      PROVE  AtMostOne(x, List(k)') /\ (In(x, List(k)') <=> In(x, List(k)) \/ In(x, List(l)))
  <2>1. AtMostOne(x, List(k)) /\ AtMostOne(x, List(l))
    BY DEF Listed
  <2>2. ~(In(x, List(k)) /\ In(x, List(l)))
    BY DEF Listed, On
  <2> QED
    BY <1>0, <2>1, <2>2, MergedHas
<1>2. \A x \in Ops \cup Sets : AtMostOne(x, List(l)') /\ ~In(x, List(l)')
  BY EmptyList
<1>3. ASSUME NEW x \in Ops \cup Sets PROVE On(x)' = IF l \in On(x) THEN {k} ELSE On(x)
  <2>1. On(x)' = {m \in Keys : In(x, List(m)')}
    BY DEF On
  <2>2. \A m \in Keys : m # k /\ m # l => (In(x, List(m)') <=> In(x, List(m)))
    OBVIOUS
  <2>3. \A m \in Keys : m \in On(x) <=> In(x, List(m))
    BY DEF On
  <2>4. On(x) \subseteq Keys /\ \A m, j \in On(x) : m = j
    BY DEF On, Listed
  <2>5. \A m \in Keys : m \in On(x)' <=> IF m = k THEN k \in On(x) \/ l \in On(x)
                                         ELSE m # l /\ m \in On(x)
    BY <1>1, <1>2, <2>1, <2>2, <2>3
  <2>6. On(x)' \subseteq Keys
    BY <2>1
  <2> QED
    BY <2>4, <2>5, <2>6
<1>4. ASSUME NEW x \in Ops \cup Sets
      PROVE  (\A m \in Keys : AtMostOne(x, List(m)')) /\ \A m, j \in On(x)' : m = j
  <2>1. \A m \in Keys : m # k /\ m # l => AtMostOne(x, List(m)')
    BY DEF Listed
  <2>2. \A m, j \in On(x) : m = j
    BY DEF Listed
  <2> QED
    BY <1>1, <1>2, <1>3, <2>1, <2>2
<1>5. Listed'
  BY <1>4 DEF Listed
<1> QED
  BY <1>1, <1>3, <1>5

LEMMA ListsStay ==
    ASSUME op_que' = op_que, private_op_que' = private_op_que, deferred' = deferred
    PROVE  /\ \A k : List(k)' = List(k)
           /\ \A x : On(x)' = On(x)
           /\ Listed => Listed'
BY DEF List, On, Listed

(* Which lists a step leaves alone.                                        *)
LEMMA OnlyShared ==
    ASSUME private_op_que' = private_op_que, deferred' = deferred
    PROVE  \A m \in Keys : m # Shared => List(m)' = List(m)
BY KeysApart, ListsAre

LEMMA OnlyOwn ==
    ASSUME op_que' = op_que, deferred' = deferred, NEW r \in Runners,
           \A u \in Runners : u # r => private_op_que'[u] = private_op_que[u]
    PROVE  \A m \in Keys : m # Own(r) => List(m)' = List(m)
BY KeysApart, ListsAre

LEMMA OnlyBack ==
    ASSUME op_que' = op_que, private_op_que' = private_op_que, NEW t \in Threads,
           \A u \in Threads : u # t => deferred'[u] = deferred[u]
    PROVE  \A m \in Keys : m # Back(t) => List(m)' = List(m)
BY KeysApart, ListsAre

-----------------------------------------------------------------------------
(* What of the types ServiceInv and WakeInv do not say.                    *)
Switches ==
    /\ task_interrupted \in BOOLEAN /\ stopped \in BOOLEAN
    /\ poller \in BOOLEAN /\ shutdown \in BOOLEAN
    /\ block \in [Runners -> BOOLEAN]

Registers ==
    /\ mutex \in Runners \cup {None}
    /\ outstanding_work \in Int
    /\ lost_work \in Int
    /\ in_run \in SUBSET Runners
    /\ reg \in [Threads -> Int]
    /\ private_work \in [Runners -> Nat]
    /\ set_mutex \in [Sets -> Threads \cup {None}]
    /\ status \in [Ops -> Status]

(* The surplus that work_cleanup counts off is there.                      *)
CleanHasWork == \A r \in Runners : pc[r] = "clean_store" => private_work[r] > 0

TypesInv == WakeInv /\ Switches /\ Registers /\ CleanHasWork

LEMMA InterruptTypes ==
    ASSUME Switches, Interrupt
    PROVE  task_interrupted' \in BOOLEAN /\ block' \in [Runners -> BOOLEAN]
<1>1. CASE ~task_interrupted /\ poller
  BY <1>1, Zenon DEF Interrupt, InterruptWakes, Switches
<1>2. CASE ~(~task_interrupted /\ poller)
  BY <1>2, Zenon DEF Interrupt, Switches
<1> QED
  BY <1>1, <1>2

LEMMA WakeTypes ==
    ASSUME Switches, WakeOne \/ StopAll
    PROVE  task_interrupted' \in BOOLEAN /\ block' \in [Runners -> BOOLEAN]
<1>1. CASE WakeOne
  BY <1>1, InterruptTypes, Zenon DEF WakeOne, Switches
<1>2. CASE StopAll
  BY <1>2, InterruptTypes DEF StopAll
<1> QED
  BY <1>1, <1>2

LEMMA BlockSet ==
    ASSUME Switches, NEW r, NEW b \in BOOLEAN, block' = [block EXCEPT ![r] = b]
    PROVE  block' \in [Runners -> BOOLEAN]
BY Zenon DEF Switches

LEMMA SwitchSteps == ASSUME Switches, [Next]_vars PROVE Switches'
<1> USE DEF Switches, queueVars, lifeVars, workVars, runnerVars, reactorVars, callVars
<1>1. ASSUME NEW t \in Threads, Call(t) PROVE Switches'
  <2>1. ASSUME NEW o, PostPrivate(t, o) \/ PostLoad(t, o) PROVE Switches'
    BY <2>1, Zenon DEF PostPrivate, PostLoad
  <2>2. ASSUME NEW s, NEW o, StartLoad(t, s, o) PROVE Switches'
    BY <2>2, Zenon DEF StartLoad
  <2>3. ASSUME NEW s, CancelOps(t, s) PROVE Switches'
    BY <2>3, Zenon DEF CancelOps
  <2>4. CASE Stop(t)
    <3>1. task_interrupted' \in BOOLEAN /\ block' \in [Runners -> BOOLEAN]
      BY <2>4, WakeTypes DEF Stop
    <3> QED
      BY <2>4, <3>1, Zenon DEF Stop, StopAll
  <2>5. CASE Reset(t)
    BY <2>5, Zenon DEF Reset
  <2>6. CASE InitTask(t)
    BY <2>6, Zenon DEF InitTask
  <2> QED
    BY <1>1, <2>1, <2>2, <2>3, <2>4, <2>5, <2>6 DEF Call
<1>2. ASSUME NEW t \in Threads, NEW from, NEW to, Deferred(t, from, to) PROVE Switches'
  <2>1. task_interrupted' \in BOOLEAN /\ block' \in [Runners -> BOOLEAN]
    <3>1. CASE WakeOne
      BY <3>1, WakeTypes
    <3>2. CASE UNCHANGED <<queueVars, block>>
      BY <3>2, Zenon
    <3> QED
      BY <1>2, <3>1, <3>2, Zenon DEF Deferred
  <2> QED
    BY <1>2, <2>1, Zenon DEF Deferred
<1>3. ASSUME NEW t \in Threads, Continue(t) PROVE Switches'
  <2>1. CASE PostStore(t) \/ StartStore(t)
    BY <2>1, Zenon DEF PostStore, StartStore
  <2>2. CASE PostPush(t)
    <3>1. task_interrupted' \in BOOLEAN /\ block' \in [Runners -> BOOLEAN]
      BY <2>2, WakeTypes DEF PostPush
    <3> QED
      BY <2>2, <3>1, Zenon DEF PostPush
  <2> QED
    BY <1>2, <1>3, <2>1, <2>2, Zenon DEF Continue, PostDeferred
<1>4. ASSUME NEW r \in Runners, Run(r) \/ RunStep(r) PROVE Switches'
  <2>1. CASE Run(r) \/ Leave(r) \/ GoIdle(r) \/ WakeUp(r) \/ Poll(r) \/ PollTimeout(r)
    BY <2>1, Zenon DEF Run, Leave, GoIdle, WakeUp, Poll, PollTimeout
  <2>2. CASE \/ NoneLoad(r) \/ NoneStore(r) \/ Return(r) \/ WorkCleanup(r)
             \/ CleanStore(r) \/ FinishStore(r) \/ MergePrivate(r)
    BY <2>2, Zenon
    DEF NoneLoad, NoneStore, Return, WorkCleanup, CleanStore, FinishStore, MergePrivate
  <2>3. CASE PerformIo(r)
    BY <2>3, Zenon DEF PerformIo
  <2>4. CASE RunNoWork(r) \/ FinishStop(r)
    <3>1. task_interrupted' \in BOOLEAN /\ block' \in [Runners -> BOOLEAN]
      BY <2>4, WakeTypes DEF RunNoWork, FinishStop, StopFrom
    <3> QED
      BY <2>4, <3>1, Zenon DEF RunNoWork, FinishStop, StopFrom, StopAll
  <2>5. CASE TakeTask(r)
    <3>1. PICK more \in BOOLEAN : task_interrupted' = more /\ block' = [block EXCEPT ![r] = ~more]
      BY <2>5, Zenon DEF TakeTask
    <3>2. (~more) \in BOOLEAN
      BY Zenon
    <3>3. block' \in [Runners -> BOOLEAN]
      BY <3>1, <3>2, BlockSet
    <3> QED
      BY <2>5, <3>1, <3>3, Zenon DEF TakeTask
  <2>6. CASE TakeOp(r)
    <3>1. task_interrupted' \in BOOLEAN /\ block' \in [Runners -> BOOLEAN]
      BY <2>6, WakeTypes, Zenon DEF TakeOp
    <3> QED
      BY <2>6, <3>1, Zenon DEF TakeOp
  <2>7. CASE TaskCleanup(r)
    <3>1. block' \in [Runners -> BOOLEAN]
      BY <2>7, BlockSet, FALSE \in BOOLEAN DEF TaskCleanup
    <3> QED
      BY <2>7, <3>1, Zenon DEF TaskCleanup, BackFromPoll
  <2> QED
    BY <1>2, <1>4, <2>1, <2>2, <2>3, <2>4, <2>5, <2>6, <2>7, NamesAreApart, Zenon
    DEF RunStep, PerformIoDefer
<1>5. CASE ShutdownService
  BY <1>5, Zenon DEF ShutdownService
<1>6. CASE (\E s \in Sets : Event(s)) \/ UNCHANGED vars
  BY <1>6, Zenon DEF Event, vars
<1> QED
  BY <1>1, <1>3, <1>4, <1>5, <1>6 DEF Next

LEMMA RegisterSteps ==
    ASSUME Registers, CleanHasWork, Types, [Next]_vars PROVE Registers' /\ CleanHasWork'
<1> USE DEF Registers, CleanHasWork, Types, Loses, queueVars, lifeVars, workVars, runnerVars,
            reactorVars, callVars, Status
<1>0. Runners \subseteq Threads /\ service.ops \subseteq Ops
  BY NamesAreApart
<1>a. ASSUME NEW t \in Threads, NEW to, Goto(t, to), to # "clean_store",
             \A r \in Runners : r # t => private_work'[r] = private_work[r]
      PROVE  CleanHasWork'
  BY <1>a, <1>0, ThreadMoves
<1>1. ASSUME NEW t \in Threads, Call(t) PROVE Registers' /\ CleanHasWork'
  <2>1. ASSUME NEW o \in service.ops, PostPrivate(t, o) PROVE Registers' /\ CleanHasWork'
    <3>1. t \in Runners /\ private_work' = [private_work EXCEPT ![t] = @ + 1]
      BY <2>1 DEF PostPrivate
    <3>2. private_work' \in [Runners -> Nat] /\ \A r \in Runners : private_work'[r] >= private_work[r]
      BY <3>1
    <3>3. CleanHasWork'
      BY <2>1, <3>2 DEF PostPrivate
    <3> QED
      BY <2>1, <3>2, <3>3 DEF PostPrivate
  <2>2. ASSUME NEW o \in service.ops, PostLoad(t, o) PROVE Registers' /\ CleanHasWork'
    BY <2>2, <1>a, <1>0 DEF PostLoad
  <2>3. ASSUME NEW s \in Sets, NEW o \in service.ops, StartLoad(t, s, o)
        PROVE  Registers' /\ CleanHasWork'
    BY <2>3, <1>a, <1>0 DEF StartLoad
  <2>4. ASSUME NEW s \in Sets, CancelOps(t, s) PROVE Registers' /\ CleanHasWork'
    BY <2>4, <1>a, <1>0 DEF CancelOps
  <2>5. CASE Stop(t) \/ Reset(t) \/ InitTask(t)
    BY <2>5 DEF Stop, Reset, InitTask
  <2> QED
    BY <1>1, <2>1, <2>2, <2>3, <2>4, <2>5 DEF Call
<1>2. ASSUME NEW t \in Threads, NEW from, NEW to, Deferred(t, from, to), to # "clean_store"
      PROVE  Registers' /\ CleanHasWork'
  BY <1>2, <1>a, <1>0 DEF Deferred
<1>3. ASSUME NEW t \in Threads, Continue(t) PROVE Registers' /\ CleanHasWork'
  <2>1. CASE PostStore(t)
    <3>1. outstanding_work' \in Int /\ lost_work' \in Int /\ reg' \in [Threads -> Int]
      BY <2>1 DEF PostStore
    <3>2. CleanHasWork'
      BY <2>1, <1>a DEF PostStore
    <3> QED
      BY <2>1, <3>1, <3>2 DEF PostStore
  <2>2. CASE StartStore(t)
    <3>1. outstanding_work' \in Int /\ lost_work' \in Int /\ reg' \in [Threads -> Int]
      BY <2>2 DEF StartStore
    <3>2. set_mutex' \in [Sets -> Threads \cup {None}]
      BY <2>2 DEF StartStore
    <3>3. status' \in [Ops -> Status]
      BY <2>2 DEF StartStore
    <3>4. CleanHasWork'
      BY <2>2, <1>a, HomeIsPlace DEF StartStore
    <3> QED
      BY <2>2, <3>1, <3>2, <3>3, <3>4 DEF StartStore
  <2>3. CASE PostPush(t)
    BY <2>3, <1>a, <1>0, HomeIsPlace DEF PostPush
  <2>4. CASE PostDeferred(t)
    BY <2>4, <1>2, HomeIsPlace DEF PostDeferred
  <2> QED
    BY <1>3, <2>1, <2>2, <2>3, <2>4 DEF Continue
<1>4. ASSUME NEW r \in Runners, Run(r) \/ RunStep(r) PROVE Registers' /\ CleanHasWork'
  <2>0. r \in Threads
    BY <1>0
  <2>1. CASE Run(r) \/ Leave(r) \/ GoIdle(r) \/ WakeUp(r)
    BY <2>0, <2>1, <1>a DEF Run, Leave, GoIdle, WakeUp
  <2>2. CASE RunNoWork(r) \/ FinishStop(r)
    BY <2>0, <2>2, <1>a DEF RunNoWork, FinishStop, StopFrom
  <2>3. CASE TakeTask(r)
    BY <2>0, <2>3, <1>a DEF TakeTask
  <2>4. CASE TakeOp(r)
    BY <2>0, <2>4, <1>a DEF TakeOp
  <2>5. CASE Poll(r) \/ PollTimeout(r) \/ TaskCleanup(r) \/ MergePrivate(r)
    BY <2>0, <2>5, <1>a DEF Poll, PollTimeout, TaskCleanup, MergePrivate
  <2>6. CASE PerformIo(r)
    <3>1. PICK done \in SUBSET waiting[cur[r]] : \E q \in Orders(done) :
             \/ Goto(r, "none_load") /\ status' = status
             \/ /\ Goto(r, "handler") \/ Goto(r, "set_defer")
                /\ status' = [o \in Ops |-> IF o = Head(q) THEN "running"
                                            ELSE IF o \in done THEN "queued" ELSE status[o]]
      BY <2>6 DEF PerformIo
    <3>2. status' \in [Ops -> Status]
      BY <3>1
    <3>3. private_work' = private_work
      BY <2>6 DEF PerformIo
    <3>4. CleanHasWork'
      BY <2>0, <3>1, <3>3, <1>a
    <3> QED
      BY <2>6, <3>2, <3>3, <3>4 DEF PerformIo
  <2>7. CASE PerformIoDefer(r)
    BY <2>0, <2>7, <1>2 DEF PerformIoDefer
  <2>8. CASE NoneLoad(r) \/ NoneStore(r) \/ Return(r) \/ FinishStore(r)
    <3>1. outstanding_work' \in Int /\ lost_work' \in Int /\ reg' \in [Threads -> Int]
      BY <2>0, <2>8 DEF NoneLoad, NoneStore, Return, FinishStore
    <3>2. status' \in [Ops -> Status]
      BY <2>8 DEF NoneLoad, NoneStore, Return, FinishStore
    <3>3. CleanHasWork'
      BY <2>0, <2>8, <1>a DEF NoneLoad, NoneStore, Return, FinishStore
    <3> QED
      BY <2>8, <3>1, <3>2, <3>3 DEF NoneLoad, NoneStore, Return, FinishStore
  <2>9. CASE WorkCleanup(r)
    <3>1. CASE private_work[r] = 1
      <4>1. /\ private_work' = [private_work EXCEPT ![r] = 0] /\ Goto(r, "merge") /\ reg' = reg
        BY <2>9, <3>1 DEF WorkCleanup
      <4>2. CleanHasWork'
        BY <2>0, <4>1, <1>a
      <4> QED
        BY <2>9, <4>1, <4>2 DEF WorkCleanup
    <3>2. CASE private_work[r] # 1
      <4>1. /\ private_work' = private_work /\ reg' = [reg EXCEPT ![r] = outstanding_work]
            /\ \/ Goto(r, "finish_store")
               \/ Goto(r, "clean_store") /\ private_work[r] > 1
        BY <2>9, <3>2, Zenon DEF WorkCleanup
      <4>2. CleanHasWork'
        BY <1>0, <2>0, <4>1, ThreadMoves
      <4> QED
        BY <2>0, <2>9, <4>1, <4>2 DEF WorkCleanup
    <3> QED
      BY <3>1, <3>2
  <2>10. CASE CleanStore(r)
    <3>1. /\ \A u \in Runners : u # r => private_work'[u] = private_work[u]
          /\ private_work' \in [Runners -> Nat] /\ Goto(r, "clean")
      BY <2>10 DEF CleanStore
    <3>2. CleanHasWork'
      BY <2>0, <3>1, <1>a
    <3>3. outstanding_work' \in Int /\ lost_work' \in Int /\ reg' \in [Threads -> Int]
      BY <2>0, <2>10 DEF CleanStore
    <3> QED
      BY <2>10, <3>1, <3>2, <3>3 DEF CleanStore
  <2> QED
    BY <1>4, <2>1, <2>2, <2>3, <2>4, <2>5, <2>6, <2>7, <2>8, <2>9, <2>10 DEF RunStep
<1>5. CASE ShutdownService
  <2>1. RangeOf(op_que) \cap Sets \subseteq Sets
    OBVIOUS
  <2>2. Cardinality(RangeOf(op_que) \cap Sets) \in Nat
    BY <2>1, NamesAreApart, FS_Subset, FS_CardinalityType
  <2> QED
    BY <1>5, <2>2 DEF ShutdownService
<1>6. CASE (\E s \in Sets : Event(s)) \/ UNCHANGED vars
  BY <1>6 DEF Event, vars
<1> QED
  BY <1>1, <1>3, <1>4, <1>5, <1>6 DEF Next

-----------------------------------------------------------------------------
(* The life of an operation.                                               *)

(* Op_sets come to the queue with the poller that found them, and ahead of *)
(* the task: while a thread polls, none is queued.                         *)
SetsInOrder ==
    /\ \A s \in Sets, r \in Runners : In(s, private_op_que[r]) => pc[r] = "polled"
    /\ Pollers # {} => \A s \in Sets : ~In(s, op_que)
    /\ \A s \in Sets : \A i \in At(Task, op_que), k \in At(s, op_que) : k < i

(* Queued operations are the ones on a list.                               *)
Queued == \A o \in Ops : status[o] = "queued" <=> On(o) # {}

(* Between the two halves of a post or a start the operation is in the     *)
(* hands of one thread.                                                    *)
Making == {"post_store", "post_push", "start_store"}
Stage(p) == IF p = "start_store" THEN "starting" ELSE "posting"
Made ==
    /\ \A t \in Threads : pc[t] \in Making => arg[t] \in Ops /\ status[arg[t]] = Stage(pc[t])
    /\ \A t, u \in Threads : pc[t] \in Making /\ pc[u] \in Making /\ arg[t] = arg[u] => t = u

(* Waiting operations are the ones on an op_set, each on one; the thread   *)
(* that has started one and not counted it holds the op_set's mutex.       *)
Waits ==
    /\ \A s \in Sets : \A o \in waiting[s] :
          \/ status[o] = "waiting"
          \/ /\ status[o] = "starting" /\ set_mutex[s] \in Threads
             /\ pc[set_mutex[s]] = "start_store" /\ arg[set_mutex[s]] = o
    /\ \A s, z \in Sets : waiting[s] \cap waiting[z] # {} => s = z
    /\ \A o \in Ops : status[o] \in {"waiting", "starting"} => \E s \in Sets : o \in waiting[s]

(* Running operations are the ones a runner has, each one's own, from      *)
(* do_run_one or perform_io until its handler returns.                     *)
Active(r) == pc[r] \in {"handler", "set_defer"} \/ (pc[r] \in ApiPc /\ r \in in_run)
Owns(r) == pc[r] # "clean" /\ cur[r] \in Ops
Runs ==
    /\ \A r \in Runners : pc[r] # "clean" => (cur[r] \in Ops <=> Active(r))
    /\ \A r \in Runners : Owns(r) => status[cur[r]] = "running"
    /\ \A r, u \in Runners : Owns(r) /\ Owns(u) /\ cur[r] = cur[u] => r = u
    /\ \A o \in Ops : status[o] = "running" => \E r \in Runners : Owns(r) /\ cur[r] = o

Deferring == \A t \in Threads : deferred[t] # <<>> => pc[t] \in {"defer", "set_defer"}

Lives == Queued /\ Made /\ Waits /\ Runs /\ Deferring
Core == Listed /\ SetsInOrder /\ Lives

(* After shutdown_service no thread is in the service, and nothing queued. *)
Over == (\A t \in Threads : pc[t] = "out") /\ op_que = <<>>

PlacesInv == /\ TypesInv /\ Listed /\ SetsInOrder
             /\ shutdown => Over
             /\ ~shutdown => Lives

LEMMA Known ==
    ASSUME TypesInv
    PROVE  /\ Types /\ Stages /\ TaskIsPlaced /\ Registers /\ ServiceInv
           /\ Runners \subseteq Threads
BY NamesAreApart DEF TypesInv, WakeInv, ServiceInv

(* What a step must show of the thread that takes it.                      *)
LEMMA MadeFollows ==
    ASSUME Made, NEW t \in Threads,
           \A u \in Threads : u # t => pc'[u] = pc[u] /\ arg'[u] = arg[u],
           \A u \in Threads : u # t /\ pc[u] \in Making => status'[arg[u]] = status[arg[u]],
           pc'[t] \in Making =>
              /\ arg'[t] \in Ops /\ status'[arg'[t]] = Stage(pc'[t])
              /\ \A u \in Threads : u # t /\ pc[u] \in Making => arg[u] # arg'[t]
    PROVE  Made'
<1>1. ASSUME NEW u \in Threads, pc'[u] \in Making
      PROVE  arg'[u] \in Ops /\ status'[arg'[u]] = Stage(pc'[u])
  BY <1>1 DEF Made
<1>2. ASSUME NEW u \in Threads, NEW v \in Threads, pc'[u] \in Making, pc'[v] \in Making,
             arg'[u] = arg'[v]
      PROVE  u = v
  BY <1>2 DEF Made
<1> QED
  BY <1>1, <1>2 DEF Made

LEMMA WaitsFollows ==
    ASSUME Waits, NEW t \in Threads, pc[t] # "start_store",
           waiting' = waiting, set_mutex' = set_mutex, waiting \in [Sets -> SUBSET Ops],
           \A u \in Threads : u # t => pc'[u] = pc[u] /\ arg'[u] = arg[u],
           \A o \in Ops : status[o] \in {"waiting", "starting"} \/ status'[o] \in {"waiting", "starting"}
                             => status'[o] = status[o]
    PROVE  Waits'
<1>1. ASSUME NEW s \in Sets, NEW o \in waiting'[s]
      PROVE  \/ status'[o] = "waiting"
             \/ /\ status'[o] = "starting" /\ set_mutex'[s] \in Threads
                /\ pc'[set_mutex'[s]] = "start_store" /\ arg'[set_mutex'[s]] = o
  <2>1. o \in Ops /\ o \in waiting[s]
    OBVIOUS
  <2>2. CASE status[o] = "waiting"
    BY <2>1, <2>2
  <2>3. CASE /\ status[o] = "starting" /\ set_mutex[s] \in Threads
             /\ pc[set_mutex[s]] = "start_store" /\ arg[set_mutex[s]] = o
    BY <2>1, <2>3
  <2> QED
    BY <2>1, <2>2, <2>3 DEF Waits
<1>2. \A s, z \in Sets : waiting'[s] \cap waiting'[z] # {} => s = z
  BY DEF Waits
<1>3. \A o \in Ops : status'[o] \in {"waiting", "starting"} => \E s \in Sets : o \in waiting'[s]
  BY DEF Waits
<1> QED
  BY <1>1, <1>2, <1>3 DEF Waits

(* Operations leave an op_set whose mutex is free.                         *)
LEMMA WaitsTaken ==
    ASSUME Waits, waiting \in [Sets -> SUBSET Ops], NEW s \in Sets, NEW done, done \subseteq waiting[s],
           waiting'[s] = waiting[s] \ done,
           \A z \in Sets : z # s => waiting'[z] = waiting[z],
           set_mutex' = set_mutex, arg' = arg,
           NEW t \in Threads, pc[t] # "start_store", \A u \in Threads : u # t => pc'[u] = pc[u],
           \A o \in done : status'[o] \notin {"waiting", "starting"},
           \A o \in Ops : o \notin done => status'[o] = status[o]
    PROVE  Waits'
<1>1. ASSUME NEW z \in Sets, NEW p \in waiting'[z]
      PROVE  \/ status'[p] = "waiting"
             \/ /\ status'[p] = "starting" /\ set_mutex'[z] \in Threads
                /\ pc'[set_mutex'[z]] = "start_store" /\ arg'[set_mutex'[z]] = p
  <2>1. p \in waiting[z] /\ p \in Ops /\ (z = s => p \notin done)
    BY DEF Waits
  <2>2. p \notin done
    BY <2>1 DEF Waits
  <2>3. status'[p] = status[p]
    BY <2>1, <2>2
  <2>4. CASE status[p] = "waiting"
    BY <2>3, <2>4
  <2>5. CASE /\ status[p] = "starting" /\ set_mutex[z] \in Threads
             /\ pc[set_mutex[z]] = "start_store" /\ arg[set_mutex[z]] = p
    BY <2>3, <2>5
  <2> QED
    BY <2>1, <2>4, <2>5 DEF Waits
<1>2. \A y, z \in Sets : waiting'[y] \cap waiting'[z] # {} => y = z
  BY DEF Waits
<1>3. ASSUME NEW p \in Ops, status'[p] \in {"waiting", "starting"}
      PROVE  \E z \in Sets : p \in waiting'[z]
  <2>1. p \notin done /\ status[p] \in {"waiting", "starting"}
    BY <1>3
  <2>2. PICK z \in Sets : p \in waiting[z]
    BY <2>1 DEF Waits
  <2> QED
    BY <2>1, <2>2
<1> QED
  BY <1>1, <1>2, <1>3 DEF Waits

(* A step at which everybody has what they had.                            *)
LEMMA RunsStay ==
    ASSUME Runs, NEW t \in Threads, pc \in [Threads -> Pc], NEW to, Goto(t, to),
           \A r \in Runners : r # t => cur'[r] = cur[r] /\ (r \in in_run' <=> r \in in_run),
           \A o \in Ops : status'[o] = "running" <=> status[o] = "running",
           t \in Runners =>
              \/ /\ pc[t] # "clean" /\ to # "clean" /\ cur'[t] = cur[t]
                 /\ Active(t)' <=> Active(t)
              \/ /\ pc[t] = "clean" \/ ~Active(t)
                 /\ cur'[t] = cur[t] \/ cur'[t] \notin Ops
                 /\ pc[t] = "clean" => cur'[t] \notin Ops
                 /\ to = "clean" \/ ~Active(t)'
    PROVE  Runs'
<1>0. pc'[t] = to /\ (\A u \in Threads : u # t => pc'[u] = pc[u]) /\ Runners \subseteq Threads
  BY ThreadMoves, NamesAreApart
<1>1. ASSUME NEW r \in Runners
      PROVE  /\ pc'[r] # "clean" => (cur'[r] \in Ops <=> Active(r)')
             /\ Owns(r)' <=> Owns(r)
             /\ Owns(r) => cur'[r] = cur[r]
  <2>1. CASE r # t
    <3>1. pc'[r] = pc[r] /\ cur'[r] = cur[r] /\ (Active(r)' <=> Active(r))
      BY <1>0, <2>1 DEF Active
    <3> QED
      BY <3>1 DEF Runs, Owns
  <2>2. CASE r = t
    <3>1. pc[t] # "clean" => (cur[t] \in Ops <=> Active(t))
      BY <2>2 DEF Runs
    <3>2. CASE /\ pc[t] # "clean" /\ to # "clean" /\ cur'[t] = cur[t]
               /\ Active(t)' <=> Active(t)
      BY <1>0, <2>2, <3>1, <3>2 DEF Owns
    <3>3. CASE /\ pc[t] = "clean" \/ ~Active(t)
               /\ cur'[t] = cur[t] \/ cur'[t] \notin Ops
               /\ pc[t] = "clean" => cur'[t] \notin Ops
               /\ to = "clean" \/ ~Active(t)'
      BY <1>0, <2>2, <3>1, <3>3 DEF Owns
    <3> QED
      BY <2>2, <3>2, <3>3
  <2> QED
    BY <2>1, <2>2
<1>2. \A r \in Runners : Owns(r)' => status'[cur'[r]] = "running"
  BY <1>1 DEF Runs, Owns
<1>3. \A r, u \in Runners : Owns(r)' /\ Owns(u)' /\ cur'[r] = cur'[u] => r = u
  BY <1>1 DEF Runs
<1>4. \A o \in Ops : status'[o] = "running" => \E r \in Runners : Owns(r)' /\ cur'[r] = o
  BY <1>1 DEF Runs
<1> QED
  BY <1>1, <1>2, <1>3, <1>4 DEF Runs

LEMMA DeferringFollows ==
    ASSUME Deferring, NEW t \in Threads,
           \A u \in Threads : u # t => pc'[u] = pc[u] /\ deferred'[u] = deferred[u],
           deferred'[t] # <<>> => pc'[t] \in {"defer", "set_defer"}
    PROVE  Deferring'
BY DEF Deferring

LEMMA QueuedFollows ==
    ASSUME Queued, \A o \in Ops : (status'[o] = "queued" <=> status[o] = "queued")
                                  /\ (On(o)' = {} <=> On(o) = {})
    PROVE  Queued'
BY DEF Queued

LEMMA SetsFollow ==
    ASSUME SetsInOrder, Pollers' \subseteq Pollers,
           \A r \in Runners : pc[r] = "polled" => pc'[r] = "polled",
           \A s \in Sets, r \in Runners : In(s, private_op_que'[r]) => In(s, private_op_que[r]),
           \A s \in Sets : In(s, op_que') => In(s, op_que),
           \A s \in Sets : \A i \in At(Task, op_que'), k \in At(s, op_que') : k < i
    PROVE  SetsInOrder'
<1>1. \A s \in Sets, r \in Runners : In(s, private_op_que'[r]) => pc'[r] = "polled"
  BY DEF SetsInOrder
<1>2. Pollers' # {} => \A s \in Sets : ~In(s, op_que')
  BY DEF SetsInOrder
<1> HIDE DEF Pollers, In, At
<1> QED
  BY <1>1, <1>2 DEF SetsInOrder

LEMMA SetsStay ==
    ASSUME SetsInOrder, op_que' = op_que, private_op_que' = private_op_que,
           Pollers' \subseteq Pollers,
           \A r \in Runners : pc[r] = "polled" => pc'[r] = "polled"
    PROVE  SetsInOrder'
<1>1. \A s \in Sets : \A i \in At(Task, op_que'), k \in At(s, op_que') : k < i
  BY DEF SetsInOrder
<1> QED
  BY <1>1, SetsFollow

(* The steps of run() in which no operation changes hands.                 *)
Passing == {"stop_out", "top", "wait", "poll", "polled", "none_load", "none_store", "set",
            "finish_store", "finish_stop", "clean_store", "merge"}
Passes(r, to) ==
    /\ Goto(r, to)
    /\ \/ pc[r] \in Passing \cup {"out"} /\ cur' = cur
       \/ pc[r] = "clean" /\ cur' = [cur EXCEPT ![r] = None]
    /\ to \in Passing \cup {"out", "clean"}
    /\ in_run' \in {in_run, in_run \cup {r}, in_run \ {r}}
    /\ UNCHANGED <<status, arg, waiting, set_mutex, deferred>>

LEMMA PassesKeep ==
    ASSUME TypesInv, Made, Waits, Runs, Deferring, NEW r \in Runners, NEW to, Passes(r, to)
    PROVE  Made' /\ Waits' /\ Runs' /\ Deferring'
<1>0. Types /\ Registers /\ r \in Threads /\ None \notin Ops
  BY Known, NamesAreApart
<1>1. /\ pc'[r] = to /\ \A u \in Threads : u # r => pc'[u] = pc[u]
      /\ arg' = arg /\ status' = status /\ deferred' = deferred
      /\ waiting' = waiting /\ set_mutex' = set_mutex
      /\ pc[r] \notin Making /\ to \notin Making /\ pc[r] \notin {"defer", "set_defer"}
  BY <1>0, ThreadMoves DEF Types, Passes, Making, Passing
<1>2. Made'
  BY <1>0, <1>1, MadeFollows
<1>3. Waits'
  BY <1>0, <1>1, WaitsFollows DEF Making, Types
<1>4. Runs'
  <2>1. \A u \in Runners : u # r => cur'[u] = cur[u] /\ (u \in in_run' <=> u \in in_run)
    BY <1>0 DEF Passes, Types
  <2>2. pc[r] = "clean" \/ ~Active(r)
    BY DEF Passes, Passing, Active, ApiPc
  <2>3. to = "clean" \/ ~Active(r)'
    BY <1>1 DEF Passes, Passing, Active, ApiPc
  <2>4. cur'[r] = cur[r] \/ cur'[r] \notin Ops
    BY <1>0 DEF Passes, Types
  <2>5. pc[r] = "clean" => cur'[r] \notin Ops
    BY <1>0 DEF Passes, Passing, Types
  <2>6. Goto(r, to) /\ pc \in [Threads -> Pc]
    BY <1>0 DEF Passes, Types
  <2> QED
    BY <1>0, <1>1, <2>1, <2>2, <2>3, <2>4, <2>5, <2>6, RunsStay
<1>5. Deferring'
  <2>1. deferred[r] = <<>>
    BY <1>0, <1>1 DEF Deferring
  <2> QED
    BY <1>0, <1>1, <2>1, DeferringFollows
<1> QED
  BY <1>2, <1>3, <1>4, <1>5

LEMMA PassingSteps ==
    ASSUME NEW r \in Runners,
           \/ Run(r) \/ RunNoWork(r) \/ Leave(r) \/ GoIdle(r) \/ WakeUp(r) \/ TakeTask(r)
           \/ Poll(r) \/ PollTimeout(r) \/ TaskCleanup(r) \/ NoneLoad(r) \/ NoneStore(r)
           \/ WorkCleanup(r) \/ CleanStore(r) \/ FinishStore(r) \/ FinishStop(r)
           \/ MergePrivate(r)
    PROVE  \E to : Passes(r, to)
<1> USE DEF Passes, Passing, queueVars, lifeVars, workVars, runnerVars, reactorVars, callVars
<1>1. ASSUME Run(r) PROVE Passes(r, "stop_out") \/ Passes(r, "top")
  BY <1>1 DEF Run
<1>2. ASSUME RunNoWork(r) \/ Leave(r) PROVE Passes(r, "out")
  BY <1>2 DEF RunNoWork, StopFrom, Leave
<1>3. ASSUME GoIdle(r) PROVE Passes(r, "wait")
  BY <1>3 DEF GoIdle
<1>4. ASSUME WakeUp(r) \/ TaskCleanup(r) \/ MergePrivate(r) PROVE Passes(r, "top")
  BY <1>4 DEF WakeUp, TaskCleanup, MergePrivate
<1>5. ASSUME TakeTask(r) PROVE Passes(r, "poll")
  BY <1>5 DEF TakeTask
<1>6. ASSUME Poll(r) \/ PollTimeout(r) PROVE Passes(r, "polled")
  BY <1>6 DEF Poll, PollTimeout
<1>7. ASSUME NoneLoad(r) PROVE Passes(r, "none_store")
  BY <1>7 DEF NoneLoad
<1>8. ASSUME NoneStore(r) \/ CleanStore(r) PROVE Passes(r, "clean")
  BY <1>8 DEF NoneStore, CleanStore
<1>9. ASSUME WorkCleanup(r)
      PROVE  Passes(r, "merge") \/ Passes(r, "clean_store") \/ Passes(r, "finish_store")
  BY <1>9 DEF WorkCleanup
<1>10. ASSUME FinishStore(r) PROVE Passes(r, "finish_stop") \/ Passes(r, "merge")
  BY <1>10 DEF FinishStore
<1>11. ASSUME FinishStop(r) PROVE Passes(r, "merge")
  BY <1>11 DEF FinishStop, StopFrom
<1> HIDE DEF Passes
<1> QED
  BY <1>1, <1>2, <1>3, <1>4, <1>5, <1>6, <1>7, <1>8, <1>9, <1>10, <1>11

(* A step of this kind that also leaves the lists as they are.             *)
LEMMA PassAlong ==
    ASSUME TypesInv, Core, NEW r \in Runners, NEW to, Passes(r, to),
           op_que' = op_que, private_op_que' = private_op_que,
           \/ pc[r] \notin {"poll", "polled"} /\ to \notin {"poll", "polled"}
           \/ pc[r] = "poll" /\ to = "polled"
    PROVE  Core'
<1>0. Types /\ r \in Threads
  BY Known
<1>1. Made' /\ Waits' /\ Runs' /\ Deferring'
  BY PassesKeep DEF Core, Lives
<1>2. deferred' = deferred /\ status' = status /\ Goto(r, to)
  BY DEF Passes
<1>3. Listed' /\ \A x : On(x)' = On(x)
  BY <1>2, ListsStay DEF Core
<1>4. Queued'
  BY <1>2, <1>3, QueuedFollows DEF Core, Lives
<1>5. pc'[r] = to /\ \A u \in Threads : u # r => pc'[u] = pc[u]
  BY <1>0, <1>2, ThreadMoves DEF Types
<1>6. Pollers' = Pollers /\ \A u \in Runners : pc[u] = "polled" => pc'[u] = "polled"
  BY <1>5, NamesAreApart DEF Pollers
<1>7. SetsInOrder'
  BY <1>6, SetsStay DEF Core
<1> QED
  BY <1>1, <1>3, <1>4, <1>7 DEF Core, Lives

LEMMA QuietRuns ==
    ASSUME TypesInv, Core, NEW r \in Runners,
           \/ Run(r) \/ RunNoWork(r) \/ Leave(r) \/ GoIdle(r) \/ WakeUp(r) \/ PollTimeout(r)
           \/ NoneLoad(r) \/ NoneStore(r) \/ WorkCleanup(r) \/ CleanStore(r)
           \/ FinishStore(r) \/ FinishStop(r)
    PROVE  Core'
<1>0. r \in Threads /\ pc \in [Threads -> Pc]
  BY Known DEF Types
<1>1. PICK to : Passes(r, to)
  BY PassingSteps
<1>2. /\ op_que' = op_que /\ private_op_que' = private_op_que
      /\ \/ pc[r] \notin {"poll", "polled"} /\ pc'[r] \notin {"poll", "polled"}
         \/ pc[r] = "poll" /\ pc'[r] = "polled"
  <2> USE DEF queueVars, lifeVars, workVars, runnerVars, reactorVars, callVars
  <2>1. CASE Run(r) \/ RunNoWork(r) \/ Leave(r) \/ GoIdle(r) \/ WakeUp(r) \/ PollTimeout(r)
    BY <1>0, <2>1, ThreadMoves DEF Run, RunNoWork, StopFrom, Leave, GoIdle, WakeUp, PollTimeout
  <2>2. CASE NoneLoad(r) \/ NoneStore(r) \/ CleanStore(r) \/ FinishStop(r)
    BY <1>0, <2>2, ThreadMoves DEF NoneLoad, NoneStore, CleanStore, FinishStop, StopFrom
  <2>3. CASE WorkCleanup(r)
    BY <1>0, <2>3, ThreadMoves DEF WorkCleanup
  <2>4. CASE FinishStore(r)
    BY <1>0, <2>4, ThreadMoves DEF FinishStore
  <2> QED
    BY <2>1, <2>2, <2>3, <2>4
<1>3. pc'[r] = to
  BY <1>0, <1>1, ThreadMoves DEF Passes
<1> QED
  BY <1>1, <1>2, <1>3, PassAlong

(* A list only loses its head.                                             *)
LEMMA HeadTaken ==
    ASSUME Types, Listed, op_que # <<>>, op_que' = Tail(op_que),
           private_op_que' = private_op_que, deferred' = deferred
    PROVE  /\ Listed'
           /\ \A x \in Ops \cup Sets : x # Head(op_que) =>
                 /\ On(x)' = On(x) /\ (In(x, op_que') <=> In(x, op_que))
           /\ \A x \in Ops \cup Sets : x = Head(op_que) =>
                 On(x)' = {} /\ On(x) # {} /\ ~In(x, op_que')
<1>1. op_que \in Seq(Elements) /\ List(Shared) = op_que /\ List(Shared)' = op_que'
  BY ListsAre DEF Types
<1>2. ASSUME NEW x \in Ops \cup Sets
      PROVE  /\ AtMostOne(x, op_que') /\ AtMostOne(x, op_que)
             /\ x # Head(op_que) => (In(x, op_que') <=> In(x, op_que))
             /\ x = Head(op_que) => ~In(x, op_que') /\ In(x, op_que)
  <2>1. AtMostOne(x, op_que)
    BY <1>1, KeysApart DEF Listed
  <2>2. /\ Head(op_que) = x => At(x, op_que') = {} /\ At(x, op_que) # {}
        /\ Head(op_que) # x => /\ AtMostOne(x, op_que')
                               /\ At(x, op_que') = {} <=> At(x, op_que) = {}
    BY <1>1, <2>1, TailKeeps
  <2>3. At(x, op_que') = {} => AtMostOne(x, op_que')
    BY DEF AtMostOne
  <2> QED
    BY <2>1, <2>2, <2>3 DEF In
<1>3. \A m \in Keys : m # Shared => List(m)' = List(m)
  BY OnlyShared
<1>4. \A x \in Ops \cup Sets : (Shared \in On(x) <=> In(x, op_que)) /\ \A k, l \in On(x) : k = l
  BY <1>1, KeysApart DEF On, Listed
<1>5. \A x \in Ops \cup Sets : In(x, List(Shared)') => On(x) \subseteq {Shared}
  BY <1>1, <1>2, <1>4
<1>6. /\ Listed'
      /\ \A x \in Ops \cup Sets :
            On(x)' = IF In(x, List(Shared)') THEN {Shared} ELSE On(x) \ {Shared}
  <2>1. \A x \in Ops \cup Sets : AtMostOne(x, List(Shared)')
    BY <1>1, <1>2
  <2>2. Shared \in Keys /\ Listed
    BY KeysApart
  <2> HIDE DEF Shared, List, In, On, Keys, Listed
  <2> QED
    BY <1>3, <1>5, <2>1, <2>2, OneListChanges
<1>7. ASSUME NEW x \in Ops \cup Sets, x # Head(op_que)
      PROVE  On(x)' = On(x) /\ (In(x, op_que') <=> In(x, op_que))
  BY <1>1, <1>2, <1>4, <1>6, <1>7
<1>8. ASSUME NEW x \in Ops \cup Sets, x = Head(op_que)
      PROVE  On(x)' = {} /\ On(x) # {} /\ ~In(x, op_que')
  BY <1>1, <1>2, <1>4, <1>6, <1>8
<1> QED
  BY <1>6, <1>7, <1>8

LEMMA TailAt ==
    ASSUME NEW S, NEW a \in Seq(S), a # <<>>, NEW x, NEW i \in At(x, Tail(a))
    PROVE  i \in Int /\ i + 1 \in At(x, a)
<1>1. /\ Len(Tail(a)) = Len(a) - 1 /\ Len(a) \in Nat
      /\ \A j \in 1..Len(Tail(a)) : Tail(a)[j] = a[j + 1]
  OBVIOUS
<1> QED
  BY <1>1 DEF At

LEMMA TailOrder ==
    ASSUME NEW S, NEW a \in Seq(S), a # <<>>, NEW x, NEW y,
           \A i \in At(x, a), k \in At(y, a) : i < k
    PROVE  \A i \in At(x, Tail(a)), k \in At(y, Tail(a)) : i < k
<1> SUFFICES ASSUME NEW i \in At(x, Tail(a)), NEW k \in At(y, Tail(a)) PROVE i < k
  OBVIOUS
<1>1. i \in Int /\ k \in Int /\ i + 1 \in At(x, a) /\ k + 1 \in At(y, a)
  BY TailAt
<1>2. i + 1 < k + 1
  BY <1>1
<1> QED
  BY <1>1, <1>2

LEMMA HeadTakenInOrder ==
    ASSUME Types, SetsInOrder, op_que # <<>>, op_que' = Tail(op_que)
    PROVE  \A s \in Sets : \A i \in At(Task, op_que'), k \in At(s, op_que') : k < i
<1>1. op_que \in Seq(Elements)
  BY DEF Types
<1>2. ASSUME NEW s \in Sets PROVE \A k \in At(s, op_que'), i \in At(Task, op_que') : k < i
  <2>1. \A k \in At(s, op_que), i \in At(Task, op_que) : k < i
    BY DEF SetsInOrder
  <2> QED
    BY <1>1, <2>1, TailOrder
<1> QED
  BY <1>2

LEMMA TakeTaskKeepsPlaces ==
    ASSUME TypesInv, Core, NEW r \in Runners, TakeTask(r) PROVE Core'
<1>0. Types /\ r \in Threads /\ op_que \in Seq(Elements)
  BY Known DEF Types
<1>1. /\ op_que # <<>> /\ Head(op_que) = Task /\ op_que' = Tail(op_que)
      /\ private_op_que' = private_op_que /\ deferred' = deferred /\ status' = status
      /\ pc[r] = "top" /\ Goto(r, "poll")
  BY DEF TakeTask, TaskIsNext, callVars
<1>2. PICK to : Passes(r, to)
  BY PassingSteps
<1>3. Made' /\ Waits' /\ Runs' /\ Deferring'
  BY <1>2, PassesKeep DEF Core, Lives
<1>4. /\ Listed'
      /\ \A x \in Ops \cup Sets : On(x)' = On(x) /\ (In(x, op_que') <=> In(x, op_que))
  BY <1>0, <1>1, HeadTaken, NamesAreApart DEF Core
<1>5. Queued'
  BY <1>1, <1>4, QueuedFollows DEF Core, Lives
<1>6. \A s \in Sets : ~In(s, op_que)
  <2> SUFFICES ASSUME NEW s \in Sets, NEW k \in At(s, op_que) PROVE FALSE
    BY DEF In
  <2>1. 1 \in At(Task, op_que) /\ k \in 1..Len(op_que)
    BY <1>0, <1>1 DEF At
  <2>2. k < 1
    BY <2>1 DEF Core, SetsInOrder
  <2> QED
    BY <2>1, <2>2
<1>7. SetsInOrder'
  <2>1. \A u \in Runners : pc[u] = "polled" => pc'[u] = "polled"
    BY <1>0, <1>1, ThreadMoves, NamesAreApart DEF Types
  <2>2. \A s \in Sets, u \in Runners : In(s, private_op_que'[u]) => pc'[u] = "polled"
    BY <1>1, <2>1 DEF Core, SetsInOrder
  <2>3. \A s \in Sets : ~In(s, op_que')
    BY <1>4, <1>6
  <2>4. \A s \in Sets : \A i \in At(Task, op_que'), k \in At(s, op_que') : k < i
    BY <2>3 DEF In
  <2> HIDE DEF In, At
  <2> QED
    BY <2>2, <2>3, <2>4 DEF SetsInOrder
<1> QED
  BY <1>3, <1>4, <1>5, <1>7 DEF Core, Lives

(* One list behind the other.                                              *)
LEMMA JoinedHas ==
    ASSUME NEW S, NEW a \in Seq(S), NEW b \in Seq(S), NEW x,
           AtMostOne(x, a), AtMostOne(x, b), ~(In(x, a) /\ In(x, b))
    PROVE  /\ AtMostOne(x, a \o b)
           /\ In(x, a \o b) <=> In(x, a) \/ In(x, b)
<1> DEFINE q == a \o b
<1>1. /\ Len(a) \in Nat /\ Len(b) \in Nat /\ Len(q) = Len(a) + Len(b)
      /\ \A i \in 1..Len(a) : i \in 1..Len(q) /\ q[i] = a[i]
      /\ \A i \in 1..Len(b) : Len(a) + i \in 1..Len(q) /\ q[Len(a) + i] = b[i]
      /\ \A i \in 1..Len(q) : \/ i \in 1..Len(a) /\ q[i] = a[i]
                              \/ /\ i - Len(a) \in 1..Len(b) /\ q[i] = b[i - Len(a)]
                                 /\ i \in Int
  OBVIOUS
<1> HIDE DEF q
<1>2. ASSUME NEW i \in At(x, q)
      PROVE  i \in At(x, a) \/ (i - Len(a) \in At(x, b) /\ i \in Int)
  BY <1>1 DEF At
<1>3. AtMostOne(x, q)
  <2> SUFFICES ASSUME NEW i \in At(x, q), NEW k \in At(x, q) PROVE i = k
    BY DEF AtMostOne
  <2>1. CASE In(x, a)
    BY <1>2, <2>1 DEF In, AtMostOne
  <2>2. CASE ~In(x, a)
    <3>1. i - Len(a) = k - Len(a) /\ i \in Int /\ k \in Int
      BY <1>2, <2>2 DEF In, AtMostOne
    <3> QED
      BY <1>1, <3>1
  <2> QED
    BY <2>1, <2>2
<1>4. In(x, q) => In(x, a) \/ In(x, b)
  BY <1>2 DEF In
<1>5. In(x, a) => In(x, q)
  BY <1>1 DEF In, At
<1>6. In(x, b) => In(x, q)
  BY <1>1 DEF In, At
<1> QED
  BY <1>3, <1>4, <1>5, <1>6 DEF q

(* A merge into the queue, by a thread that brings no op_set.              *)
LEMMA MergedInOrder ==
    ASSUME Types, SetsInOrder, NEW b \in Seq(Ops \cup Sets), op_que' \in Merged(op_que, b),
           \A s \in Sets : ~In(s, b)
    PROVE  \A s \in Sets : \A i \in At(Task, op_que'), k \in At(s, op_que') : k < i
<1>1. op_que \in Seq(Elements) /\ b \in Seq(Elements)
  BY DEF Types, Elements
<1>2. ~In(Task, b)
  <2>1. \A j \in 1..Len(b) : b[j] # Task
    BY NamesAreApart
  <2> QED
    BY <2>1 DEF In, At
<1>3. ASSUME NEW s \in Sets PROVE \A k \in At(s, op_que'), i \in At(Task, op_que') : k < i
  <2>1. \A k \in At(s, op_que), i \in At(Task, op_que) : k < i
    BY DEF SetsInOrder
  <2> QED
    BY <1>1, <1>2, <2>1, MergedOrder
<1> QED
  BY <1>3

LEMMA OwnMerged ==
    ASSUME TypesInv, Listed, NEW r \in Runners,
           op_que' \in Merged(op_que, private_op_que[r]),
           private_op_que' = [private_op_que EXCEPT ![r] = <<>>], deferred' = deferred
    PROVE  /\ Listed'
           /\ \A x \in Ops \cup Sets :
                 /\ In(x, op_que') <=> In(x, op_que) \/ In(x, private_op_que[r])
                 /\ On(x)' = IF Own(r) \in On(x) THEN {Shared} ELSE On(x)
           /\ private_op_que'[r] = <<>>
           /\ \A u \in Runners : u # r => private_op_que'[u] = private_op_que[u]
<1>0. Types
  BY Known
<1>1. /\ private_op_que'[r] = <<>>
      /\ \A u \in Runners : u # r => private_op_que'[u] = private_op_que[u]
  BY <1>0 DEF Types
<1>2. /\ List(Shared)' \in Merged(List(Shared), List(Own(r))) /\ List(Own(r))' = <<>>
      /\ Shared \in Keys /\ Own(r) \in Keys /\ Shared # Own(r)
  BY <1>1, ListsAre, KeysApart
<1>3. \A m \in Keys : m # Shared /\ m # Own(r) => List(m)' = List(m)
  BY <1>1, ListsAre, KeysApart
<1>4. List(Shared) = op_que /\ List(Shared)' = op_que' /\ List(Own(r)) = private_op_que[r]
  BY ListsAre
<1>5. /\ Listed'
      /\ \A x \in Ops \cup Sets :
            /\ In(x, List(Shared)') <=> In(x, List(Shared)) \/ In(x, List(Own(r)))
            /\ On(x)' = IF Own(r) \in On(x) THEN {Shared} ELSE On(x)
  <2> HIDE DEF List, Shared, Own, Keys, On, Listed
  <2> QED
    BY <1>0, <1>2, <1>3, ListsMerge
<1> QED
  BY <1>1, <1>4, <1>5

LEMMA MergedAsQueued ==
    ASSUME Queued, status' = status, NEW k, NEW l,
           \A o \in Ops : On(o)' = IF l \in On(o) THEN {k} ELSE On(o)
    PROVE  Queued'
<1>1. \A o \in Ops : On(o)' = {} <=> On(o) = {}
  OBVIOUS
<1> QED
  BY <1>1, QueuedFollows

LEMMA MergePrivateKeepsPlaces ==
    ASSUME TypesInv, Core, NEW r \in Runners, MergePrivate(r) PROVE Core'
<1>0. Types /\ r \in Threads
  BY Known
<1>1. PICK to : Passes(r, to)
  BY PassingSteps
<1>2. /\ pc[r] = "merge" /\ Goto(r, "top") /\ deferred' = deferred /\ status' = status
      /\ \/ op_que' = op_que /\ private_op_que' = private_op_que
         \/ /\ op_que' \in Merged(op_que, private_op_que[r])
            /\ private_op_que' = [private_op_que EXCEPT ![r] = <<>>]
  BY DEF MergePrivate, callVars
<1>3. pc'[r] = "top" /\ pc'[r] = to
  BY <1>0, <1>1, <1>2, ThreadMoves DEF Types, Passes
<1>4. CASE op_que' = op_que /\ private_op_que' = private_op_que
  BY <1>1, <1>2, <1>3, <1>4, PassAlong
<1>5. CASE /\ op_que' \in Merged(op_que, private_op_que[r])
           /\ private_op_que' = [private_op_que EXCEPT ![r] = <<>>]
  <2>1. Made' /\ Waits' /\ Runs' /\ Deferring'
    BY <1>1, PassesKeep DEF Core, Lives
  <2>2. /\ Listed'
        /\ \A x \in Ops \cup Sets :
              /\ In(x, op_que') <=> In(x, op_que) \/ In(x, private_op_que[r])
              /\ On(x)' = IF Own(r) \in On(x) THEN {Shared} ELSE On(x)
        /\ private_op_que'[r] = <<>>
        /\ \A u \in Runners : u # r => private_op_que'[u] = private_op_que[u]
    BY <1>2, <1>5, OwnMerged DEF Core
  <2>3. Queued'
    <3>1. \A o \in Ops : On(o)' = IF Own(r) \in On(o) THEN {Shared} ELSE On(o)
      BY <2>2
    <3> HIDE DEF On, Own, Shared
    <3> QED
      BY <1>2, <3>1, MergedAsQueued DEF Core, Lives
  <2>4. \A s \in Sets : ~In(s, private_op_que[r])
    BY <1>2 DEF Core, SetsInOrder
  <2>5. private_op_que[r] \in Seq(Ops \cup Sets)
    BY <1>0 DEF Types
  <2>6. \A s \in Sets : \A i \in At(Task, op_que'), k \in At(s, op_que') : k < i
    BY <1>0, <1>5, <2>4, <2>5, MergedInOrder DEF Core
  <2>7. /\ Pollers' \subseteq Pollers
        /\ \A u \in Runners : pc[u] = "polled" => pc'[u] = "polled"
    BY <1>0, <1>2, ThreadMoves, NamesAreApart DEF Types, Pollers
  <2>8. \A s \in Sets, u \in Runners : In(s, private_op_que'[u]) => In(s, private_op_que[u])
    BY <2>2, EmptyList
  <2>9. \A s \in Sets : In(s, op_que') => In(s, op_que)
    BY <2>2, <2>4
  <2>10. SetsInOrder'
    <3> HIDE DEF In, At, Pollers
    <3> QED
      BY <2>6, <2>7, <2>8, <2>9, SetsFollow DEF Core
  <2> QED
    BY <2>1, <2>2, <2>3, <2>10 DEF Core, Lives
<1> QED
  BY <1>2, <1>4, <1>5

(* What a poll finds goes to the poller's own queue: none of it is queued, *)
(* since the queue has no op_set while a thread polls.                     *)
LEMMA PollKeepsPlaces ==
    ASSUME TypesInv, Core, NEW r \in Runners, Poll(r) PROVE Core'
<1>0. Types /\ TaskIsPlaced /\ r \in Threads /\ ready \subseteq Sets /\ IsFiniteSet(ready)
  BY Known, NamesAreApart, FS_Subset DEF Types
<1>1. PICK to : Passes(r, to)
  BY PassingSteps
<1>2. PICK q \in Orders(ready) : private_op_que' = [private_op_que EXCEPT ![r] = @ \o q]
  BY DEF Poll
<1>3. /\ pc[r] = "poll" /\ Goto(r, "polled") /\ deferred' = deferred /\ status' = status
      /\ op_que' = op_que
  BY DEF Poll, callVars, queueVars
<1>4. Made' /\ Waits' /\ Runs' /\ Deferring'
  BY <1>1, PassesKeep DEF Core, Lives
<1>5. /\ private_op_que'[r] = private_op_que[r] \o q
      /\ \A u \in Runners : u # r => private_op_que'[u] = private_op_que[u]
      /\ private_op_que[r] \in Seq(Ops \cup Sets)
  BY <1>0, <1>2 DEF Types
<1>6. q \in Seq(Ops \cup Sets) /\ \A x : AtMostOne(x, q) /\ (In(x, q) <=> x \in ready)
  <2>1. q \in Seq(ready) /\ \A x : AtMostOne(x, q) /\ (In(x, q) <=> x \in ready)
    BY <1>0, OrderLists
  <2> QED
    BY <1>0, <2>1
<1>7. r \in Pollers /\ \A u, v \in Pollers : u = v
  <2>1. r \in Pollers
    BY <1>3 DEF Pollers
  <2> QED
    BY <1>0, <2>1, Zenon DEF TaskIsPlaced, OneTask
<1>8. \A s \in Sets : On(s) = {}
  <2> SUFFICES ASSUME NEW s \in Sets, NEW k \in On(s) PROVE FALSE
    OBVIOUS
  <2>1. k \in Keys /\ In(s, List(k))
    BY DEF On
  <2>2. CASE k = Shared
    BY <1>7, <2>1, <2>2, ListsAre DEF Core, SetsInOrder
  <2>3. ASSUME NEW u \in Runners, k = Own(u) PROVE FALSE
    <3>1. In(s, private_op_que[u])
      BY <2>1, <2>3, ListsAre
    <3>2. pc[u] = "polled"
      BY <3>1 DEF Core, SetsInOrder
    <3>3. u \in Pollers
      BY <3>2 DEF Pollers
    <3> QED
      BY <1>3, <1>7, <3>2, <3>3
  <2>4. ASSUME NEW t \in Threads, k = Back(t) PROVE FALSE
    <3>1. In(s, deferred[t]) /\ deferred[t] \in Seq(Ops)
      BY <1>0, <2>1, <2>4, ListsAre DEF Types
    <3>2. \A i \in 1..Len(deferred[t]) : deferred[t][i] # s
      BY <3>1, NamesAreApart
    <3> QED
      BY <3>1, <3>2 DEF In, At
  <2> QED
    BY <2>1, <2>2, <2>3, <2>4, KeysApart
<1>9. ASSUME NEW x \in Ops \cup Sets
      PROVE  /\ AtMostOne(x, private_op_que'[r])
             /\ In(x, private_op_que'[r]) <=> In(x, private_op_que[r]) \/ x \in ready
             /\ In(x, private_op_que'[r]) => On(x) \subseteq {Own(r)}
             /\ x \notin Sets => On(x)' = On(x)
  <2>1. AtMostOne(x, private_op_que[r]) /\ (In(x, private_op_que[r]) <=> Own(r) \in On(x))
        /\ \A k, l \in On(x) : k = l
    BY KeysApart, ListsAre DEF Core, Listed, On
  <2>2. ~(In(x, private_op_que[r]) /\ x \in ready)
    BY <1>0, <1>8, <2>1
  <2>3. /\ AtMostOne(x, private_op_que'[r])
        /\ In(x, private_op_que'[r]) <=> In(x, private_op_que[r]) \/ In(x, q)
    <3>1. ~(In(x, private_op_que[r]) /\ In(x, q)) /\ AtMostOne(x, q)
      BY <1>6, <2>2
    <3> QED
      BY <1>5, <1>6, <2>1, <3>1, JoinedHas
  <2>4. In(x, private_op_que'[r]) => On(x) \subseteq {Own(r)}
    BY <1>0, <1>6, <1>8, <2>1, <2>3
  <2>5. x \notin Sets => On(x)' = On(x)
    <3> SUFFICES ASSUME x \notin Sets PROVE On(x)' = On(x)
      OBVIOUS
    <3>1. In(x, private_op_que'[r]) <=> In(x, private_op_que[r])
      BY <1>0, <1>6, <2>3
    <3>2. \A k \in Keys : k # Own(r) => List(k)' = List(k)
      BY <1>3, <1>5, OnlyOwn
    <3>3. In(x, List(Own(r))') <=> In(x, List(Own(r)))
      BY <3>1, ListsAre
    <3>4. \A k \in Keys : In(x, List(k)') <=> In(x, List(k))
      BY <3>2, <3>3
    <3> QED
      BY <3>4 DEF On
  <2> QED
    BY <1>6, <2>3, <2>4, <2>5
<1>10. Listed'
  <2>1. \A m \in Keys : m # Own(r) => List(m)' = List(m)
    BY <1>3, <1>5, OnlyOwn
  <2>2. /\ \A x \in Ops \cup Sets : AtMostOne(x, List(Own(r))')
        /\ \A x \in Ops \cup Sets : In(x, List(Own(r))') => On(x) \subseteq {Own(r)}
    BY <1>9, ListsAre
  <2>3. Own(r) \in Keys /\ Listed
    BY KeysApart DEF Core
  <2> HIDE DEF Own, List, In, On, Keys, Listed
  <2> QED
    BY <2>1, <2>2, <2>3, OneListChanges
<1>11. Queued'
  <2>1. \A o \in Ops : On(o)' = On(o)
    BY <1>9, NamesAreApart
  <2> QED
    BY <1>3, <2>1, QueuedFollows DEF Core, Lives
<1>12. SetsInOrder'
  <2>1. pc'[r] = "polled" /\ \A u \in Threads : u # r => pc'[u] = pc[u]
    BY <1>0, <1>3, ThreadMoves DEF Types
  <2>2. \A s \in Sets, u \in Runners : In(s, private_op_que'[u]) => pc'[u] = "polled"
    BY <1>5, <2>1, NamesAreApart DEF Core, SetsInOrder
  <2>3. \A s \in Sets : ~In(s, op_que')
    BY <1>3, <1>7 DEF Core, SetsInOrder
  <2>4. \A s \in Sets : \A i \in At(Task, op_que'), k \in At(s, op_que') : k < i
    BY <2>3 DEF In
  <2> HIDE DEF In, At
  <2> QED
    BY <2>2, <2>3, <2>4 DEF SetsInOrder
<1> QED
  BY <1>4, <1>10, <1>11, <1>12 DEF Core, Lives

(* The poller's own queue is merged into one that has no op_set and no     *)
(* task; the task goes behind it.                                          *)
LEMMA TaskCleanupKeepsPlaces ==
    ASSUME TypesInv, Core, NEW r \in Runners, TaskCleanup(r) PROVE Core'
<1>0. Types /\ TaskIsPlaced /\ r \in Threads /\ op_que \in Seq(Elements)
      /\ Listed /\ SetsInOrder
  BY Known DEF Types, Core
<1>1. PICK to : Passes(r, to)
  BY PassingSteps
<1>2. PICK q \in Merged(op_que, private_op_que[r]) : op_que' = Append(q, Task)
  BY DEF TaskCleanup, Requeued
<1>3. /\ pc[r] = "polled" /\ Goto(r, "top") /\ deferred' = deferred /\ status' = status
      /\ private_op_que' = [private_op_que EXCEPT ![r] = <<>>]
  BY DEF TaskCleanup, callVars
<1>4. Made' /\ Waits' /\ Runs' /\ Deferring'
  BY <1>1, PassesKeep DEF Core, Lives
<1>5. /\ private_op_que'[r] = <<>>
      /\ \A u \in Runners : u # r => private_op_que'[u] = private_op_que[u]
      /\ private_op_que[r] \in Seq(Elements)
  <2>1. private_op_que[r] \in Seq(Ops \cup Sets)
    BY <1>0 DEF Types
  <2> QED
    BY <1>0, <1>3, <2>1 DEF Types, Elements
<1>6. r \in Pollers /\ \A u, v \in Pollers : u = v
  <2>1. r \in Pollers
    BY <1>3 DEF Pollers
  <2> QED
    BY <1>0, <2>1, Zenon DEF TaskIsPlaced, OneTask
<1>7. q \in Seq(Elements) /\ ~In(Task, q)
  <2>1. private_op_que[r] \in Seq(Ops \cup Sets) /\ ServiceInv
    BY <1>0, Known DEF Types
  <2>2. q \in Seq(Elements) /\ (At(Task, q) = {} <=> At(Task, op_que) = {})
    BY <1>2, <2>1, MergedTask
  <2>3. TaskPlaces = {}
    BY <1>0, <1>6, Zenon DEF TaskIsPlaced, OneTask
  <2> QED
    BY <1>0, <2>2, <2>3, TasksAreAt DEF In
<1>8. ASSUME NEW x \in Ops \cup Sets
      PROVE  /\ AtMostOne(x, op_que')
             /\ In(x, op_que') <=> In(x, op_que) \/ In(x, private_op_que[r])
  <2>1. /\ AtMostOne(x, op_que) /\ AtMostOne(x, private_op_que[r])
        /\ ~(In(x, op_que) /\ In(x, private_op_que[r]))
    BY <1>0, KeysApart, ListsAre DEF Listed, On
  <2>2. AtMostOne(x, q) /\ (In(x, q) <=> In(x, op_que) \/ In(x, private_op_que[r]))
    BY <1>0, <1>5, <2>1, MergedHas
  <2>3. At(x, op_que') = At(x, q)
    BY <1>2, <1>7, AppendKeeps, NamesAreApart, Task \in Elements DEF Elements
  <2> QED
    BY <2>2, <2>3 DEF In, AtMostOne
<1>9. ASSUME NEW x \in Ops \cup Sets
      PROVE  On(x)' = IF Own(r) \in On(x) THEN {Shared} ELSE On(x)
  <2>1. /\ Shared \in On(x) <=> In(x, op_que)
        /\ Own(r) \in On(x) <=> In(x, private_op_que[r])
        /\ Shared \in On(x)' <=> In(x, op_que')
        /\ Own(r) \notin On(x)'
    BY <1>5, KeysApart, ListsAre, EmptyList DEF On
  <2>2. \A m \in Keys : m # Shared /\ m # Own(r) => (m \in On(x)' <=> m \in On(x))
    <3>1. \A m \in Keys : m # Shared /\ m # Own(r) => List(m)' = List(m)
      BY <1>3, <1>5, KeysApart, ListsAre
    <3> QED
      BY <3>1 DEF On
  <2>3. \A k, l \in On(x) : k = l
    BY <1>0 DEF Listed
  <2>4. On(x) \subseteq Keys /\ On(x)' \subseteq Keys /\ Shared \in Keys /\ Own(r) # Shared
    BY KeysApart DEF On
  <2> HIDE DEF On, Own, Shared, Keys
  <2> QED
    BY <1>8, <2>1, <2>2, <2>3, <2>4
<1>10. Listed'
  <2>1. \A x \in Ops \cup Sets : \A k, l \in On(x)' : k = l
    BY <1>0, <1>9 DEF Listed
  <2>2. \A x \in Ops \cup Sets : \A m \in Keys : AtMostOne(x, List(m)')
    <3> TAKE x \in Ops \cup Sets
    <3> TAKE m \in Keys
    <3>1. CASE m = Shared
      BY <1>8, <3>1, ListsAre
    <3>2. CASE m = Own(r)
      BY <1>5, <3>2, ListsAre, EmptyList
    <3>3. CASE m # Shared /\ m # Own(r)
      <4>1. List(m)' = List(m)
        BY <1>3, <1>5, <3>3, KeysApart, ListsAre
      <4> QED
        BY <1>0, <4>1 DEF Listed
    <3> QED
      BY <3>1, <3>2, <3>3
  <2> QED
    BY <2>1, <2>2 DEF Listed
<1>11. Queued'
  BY <1>3, <1>9, MergedAsQueued DEF Core, Lives
<1>12. SetsInOrder'
  <2>1. pc'[r] = "top" /\ \A u \in Threads : u # r => pc'[u] = pc[u]
    BY <1>0, <1>3, ThreadMoves DEF Types
  <2>2. Pollers' = {}
    <3> SUFFICES ASSUME NEW u \in Pollers' PROVE FALSE
      OBVIOUS
    <3>1. u \in Runners /\ pc'[u] \in {"poll", "polled"}
      BY DEF Pollers
    <3>2. u # r /\ pc[u] = pc'[u]
      BY <2>1, <3>1, NamesAreApart
    <3>3. u \in Pollers
      BY <3>1, <3>2 DEF Pollers
    <3> QED
      BY <1>6, <3>2, <3>3
  <2>3. \A s \in Sets, u \in Runners : In(s, private_op_que'[u]) => pc'[u] = "polled"
    <3> SUFFICES ASSUME NEW s \in Sets, NEW u \in Runners, In(s, private_op_que'[u])
                 PROVE  FALSE
      OBVIOUS
    <3>1. u # r /\ In(s, private_op_que[u])
      BY <1>5, EmptyList
    <3>2. pc[u] = "polled"
      BY <1>0, <3>1 DEF SetsInOrder
    <3> QED
      BY <1>6, <3>1, <3>2 DEF Pollers
  <2>4. \A s \in Sets : \A i \in At(Task, op_que'), k \in At(s, op_que') : k < i
    <3>1. At(Task, op_que') = {Len(q) + 1}
      BY <1>2, <1>7, AppendKeeps, Task \in Elements DEF Elements, In
    <3>2. \A s \in Sets : At(s, op_que') = At(s, q)
      BY <1>2, <1>7, AppendKeeps, NamesAreApart, Task \in Elements DEF Elements
    <3>3. \A s : \A k \in At(s, q) : k < Len(q) + 1
      BY <1>7 DEF At
    <3> QED
      BY <3>1, <3>2, <3>3
  <2> HIDE DEF In, At, Pollers
  <2> QED
    BY <2>2, <2>3, <2>4 DEF SetsInOrder
<1> QED
  BY <1>4, <1>10, <1>11, <1>12 DEF Core, Lives

-----------------------------------------------------------------------------
(* Calls of the application.                                               *)

(* A call, and its return, leave the caller what it runs.                  *)
ApiMove(t, to) ==
    /\ Goto(t, to) /\ in_run' = in_run /\ cur' = cur
    /\ \/ pc[t] = Home(t) /\ to \in ApiPc
       \/ pc[t] \in ApiPc /\ to = Home(t)
       \/ pc[t] \in ApiPc /\ to \in ApiPc
       \/ pc[t] = "set_defer" /\ to = "handler"

LEMMA ApiRuns ==
    ASSUME TypesInv, Runs, NEW t \in Threads, NEW to, ApiMove(t, to),
           \A o \in Ops : status'[o] = "running" <=> status[o] = "running"
    PROVE  Runs'
<1>0. Types /\ Goto(t, to) /\ cur' = cur /\ in_run' = in_run
  BY Known DEF ApiMove
<1>1. pc'[t] = to
  BY <1>0, ThreadMoves DEF Types
<1>2. pc[t] # "clean" /\ to # "clean" /\ (Active(t)' <=> Active(t))
  BY <1>0, <1>1 DEF ApiMove, Active, ApiPc, Home
<1> QED
  BY <1>0, <1>2, RunsStay DEF Types

(* Such a thread is no poller.                                             *)
LEMMA ApiPolls ==
    ASSUME TypesInv, NEW t \in Threads, NEW to, ApiMove(t, to)
    PROVE  /\ Pollers' = Pollers
           /\ \A r \in Runners : pc[r] = "polled" => pc'[r] = "polled"
           /\ pc'[t] = to /\ \A u \in Threads : u # t => pc'[u] = pc[u]
<1>1. Types /\ Goto(t, to)
  BY Known DEF ApiMove
<1>2. pc'[t] = to /\ \A u \in Threads : u # t => pc'[u] = pc[u]
  BY <1>1, ThreadMoves DEF Types
<1>3. /\ pc[t] \notin {"poll", "polled"} /\ to \notin {"poll", "polled"}
  BY DEF ApiMove, ApiPc, Home
<1> QED
  BY <1>2, <1>3, NamesAreApart DEF Pollers

LEMMA PostLoadKeepsPlaces ==
    ASSUME TypesInv, Core, NEW t \in Threads, NEW o \in service.ops, PostLoad(t, o) PROVE Core'
<1>0. Types /\ Registers /\ o \in Ops
  BY Known, NamesAreApart DEF Types
<1>1. /\ status[o] = "new" /\ status' = [status EXCEPT ![o] = "posting"]
      /\ arg' = [arg EXCEPT ![t] = o] /\ pc[t] = Home(t) /\ Goto(t, "post_store")
      /\ op_que' = op_que /\ private_op_que' = private_op_que /\ deferred' = deferred
      /\ waiting' = waiting /\ set_mutex' = set_mutex /\ cur' = cur /\ in_run' = in_run
  BY DEF PostLoad, Calls, queueVars, runnerVars, reactorVars
<1>2. status'[o] = "posting" /\ \A p \in Ops : p # o => status'[p] = status[p]
  BY <1>0, <1>1 DEF Registers
<1>3. arg'[t] = o /\ \A u \in Threads : u # t => arg'[u] = arg[u]
  BY <1>0, <1>1 DEF Types
<1>4. ApiMove(t, "post_store")
  BY <1>1 DEF ApiMove, ApiPc
<1>5. /\ Pollers' = Pollers
      /\ \A r \in Runners : pc[r] = "polled" => pc'[r] = "polled"
      /\ pc'[t] = "post_store" /\ \A u \in Threads : u # t => pc'[u] = pc[u]
  BY <1>4, ApiPolls
<1>6. Listed' /\ \A x : On(x)' = On(x)
  BY <1>1, ListsStay DEF Core
<1>7. SetsInOrder'
  BY <1>1, <1>5, SetsStay DEF Core
<1>8. Queued'
  BY <1>1, <1>2, <1>6, QueuedFollows DEF Core, Lives
<1>9. Made'
  <2>1. \A u \in Threads : pc[u] \in Making => arg[u] \in Ops /\ arg[u] # o
    BY <1>1 DEF Core, Lives, Made, Stage
  <2>2. Stage("post_store") = "posting"
    BY DEF Stage
  <2> QED
    BY <1>0, <1>2, <1>3, <1>5, <2>1, <2>2, MadeFollows DEF Core, Lives
<1>10. Waits'
  <2>1. pc[t] # "start_store"
    BY <1>1, HomeIsPlace
  <2> QED
    BY <1>0, <1>1, <1>2, <1>3, <1>5, <2>1, WaitsFollows DEF Core, Lives, Types
<1>11. Runs'
  BY <1>1, <1>2, <1>4, ApiRuns DEF Core, Lives
<1>12. Deferring'
  <2>1. deferred[t] = <<>>
    BY <1>1, HomeIsPlace DEF Core, Lives, Deferring
  <2> QED
    BY <1>1, <1>5, <2>1, DeferringFollows DEF Core, Lives
<1> QED
  BY <1>6, <1>7, <1>8, <1>9, <1>10, <1>11, <1>12 DEF Core, Lives

LEMMA PostStoreKeepsPlaces ==
    ASSUME TypesInv, Core, NEW t \in Threads, PostStore(t) PROVE Core'
<1>0. Types
  BY Known
<1>1. /\ pc[t] = "post_store" /\ Goto(t, "post_push")
      /\ status' = status /\ arg' = arg
      /\ op_que' = op_que /\ private_op_que' = private_op_que /\ deferred' = deferred
      /\ waiting' = waiting /\ set_mutex' = set_mutex /\ cur' = cur /\ in_run' = in_run
  BY DEF PostStore, queueVars, runnerVars, reactorVars, callVars
<1>2. ApiMove(t, "post_push")
  BY <1>1 DEF ApiMove, ApiPc
<1>3. /\ Pollers' = Pollers
      /\ \A r \in Runners : pc[r] = "polled" => pc'[r] = "polled"
      /\ pc'[t] = "post_push" /\ \A u \in Threads : u # t => pc'[u] = pc[u]
  BY <1>2, ApiPolls
<1>4. Listed' /\ \A x : On(x)' = On(x)
  BY <1>1, ListsStay DEF Core
<1>5. SetsInOrder'
  BY <1>1, <1>3, SetsStay DEF Core
<1>6. Queued'
  BY <1>1, <1>4, QueuedFollows DEF Core, Lives
<1>7. Made'
  <2>1. arg[t] \in Ops /\ status[arg[t]] = "posting" /\ Stage("post_push") = "posting"
    BY <1>1 DEF Core, Lives, Made, Making, Stage
  <2>2. \A u \in Threads : u # t /\ pc[u] \in Making => arg[u] # arg[t]
    BY <1>1 DEF Core, Lives, Made, Making
  <2> QED
    BY <1>1, <1>3, <2>1, <2>2, MadeFollows DEF Core, Lives
<1>8. Waits'
  BY <1>0, <1>1, <1>3, WaitsFollows DEF Core, Lives, Types
<1>9. Runs'
  BY <1>1, <1>2, ApiRuns DEF Core, Lives
<1>10. Deferring'
  <2>1. deferred[t] = <<>>
    BY <1>1 DEF Core, Lives, Deferring
  <2> QED
    BY <1>1, <1>3, <2>1, DeferringFollows DEF Core, Lives
<1> QED
  BY <1>4, <1>5, <1>6, <1>7, <1>8, <1>9, <1>10 DEF Core, Lives

(* An operation that is on no list goes to the end of one.                 *)
LEMMA OneAppended ==
    ASSUME Types, Listed, NEW k \in Keys, NEW o \in Ops, On(o) = {},
           List(k)' = Append(List(k), o),
           \A m \in Keys : m # k => List(m)' = List(m)
    PROVE  /\ Listed'
           /\ On(o)' = {k} /\ \A x \in Ops \cup Sets : x # o => On(x)' = On(x)
           /\ \A x : x # o => At(x, List(k)') = At(x, List(k))
<1>1. List(k) \in Seq(Elements) /\ o \in Elements
  BY ListTypes DEF Elements
<1>2. \A x : x # o => At(x, List(k)') = At(x, List(k))
  BY <1>1, AppendKeeps
<1>3. At(o, List(k)') = {Len(List(k)) + 1}
  <2>1. At(o, List(k)) = {}
    BY DEF On, In
  <2> QED
    BY <1>1, <2>1, AppendKeeps
<1>4. \A x \in Ops \cup Sets : AtMostOne(x, List(k)')
  BY <1>2, <1>3 DEF AtMostOne, Listed
<1>5. In(o, List(k)') /\ \A x \in Ops \cup Sets : x # o => (In(x, List(k)') <=> k \in On(x))
  BY <1>2, <1>3 DEF In, On
<1>6. \A x \in Ops \cup Sets : In(x, List(k)') => On(x) \subseteq {k}
  BY <1>5 DEF Listed
<1>7. /\ Listed'
      /\ \A x \in Ops \cup Sets : On(x)' = IF In(x, List(k)') THEN {k} ELSE On(x) \ {k}
  <2> HIDE DEF On, In, List, Keys, Listed
  <2> QED
    BY <1>4, <1>6, OneListChanges
<1>8. \A x \in Ops \cup Sets : \A m, l \in On(x) : m = l
  BY DEF Listed
<1> HIDE DEF On, In, List, Keys, Listed
<1>9. ASSUME NEW x \in Ops \cup Sets, x # o PROVE On(x)' = On(x)
  <2>1. In(x, List(k)') <=> k \in On(x)
    BY <1>5, <1>9
  <2>2. On(x)' = IF In(x, List(k)') THEN {k} ELSE On(x) \ {k}
    BY <1>7
  <2>3. \A m, l \in On(x) : m = l
    BY <1>8
  <2>4. CASE k \in On(x)
    BY <2>1, <2>2, <2>3, <2>4
  <2>5. CASE k \notin On(x)
    BY <2>1, <2>2, <2>5
  <2> QED
    BY <2>4, <2>5
<1> QED
  BY <1>2, <1>5, <1>7, <1>9

LEMMA SetsSeeNoOp ==
    ASSUME SetsInOrder, NEW o \in Ops,
           Pollers' \subseteq Pollers,
           \A r \in Runners : pc[r] = "polled" => pc'[r] = "polled",
           \A x : x # o => At(x, op_que') = At(x, op_que),
           \A r \in Runners : \A x : x # o => At(x, private_op_que'[r]) = At(x, private_op_que[r])
    PROVE  SetsInOrder'
<1>1. Task # o /\ \A s \in Sets : s # o
  BY NamesAreApart
<1>2. \A s \in Sets : \A i \in At(Task, op_que'), k \in At(s, op_que') : k < i
  BY <1>1 DEF SetsInOrder
<1>3. \A s \in Sets : In(s, op_que') => In(s, op_que)
  BY <1>1 DEF In
<1>4. \A s \in Sets, r \in Runners : In(s, private_op_que'[r]) => In(s, private_op_que[r])
  BY <1>1 DEF In
<1> QED
  BY <1>2, <1>3, <1>4, SetsFollow

LEMMA PostPrivateKeepsPlaces ==
    ASSUME TypesInv, Core, NEW t \in Threads, NEW o \in service.ops, PostPrivate(t, o)
    PROVE  Core'
<1>0. Types /\ Registers /\ o \in Ops /\ Listed
  BY Known, NamesAreApart DEF Types, Core
<1>1. /\ status[o] = "new" /\ status' = [status EXCEPT ![o] = "queued"]
      /\ arg' = arg /\ pc' = pc /\ t \in in_run
      /\ private_op_que' = [private_op_que EXCEPT ![t] = Append(@, o)]
      /\ op_que' = op_que /\ deferred' = deferred
      /\ waiting' = waiting /\ set_mutex' = set_mutex /\ cur' = cur /\ in_run' = in_run
  BY DEF PostPrivate, queueVars, reactorVars, callVars
<1>2. status'[o] = "queued" /\ \A p \in Ops : p # o => status'[p] = status[p]
  BY <1>0, <1>1 DEF Registers
<1>3. /\ t \in Runners /\ private_op_que'[t] = Append(private_op_que[t], o)
      /\ \A r \in Runners : r # t => private_op_que'[r] = private_op_que[r]
  BY <1>0, <1>1 DEF Types, Registers
<1>4. On(o) = {}
  BY <1>0, <1>1 DEF Core, Lives, Queued
<1>5. /\ Listed'
      /\ On(o)' = {Own(t)} /\ \A x \in Ops \cup Sets : x # o => On(x)' = On(x)
      /\ \A x : x # o => At(x, List(Own(t))') = At(x, List(Own(t)))
  <2>1. Own(t) \in Keys /\ List(Own(t))' = Append(List(Own(t)), o)
    BY <1>3, KeysApart, ListsAre
  <2>2. \A m \in Keys : m # Own(t) => List(m)' = List(m)
    BY <1>1, <1>3, OnlyOwn
  <2> HIDE DEF On, List, Own, Keys, Listed
  <2> QED
    BY <1>0, <1>4, <2>1, <2>2, OneAppended
<1>6. SetsInOrder'
  <2>1. \A r \in Runners : \A x : x # o => At(x, private_op_que'[r]) = At(x, private_op_que[r])
    BY <1>3, <1>5, ListsAre
  <2>2. Pollers' \subseteq Pollers /\ \A r \in Runners : pc[r] = "polled" => pc'[r] = "polled"
    BY <1>1 DEF Pollers
  <2> QED
    BY <1>0, <1>1, <2>1, <2>2, SetsSeeNoOp DEF Core
<1>7. Queued'
  BY <1>1, <1>2, <1>5 DEF Core, Lives, Queued
<1>8. Made' /\ Waits' /\ Runs' /\ Deferring'
  <2>1. \A p \in Ops : status[p] \in {"posting", "starting", "waiting", "running"}
                          \/ status'[p] \in {"posting", "starting", "waiting", "running"}
                       => status'[p] = status[p]
    BY <1>1, <1>2
  <2>2. Made'
    <3>1. \A u \in Threads : pc[u] \in Making => arg[u] \in Ops /\ arg[u] # o
      BY <1>1 DEF Core, Lives, Made, Stage
    <3> QED
      BY <1>1, <1>2, <3>1 DEF Core, Lives, Made
  <2>3. Waits'
    <3>1. \A s \in Sets : waiting[s] \subseteq Ops
      BY <1>0 DEF Types
    <3> QED
      BY <1>1, <2>1, <3>1 DEF Core, Lives, Waits
  <2>4. Runs'
    BY <1>1, <2>1 DEF Core, Lives, Runs, Owns, Active
  <2>5. Deferring'
    BY <1>1 DEF Core, Lives, Deferring
  <2> QED
    BY <2>2, <2>3, <2>4, <2>5
<1> QED
  BY <1>5, <1>6, <1>7, <1>8 DEF Core, Lives

LEMMA PostPushKeepsPlaces ==
    ASSUME TypesInv, Core, NEW t \in Threads, PostPush(t) PROVE Core'
<1>0. Types /\ Registers /\ Listed
  BY Known DEF Core
<1>1. /\ pc[t] = "post_push" /\ Goto(t, Home(t))
      /\ status' = [status EXCEPT ![arg[t]] = "queued"]
      /\ arg' = [arg EXCEPT ![t] = None]
      /\ op_que' = Append(op_que, arg[t])
      /\ private_op_que' = private_op_que /\ deferred' = deferred
      /\ waiting' = waiting /\ set_mutex' = set_mutex /\ cur' = cur /\ in_run' = in_run
  BY DEF PostPush, reactorVars
<1>2. /\ arg[t] \in Ops /\ status[arg[t]] = "posting"
      /\ \A u \in Threads : u # t /\ pc[u] \in Making => arg[u] \in Ops /\ arg[u] # arg[t]
  BY <1>1 DEF Core, Lives, Made, Making, Stage
<1>3. status'[arg[t]] = "queued" /\ \A p \in Ops : p # arg[t] => status'[p] = status[p]
  BY <1>0, <1>1, <1>2 DEF Registers
<1>4. \A u \in Threads : u # t => arg'[u] = arg[u]
  BY <1>0, <1>1 DEF Types
<1>5. ApiMove(t, Home(t))
  BY <1>1 DEF ApiMove, ApiPc
<1>6. /\ Pollers' = Pollers
      /\ \A r \in Runners : pc[r] = "polled" => pc'[r] = "polled"
      /\ pc'[t] = Home(t) /\ \A u \in Threads : u # t => pc'[u] = pc[u]
  BY <1>5, ApiPolls
<1>7. On(arg[t]) = {}
  BY <1>2 DEF Core, Lives, Queued
<1>a. PICK o : o = arg[t]
  OBVIOUS
<1>8. /\ Listed'
      /\ On(o)' = {Shared}
      /\ \A x \in Ops \cup Sets : x # o => On(x)' = On(x)
      /\ \A x : x # o => At(x, op_que') = At(x, op_que)
  <2>1. o \in Ops /\ On(o) = {} /\ Shared \in Keys /\ List(Shared)' = Append(List(Shared), o)
    BY <1>1, <1>2, <1>7, <1>a, KeysApart, ListsAre
  <2>2. \A m \in Keys : m # Shared => List(m)' = List(m)
    BY <1>1, OnlyShared
  <2> HIDE DEF On, List, Shared, Keys, Listed
  <2>3. /\ Listed'
        /\ On(o)' = {Shared} /\ \A x \in Ops \cup Sets : x # o => On(x)' = On(x)
        /\ \A x : x # o => At(x, List(Shared)') = At(x, List(Shared))
    BY <1>0, <2>1, <2>2, OneAppended
  <2> QED
    BY <2>3, ListsAre
<1>9. SetsInOrder'
  BY <1>a, <1>1, <1>2, <1>6, <1>8, SetsSeeNoOp DEF Core
<1>10. Queued'
  BY <1>a, <1>2, <1>3, <1>8 DEF Core, Lives, Queued
<1>11. Made'
  BY <1>2, <1>3, <1>4, <1>6, HomeIsPlace, MadeFollows DEF Core, Lives, Making
<1>12. Waits'
  <2>1. \A p \in Ops : status[p] \in {"waiting", "starting"} \/ status'[p] \in {"waiting", "starting"}
                       => status'[p] = status[p]
    BY <1>2, <1>3
  <2>2. Waits /\ waiting \in [Sets -> SUBSET Ops] /\ pc[t] # "start_store"
    BY <1>0, <1>1 DEF Core, Lives, Types
  <2>3. \A u \in Threads : u # t => pc'[u] = pc[u] /\ arg'[u] = arg[u]
    BY <1>4, <1>6
  <2> QED
    BY <1>1, <2>1, <2>2, <2>3, WaitsFollows
<1>13. Runs'
  BY <1>2, <1>3, <1>5, ApiRuns DEF Core, Lives
<1>14. Deferring'
  <2>1. deferred[t] = <<>>
    BY <1>1 DEF Core, Lives, Deferring
  <2> QED
    BY <1>1, <1>6, <2>1, DeferringFollows DEF Core, Lives
<1> QED
  BY <1>8, <1>9, <1>10, <1>11, <1>12, <1>13, <1>14 DEF Core, Lives

LEMMA StartLoadKeepsPlaces ==
    ASSUME TypesInv, Core, NEW t \in Threads, NEW s \in Sets, NEW o \in service.ops,
           StartLoad(t, s, o)
    PROVE  Core'
<1>0. Types /\ Registers /\ o \in Ops
  BY Known, NamesAreApart DEF Types
<1>1. /\ status[o] = "new" /\ status' = [status EXCEPT ![o] = "starting"]
      /\ arg' = [arg EXCEPT ![t] = o] /\ pc[t] = Home(t) /\ Goto(t, "start_store")
      /\ set_mutex[s] = None /\ set_mutex' = [set_mutex EXCEPT ![s] = t]
      /\ waiting' = [waiting EXCEPT ![s] = @ \cup {o}]
      /\ op_que' = op_que /\ private_op_que' = private_op_que /\ deferred' = deferred
      /\ cur' = cur /\ in_run' = in_run
  BY DEF StartLoad, Calls, queueVars, runnerVars
<1>2. status'[o] = "starting" /\ \A p \in Ops : p # o => status'[p] = status[p]
  BY <1>0, <1>1 DEF Registers
<1>3. arg'[t] = o /\ \A u \in Threads : u # t => arg'[u] = arg[u]
  BY <1>0, <1>1 DEF Types
<1>4. ApiMove(t, "start_store")
  BY <1>1 DEF ApiMove, ApiPc
<1>5. /\ Pollers' = Pollers
      /\ \A r \in Runners : pc[r] = "polled" => pc'[r] = "polled"
      /\ pc'[t] = "start_store" /\ \A u \in Threads : u # t => pc'[u] = pc[u]
  BY <1>4, ApiPolls
<1>6. Listed' /\ \A x : On(x)' = On(x)
  BY <1>1, ListsStay DEF Core
<1>7. SetsInOrder'
  BY <1>1, <1>5, SetsStay DEF Core
<1>8. Queued'
  BY <1>1, <1>2, <1>6, QueuedFollows DEF Core, Lives
<1>9. Made'
  <2>1. \A u \in Threads : pc[u] \in Making => arg[u] \in Ops /\ arg[u] # o
    BY <1>1 DEF Core, Lives, Made, Stage
  <2>2. Stage("start_store") = "starting"
    BY DEF Stage
  <2> QED
    BY <1>0, <1>2, <1>3, <1>5, <2>1, <2>2, MadeFollows DEF Core, Lives
<1>10. Waits'
  <2>1. /\ waiting'[s] = waiting[s] \cup {o} /\ set_mutex'[s] = t
        /\ \A z \in Sets : z # s => waiting'[z] = waiting[z] /\ set_mutex'[z] = set_mutex[z]
        /\ \A z \in Sets : waiting[z] \subseteq Ops
    BY <1>0, <1>1 DEF Types, Registers
  <2>2. None \notin Threads
    BY TaskIoAssumption
  <2>3. \A z \in Sets : o \notin waiting[z]
    BY <1>1 DEF Core, Lives, Waits
  <2>4. ASSUME NEW z \in Sets, NEW p \in waiting'[z]
        PROVE  \/ status'[p] = "waiting"
               \/ /\ status'[p] = "starting" /\ set_mutex'[z] \in Threads
                  /\ pc'[set_mutex'[z]] = "start_store" /\ arg'[set_mutex'[z]] = p
    <3>1. CASE p = o
      <4>1. z = s
        BY <2>1, <2>3, <3>1
      <4> QED
        BY <1>2, <1>3, <1>5, <2>1, <3>1, <4>1
    <3>2. CASE p # o
      <4>1. p \in waiting[z] /\ p \in Ops /\ status'[p] = status[p]
        BY <1>2, <2>1, <3>2
      <4>2. CASE status[p] = "waiting"
        BY <4>1, <4>2
      <4>3. CASE /\ status[p] = "starting" /\ set_mutex[z] \in Threads
                 /\ pc[set_mutex[z]] = "start_store" /\ arg[set_mutex[z]] = p
        <5>1. z # s /\ set_mutex[z] # t
          BY <1>1, <2>2, <4>3, HomeIsPlace
        <5> QED
          BY <1>3, <1>5, <2>1, <4>1, <4>3, <5>1
      <4> QED
        BY <4>1, <4>2, <4>3 DEF Core, Lives, Waits
    <3> QED
      BY <3>1, <3>2
  <2>5. \A y, z \in Sets : waiting'[y] \cap waiting'[z] # {} => y = z
    BY <2>1, <2>3 DEF Core, Lives, Waits
  <2>6. ASSUME NEW p \in Ops, status'[p] \in {"waiting", "starting"}
        PROVE  \E z \in Sets : p \in waiting'[z]
    <3>1. CASE p = o
      BY <2>1, <3>1
    <3>2. CASE p # o
      <4>1. PICK z \in Sets : p \in waiting[z]
        BY <1>2, <2>6, <3>2 DEF Core, Lives, Waits
      <4>2. p \in waiting'[z]
        BY <2>1, <4>1
      <4> QED
        BY <4>2
    <3> QED
      BY <3>1, <3>2
  <2> QED
    BY <2>4, <2>5, <2>6 DEF Waits
<1>11. Runs'
  BY <1>1, <1>2, <1>4, ApiRuns DEF Core, Lives
<1>12. Deferring'
  <2>1. deferred[t] = <<>>
    BY <1>1, HomeIsPlace DEF Core, Lives, Deferring
  <2> QED
    BY <1>1, <1>5, <2>1, DeferringFollows DEF Core, Lives
<1> QED
  BY <1>6, <1>7, <1>8, <1>9, <1>10, <1>11, <1>12 DEF Core, Lives

LEMMA StartStoreKeepsPlaces ==
    ASSUME TypesInv, Core, NEW t \in Threads, StartStore(t) PROVE Core'
<1>0. Types /\ Registers
  BY Known
<1>1. /\ pc[t] = "start_store" /\ Goto(t, Home(t))
      /\ status' = [status EXCEPT ![arg[t]] = "waiting"]
      /\ arg' = [arg EXCEPT ![t] = None]
      /\ set_mutex' = [s \in Sets |-> IF set_mutex[s] = t THEN None ELSE set_mutex[s]]
      /\ waiting' = waiting
      /\ op_que' = op_que /\ private_op_que' = private_op_que /\ deferred' = deferred
      /\ cur' = cur /\ in_run' = in_run
  BY DEF StartStore, queueVars, runnerVars
<1>2. /\ arg[t] \in Ops /\ status[arg[t]] = "starting"
      /\ \A u \in Threads : u # t /\ pc[u] \in Making => arg[u] \in Ops /\ arg[u] # arg[t]
  BY <1>1 DEF Core, Lives, Made, Making, Stage
<1>3. status'[arg[t]] = "waiting" /\ \A p \in Ops : p # arg[t] => status'[p] = status[p]
  BY <1>0, <1>1, <1>2 DEF Registers
<1>4. \A u \in Threads : u # t => arg'[u] = arg[u]
  BY <1>0, <1>1 DEF Types
<1>5. ApiMove(t, Home(t))
  BY <1>1 DEF ApiMove, ApiPc
<1>6. /\ Pollers' = Pollers
      /\ \A r \in Runners : pc[r] = "polled" => pc'[r] = "polled"
      /\ pc'[t] = Home(t) /\ \A u \in Threads : u # t => pc'[u] = pc[u]
  BY <1>5, ApiPolls
<1>7. Listed' /\ \A x : On(x)' = On(x)
  BY <1>1, ListsStay DEF Core
<1>8. SetsInOrder'
  BY <1>1, <1>6, SetsStay DEF Core
<1>9. Queued'
  BY <1>2, <1>3, <1>7, QueuedFollows DEF Core, Lives
<1>10. Made'
  BY <1>2, <1>3, <1>4, <1>6, HomeIsPlace, MadeFollows DEF Core, Lives, Making
<1>11. Waits'
  <2>1. ASSUME NEW z \in Sets, NEW p \in waiting'[z]
        PROVE  \/ status'[p] = "waiting"
               \/ /\ status'[p] = "starting" /\ set_mutex'[z] \in Threads
                  /\ pc'[set_mutex'[z]] = "start_store" /\ arg'[set_mutex'[z]] = p
    <3>1. CASE p = arg[t]
      BY <1>3, <3>1
    <3>2. CASE p # arg[t]
      <4>1. p \in waiting[z] /\ p \in Ops /\ status'[p] = status[p]
        BY <1>0, <1>1, <1>3, <3>2 DEF Types
      <4>2. CASE status[p] = "waiting"
        BY <4>1, <4>2
      <4>3. CASE /\ status[p] = "starting" /\ set_mutex[z] \in Threads
                 /\ pc[set_mutex[z]] = "start_store" /\ arg[set_mutex[z]] = p
        <5>1. set_mutex[z] # t /\ set_mutex'[z] = set_mutex[z]
          BY <1>1, <3>2, <4>3
        <5> QED
          BY <1>4, <1>6, <4>1, <4>3, <5>1
      <4> QED
        BY <4>1, <4>2, <4>3 DEF Core, Lives, Waits
    <3> QED
      BY <3>1, <3>2
  <2>2. \A y, z \in Sets : waiting'[y] \cap waiting'[z] # {} => y = z
    BY <1>1 DEF Core, Lives, Waits
  <2>3. ASSUME NEW p \in Ops, status'[p] \in {"waiting", "starting"}
        PROVE  \E z \in Sets : p \in waiting'[z]
    <3>1. status[p] \in {"waiting", "starting"}
      BY <1>2, <1>3, <2>3
    <3> QED
      BY <1>1, <3>1 DEF Core, Lives, Waits
  <2> QED
    BY <2>1, <2>2, <2>3 DEF Waits
<1>12. Runs'
  BY <1>2, <1>3, <1>5, ApiRuns DEF Core, Lives
<1>13. Deferring'
  <2>1. deferred[t] = <<>>
    BY <1>1 DEF Core, Lives, Deferring
  <2> QED
    BY <1>1, <1>6, <2>1, DeferringFollows DEF Core, Lives
<1> QED
  BY <1>7, <1>8, <1>9, <1>10, <1>11, <1>12, <1>13 DEF Core, Lives

(* The operations of an op_set on their way back are on no list.           *)
LEMMA CancelOpsKeepsPlaces ==
    ASSUME TypesInv, Core, NEW t \in Threads, NEW s \in Sets, CancelOps(t, s) PROVE Core'
<1>0. Types /\ Registers /\ Listed
  BY Known DEF Core
<1>1. PICK d \in Orders(waiting[s]) : deferred' = [deferred EXCEPT ![t] = d]
  BY DEF CancelOps
<1>2. /\ pc[t] = Home(t) /\ Goto(t, "defer") /\ set_mutex[s] = None
      /\ waiting' = [waiting EXCEPT ![s] = {}]
      /\ status' = [o \in Ops |-> IF o \in waiting[s] THEN "queued" ELSE status[o]]
      /\ arg' = arg /\ set_mutex' = set_mutex /\ cur' = cur /\ in_run' = in_run
      /\ op_que' = op_que /\ private_op_que' = private_op_que
  BY DEF CancelOps, Calls, queueVars, runnerVars
<1>3. /\ waiting[s] \subseteq Ops /\ IsFiniteSet(waiting[s])
      /\ waiting'[s] = {} /\ \A z \in Sets : z # s => waiting'[z] = waiting[z]
      /\ \A z \in Sets : waiting[z] \subseteq Ops
  <2>1. waiting[s] \subseteq Ops
    BY <1>0 DEF Types
  <2>2. IsFiniteSet(waiting[s])
    BY <2>1, NamesAreApart, FS_Subset
  <2> QED
    BY <1>0, <1>2, <2>1, <2>2 DEF Types
<1>4. d \in Seq(Elements) /\ \A x : AtMostOne(x, d) /\ (In(x, d) <=> x \in waiting[s])
  <2>1. d \in Seq(waiting[s]) /\ \A x : AtMostOne(x, d) /\ (In(x, d) <=> x \in waiting[s])
    BY <1>3, OrderLists
  <2> QED
    BY <1>3, <2>1 DEF Elements
<1>5. \A o \in waiting[s] : status[o] = "waiting" /\ On(o) = {}
  <2>1. None \notin Threads
    BY TaskIoAssumption
  <2>2. \A o \in waiting[s] : status[o] = "waiting"
    BY <1>2, <2>1 DEF Core, Lives, Waits
  <2> QED
    BY <1>3, <2>2 DEF Core, Lives, Queued
<1>6. ApiMove(t, "defer")
  BY <1>2 DEF ApiMove, ApiPc
<1>7. /\ Pollers' = Pollers
      /\ \A r \in Runners : pc[r] = "polled" => pc'[r] = "polled"
      /\ pc'[t] = "defer" /\ \A u \in Threads : u # t => pc'[u] = pc[u]
  BY <1>6, ApiPolls
<1>8. /\ deferred[t] = <<>> /\ deferred'[t] = d
      /\ \A u \in Threads : u # t => deferred'[u] = deferred[u]
  <2>1. deferred[t] = <<>>
    BY <1>2, HomeIsPlace DEF Core, Lives, Deferring
  <2> QED
    BY <1>0, <1>1, <2>1 DEF Types
<1>9. /\ Listed'
      /\ \A x \in Ops \cup Sets : On(x)' = IF x \in waiting[s] THEN {Back(t)} ELSE On(x)
  <2>1. \A m \in Keys : m # Back(t) => List(m)' = List(m)
    BY <1>2, <1>8, OnlyBack
  <2>2. /\ \A x \in Ops \cup Sets : AtMostOne(x, List(Back(t))')
        /\ \A x \in Ops \cup Sets : In(x, List(Back(t))') <=> x \in waiting[s]
    BY <1>4, <1>8, ListsAre
  <2>3. \A x \in Ops \cup Sets : Back(t) \notin On(x)
    BY <1>8, ListsAre, EmptyList DEF On
  <2>4. Back(t) \in Keys
    BY KeysApart
  <2> HIDE DEF Back, List, In, On, Keys, Listed
  <2>5. \A x \in Ops \cup Sets : In(x, List(Back(t))') => On(x) \subseteq {Back(t)}
    BY <1>5, <2>2
  <2>6. /\ Listed'
        /\ \A x \in Ops \cup Sets :
              On(x)' = IF In(x, List(Back(t))') THEN {Back(t)} ELSE On(x) \ {Back(t)}
    BY <1>0, <2>1, <2>2, <2>4, <2>5, OneListChanges
  <2> QED
    BY <2>2, <2>3, <2>6
<1>10. SetsInOrder'
  BY <1>2, <1>7, SetsStay DEF Core
<1>11. Queued'
  <2> SUFFICES ASSUME NEW o \in Ops PROVE status'[o] = "queued" <=> On(o)' # {}
    BY DEF Queued
  <2>1. CASE o \in waiting[s]
    BY <1>2, <1>9, <2>1
  <2>2. CASE o \notin waiting[s]
    BY <1>2, <1>9, <2>2 DEF Core, Lives, Queued
  <2> QED
    BY <2>1, <2>2
<1>12. Made'
  <2>1. \A u \in Threads : pc[u] \in Making =>
           arg[u] \in Ops /\ status[arg[u]] \in {"starting", "posting"}
    BY DEF Core, Lives, Made, Stage
  <2>2. \A u \in Threads : pc[u] \in Making => status'[arg[u]] = status[arg[u]]
    BY <1>2, <1>5, <2>1
  <2> QED
    BY <1>2, <1>7, <2>2, MadeFollows DEF Core, Lives, Making
<1>13. Waits'
  <2>1. /\ pc[t] # "start_store" /\ Waits /\ set_mutex' = set_mutex /\ arg' = arg
        /\ waiting[s] \subseteq waiting[s] /\ waiting'[s] = waiting[s] \ waiting[s]
    BY <1>2, <1>3, HomeIsPlace DEF Core, Lives
  <2>2. \A o \in waiting[s] : status'[o] \notin {"waiting", "starting"}
    BY <1>2, <1>3
  <2>3. \A o \in Ops : o \notin waiting[s] => status'[o] = status[o]
    BY <1>2
  <2>4. waiting \in [Sets -> SUBSET Ops]
    BY <1>0 DEF Types
  <2> QED
    BY <1>3, <1>7, <2>1, <2>2, <2>3, <2>4, WaitsTaken
<1>14. Runs'
  <2>1. \A o \in Ops : status'[o] = "running" <=> status[o] = "running"
    BY <1>2, <1>5
  <2> QED
    BY <1>6, <2>1, ApiRuns DEF Core, Lives
<1>15. Deferring'
  BY <1>7, <1>8, DeferringFollows DEF Core, Lives
<1> QED
  BY <1>9, <1>10, <1>11, <1>12, <1>13, <1>14, <1>15 DEF Core, Lives

(* post_deferred_completions: the list goes into the thread's own queue or *)
(* into the shared one.                                                    *)
LEMMA DeferredKeepsPlaces ==
    ASSUME TypesInv, Core, NEW t \in Threads, NEW from, NEW to, Deferred(t, from, to),
           ApiMove(t, to), from \in {"defer", "set_defer"}, to \in {"out", "handler"}
    PROVE  Core'
<1>0. Types /\ Registers /\ Listed /\ SetsInOrder
  BY Known DEF Core
<1>1. /\ status' = status /\ arg' = arg /\ waiting' = waiting /\ set_mutex' = set_mutex
      /\ cur' = cur /\ in_run' = in_run
      /\ deferred' = [deferred EXCEPT ![t] = <<>>]
  BY DEF Deferred, reactorVars
<1>2. /\ Pollers' = Pollers
      /\ \A r \in Runners : pc[r] = "polled" => pc'[r] = "polled"
      /\ pc'[t] = to /\ \A u \in Threads : u # t => pc'[u] = pc[u]
      /\ pc[t] # "start_store" /\ pc[t] # "polled"
  <2>1. pc[t] # "start_store" /\ pc[t] # "polled"
    BY DEF Deferred
  <2> QED
    BY <2>1, ApiPolls
<1>3. /\ deferred'[t] = <<>> /\ deferred[t] \in Seq(Ops)
      /\ \A u \in Threads : u # t => deferred'[u] = deferred[u]
  BY <1>0, <1>1 DEF Types
<1>4. \A s \in Sets : ~In(s, deferred[t])
  <2>1. \A s \in Sets : \A i \in 1..Len(deferred[t]) : deferred[t][i] # s
    BY <1>3, NamesAreApart
  <2> QED
    BY <2>1 DEF In, At
<1>5. /\ Listed'
      /\ \E k \in Keys : \A o \in Ops : On(o)' = IF Back(t) \in On(o) THEN {k} ELSE On(o)
      /\ SetsInOrder'
  <2>1. CASE /\ t \in Runners /\ op_que' = op_que
             /\ \E q \in Merged(private_op_que[t], deferred[t]) :
                   private_op_que' = [private_op_que EXCEPT ![t] = q]
    <3>1. /\ private_op_que'[t] \in Merged(private_op_que[t], deferred[t])
          /\ \A u \in Runners : u # t => private_op_que'[u] = private_op_que[u]
      BY <1>0, <2>1 DEF Types
    <3>2. /\ Own(t) \in Keys /\ Back(t) \in Keys /\ Own(t) # Back(t)
          /\ List(Own(t))' \in Merged(List(Own(t)), List(Back(t))) /\ List(Back(t))' = <<>>
      BY <1>3, <2>1, <3>1, KeysApart, ListsAre
    <3>3. \A m \in Keys : m # Own(t) /\ m # Back(t) => List(m)' = List(m)
      BY <1>3, <2>1, <3>1, KeysApart, ListsAre
    <3>4. /\ Listed'
          /\ \A x \in Ops \cup Sets :
                /\ In(x, List(Own(t))') <=> In(x, List(Own(t))) \/ In(x, List(Back(t)))
                /\ On(x)' = IF Back(t) \in On(x) THEN {Own(t)} ELSE On(x)
      <4> HIDE DEF List, Own, Back, Keys, On, Listed
      <4> QED
        BY <1>0, <3>2, <3>3, ListsMerge
    <3>5. \A s \in Sets, r \in Runners : In(s, private_op_que'[r]) => In(s, private_op_que[r])
      <4> TAKE s \in Sets, r \in Runners
      <4>1. CASE r = t
        BY <1>4, <3>4, <4>1, ListsAre
      <4>2. CASE r # t
        BY <3>1, <4>2
      <4> QED
        BY <4>1, <4>2
    <3>6. SetsInOrder'
      <4>1. \A s \in Sets : \A i \in At(Task, op_que'), k \in At(s, op_que') : k < i
        BY <1>0, <2>1 DEF SetsInOrder
      <4>2. \A s \in Sets : In(s, op_que') => In(s, op_que)
        BY <2>1
      <4> HIDE DEF In, At, Pollers
      <4> QED
        BY <1>0, <1>2, <3>5, <4>1, <4>2, SetsFollow
    <3>7. \E k \in Keys : \A o \in Ops : On(o)' = IF Back(t) \in On(o) THEN {k} ELSE On(o)
      BY <3>2, <3>4
    <3> QED
      BY <3>4, <3>6, <3>7
  <2>2. CASE op_que' \in Merged(op_que, deferred[t]) /\ private_op_que' = private_op_que
    <3>1. /\ Shared \in Keys /\ Back(t) \in Keys /\ Shared # Back(t)
          /\ List(Shared)' \in Merged(List(Shared), List(Back(t))) /\ List(Back(t))' = <<>>
      BY <1>3, <2>2, KeysApart, ListsAre
    <3>2. \A m \in Keys : m # Shared /\ m # Back(t) => List(m)' = List(m)
      BY <1>3, <2>2, KeysApart, ListsAre
    <3>3. /\ Listed'
          /\ \A x \in Ops \cup Sets :
                /\ In(x, List(Shared)') <=> In(x, List(Shared)) \/ In(x, List(Back(t)))
                /\ On(x)' = IF Back(t) \in On(x) THEN {Shared} ELSE On(x)
      <4> HIDE DEF List, Shared, Back, Keys, On, Listed
      <4> QED
        BY <1>0, <3>1, <3>2, ListsMerge
    <3>4. \A s \in Sets : In(s, op_que') => In(s, op_que)
      BY <1>4, <3>3, ListsAre
    <3>5. \A s \in Sets : \A i \in At(Task, op_que'), k \in At(s, op_que') : k < i
      <4>1. deferred[t] \in Seq(Ops \cup Sets)
        BY <1>3
      <4> QED
        BY <1>0, <1>4, <2>2, <4>1, MergedInOrder
    <3>6. SetsInOrder'
      <4>1. \A s \in Sets, r \in Runners : In(s, private_op_que'[r]) => In(s, private_op_que[r])
        BY <2>2
      <4> HIDE DEF In, At, Pollers
      <4> QED
        BY <1>0, <1>2, <3>4, <3>5, <4>1, SetsFollow
    <3>7. \E k \in Keys : \A o \in Ops : On(o)' = IF Back(t) \in On(o) THEN {k} ELSE On(o)
      BY <3>1, <3>3
    <3> QED
      BY <3>3, <3>6, <3>7
  <2>3. t \in in_run => t \in Runners
    BY <1>0 DEF Registers
  <2> QED
    BY <2>1, <2>2, <2>3 DEF Deferred, queueVars
<1>6. Queued'
  BY <1>1, <1>5, MergedAsQueued DEF Core, Lives
<1>7. Made'
  BY <1>1, <1>2, MadeFollows DEF Core, Lives, Making
<1>8. Waits'
  BY <1>0, <1>1, <1>2, WaitsFollows DEF Core, Lives, Types
<1>9. Runs'
  BY <1>1, ApiRuns DEF Core, Lives
<1>10. Deferring'
  BY <1>2, <1>3, DeferringFollows DEF Core, Lives
<1> QED
  BY <1>5, <1>6, <1>7, <1>8, <1>9, <1>10 DEF Core, Lives

LEMMA PostsKeepPlaces ==
    ASSUME TypesInv, Core, NEW t \in Threads,
           PostDeferred(t) \/ (t \in Runners /\ PerformIoDefer(t))
    PROVE  Core'
<1>1. CASE PostDeferred(t)
  <2>1. Deferred(t, "defer", Home(t)) /\ Home(t) \in {"out", "handler"}
    BY <1>1, HomeIsPlace DEF PostDeferred
  <2>2. ApiMove(t, Home(t))
    BY <2>1 DEF ApiMove, Deferred, ApiPc
  <2> QED
    BY <2>1, <2>2, DeferredKeepsPlaces
<1>2. CASE PerformIoDefer(t)
  <2>1. Deferred(t, "set_defer", "handler")
    BY <1>2 DEF PerformIoDefer
  <2>2. ApiMove(t, "handler")
    BY <2>1 DEF ApiMove, Deferred
  <2> QED
    BY <2>1, <2>2, DeferredKeepsPlaces
<1> QED
  BY <1>1, <1>2

-----------------------------------------------------------------------------
(* An operation comes to a runner, and leaves it when its handler returns. *)

(* The runner has something new to run, or nothing: the operations that    *)
(* run are those of the others and its own.                                *)
LEMMA RunsChange ==
    ASSUME Runs, NEW r \in Runners, pc \in [Threads -> Pc], NEW to, Goto(r, to),
           in_run' = in_run,
           \A u \in Runners : u # r => cur'[u] = cur[u],
           to # "clean" => (cur'[r] \in Ops <=> to = "handler" \/ to = "set_defer"),
           to \notin ApiPc,
           to # "clean" /\ cur'[r] \in Ops =>
              /\ status'[cur'[r]] = "running" /\ status[cur'[r]] # "running",
           \A o \in Ops : (to = "clean" \/ o # cur'[r]) =>
              /\ status[o] = "running" => status'[o] = "running" \/ (Owns(r) /\ cur[r] = o)
              /\ status'[o] = "running" => status[o] = "running" /\ ~(Owns(r) /\ cur[r] = o)
    PROVE  Runs'
<1>0. pc'[r] = to /\ (\A u \in Threads : u # r => pc'[u] = pc[u]) /\ Runners \subseteq Threads
  BY ThreadMoves, NamesAreApart
<1>1. \A u \in Runners : u # r =>
         /\ Active(u)' <=> Active(u)
         /\ Owns(u)' <=> Owns(u)
         /\ cur'[u] = cur[u]
  BY <1>0 DEF Active, Owns
<1>2. /\ Active(r)' <=> to = "handler" \/ to = "set_defer"
      /\ Owns(r)' <=> to # "clean" /\ cur'[r] \in Ops
  BY <1>0 DEF Active, Owns
<1>3. \A u \in Runners : pc'[u] # "clean" => (cur'[u] \in Ops <=> Active(u)')
  <2> TAKE u \in Runners
  <2>1. CASE u = r
    BY <1>0, <1>2, <2>1
  <2>2. CASE u # r
    <3>1. pc'[u] = pc[u]
      BY <1>0, <2>2
    <3>2. pc[u] # "clean" => (cur[u] \in Ops <=> Active(u))
      BY DEF Runs
    <3> QED
      BY <1>1, <2>2, <3>1, <3>2
  <2> QED
    BY <2>1, <2>2
<1>4. ASSUME NEW u \in Runners, u # r, Owns(u)'
      PROVE  /\ Owns(u) /\ cur[u] \in Ops /\ status[cur[u]] = "running"
             /\ ~(Owns(r) /\ cur[r] = cur[u])
             /\ status'[cur'[u]] = "running"
             /\ to # "clean" => cur'[r] # cur'[u] \/ ~Owns(r)'
  <2>1. Owns(u) /\ cur'[u] = cur[u] /\ cur[u] \in Ops
    BY <1>1, <1>4 DEF Owns
  <2>2. status[cur[u]] = "running" /\ ~(Owns(r) /\ cur[r] = cur[u])
    BY <1>4, <2>1 DEF Runs
  <2>3. to # "clean" => cur'[r] # cur'[u] \/ ~Owns(r)'
    BY <1>2, <2>1, <2>2
  <2>4. to = "clean" \/ cur[u] # cur'[r]
    BY <1>2, <2>1, <2>2
  <2> QED
    BY <2>1, <2>2, <2>3, <2>4
<1>5. \A u \in Runners : Owns(u)' => status'[cur'[u]] = "running"
  BY <1>2, <1>4
<1>6. \A u, v \in Runners : Owns(u)' /\ Owns(v)' /\ cur'[u] = cur'[v] => u = v
  <2> SUFFICES ASSUME NEW u \in Runners, NEW v \in Runners, Owns(u)', Owns(v)',
                      cur'[u] = cur'[v], u # v
               PROVE  FALSE
    OBVIOUS
  <2>1. CASE u = r
    BY <1>2, <1>4, <2>1
  <2>2. CASE v = r
    BY <1>2, <1>4, <2>2
  <2>3. CASE u # r /\ v # r
    BY <1>1, <2>3 DEF Runs
  <2> QED
    BY <2>1, <2>2, <2>3
<1>7. ASSUME NEW o \in Ops, status'[o] = "running"
      PROVE  \E u \in Runners : Owns(u)' /\ cur'[u] = o
  <2>1. CASE to # "clean" /\ o = cur'[r]
    BY <1>2, <2>1
  <2>2. CASE to = "clean" \/ o # cur'[r]
    <3>1. status[o] = "running" /\ ~(Owns(r) /\ cur[r] = o)
      BY <1>7, <2>2
    <3>2. PICK u \in Runners : Owns(u) /\ cur[u] = o
      BY <3>1 DEF Runs
    <3>3. u # r
      BY <3>1, <3>2
    <3> QED
      BY <1>1, <3>2, <3>3
  <2> QED
    BY <2>1, <2>2
<1> QED
  BY <1>3, <1>5, <1>6, <1>7 DEF Runs

LEMMA ReturnKeepsPlaces ==
    ASSUME TypesInv, Core, NEW r \in Runners, Return(r) PROVE Core'
<1>0. Types /\ Registers /\ r \in Threads
  BY Known
<1>1. /\ pc[r] = "handler" /\ Goto(r, "clean")
      /\ status' = [status EXCEPT ![cur[r]] = "done"]
      /\ arg' = arg /\ waiting' = waiting /\ set_mutex' = set_mutex /\ cur' = cur
      /\ in_run' = in_run
      /\ op_que' = op_que /\ private_op_que' = private_op_que /\ deferred' = deferred
  BY DEF Return, queueVars, runnerVars, reactorVars, callVars
<1>2. cur[r] \in Ops /\ Owns(r) /\ status[cur[r]] = "running"
  <2>1. Active(r)
    BY <1>1 DEF Active
  <2>2. cur[r] \in Ops
    BY <1>1, <2>1 DEF Core, Lives, Runs
  <2>3. Owns(r)
    BY <1>1, <2>2 DEF Owns
  <2> QED
    BY <2>2, <2>3 DEF Core, Lives, Runs
<1>3. status'[cur[r]] = "done" /\ \A o \in Ops : o # cur[r] => status'[o] = status[o]
  BY <1>0, <1>1, <1>2 DEF Registers
<1>4. pc'[r] = "clean" /\ \A u \in Threads : u # r => pc'[u] = pc[u]
  BY <1>0, <1>1, ThreadMoves DEF Types
<1>5. Listed' /\ \A x : On(x)' = On(x)
  BY <1>1, ListsStay DEF Core
<1>6. /\ Pollers' = Pollers
      /\ \A u \in Runners : pc[u] = "polled" => pc'[u] = "polled"
  BY <1>1, <1>4, NamesAreApart DEF Pollers
<1>7. SetsInOrder'
  BY <1>1, <1>6, SetsStay DEF Core
<1>8. Queued'
  BY <1>2, <1>3, <1>5, QueuedFollows DEF Core, Lives
<1>9. Made'
  <2>1. \A u \in Threads : pc[u] \in Making =>
           arg[u] \in Ops /\ status[arg[u]] \in {"starting", "posting"}
    BY DEF Core, Lives, Made, Stage
  <2>2. \A u \in Threads : pc[u] \in Making => status'[arg[u]] = status[arg[u]]
    BY <1>2, <1>3, <2>1
  <2> QED
    BY <1>0, <1>1, <1>4, <2>2, MadeFollows DEF Core, Lives, Making
<1>10. Waits'
  BY <1>0, <1>1, <1>2, <1>3, <1>4, WaitsFollows DEF Core, Lives, Types
<1>11. Runs'
  <2>1. \A o \in Ops :
           /\ status[o] = "running" => status'[o] = "running" \/ (Owns(r) /\ cur[r] = o)
           /\ status'[o] = "running" => status[o] = "running" /\ ~(Owns(r) /\ cur[r] = o)
    BY <1>2, <1>3
  <2>2. \A u \in Runners : u # r => cur'[u] = cur[u]
    BY <1>1
  <2>3. "clean" \notin ApiPc
    BY DEF ApiPc
  <2> QED
    BY <1>0, <1>1, <2>1, <2>2, <2>3, RunsChange DEF Core, Lives, Types
<1>12. Deferring'
  <2>1. deferred[r] = <<>>
    BY <1>0, <1>1 DEF Core, Lives, Deferring
  <2> QED
    BY <1>0, <1>1, <1>4, <2>1, DeferringFollows DEF Core, Lives
<1> QED
  BY <1>5, <1>7, <1>8, <1>9, <1>10, <1>11, <1>12 DEF Core, Lives

(* do_run_one takes the front of the queue.                                *)
LEMMA TakeOpKeepsPlaces ==
    ASSUME TypesInv, Core, NEW r \in Runners, TakeOp(r) PROVE Core'
<1>0. Types /\ Registers /\ r \in Threads /\ op_que \in Seq(Elements) /\ Listed /\ SetsInOrder
  BY Known DEF Types, Core
<1>1. PICK x : x = Head(op_que)
  OBVIOUS
<1>2. /\ pc[r] = "top" /\ op_que # <<>> /\ x # Task
      /\ op_que' = Tail(op_que) /\ cur' = [cur EXCEPT ![r] = x]
      /\ IF x \in Ops
         THEN status' = [status EXCEPT ![x] = "running"] /\ Goto(r, "handler")
         ELSE status' = status /\ Goto(r, "set")
      /\ arg' = arg /\ waiting' = waiting /\ set_mutex' = set_mutex
      /\ in_run' = in_run
      /\ private_op_que' = private_op_que /\ deferred' = deferred
  BY <1>1 DEF TakeOp, TaskIsNext, reactorVars, callVars
<1>3. x \in Ops \cup Sets /\ (x \in Sets => x \notin Ops)
  BY <1>0, <1>1, <1>2, NamesAreApart DEF Elements
<1>4. /\ Listed'
      /\ \A y \in Ops \cup Sets : y # x => On(y)' = On(y) /\ (In(y, op_que') <=> In(y, op_que))
      /\ On(x)' = {} /\ On(x) # {} /\ ~In(x, op_que')
  BY <1>0, <1>1, <1>2, <1>3, HeadTaken
<1>5. PICK to \in {"handler", "set"} :
         /\ Goto(r, to) /\ (to = "handler" <=> x \in Ops)
         /\ pc'[r] = to /\ \A u \in Threads : u # r => pc'[u] = pc[u]
  <2>1. \E to \in {"handler", "set"} : Goto(r, to) /\ (to = "handler" <=> x \in Ops)
    BY <1>2
  <2> QED
    BY <1>0, <2>1, ThreadMoves DEF Types
<1>6. /\ x \in Ops => status[x] = "queued" /\ status'[x] = "running"
      /\ \A o \in Ops : o # x => status'[o] = status[o]
  BY <1>0, <1>2, <1>4 DEF Registers, Core, Lives, Queued
<1>7. cur'[r] = x /\ \A u \in Runners : u # r => cur'[u] = cur[u]
  BY <1>0, <1>2 DEF Types
<1>8. SetsInOrder'
  <2>1. \A s \in Sets : \A i \in At(Task, op_que'), k \in At(s, op_que') : k < i
    BY <1>0, <1>2, HeadTakenInOrder
  <2>2. \A s \in Sets : In(s, op_que') => In(s, op_que)
    BY <1>4
  <2>3. /\ Pollers' = Pollers
        /\ \A u \in Runners : pc[u] = "polled" => pc'[u] = "polled"
    BY <1>2, <1>5, NamesAreApart DEF Pollers
  <2>4. \A s \in Sets, u \in Runners : In(s, private_op_que'[u]) => In(s, private_op_que[u])
    BY <1>2
  <2> HIDE DEF In, At, Pollers
  <2> QED
    BY <1>0, <2>1, <2>2, <2>3, <2>4, SetsFollow
<1>9. Queued'
  <2> SUFFICES ASSUME NEW o \in Ops PROVE status'[o] = "queued" <=> On(o)' # {}
    BY DEF Queued
  <2>1. CASE o = x
    BY <1>4, <1>6, <2>1
  <2>2. CASE o # x
    <3>1. status'[o] = status[o] /\ On(o)' = On(o)
      BY <1>4, <1>6, <2>2
    <3> QED
      BY <3>1 DEF Core, Lives, Queued
  <2> QED
    BY <2>1, <2>2
<1>10. Made'
  <2>1. \A u \in Threads : pc[u] \in Making =>
           arg[u] \in Ops /\ status[arg[u]] \in {"starting", "posting"}
    BY DEF Core, Lives, Made, Stage
  <2>2. \A u \in Threads : pc[u] \in Making => status'[arg[u]] = status[arg[u]]
    BY <1>6, <2>1
  <2> QED
    BY <1>0, <1>2, <1>5, <2>2, MadeFollows DEF Core, Lives, Making
<1>11. Waits'
  BY <1>0, <1>2, <1>5, <1>6, WaitsFollows DEF Core, Lives, Types
<1>12. Runs'
  <2>1. ~Owns(r)
    BY <1>2 DEF Core, Lives, Runs, Owns, Active, ApiPc
  <2>2. \A o \in Ops : o # x =>
           /\ status[o] = "running" => status'[o] = "running" \/ (Owns(r) /\ cur[r] = o)
           /\ status'[o] = "running" => status[o] = "running" /\ ~(Owns(r) /\ cur[r] = o)
    BY <1>6, <2>1
  <2>3. to \notin ApiPc /\ to # "clean" /\ to # "set_defer"
    BY <1>5 DEF ApiPc
  <2> QED
    BY <1>0, <1>2, <1>5, <1>6, <1>7, <2>2, <2>3, RunsChange DEF Core, Lives, Types
<1>13. Deferring'
  <2>1. deferred[r] = <<>>
    BY <1>0, <1>2 DEF Core, Lives, Deferring
  <2> QED
    BY <1>0, <1>2, <1>5, <2>1, DeferringFollows DEF Core, Lives
<1> QED
  BY <1>4, <1>8, <1>9, <1>10, <1>11, <1>12, <1>13 DEF Core, Lives

(* perform_io: some of the operations that wait are done.  The first is    *)
(* the thread's own, the rest it has yet to post.                          *)
LEMMA PerformIoKeepsPlaces ==
    ASSUME TypesInv, Core, NEW r \in Runners, PerformIo(r) PROVE Core'
<1>0. /\ Types /\ Registers /\ Stages /\ r \in Threads /\ Listed /\ SetsInOrder
      /\ None \notin Threads
  BY Known, TaskIoAssumption DEF Core
<1>1. PICK s : s = cur[r]
  OBVIOUS
<1>2. /\ pc[r] = "set" /\ set_mutex[s] = None /\ arg' = arg /\ set_mutex' = set_mutex
      /\ in_run' = in_run /\ op_que' = op_que /\ private_op_que' = private_op_que
      /\ \E done \in SUBSET waiting[s] :
            /\ waiting' = [waiting EXCEPT ![s] = @ \ done]
            /\ \E q \in Orders(done) :
                 IF q = <<>>
                 THEN /\ Goto(r, "none_load")
                      /\ UNCHANGED <<cur, deferred, status>>
                 ELSE /\ cur' = [cur EXCEPT ![r] = Head(q)]
                      /\ deferred' = [deferred EXCEPT ![r] = Tail(q)]
                      /\ status' = [o \in Ops |->
                            IF o = Head(q) THEN "running"
                            ELSE IF o \in done THEN "queued" ELSE status[o]]
                      /\ Goto(r, IF Tail(q) = <<>> THEN "handler" ELSE "set_defer")
  BY <1>1 DEF PerformIo, queueVars
<1>3. PICK done \in SUBSET waiting[s] :
        /\ waiting' = [waiting EXCEPT ![s] = @ \ done]
        /\ \E q \in Orders(done) :
             IF q = <<>>
             THEN /\ Goto(r, "none_load")
                  /\ UNCHANGED <<cur, deferred, status>>
             ELSE /\ cur' = [cur EXCEPT ![r] = Head(q)]
                  /\ deferred' = [deferred EXCEPT ![r] = Tail(q)]
                  /\ status' = [o \in Ops |->
                        IF o = Head(q) THEN "running"
                        ELSE IF o \in done THEN "queued" ELSE status[o]]
                  /\ Goto(r, IF Tail(q) = <<>> THEN "handler" ELSE "set_defer")
  BY <1>2
<1>4. PICK q \in Orders(done) :
         IF q = <<>>
         THEN /\ Goto(r, "none_load")
              /\ UNCHANGED <<cur, deferred, status>>
         ELSE /\ cur' = [cur EXCEPT ![r] = Head(q)]
              /\ deferred' = [deferred EXCEPT ![r] = Tail(q)]
              /\ status' = [o \in Ops |->
                    IF o = Head(q) THEN "running"
                    ELSE IF o \in done THEN "queued" ELSE status[o]]
              /\ Goto(r, IF Tail(q) = <<>> THEN "handler" ELSE "set_defer")
  BY <1>3
<1>5. s \in Sets /\ s \notin Ops /\ waiting[s] \subseteq Ops /\ done \subseteq Ops /\ IsFiniteSet(done)
  <2>1. s \in Sets /\ waiting[s] \subseteq Ops
    BY <1>0, <1>1, <1>2 DEF Stages, Types
  <2> QED
    BY <2>1, NamesAreApart, FS_Subset
<1>6. \A o \in done : o \in waiting[s] /\ status[o] = "waiting" /\ On(o) = {}
  <2>1. \A o \in waiting[s] : status[o] = "waiting"
    BY <1>0, <1>2, <1>5 DEF Core, Lives, Waits
  <2> QED
    BY <1>5, <2>1 DEF Core, Lives, Queued
<1>7. /\ waiting'[s] = waiting[s] \ done /\ \A z \in Sets : z # s => waiting'[z] = waiting[z]
      /\ waiting \in [Sets -> SUBSET Ops]
  BY <1>0, <1>3, <1>5 DEF Types
<1>8. ~Owns(r) /\ deferred[r] = <<>>
  <2>1. ~Owns(r)
    BY <1>1, <1>2, <1>5 DEF Owns
  <2> QED
    BY <1>0, <1>2, <2>1 DEF Core, Lives, Deferring
<1>9. q \in Seq(Ops) /\ \A x : AtMostOne(x, q) /\ (In(x, q) <=> x \in done)
  <2>1. q \in Seq(done) /\ \A x : AtMostOne(x, q) /\ (In(x, q) <=> x \in done)
    BY <1>5, OrderLists
  <2> QED
    BY <1>5, <2>1
<1>10. PICK to \in {"none_load", "handler", "set_defer"} :
         /\ Goto(r, to)
         /\ to = "none_load" <=> q = <<>>
         /\ to = "handler" => Tail(q) = <<>>
  BY <1>4
<1>11. pc'[r] = to /\ \A u \in Threads : u # r => pc'[u] = pc[u]
  BY <1>0, <1>10, ThreadMoves DEF Types
<1>12. SetsInOrder'
  <2>1. /\ Pollers' = Pollers
        /\ \A u \in Runners : pc[u] = "polled" => pc'[u] = "polled"
    BY <1>2, <1>11, NamesAreApart DEF Pollers
  <2> QED
    BY <1>0, <1>2, <2>1, SetsStay
<1>13. ASSUME \A o \in done : status'[o] \in {"running", "queued"},
              \A o \in Ops : o \notin done => status'[o] = status[o]
       PROVE  Made' /\ Waits'
  <2>1. \A u \in Threads : pc[u] \in Making =>
           arg[u] \in Ops /\ status[arg[u]] \in {"starting", "posting"}
    BY DEF Core, Lives, Made, Stage
  <2>2. \A u \in Threads : pc[u] \in Making => status'[arg[u]] = status[arg[u]]
    BY <1>6, <1>13, <2>1
  <2>3. Made'
    BY <1>0, <1>2, <1>11, <2>2, MadeFollows DEF Core, Lives, Making
  <2>4. Waits'
    <3>1. \A o \in done : status'[o] \notin {"waiting", "starting"}
      BY <1>13
    <3>2. /\ pc[r] # "start_store" /\ Waits /\ set_mutex' = set_mutex /\ arg' = arg
          /\ s \in Sets /\ done \subseteq waiting[s] /\ waiting'[s] = waiting[s] \ done
      BY <1>2, <1>5, <1>7 DEF Core, Lives
    <3>3. \A o \in Ops : o \notin done => status'[o] = status[o]
      BY <1>13
    <3> QED
      BY <1>0, <1>7, <1>11, <3>1, <3>2, <3>3, WaitsTaken
  <2> QED
    BY <2>3, <2>4
<1>14. to \notin ApiPc /\ to # "clean" /\ \A u \in Runners : u # r => cur'[u] = cur[u]
  BY <1>0, <1>4 DEF ApiPc, Types
<1>15. CASE q = <<>>
  <2>1. done = {} /\ cur' = cur /\ deferred' = deferred /\ status' = status /\ to = "none_load"
    BY <1>4, <1>9, <1>10, <1>15, EmptyList
  <2>2. Listed' /\ \A x : On(x)' = On(x)
    BY <1>0, <1>2, <2>1, ListsStay
  <2>3. Queued'
    BY <2>1, <2>2, QueuedFollows DEF Core, Lives
  <2>4. Made' /\ Waits'
    BY <1>13, <2>1
  <2>5. Runs'
    BY <1>0, <1>1, <1>2, <1>5, <1>8, <1>10, <1>14, <2>1, RunsChange DEF Core, Lives, Types
  <2>6. Deferring'
    BY <1>0, <1>8, <1>11, <2>1, DeferringFollows DEF Core, Lives
  <2> QED
    BY <1>12, <2>2, <2>3, <2>4, <2>5, <2>6 DEF Core, Lives
<1>16. CASE q # <<>>
  <2>1. PICK h : h = Head(q)
    OBVIOUS
  <2>2. /\ cur' = [cur EXCEPT ![r] = h] /\ deferred' = [deferred EXCEPT ![r] = Tail(q)]
        /\ status' = [o \in Ops |-> IF o = h THEN "running"
                                    ELSE IF o \in done THEN "queued" ELSE status[o]]
        /\ to \in {"handler", "set_defer"}
    BY <1>4, <1>10, <1>16, <2>1
  <2>3. /\ h \in Ops /\ h \in done /\ Tail(q) \in Seq(Ops)
        /\ \A x : AtMostOne(x, Tail(q)) /\ (In(x, Tail(q)) <=> x \in done /\ x # h)
    <3>1. ASSUME NEW x
          PROVE  AtMostOne(x, Tail(q)) /\ (In(x, Tail(q)) <=> x \in done /\ x # h)
      <4>1. /\ h = x => At(x, Tail(q)) = {} /\ At(x, q) # {}
            /\ h # x => AtMostOne(x, Tail(q)) /\ (At(x, Tail(q)) = {} <=> At(x, q) = {})
        BY <1>9, <1>16, <2>1, TailKeeps
      <4>2. At(x, Tail(q)) = {} => AtMostOne(x, Tail(q))
        BY DEF AtMostOne
      <4> QED
        BY <1>9, <4>1, <4>2 DEF In
    <3>2. h \in Ops /\ Tail(q) \in Seq(Ops) /\ (At(h, q) # {})
      BY <1>9, <1>16, <2>1, TailKeeps
    <3> QED
      BY <1>9, <3>1, <3>2 DEF In
  <2>4. /\ deferred'[r] = Tail(q) /\ \A u \in Threads : u # r => deferred'[u] = deferred[u]
        /\ cur'[r] = h
    BY <1>0, <2>2 DEF Types
  <2>5. /\ Listed'
        /\ \A x \in Ops \cup Sets : On(x)' = IF x \in done /\ x # h THEN {Back(r)} ELSE On(x)
    <3>1. \A m \in Keys : m # Back(r) => List(m)' = List(m)
      BY <1>0, <1>2, <2>4, OnlyBack
    <3>2. /\ \A x \in Ops \cup Sets : AtMostOne(x, List(Back(r))')
          /\ \A x \in Ops \cup Sets : In(x, List(Back(r))') <=> x \in done /\ x # h
      BY <2>3, <2>4, ListsAre
    <3>3. \A x \in Ops \cup Sets : Back(r) \notin On(x)
      BY <1>8, ListsAre, EmptyList DEF On
    <3>4. Back(r) \in Keys
      BY <1>0, KeysApart
    <3> HIDE DEF Back, List, In, On, Keys, Listed
    <3>5. \A x \in Ops \cup Sets : In(x, List(Back(r))') => On(x) \subseteq {Back(r)}
      BY <1>6, <3>2
    <3>6. /\ Listed'
          /\ \A x \in Ops \cup Sets :
                On(x)' = IF In(x, List(Back(r))') THEN {Back(r)} ELSE On(x) \ {Back(r)}
      BY <1>0, <3>1, <3>2, <3>4, <3>5, OneListChanges
    <3> QED
      BY <3>2, <3>3, <3>6
  <2>6. Queued'
    <3> SUFFICES ASSUME NEW o \in Ops PROVE status'[o] = "queued" <=> On(o)' # {}
      BY DEF Queued
    <3>1. CASE o \in done /\ o # h
      BY <2>2, <2>5, <3>1
    <3>2. CASE o = h
      BY <1>6, <2>2, <2>3, <2>5, <3>2
    <3>3. CASE o \notin done
      BY <2>2, <2>3, <2>5, <3>3 DEF Core, Lives, Queued
    <3> QED
      BY <3>1, <3>2, <3>3
  <2>7. Made' /\ Waits'
    BY <1>5, <1>13, <2>2, <2>3
  <2>8. Runs'
    <3>1. status'[h] = "running" /\ status[h] # "running"
      BY <1>6, <2>2, <2>3
    <3>2. \A o \in Ops : o # h => (status'[o] = "running" <=> status[o] = "running")
      BY <1>6, <2>2
    <3> QED
      BY <1>0, <1>2, <1>8, <1>10, <1>14, <2>2, <2>3, <2>4, <3>1, <3>2, RunsChange
      DEF Core, Lives, Types
  <2>9. Deferring'
    BY <1>0, <1>10, <1>11, <2>2, <2>4, DeferringFollows DEF Core, Lives
  <2> QED
    BY <1>12, <2>5, <2>6, <2>7, <2>8, <2>9 DEF Core, Lives
<1> QED
  BY <1>15, <1>16

-----------------------------------------------------------------------------
(* The other steps, and the end.                                           *)

LEMMA NobodyMovesPlaces ==
    ASSUME TypesInv, PlacesInv, pc' = pc, private_op_que' = private_op_que, deferred' = deferred,
           \/ op_que' = op_que \/ (op_que' = Append(op_que, Task) /\ Pollers = {} /\ ~In(Task, op_que) /\ ~shutdown),
           shutdown' = shutdown, status' = status, arg' = arg, waiting' = waiting,
           set_mutex' = set_mutex, cur' = cur, in_run' = in_run
    PROVE  /\ Listed' /\ SetsInOrder'
           /\ (shutdown => Over)' /\ (~shutdown => Lives)'
<1>0. Types /\ op_que \in Seq(Elements) /\ Listed /\ SetsInOrder
  BY Known DEF Types, PlacesInv
<1>1. CASE op_que' = op_que
  <2>1. Listed' /\ \A x : On(x)' = On(x)
    BY <1>0, <1>1, ListsStay
  <2>2. SetsInOrder'
    BY <1>0, <1>1, SetsStay DEF Pollers
  <2>3. (shutdown => Over)'
    BY <1>1 DEF PlacesInv, Over
  <2>4. Lives => Lives'
    BY <2>1 DEF Lives, Queued, Made, Waits, Runs, Owns, Active, Deferring
  <2> QED
    BY <2>1, <2>2, <2>3, <2>4 DEF PlacesInv
<1>2. CASE /\ op_que' = Append(op_que, Task) /\ Pollers = {} /\ ~In(Task, op_que)
           /\ ~shutdown
  <2>1. \A x \in Ops \cup Sets : At(x, op_que') = At(x, op_que)
    BY <1>0, <1>2, AppendKeeps, NamesAreApart, Task \in Elements DEF Elements
  <2>2. \A m \in Keys : m # Shared => List(m)' = List(m)
    BY OnlyShared
  <2>3. ASSUME NEW x \in Ops \cup Sets, NEW k \in Keys
        PROVE  AtMostOne(x, List(k)') /\ (In(x, List(k)') <=> In(x, List(k)))
    <3>1. AtMostOne(x, List(k))
      BY <1>0 DEF Listed
    <3>2. CASE k = Shared
      BY <2>1, <3>1, <3>2, ListsAre DEF In, AtMostOne
    <3>3. CASE k # Shared
      BY <2>2, <3>1, <3>3
    <3> QED
      BY <3>2, <3>3
  <2>4. \A x \in Ops \cup Sets : On(x)' = On(x)
    BY <2>3 DEF On
  <2>5. Listed'
    BY <1>0, <2>3, <2>4 DEF Listed
  <2>6. SetsInOrder'
    <3>1. At(Task, op_que') = {Len(op_que) + 1}
      BY <1>0, <1>2, AppendKeeps, Task \in Elements DEF Elements, In
    <3>2. \A s : \A k \in At(s, op_que) : k < Len(op_que) + 1
      BY <1>0 DEF At
    <3>3. \A s \in Sets : \A i \in At(Task, op_que'), k \in At(s, op_que') : k < i
      BY <2>1, <3>1, <3>2
    <3>4. \A s \in Sets : In(s, op_que') => In(s, op_que)
      BY <2>1 DEF In
    <3>5. Pollers' = Pollers
      BY DEF Pollers
    <3> QED
      BY <1>0, <3>3, <3>4, <3>5, SetsFollow
  <2>7. Lives => Lives'
    BY <2>4 DEF Lives, Queued, Made, Waits, Runs, Owns, Active, Deferring
  <2> QED
    BY <1>2, <2>5, <2>6, <2>7 DEF PlacesInv
<1> QED
  BY <1>1, <1>2

LEMMA StandingPlaces ==
    ASSUME PlacesInv,
           \/ \E t \in Threads : Stop(t) \/ Reset(t) \/ InitTask(t)
           \/ \E s \in Sets : Event(s)
           \/ UNCHANGED vars
    PROVE  /\ Listed' /\ SetsInOrder'
           /\ (shutdown => Over)' /\ (~shutdown => Lives)'
<1> USE DEF queueVars, lifeVars, workVars, runnerVars, reactorVars, callVars
<1>0. TypesInv /\ Types /\ TaskIsPlaced
  BY Known DEF PlacesInv
<1>1. /\ pc' = pc /\ private_op_que' = private_op_que /\ deferred' = deferred
      /\ shutdown' = shutdown /\ status' = status /\ arg' = arg /\ waiting' = waiting
      /\ set_mutex' = set_mutex /\ cur' = cur /\ in_run' = in_run
      /\ \/ op_que' = op_que
         \/ op_que' = Append(op_que, Task) /\ ~poller /\ ~shutdown
  <2>1. ASSUME NEW t \in Threads, Stop(t) \/ Reset(t) \/ InitTask(t) PROVE <1>1!:
    BY <2>1, Zenon DEF Stop, StopAll, Reset, InitTask, Calls
  <2>2. ASSUME NEW s \in Sets, Event(s) PROVE <1>1!:
    BY <2>2, Zenon DEF Event
  <2>3. ASSUME UNCHANGED vars PROVE <1>1!:
    BY <2>3, Zenon DEF vars
  <2> QED
    BY <2>1, <2>2, <2>3
<1>2. ~poller => Pollers = {} /\ ~In(Task, op_que)
  BY <1>0, TasksAreAt DEF TaskIsPlaced, In
<1> QED
  BY <1>0, <1>1, <1>2, NobodyMovesPlaces

(* shutdown_service empties the shared queue, with nobody in the service.  *)
LEMMA ShutdownPlaces ==
    ASSUME PlacesInv, ShutdownService
    PROVE  Listed' /\ SetsInOrder' /\ shutdown' /\ Over'
<1>0. Types /\ Listed /\ SetsInOrder
  BY Known DEF PlacesInv
<1>1. /\ \A t \in Threads : pc[t] = "out"
      /\ shutdown' = TRUE /\ op_que' = <<>> /\ pc' = pc
      /\ private_op_que' = private_op_que /\ deferred' = deferred
  BY Zenon DEF ShutdownService, runnerVars, callVars
<1>2. Listed'
  <2>1. \A x \in Ops \cup Sets : AtMostOne(x, List(Shared)') /\ ~In(x, List(Shared)')
    BY <1>1, ListsAre, EmptyList
  <2>2. \A m \in Keys : m # Shared => List(m)' = List(m)
    BY <1>1, OnlyShared
  <2>3. Shared \in Keys
    BY KeysApart
  <2> HIDE DEF List, Shared, In, On, Keys, Listed
  <2> QED
    BY <1>0, <2>1, <2>2, <2>3, OneListChanges
<1>3. SetsInOrder'
  <2>1. Pollers' = Pollers
    BY <1>1 DEF Pollers
  <2>2. \A s \in Sets : \A i \in At(Task, op_que'), k \in At(s, op_que') : k < i
    BY <1>1, EmptyList
  <2>3. \A s \in Sets : In(s, op_que') => In(s, op_que)
    BY <1>1, EmptyList
  <2> QED
    BY <1>0, <1>1, <2>1, <2>2, <2>3, SetsFollow
<1>4. Over'
  BY <1>1 DEF Over
<1> QED
  BY <1>1, <1>2, <1>3, <1>4

(* From then on there is nobody to call.                                   *)
LEMMA NobodyCalls ==
    ASSUME shutdown, Over, [Next]_vars
    PROVE  ShutdownService \/ (\E s \in Sets : Event(s)) \/ UNCHANGED vars
<1>0. \A t \in Threads : pc[t] = "out"
  BY DEF Over
<1>1. ASSUME NEW t \in Threads, Call(t) PROVE FALSE
  BY <1>1, Zenon
  DEF Call, PostPrivate, PostLoad, StartLoad, CancelOps, Stop, Reset, InitTask, Calls
<1>2. ASSUME NEW t \in Threads, Continue(t) PROVE FALSE
  BY <1>0, <1>2 DEF Continue, PostStore, PostPush, StartStore, PostDeferred, Deferred
<1>3. ASSUME NEW r \in Runners, Run(r) PROVE FALSE
  BY <1>3, Zenon DEF Run
<1>4. ASSUME NEW r \in Runners, RunStep(r) PROVE FALSE
  <2>1. pc[r] = "out"
    BY <1>0, NamesAreApart
  <2>2. CASE \/ RunNoWork(r) \/ Leave(r) \/ GoIdle(r) \/ WakeUp(r) \/ TakeTask(r)
             \/ TakeOp(r) \/ Poll(r) \/ PollTimeout(r) \/ TaskCleanup(r)
    BY <2>1, <2>2
    DEF RunNoWork, StopFrom, Leave, GoIdle, WakeUp, TakeTask, TakeOp, Poll, PollTimeout,
        TaskCleanup
  <2>3. CASE \/ PerformIo(r) \/ PerformIoDefer(r) \/ NoneLoad(r) \/ NoneStore(r)
             \/ Return(r) \/ WorkCleanup(r) \/ CleanStore(r) \/ FinishStore(r)
             \/ FinishStop(r) \/ MergePrivate(r)
    BY <2>1, <2>3
    DEF PerformIo, PerformIoDefer, Deferred, NoneLoad, NoneStore, Return, WorkCleanup,
        CleanStore, FinishStore, FinishStop, StopFrom, MergePrivate
  <2> QED
    BY <1>4, <2>2, <2>3 DEF RunStep
<1> QED
  BY <1>1, <1>2, <1>3, <1>4 DEF Next

(* A service stays what it is; only shutdown_service shuts it down.        *)
LEMMA LifeStays ==
    ASSUME [Next]_vars PROVE service' = service /\ (ShutdownService \/ shutdown' = shutdown)
<1> USE DEF queueVars, lifeVars, workVars, runnerVars, reactorVars, callVars
<1>1. ASSUME NEW t \in Threads, Call(t) PROVE service' = service /\ shutdown' = shutdown
  BY <1>1, Zenon
  DEF Call, PostPrivate, PostLoad, StartLoad, CancelOps, Stop, Reset, InitTask
<1>2. ASSUME NEW t \in Threads, Continue(t) PROVE service' = service /\ shutdown' = shutdown
  BY <1>2, Zenon DEF Continue, PostStore, PostPush, StartStore, PostDeferred, Deferred
<1>3. ASSUME NEW r \in Runners, Run(r) \/ RunStep(r) PROVE service' = service /\ shutdown' = shutdown
  <2>1. CASE \/ Run(r) \/ RunNoWork(r) \/ Leave(r) \/ GoIdle(r) \/ WakeUp(r) \/ TakeTask(r)
             \/ TakeOp(r) \/ Poll(r) \/ PollTimeout(r) \/ TaskCleanup(r)
    BY <2>1, Zenon
    DEF Run, RunNoWork, StopFrom, Leave, GoIdle, WakeUp, TakeTask, TakeOp, Poll, PollTimeout,
        TaskCleanup
  <2>2. CASE \/ PerformIo(r) \/ PerformIoDefer(r) \/ NoneLoad(r) \/ NoneStore(r)
             \/ Return(r) \/ WorkCleanup(r) \/ CleanStore(r) \/ FinishStore(r)
             \/ FinishStop(r) \/ MergePrivate(r)
    BY <2>2, Zenon
    DEF PerformIo, PerformIoDefer, Deferred, NoneLoad, NoneStore, Return, WorkCleanup,
        CleanStore, FinishStore, FinishStop, StopFrom, MergePrivate
  <2> QED
    BY <1>3, <2>1, <2>2 DEF RunStep
<1>4. ASSUME NEW s \in Sets, Event(s) PROVE service' = service /\ shutdown' = shutdown
  BY <1>4, Zenon DEF Event
<1>5. ASSUME UNCHANGED vars PROVE service' = service /\ shutdown' = shutdown
  BY <1>5, Zenon DEF vars
<1>6. ASSUME ShutdownService PROVE service' = service
  BY <1>6, Zenon DEF ShutdownService
<1> QED
  BY <1>1, <1>2, <1>3, <1>4, <1>5, <1>6, Zenon DEF Next

LEMMA TypesSteps == ASSUME TypesInv, [Next]_vars PROVE TypesInv'
<1>1. WakeInv'
  BY WakeSteps DEF TypesInv
<1>2. Switches'
  BY SwitchSteps DEF TypesInv
<1>3. Registers' /\ CleanHasWork'
  BY Known, RegisterSteps DEF TypesInv
<1> QED
  BY <1>1, <1>2, <1>3, Zenon DEF TypesInv

LEMMA CoreSteps ==
    ASSUME TypesInv, Core, [Next]_vars
    PROVE  \/ Core'
           \/ ShutdownService
           \/ \E t \in Threads : Stop(t) \/ Reset(t) \/ InitTask(t)
           \/ \E s \in Sets : Event(s)
           \/ UNCHANGED vars
<1>1. ASSUME NEW t \in Threads, Call(t), ~(Stop(t) \/ Reset(t) \/ InitTask(t)) PROVE Core'
  <2>1. ASSUME NEW o \in service.ops, PostPrivate(t, o) \/ PostLoad(t, o) PROVE Core'
    BY <2>1, PostPrivateKeepsPlaces, PostLoadKeepsPlaces
  <2>2. ASSUME NEW s \in Sets, NEW o \in service.ops, StartLoad(t, s, o) PROVE Core'
    BY <2>2, StartLoadKeepsPlaces
  <2>3. ASSUME NEW s \in Sets, CancelOps(t, s) PROVE Core'
    BY <2>3, CancelOpsKeepsPlaces
  <2> QED
    BY <1>1, <2>1, <2>2, <2>3 DEF Call
<1>2. ASSUME NEW t \in Threads, Continue(t) PROVE Core'
  <2>1. CASE PostStore(t) \/ PostPush(t)
    BY <2>1, PostStoreKeepsPlaces, PostPushKeepsPlaces
  <2>2. CASE StartStore(t) \/ PostDeferred(t)
    BY <2>2, StartStoreKeepsPlaces, PostsKeepPlaces
  <2> QED
    BY <1>2, <2>1, <2>2 DEF Continue
<1>3. ASSUME NEW r \in Runners, Run(r) \/ RunStep(r) PROVE Core'
  <2>0. r \in Threads
    BY NamesAreApart
  <2>1. CASE \/ Run(r) \/ RunNoWork(r) \/ Leave(r) \/ GoIdle(r) \/ WakeUp(r) \/ PollTimeout(r)
             \/ NoneLoad(r) \/ NoneStore(r) \/ WorkCleanup(r) \/ CleanStore(r)
             \/ FinishStore(r) \/ FinishStop(r)
    BY <2>1, QuietRuns
  <2>2. CASE TakeTask(r) \/ TakeOp(r) \/ Poll(r) \/ TaskCleanup(r)
    BY <2>2, TakeTaskKeepsPlaces, TakeOpKeepsPlaces, PollKeepsPlaces, TaskCleanupKeepsPlaces
  <2>3. CASE PerformIo(r) \/ Return(r) \/ MergePrivate(r)
    BY <2>3, PerformIoKeepsPlaces, ReturnKeepsPlaces, MergePrivateKeepsPlaces
  <2>4. CASE PerformIoDefer(r)
    BY <2>0, <2>4, PostsKeepPlaces
  <2> QED
    BY <1>3, <2>1, <2>2, <2>3, <2>4 DEF RunStep
<1> QED
  BY <1>1, <1>2, <1>3 DEF Next

LEMMA PlacesSteps == ASSUME PlacesInv, [Next]_vars PROVE PlacesInv'
<1>1. TypesInv /\ TypesInv'
  BY TypesSteps DEF PlacesInv
<1> SUFFICES Listed' /\ SetsInOrder' /\ (shutdown => Over)' /\ (~shutdown => Lives)'
  BY <1>1 DEF PlacesInv
<1>2. ASSUME \/ \E t \in Threads : Stop(t) \/ Reset(t) \/ InitTask(t)
             \/ \E s \in Sets : Event(s)
             \/ UNCHANGED vars
      PROVE  Listed' /\ SetsInOrder' /\ (shutdown => Over)' /\ (~shutdown => Lives)'
  BY <1>2, StandingPlaces
<1>3. ASSUME ShutdownService
      PROVE  Listed' /\ SetsInOrder' /\ (shutdown => Over)' /\ (~shutdown => Lives)'
  BY <1>3, ShutdownPlaces
<1>4. CASE shutdown
  <2>1. Over
    BY <1>4 DEF PlacesInv
  <2> QED
    BY <1>2, <1>3, <1>4, <2>1, NobodyCalls
<1>5. CASE ~shutdown
  <2>1. Core
    BY <1>5 DEF PlacesInv, Core
  <2>2. ASSUME Core', ~ShutdownService
        PROVE  Listed' /\ SetsInOrder' /\ (shutdown => Over)' /\ (~shutdown => Lives)'
    <3>1. ~shutdown'
      BY <1>5, <2>2, LifeStays
    <3> QED
      BY <2>2, <3>1 DEF Core
  <2> QED
    BY <1>1, <1>2, <1>3, <2>1, <2>2, CoreSteps
<1> QED
  BY <1>4, <1>5

LEMMA PlacesStart == Init => PlacesInv
<1> SUFFICES ASSUME Init PROVE PlacesInv
  OBVIOUS
<1>1. /\ op_que = <<>> /\ shutdown = FALSE /\ mutex = None /\ outstanding_work = 0
      /\ lost_work = 0
      /\ task_interrupted = TRUE /\ stopped = FALSE /\ poller = FALSE
      /\ pc = [t \in Threads |-> "out"] /\ in_run = {}
      /\ reg = [t \in Threads |-> 0] /\ arg = [t \in Threads |-> None]
      /\ deferred = [t \in Threads |-> <<>>]
      /\ block = [r \in Runners |-> FALSE]
      /\ private_op_que = [r \in Runners |-> <<>>]
      /\ private_work = [r \in Runners |-> 0] /\ cur = [r \in Runners |-> None]
      /\ waiting = [s \in Sets |-> {}] /\ set_mutex = [s \in Sets |-> None]
      /\ status = [o \in Ops |-> "new"]
  BY Zenon DEF Init
<1>2. TypesInv
  <2>1. Switches
    BY <1>1, Zenon DEF Switches
  <2>2. Registers
    BY <1>1 DEF Registers, Status
  <2>3. CleanHasWork
    BY <1>1, NamesAreApart DEF CleanHasWork
  <2> QED
    BY <2>1, <2>2, <2>3, WakeStarts DEF TypesInv
<1>3. \A k \in Keys : List(k) = <<>>
  BY <1>1, KeysApart, ListsAre
<1>4. \A x : On(x) = {}
  BY <1>3, EmptyList DEF On
<1>5. Listed
  BY <1>3, <1>4, EmptyList DEF Listed
<1>6. SetsInOrder
  BY <1>1, EmptyList DEF SetsInOrder
<1>7. Lives
  <2>1. \A t \in Threads : pc[t] = "out" /\ deferred[t] = <<>>
    BY <1>1
  <2>2. Queued /\ Made /\ Waits /\ Deferring
    BY <1>1, <1>4, <2>1 DEF Queued, Made, Making, Waits, Deferring
  <2>3. Runs
    <3>1. \A r \in Runners : cur[r] = None /\ pc[r] = "out" /\ None \notin Ops
      BY <1>1, NamesAreApart
    <3> QED
      BY <1>1, <3>1 DEF Runs, Owns, Active, ApiPc
  <2> QED
    BY <2>2, <2>3 DEF Lives
<1> QED
  BY <1>1, <1>2, <1>5, <1>6, <1>7 DEF PlacesInv

-----------------------------------------------------------------------------
(* What the invariant says of the queues.                                  *)

LEMMA NoElementTwice ==
    ASSUME PlacesInv
    PROVE  /\ \A i, k \in DOMAIN op_que : op_que[i] = op_que[k] => i = k
           /\ \A r \in Runners : \A i, k \in DOMAIN private_op_que[r] :
                 private_op_que[r][i] = private_op_que[r][k] => i = k
<1>0. Types /\ TaskIsPlaced /\ Listed
  BY Known DEF PlacesInv
<1>1. ASSUME NEW i \in DOMAIN op_que, NEW k \in DOMAIN op_que, op_que[i] = op_que[k]
      PROVE  i = k
  <2>1. op_que \in Seq(Elements)
    BY <1>0 DEF Types
  <2>2. op_que[i] \in Ops \cup Sets \/ op_que[i] = Task
    BY <2>1 DEF Elements
  <2>3. AtMostOne(op_que[i], op_que)
    <3>1. CASE op_que[i] = Task
      BY <1>0, <3>1, AtMostOneTask
    <3>2. CASE op_que[i] \in Ops \cup Sets
      BY <1>0, <3>2, KeysApart, ListsAre DEF Listed
    <3> QED
      BY <2>2, <3>1, <3>2
  <2>4. i \in At(op_que[i], op_que) /\ k \in At(op_que[i], op_que)
    BY <1>1, <2>1 DEF At
  <2> QED
    BY <2>3, <2>4 DEF AtMostOne
<1>2. ASSUME NEW r \in Runners, NEW i \in DOMAIN private_op_que[r],
             NEW k \in DOMAIN private_op_que[r], private_op_que[r][i] = private_op_que[r][k]
      PROVE  i = k
  <2>1. private_op_que[r] \in Seq(Ops \cup Sets)
    BY <1>0 DEF Types
  <2>2. private_op_que[r][i] \in Ops \cup Sets
    BY <2>1
  <2>3. AtMostOne(private_op_que[r][i], private_op_que[r])
    BY <1>0, <2>2, KeysApart, ListsAre DEF Listed
  <2>4. /\ i \in At(private_op_que[r][i], private_op_que[r])
        /\ k \in At(private_op_que[r][i], private_op_que[r])
    BY <1>2, <2>1 DEF At
  <2> QED
    BY <2>3, <2>4 DEF AtMostOne
<1> QED
  BY <1>1, <1>2

LEMMA SoundQueues == PlacesInv => QueuesAreSound
<1> SUFFICES ASSUME PlacesInv PROVE QueuesAreSound
  OBVIOUS
<1>0. Types /\ TaskIsPlaced /\ SetsInOrder /\ TypesInv
  BY Known DEF PlacesInv
<1>1. TypeOK
  <2>1. /\ task_interrupted \in BOOLEAN /\ stopped \in BOOLEAN /\ poller \in BOOLEAN
        /\ shutdown \in BOOLEAN /\ block \in [Runners -> BOOLEAN]
    BY <1>0, Zenon DEF TypesInv, Switches
  <2>2. idle \in Seq(Runners) /\ signalled \in [Runners -> BOOLEAN]
    BY <1>0, Zenon DEF TypesInv, WakeInv, IdleAreAsleep
  <2>3. /\ mutex \in Runners \cup {None} /\ outstanding_work \in Int /\ lost_work \in Int
        /\ in_run \in SUBSET Runners /\ reg \in [Threads -> Int]
        /\ private_work \in [Runners -> Nat] /\ set_mutex \in [Sets -> Threads \cup {None}]
        /\ status \in [Ops -> Status]
    BY <1>0, Zenon DEF TypesInv, Registers
  <2> QED
    BY <1>0, <2>1, <2>2, <2>3, Zenon DEF TypeOK, Types
<1>2. OneTask
  BY <1>0, Zenon DEF TaskIsPlaced
<1>3. SetQueuedOnce
  <2>1. \A i \in TaskPlaces : \A k \in DOMAIN op_que : op_que[k] \in Sets => k < i
    <3> SUFFICES ASSUME NEW i \in TaskPlaces, NEW k \in DOMAIN op_que, op_que[k] \in Sets
                 PROVE  k < i
      OBVIOUS
    <3>1. i \in At(Task, op_que) /\ k \in At(op_que[k], op_que)
      BY <1>0, TasksAreAt DEF At, Types
    <3> QED
      BY <1>0, <3>1 DEF SetsInOrder
  <2>2. Pollers # {} => RangeOf(op_que) \cap Sets = {}
    <3> SUFFICES ASSUME Pollers # {}, NEW k \in DOMAIN op_que, op_que[k] \in Sets PROVE FALSE
      BY DEF RangeOf
    <3>1. k \in At(op_que[k], op_que)
      BY <1>0 DEF At, Types
    <3> QED
      BY <1>0, <3>1 DEF SetsInOrder, In
  <2> QED
    BY <2>1, <2>2, NoElementTwice, Zenon DEF SetQueuedOnce
<1> QED
  BY <1>1, <1>2, <1>3, Zenon DEF QueuesAreSound

(* The queues of a thread, as OpInOnePlace reads them.                     *)
LEMMA QueueOfHas ==
    ASSUME Types, Listed, NEW o \in Ops, NEW t \in Threads
    PROVE  /\ QueueOf(t) \in Seq(Elements)
           /\ AtMostOne(o, QueueOf(t))
           /\ In(o, QueueOf(t)) <=> Back(t) \in On(o) \/ (t \in Runners /\ Own(t) \in On(o))
<1>1. /\ deferred[t] \in Seq(Elements) /\ AtMostOne(o, deferred[t])
      /\ In(o, deferred[t]) <=> Back(t) \in On(o)
  <2>1. Back(t) \in Keys /\ List(Back(t)) = deferred[t] /\ List(Back(t)) \in Seq(Elements)
    BY KeysApart, ListsAre, ListTypes
  <2> QED
    BY <2>1 DEF On, Listed
<1>2. CASE t \in Runners
  <2>1. /\ private_op_que[t] \in Seq(Elements) /\ AtMostOne(o, private_op_que[t])
        /\ In(o, private_op_que[t]) <=> Own(t) \in On(o)
    <3>1. /\ Own(t) \in Keys /\ List(Own(t)) = private_op_que[t]
          /\ List(Own(t)) \in Seq(Elements)
      BY <1>2, KeysApart, ListsAre, ListTypes
    <3> QED
      BY <3>1 DEF On, Listed
  <2>2. Own(t) # Back(t) /\ \A k, l \in On(o) : k = l
    BY <1>2, KeysApart DEF Listed
  <2>3. ~(In(o, private_op_que[t]) /\ In(o, deferred[t]))
    BY <1>1, <2>1, <2>2
  <2>4. QueueOf(t) = private_op_que[t] \o deferred[t]
    BY <1>2 DEF QueueOf
  <2>5. private_op_que[t] \o deferred[t] \in Seq(Elements)
    BY <1>1, <2>1
  <2>6. /\ AtMostOne(o, private_op_que[t] \o deferred[t])
        /\ In(o, private_op_que[t] \o deferred[t])
              <=> In(o, private_op_que[t]) \/ In(o, deferred[t])
    BY <1>1, <2>1, <2>3, JoinedHas
  <2> QED
    BY <1>1, <1>2, <2>1, <2>4, <2>5, <2>6
<1>3. CASE t \notin Runners
  BY <1>1, <1>3 DEF QueueOf
<1> QED
  BY <1>2, <1>3

LEMMA AtMostOneElement ==
    ASSUME NEW S, \A x, y \in S : x = y
    PROVE  Cardinality(S) = IF S = {} THEN 0 ELSE 1
<1>1. CASE S = {}
  BY <1>1, FS_EmptySet
<1>2. CASE S # {}
  <2>1. PICK x \in S : TRUE
    BY <1>2
  <2>2. S = {x}
    BY <2>1
  <2> QED
    BY <1>2, <2>2, FS_Singleton
<1> QED
  BY <1>1, <1>2

LEMMA OnePlaceEach == PlacesInv => OpInOnePlace
<1> SUFFICES ASSUME PlacesInv, NEW o \in Ops, ~shutdown
             PROVE  LET places == {<<None, i>> : i \in {i \in DOMAIN op_que : op_que[i] = o}}
                                  \cup UNION {{<<t, i>> : i \in {i \in DOMAIN QueueOf(t) : QueueOf(t)[i] = o}} :
                                              t \in Threads}
                        sets == {s \in Sets : o \in waiting[s]}
                        owners == {r \in Runners : cur[r] = o /\ pc[r] # "clean"}
                    IN /\ Cardinality(places) = IF status[o] = "queued" THEN 1 ELSE 0
                       /\ Cardinality(sets) = IF status[o] \in {"starting", "waiting"} THEN 1 ELSE 0
                       /\ status[o] = "running" => Cardinality(owners) = 1
  BY Zenon DEF OpInOnePlace
<1> DEFINE places == {<<None, i>> : i \in {i \in DOMAIN op_que : op_que[i] = o}}
                     \cup UNION {{<<t, i>> : i \in {i \in DOMAIN QueueOf(t) : QueueOf(t)[i] = o}} :
                                 t \in Threads}
           sets == {s \in Sets : o \in waiting[s]}
           owners == {r \in Runners : cur[r] = o /\ pc[r] # "clean"}
<1>0. Types /\ Listed /\ Lives /\ None \notin Threads
  BY Known, TaskIoAssumption DEF PlacesInv
<1>1. /\ Shared \in On(o) <=> In(o, op_que)
      /\ AtMostOne(o, op_que)
      /\ \A k, l \in On(o) : k = l
      /\ op_que \in Seq(Elements)
  BY <1>0, KeysApart, ListsAre DEF On, Listed, Types
<1>2. ASSUME NEW x, NEW i
      PROVE  <<x, i>> \in places <=> \/ x = None /\ i \in At(o, op_que)
                                     \/ x \in Threads /\ i \in At(o, QueueOf(x))
  <2>1. {j \in DOMAIN op_que : op_que[j] = o} = At(o, op_que)
    BY <1>1 DEF At
  <2>2. \A t \in Threads : {j \in DOMAIN QueueOf(t) : QueueOf(t)[j] = o} = At(o, QueueOf(t))
    BY <1>0, QueueOfHas DEF At
  <2> QED
    BY <2>1, <2>2
<1>3. \A p \in places : \E x, i : p = <<x, i>>
  OBVIOUS
<1> HIDE DEF places
<1>4. ASSUME NEW p \in places
      PROVE  \E x, i : /\ p = <<x, i>>
                       /\ \/ x = None /\ i \in At(o, op_que) /\ Shared \in On(o)
                          \/ /\ x \in Threads /\ i \in At(o, QueueOf(x))
                             /\ Back(x) \in On(o) \/ (x \in Runners /\ Own(x) \in On(o))
  <2>1. PICK x, i : p = <<x, i>>
    BY <1>3
  <2>2. CASE x = None /\ i \in At(o, op_que)
    BY <1>1, <2>1, <2>2 DEF In
  <2>3. CASE x \in Threads /\ i \in At(o, QueueOf(x))
    <3>1. In(o, QueueOf(x))
      BY <2>3 DEF In
    <3> QED
      BY <1>0, <2>1, <2>3, <3>1, QueueOfHas
  <2> QED
    BY <1>2, <2>1, <2>2, <2>3
<1>5. \A p, q \in places : p = q
  <2> SUFFICES ASSUME NEW p \in places, NEW q \in places PROVE p = q
    OBVIOUS
  <2>1. PICK x, i : /\ p = <<x, i>>
                    /\ \/ x = None /\ i \in At(o, op_que) /\ Shared \in On(o)
                       \/ /\ x \in Threads /\ i \in At(o, QueueOf(x))
                          /\ Back(x) \in On(o) \/ (x \in Runners /\ Own(x) \in On(o))
    BY <1>4
  <2>2. PICK y, j : /\ q = <<y, j>>
                    /\ \/ y = None /\ j \in At(o, op_que) /\ Shared \in On(o)
                       \/ /\ y \in Threads /\ j \in At(o, QueueOf(y))
                          /\ Back(y) \in On(o) \/ (y \in Runners /\ Own(y) \in On(o))
    BY <1>4
  <2>3. x = y
    <3> HIDE DEF On, Shared, Own, Back
    <3> QED
      BY <1>0, <1>1, <2>1, <2>2, KeysApart
  <2>4. i = j
    <3>1. CASE x = None
      BY <1>0, <1>1, <2>1, <2>2, <2>3, <3>1 DEF AtMostOne
    <3>2. CASE x \in Threads
      BY <1>0, <2>1, <2>2, <2>3, <3>2, QueueOfHas DEF AtMostOne
    <3> QED
      BY <2>1, <3>1, <3>2
  <2> QED
    BY <2>1, <2>2, <2>3, <2>4
<1>6. places # {} <=> status[o] = "queued"
  <2>1. On(o) # {} <=> status[o] = "queued"
    BY <1>0 DEF Lives, Queued
  <2>2. places # {} => On(o) # {}
    BY <1>4
  <2>3. ASSUME NEW k \in On(o) PROVE places # {}
    <3>0. k \in Keys
      BY DEF On
    <3>1. CASE k = Shared
      <4>1. PICK i : i \in At(o, op_que)
        BY <1>1, <3>1 DEF In
      <4>2. <<None, i>> \in places
        BY <1>2, <4>1
      <4> QED
        BY <4>2
    <3>2. ASSUME NEW t \in Threads, k = Back(t) \/ (t \in Runners /\ k = Own(t))
          PROVE  places # {}
      <4>1. In(o, QueueOf(t))
        BY <1>0, <3>2, QueueOfHas
      <4>2. PICK i : i \in At(o, QueueOf(t))
        BY <4>1 DEF In
      <4>3. <<t, i>> \in places
        BY <1>2, <4>2
      <4> QED
        BY <4>3
    <3> QED
      BY <3>0, <3>1, <3>2, KeysApart, NamesAreApart
  <2> QED
    BY <2>1, <2>2, <2>3
<1>7. /\ \A s, z \in sets : s = z
      /\ sets # {} <=> status[o] \in {"starting", "waiting"}
  <2>1. \A s, z \in sets : s = z
    BY <1>0 DEF Lives, Waits
  <2>2. sets # {} => status[o] \in {"starting", "waiting"}
    BY <1>0 DEF Lives, Waits
  <2>3. status[o] \in {"starting", "waiting"} => sets # {}
    BY <1>0 DEF Lives, Waits
  <2> QED
    BY <2>1, <2>2, <2>3
<1>8. /\ \A r, u \in owners : r = u
      /\ status[o] = "running" => owners # {}
  BY <1>0 DEF Lives, Runs, Owns
<1> HIDE DEF sets, owners
<1>9. Cardinality(places) = IF status[o] = "queued" THEN 1 ELSE 0
  BY <1>5, <1>6, AtMostOneElement
<1>10. Cardinality(sets) = IF status[o] \in {"starting", "waiting"} THEN 1 ELSE 0
  BY <1>7, AtMostOneElement
<1>11. status[o] = "running" => Cardinality(owners) = 1
  BY <1>8, AtMostOneElement
<1> QED
  BY <1>9, <1>10, <1>11 DEF places, sets, owners

(* What do_run_one (task_io_service.hpp) expects of the queues holds       *)
(* however polls, posts, cancels and merges interleave: the reactor task   *)
(* is in one place, nothing is linked twice on a list, and an op_set is    *)
(* ahead of the task, so no poll reports one that is still queued.         *)
THEOREM QueuesStaySound == Spec => []QueuesAreSound
<1>1. PlacesInv /\ [Next]_vars => PlacesInv'
  BY PlacesSteps
<1> QED
  BY <1>1, PlacesStart, SoundQueues, PTL DEF Spec

(* No operation is lost or called twice on its way through the scheduler   *)
(* (post_immediate_completion, post_deferred_completions, start_op,        *)
(* perform_io, do_run_one): a queued one is on one queue, once; a waiting  *)
(* one on one op_set; a running one in the hands of one thread.            *)
THEOREM OneOpOnePlace == Spec => []OpInOnePlace
<1>1. PlacesInv /\ [Next]_vars => PlacesInv'
  BY PlacesSteps
<1> QED
  BY <1>1, PlacesStart, OnePlaceEach, PTL DEF Spec

-----------------------------------------------------------------------------
(* The counter of work.                                                    *)

Counted == {"waiting", "queued", "running"}

(* Where a thread owes a unit.                                             *)
Debt == {"post_push", "clean", "clean_store", "finish_store"}

(* Where a runner may hold units it has started privately.                 *)
MayKeep(r) ==
    \/ pc[r] \in {"handler", "clean", "clean_store"}
    \/ pc[r] \in {"start_store", "defer"} /\ r \in in_run

Keeps(r) ==
    private_work[r] # 0 => service.one_thread /\ r \in service.threads /\ MayKeep(r)

PrivateInv ==
    /\ \A t \in Threads : t \notin service.threads => pc[t] = "out"
    /\ \A r \in Runners : Keeps(r)

Balance ==
    /\ IsFiniteSet(Owing) /\ IsFiniteSet(Kept)
    /\ outstanding_work + lost_work + Cardinality(Kept)
          = Cardinality(Outstanding) + Cardinality(Owing)

WorkInv == PrivateInv /\ (~shutdown => Balance)

-----------------------------------------------------------------------------
(* How the three sets change.                                              *)

LEMMA OutstandingIsFinite == IsFiniteSet(Outstanding) /\ Cardinality(Outstanding) \in Nat
<1>1. Outstanding \subseteq Ops /\ IsFiniteSet(Ops)
  BY NamesAreApart DEF Outstanding
<1> QED
  BY <1>1, FS_Subset, FS_CardinalityType

LEMMA SameOutstanding ==
    ASSUME \A o \in Ops : status'[o] \in Counted <=> status[o] \in Counted
    PROVE  Outstanding' = Outstanding
BY DEF Outstanding, Counted

LEMMA OneMoreOutstanding ==
    ASSUME status \in [Ops -> Status], NEW o \in Ops, NEW v \in Counted,
           status[o] \notin Counted, status' = [status EXCEPT ![o] = v]
    PROVE  Cardinality(Outstanding') = Cardinality(Outstanding) + 1
<1>1. Outstanding' = Outstanding \cup {o} /\ o \notin Outstanding
  BY DEF Outstanding, Counted
<1> QED
  BY <1>1, OutstandingIsFinite, FS_AddElement

LEMMA OneLessOutstanding ==
    ASSUME status \in [Ops -> Status], NEW o \in Ops, NEW v, v \notin Counted,
           status[o] \in Counted, status' = [status EXCEPT ![o] = v]
    PROVE  Cardinality(Outstanding') = Cardinality(Outstanding) - 1
<1>1. Outstanding' = Outstanding \ {o} /\ o \in Outstanding
  BY DEF Outstanding, Counted
<1> QED
  BY <1>1, OutstandingIsFinite, FS_RemoveElement

(* A thread moves and owes as before, owes one unit more, or settles it.   *)
LEMMA SameOwing ==
    ASSUME Types, NEW t \in Threads, NEW to, Goto(t, to), pc[t] \in Debt <=> to \in Debt
    PROVE  Owing' = Owing
BY ThreadMoves DEF Owing, Debt, Types

LEMMA OneMoreOwes ==
    ASSUME Types, NEW t \in Threads, NEW to \in Debt, Goto(t, to), pc[t] \notin Debt,
           IsFiniteSet(Owing)
    PROVE  IsFiniteSet(Owing') /\ Cardinality(Owing') = Cardinality(Owing) + 1
<1>1. Owing' = Owing \cup {t} /\ t \notin Owing
  BY ThreadMoves DEF Owing, Debt, Types
<1> QED
  BY <1>1, FS_AddElement

LEMMA OneLessOwes ==
    ASSUME Types, NEW t \in Threads, NEW to, to \notin Debt, Goto(t, to), pc[t] \in Debt,
           IsFiniteSet(Owing)
    PROVE  IsFiniteSet(Owing') /\ Cardinality(Owing') = Cardinality(Owing) - 1
<1>1. Owing' = Owing \ {t} /\ t \in Owing
  BY ThreadMoves DEF Owing, Debt, Types
<1> QED
  BY <1>1, FS_RemoveElement

LEMMA KeptUnits ==
    ASSUME NEW x
    PROVE  x \in Kept <=> \E r \in Runners : \E n \in 1..private_work[r] : x = <<r, n>>
BY DEF Kept

LEMMA OneMoreKept ==
    ASSUME Registers, NEW r \in Runners, private_work' = [private_work EXCEPT ![r] = @ + 1],
           IsFiniteSet(Kept)
    PROVE  IsFiniteSet(Kept') /\ Cardinality(Kept') = Cardinality(Kept) + 1
<1> DEFINE n == private_work[r] + 1
<1>1. /\ n \in Nat /\ 1..private_work'[r] = (1..private_work[r]) \cup {n}
      /\ n \notin 1..private_work[r]
      /\ \A u \in Runners : u # r => private_work'[u] = private_work[u]
  BY DEF Registers
<1>2. <<r, n>> \notin Kept
  BY <1>1 DEF Kept
<1>3. Kept' = Kept \cup {<<r, n>>}
  <2>1. ASSUME NEW x \in Kept PROVE x \in Kept'
    <3>1. PICK u \in Runners : x \in {u} \X (1..private_work[u])
      BY DEF Kept
    <3>2. x \in {u} \X (1..private_work'[u])
      BY <1>1, <3>1
    <3> QED
      BY <3>2 DEF Kept
  <2>2. <<r, n>> \in Kept'
    BY <1>1 DEF Kept
  <2>3. ASSUME NEW x \in Kept', x # <<r, n>> PROVE x \in Kept
    <3>1. PICK u \in Runners : x \in {u} \X (1..private_work'[u])
      BY DEF Kept
    <3>2. x \in {u} \X (1..private_work[u])
      BY <1>1, <2>3, <3>1
    <3> QED
      BY <3>2 DEF Kept
  <2> QED
    BY <2>1, <2>2, <2>3
<1> HIDE DEF n
<1> QED
  BY <1>2, <1>3, FS_AddElement

LEMMA OneLessKept ==
    ASSUME Registers, NEW r \in Runners, private_work[r] > 0,
           private_work' = [private_work EXCEPT ![r] = @ - 1], IsFiniteSet(Kept)
    PROVE  IsFiniteSet(Kept') /\ Cardinality(Kept') = Cardinality(Kept) - 1
<1> DEFINE n == private_work[r]
<1>1. /\ n \in Nat /\ n \in 1..private_work[r]
      /\ 1..private_work'[r] = (1..private_work[r]) \ {n}
      /\ \A u \in Runners : u # r => private_work'[u] = private_work[u]
  BY DEF Registers
<1>2. <<r, n>> \in Kept
  BY <1>1 DEF Kept
<1>3. Kept' = Kept \ {<<r, n>>}
  <2>1. ASSUME NEW x \in Kept, x # <<r, n>> PROVE x \in Kept'
    <3>1. PICK u \in Runners : x \in {u} \X (1..private_work[u])
      BY DEF Kept
    <3>2. x \in {u} \X (1..private_work'[u])
      BY <1>1, <2>1, <3>1
    <3> QED
      BY <3>2 DEF Kept
  <2>2. ASSUME NEW x \in Kept' PROVE x \in Kept /\ x # <<r, n>>
    <3>1. PICK u \in Runners : x \in {u} \X (1..private_work'[u])
      BY DEF Kept
    <3>2. x \in {u} \X (1..private_work[u]) /\ x # <<r, n>>
      BY <1>1, <3>1
    <3> QED
      BY <3>2 DEF Kept
  <2> QED
    BY <2>1, <2>2
<1> HIDE DEF n
<1> QED
  BY <1>2, <1>3, FS_RemoveElement

LEMMA SameKept == ASSUME private_work' = private_work PROVE Kept' = Kept
BY DEF Kept

LEMMA Figures ==
    ASSUME Registers, Balance
    PROVE  /\ outstanding_work \in Int /\ lost_work \in Int
           /\ Cardinality(Outstanding) \in Nat /\ Cardinality(Owing) \in Nat
           /\ Cardinality(Kept) \in Nat
BY OutstandingIsFinite, FS_CardinalityType DEF Registers, Balance

-----------------------------------------------------------------------------
(* What each step does to the balance.                                     *)

LEMMA BalanceStays ==
    ASSUME Balance, outstanding_work' = outstanding_work, lost_work' = lost_work,
           Outstanding' = Outstanding, Owing' = Owing, Kept' = Kept
    PROVE  Balance'
BY DEF Balance

(* A step that touches neither the counter nor what is private nor what is *)
(* outstanding, and after which the thread owes what it owed.              *)
Neutral(t) ==
    /\ UNCHANGED <<outstanding_work, lost_work, private_work>>
    /\ Outstanding' = Outstanding
    /\ \E to : Goto(t, to) /\ (pc[t] \in Debt <=> to \in Debt)

LEMMA NeutralBalance ==
    ASSUME TypesInv, Balance, NEW t \in Threads, Neutral(t) PROVE Balance'
<1>1. Owing' = Owing
  BY Known, SameOwing, Zenon DEF Neutral
<1>2. Kept' = Kept
  BY SameKept DEF Neutral
<1> QED
  BY <1>1, <1>2, BalanceStays DEF Neutral

LEMMA MovesAreNeutral ==
    ASSUME NEW r \in Runners,
           \/ Run(r) \/ RunNoWork(r) \/ Leave(r) \/ GoIdle(r) \/ WakeUp(r) \/ TakeTask(r)
           \/ Poll(r) \/ PollTimeout(r) \/ TaskCleanup(r) \/ NoneLoad(r) \/ FinishStop(r)
           \/ MergePrivate(r) \/ PerformIoDefer(r)
    PROVE  Neutral(r)
<1>1. UNCHANGED <<outstanding_work, lost_work, private_work, status>>
  <2>1. CASE Run(r) \/ RunNoWork(r) \/ Leave(r) \/ GoIdle(r) \/ WakeUp(r) \/ TakeTask(r)
    BY <2>1, Zenon DEF Run, RunNoWork, StopFrom, Leave, GoIdle, WakeUp, TakeTask,
                      workVars, runnerVars
  <2>2. CASE Poll(r) \/ PollTimeout(r) \/ TaskCleanup(r) \/ NoneLoad(r)
    BY <2>2, Zenon DEF Poll, PollTimeout, TaskCleanup, NoneLoad, workVars, runnerVars
  <2>3. CASE FinishStop(r) \/ MergePrivate(r) \/ PerformIoDefer(r)
    BY <2>3, Zenon DEF FinishStop, StopFrom, MergePrivate, PerformIoDefer, Deferred,
                      workVars, runnerVars
  <2> QED
    BY <2>1, <2>2, <2>3
<1>2. ASSUME NEW from, NEW to, pc[r] = from, Goto(r, to), from \notin Debt, to \notin Debt
      PROVE  \E goal : Goto(r, goal) /\ (pc[r] \in Debt <=> goal \in Debt)
  BY <1>2
<1>3. \E to : Goto(r, to) /\ (pc[r] \in Debt <=> to \in Debt)
  <2>1. CASE Run(r) \/ RunNoWork(r) \/ Leave(r) \/ GoIdle(r)
    <3>1. /\ pc[r] \in {"out", "stop_out", "top"}
          /\ \E to \in {"out", "stop_out", "top", "wait"} : Goto(r, to)
      BY <2>1 DEF Run, RunNoWork, StopFrom, Leave, GoIdle
    <3> QED
      BY <1>2, <3>1 DEF Debt
  <2>2. CASE WakeUp(r) \/ TakeTask(r) \/ Poll(r) \/ PollTimeout(r)
    <3>1. CASE WakeUp(r) \/ PollTimeout(r)
      BY <1>2, <3>1 DEF WakeUp, PollTimeout, Debt
    <3>2. CASE TakeTask(r)
      <4>1. pc[r] = "top" /\ Goto(r, "poll")
        BY <3>2, Zenon DEF TakeTask
      <4> QED
        BY <1>2, <4>1 DEF Debt
    <3>3. CASE Poll(r)
      <4>1. pc[r] = "poll" /\ Goto(r, "polled")
        BY <3>3, Zenon DEF Poll
      <4> QED
        BY <1>2, <4>1 DEF Debt
    <3> QED
      BY <2>2, <3>1, <3>2, <3>3
  <2>3. CASE TaskCleanup(r) \/ NoneLoad(r)
    <3>1. \/ pc[r] = "polled" /\ Goto(r, "top")
          \/ pc[r] = "none_load" /\ Goto(r, "none_store")
      BY <2>3, Zenon DEF TaskCleanup, NoneLoad
    <3> QED
      BY <1>2, <3>1 DEF Debt
  <2>4. CASE FinishStop(r) \/ MergePrivate(r) \/ PerformIoDefer(r)
    <3>1. \/ pc[r] = "finish_stop" /\ Goto(r, "merge")
          \/ pc[r] = "merge" /\ Goto(r, "top")
          \/ pc[r] = "set_defer" /\ Goto(r, "handler")
      BY <2>4, Zenon DEF FinishStop, StopFrom, MergePrivate, PerformIoDefer, Deferred
    <3> QED
      BY <1>2, <3>1 DEF Debt
  <2> QED
    BY <2>1, <2>2, <2>3, <2>4
<1>4. Outstanding' = Outstanding
  BY <1>1, SameOutstanding
<1> QED
  BY <1>1, <1>3, <1>4, Zenon DEF Neutral

(* Taking an operation, from the queue or from an op_set: it is counted    *)
(* already.                                                                *)
LEMMA TakingIsNeutral ==
    ASSUME TypesInv, Core, NEW r \in Runners, TakeOp(r) \/ PerformIo(r)
    PROVE  Neutral(r)
<1>0. Types /\ Registers /\ r \in Threads
  BY Known
<1>1. UNCHANGED <<outstanding_work, lost_work, private_work>>
  BY Zenon DEF TakeOp, PerformIo, workVars
<1>2. /\ pc[r] \in {"top", "set"}
      /\ Goto(r, "handler") \/ Goto(r, "set") \/ Goto(r, "none_load") \/ Goto(r, "set_defer")
  <2>1. CASE TakeOp(r)
    BY <2>1 DEF TakeOp
  <2>2. CASE PerformIo(r)
    <3>1. PICK done, q :
             IF q = <<>> THEN Goto(r, "none_load")
             ELSE Goto(r, IF Tail(q) = <<>> THEN "handler" ELSE "set_defer")
      BY <2>2, Zenon DEF PerformIo
    <3>2. pc[r] = "set"
      BY <2>2 DEF PerformIo
    <3> QED
      BY <3>1, <3>2
  <2> QED
    BY <2>1, <2>2
<1>3. \E to : Goto(r, to) /\ (pc[r] \in Debt <=> to \in Debt)
  BY <1>2 DEF Debt
<1>4. \A o \in Ops : status'[o] \in Counted <=> status[o] \in Counted
  <2>1. CASE TakeOp(r)
    <3>1. CASE Head(op_que) \in Ops
      <4>1. In(Head(op_que), op_que)
        <5>1. op_que \in Seq(Elements) /\ op_que # <<>>
          BY <1>0, <2>1 DEF TakeOp, Types
        <5>2. Len(op_que) \in Nat \ {0} /\ Head(op_que) = op_que[1]
          BY <5>1
        <5> QED
          BY <5>2 DEF In, At
      <4>2. Shared \in On(Head(op_que))
        BY <4>1, KeysApart, ListsAre DEF On
      <4>3. status[Head(op_que)] = "queued"
        BY <3>1, <4>2 DEF Core, Lives, Queued
      <4>4. status' = [status EXCEPT ![Head(op_que)] = "running"]
        BY <2>1, <3>1 DEF TakeOp
      <4> QED
        BY <1>0, <3>1, <4>3, <4>4 DEF Registers, Counted
    <3>2. CASE Head(op_que) \notin Ops
      BY <2>1, <3>2 DEF TakeOp
    <3> QED
      BY <3>1, <3>2
  <2>2. CASE PerformIo(r)
    <3>1. /\ pc[r] = "set" /\ cur[r] \in Sets /\ set_mutex[cur[r]] = None
      BY <2>2, Known DEF PerformIo, Stages
    <3>2. PICK done \in SUBSET waiting[cur[r]] : \E q \in Orders(done) :
             IF q = <<>> THEN status' = status
             ELSE status' = [o \in Ops |->
                    IF o = Head(q) THEN "running"
                    ELSE IF o \in done THEN "queued" ELSE status[o]]
      BY <2>2, Zenon DEF PerformIo
    <3>3. PICK q \in Orders(done) :
             IF q = <<>> THEN status' = status
             ELSE status' = [o \in Ops |->
                    IF o = Head(q) THEN "running"
                    ELSE IF o \in done THEN "queued" ELSE status[o]]
      BY <3>2
    <3>4. None \notin Threads
      BY TaskIoAssumption
    <3>5. \A o \in done : o \in Ops /\ status[o] = "waiting"
      BY <1>0, <3>1, <3>4 DEF Core, Lives, Waits, Types
    <3>6. q # <<>> => Head(q) \in done
      <4>1. q \in Seq(done)
        BY <1>0, <3>1, NamesAreApart, OrdersAreSeqs, FS_Subset DEF Types
      <4> QED
        BY <4>1
    <3> QED
      BY <3>3, <3>5, <3>6 DEF Counted
  <2> QED
    BY <2>1, <2>2
<1>5. Outstanding' = Outstanding
  BY <1>4, SameOutstanding
<1> QED
  BY <1>1, <1>3, <1>5, Zenon DEF Neutral

(* The calls of the application that leave the count as it is for now.     *)
LEMMA LoadsAreNeutral ==
    ASSUME TypesInv, Core, NEW t \in Threads,
           \/ \E o \in service.ops : PostLoad(t, o)
           \/ \E s \in Sets, o \in service.ops : StartLoad(t, s, o)
           \/ \E s \in Sets : CancelOps(t, s)
           \/ PostDeferred(t)
    PROVE  Neutral(t)
<1>0. Types /\ Registers /\ service.ops \subseteq Ops
  BY Known, NamesAreApart DEF Types
<1>1. CASE \E o \in service.ops : PostLoad(t, o)
  <2>1. PICK o \in Ops :
            /\ UNCHANGED <<outstanding_work, lost_work, private_work>>
            /\ pc[t] = Home(t) /\ Goto(t, "post_store")
            /\ status[o] = "new" /\ status' = [status EXCEPT ![o] = "posting"]
    BY <1>0, <1>1, Zenon DEF PostLoad, Calls, runnerVars
  <2>2. Outstanding' = Outstanding
    BY <1>0, <2>1, SameOutstanding DEF Counted, Registers
  <2> QED
    BY <2>1, <2>2, HomeIsPlace DEF Neutral, Debt
<1>2. CASE \E s \in Sets, o \in service.ops : StartLoad(t, s, o)
  <2>1. PICK o \in Ops :
            /\ UNCHANGED <<outstanding_work, lost_work, private_work>>
            /\ pc[t] = Home(t) /\ Goto(t, "start_store")
            /\ status[o] = "new" /\ status' = [status EXCEPT ![o] = "starting"]
    BY <1>0, <1>2, Zenon DEF StartLoad, Calls, runnerVars
  <2>2. Outstanding' = Outstanding
    BY <1>0, <2>1, SameOutstanding DEF Counted, Registers
  <2> QED
    BY <2>1, <2>2, HomeIsPlace DEF Neutral, Debt
<1>3. CASE \E s \in Sets : CancelOps(t, s)
  <2>1. PICK s \in Sets :
            /\ UNCHANGED <<outstanding_work, lost_work, private_work>>
            /\ pc[t] = Home(t) /\ Goto(t, "defer") /\ set_mutex[s] = None
            /\ status' = [o \in Ops |-> IF o \in waiting[s] THEN "queued" ELSE status[o]]
    BY <1>3, Zenon DEF CancelOps, Calls, runnerVars, workVars
  <2>2. \A o \in waiting[s] : status[o] = "waiting"
    <3>1. None \notin Threads
      BY TaskIoAssumption
    <3> QED
      BY <2>1, <3>1 DEF Core, Lives, Waits
  <2>3. Outstanding' = Outstanding
    BY <2>1, <2>2, SameOutstanding DEF Counted
  <2> QED
    BY <2>1, <2>3, HomeIsPlace DEF Neutral, Debt
<1>4. CASE PostDeferred(t)
  <2>1. /\ UNCHANGED <<outstanding_work, lost_work, private_work, status>>
        /\ pc[t] = "defer" /\ Goto(t, Home(t))
    BY <1>4, Zenon DEF PostDeferred, Deferred, workVars
  <2>2. Outstanding' = Outstanding
    BY <2>1, SameOutstanding
  <2> QED
    BY <2>1, <2>2, HomeIsPlace DEF Neutral, Debt
<1> QED
  BY <1>1, <1>2, <1>3, <1>4

(* A handler posts: one operation more, and one private unit for it.       *)
LEMMA PostPrivateBalance ==
    ASSUME TypesInv, Balance, NEW t \in Threads, NEW o \in service.ops, PostPrivate(t, o)
    PROVE  Balance'
<1>0. Types /\ Registers /\ Runners \subseteq Threads /\ o \in Ops
  BY Known, NamesAreApart DEF Types
<1>1. /\ UNCHANGED <<outstanding_work, lost_work, pc>> /\ t \in Runners
      /\ private_work' = [private_work EXCEPT ![t] = @ + 1]
      /\ status[o] = "new" /\ status' = [status EXCEPT ![o] = "queued"]
  BY <1>0, Zenon DEF PostPrivate, workVars, Registers
<1>2. Cardinality(Outstanding') = Cardinality(Outstanding) + 1
  BY <1>0, <1>1, OneMoreOutstanding DEF Counted, Registers
<1>3. IsFiniteSet(Kept') /\ Cardinality(Kept') = Cardinality(Kept) + 1
  BY <1>0, <1>1, OneMoreKept DEF Balance
<1>4. Owing' = Owing
  BY <1>1 DEF Owing
<1> QED
  BY <1>0, <1>1, <1>2, <1>3, <1>4, Figures DEF Balance

(* The second halves of a ++: the unit is there before the operation, or   *)
(* with it.                                                                *)
LEMMA PostStoreBalance ==
    ASSUME TypesInv, Balance, NEW t \in Threads, PostStore(t) PROVE Balance'
<1>0. Types /\ Registers /\ reg[t] \in Int
  BY Known DEF Registers
<1>1. /\ pc[t] = "post_store" /\ Goto(t, "post_push") /\ outstanding_work' = reg[t] + 1
      /\ Loses(t) /\ private_work' = private_work /\ status' = status
  BY DEF PostStore, runnerVars
<1>2. IsFiniteSet(Owing') /\ Cardinality(Owing') = Cardinality(Owing) + 1
  BY <1>0, <1>1, OneMoreOwes DEF Debt, Balance
<1>3. Outstanding' = Outstanding /\ Kept' = Kept
  BY <1>1, SameOutstanding, SameKept
<1> QED
  BY <1>0, <1>1, <1>2, <1>3, Figures DEF Balance, Loses

LEMMA PostPushBalance ==
    ASSUME TypesInv, Core, Balance, NEW t \in Threads, PostPush(t) PROVE Balance'
<1>0. Types /\ Registers
  BY Known
<1>1. /\ pc[t] = "post_push" /\ Goto(t, Home(t))
      /\ UNCHANGED <<outstanding_work, lost_work, private_work>>
      /\ status' = [status EXCEPT ![arg[t]] = "queued"]
  BY DEF PostPush, workVars
<1>2. arg[t] \in Ops /\ status[arg[t]] = "posting"
  BY <1>1 DEF Core, Lives, Made, Making, Stage
<1>3. Cardinality(Outstanding') = Cardinality(Outstanding) + 1
  BY <1>0, <1>1, <1>2, OneMoreOutstanding DEF Counted, Registers
<1>4. IsFiniteSet(Owing') /\ Cardinality(Owing') = Cardinality(Owing) - 1
  BY <1>0, <1>1, HomeIsPlace, OneLessOwes DEF Debt, Balance
<1>5. Kept' = Kept
  BY <1>1, SameKept
<1> QED
  BY <1>0, <1>1, <1>3, <1>4, <1>5, Figures DEF Balance

LEMMA StartStoreBalance ==
    ASSUME TypesInv, Core, Balance, NEW t \in Threads, StartStore(t) PROVE Balance'
<1>0. Types /\ Registers /\ reg[t] \in Int
  BY Known DEF Registers
<1>1. /\ pc[t] = "start_store" /\ Goto(t, Home(t)) /\ outstanding_work' = reg[t] + 1
      /\ Loses(t) /\ private_work' = private_work
      /\ status' = [status EXCEPT ![arg[t]] = "waiting"]
  BY DEF StartStore, runnerVars
<1>2. arg[t] \in Ops /\ status[arg[t]] = "starting"
  BY <1>1 DEF Core, Lives, Made, Making, Stage
<1>3. Cardinality(Outstanding') = Cardinality(Outstanding) + 1
  BY <1>0, <1>1, <1>2, OneMoreOutstanding DEF Counted, Registers
<1>4. Owing' = Owing
  BY <1>0, <1>1, HomeIsPlace, SameOwing DEF Debt
<1>5. Kept' = Kept
  BY <1>1, SameKept
<1> QED
  BY <1>0, <1>1, <1>3, <1>4, <1>5, Figures DEF Balance, Loses

(* An operation is done: its unit is uncounted, or settled against what    *)
(* its handler started.                                                    *)
LEMMA ReturnBalance ==
    ASSUME TypesInv, Core, Balance, NEW r \in Runners, Return(r) PROVE Balance'
<1>0. Types /\ Registers /\ r \in Threads
  BY Known
<1>1. /\ pc[r] = "handler" /\ Goto(r, "clean")
      /\ UNCHANGED <<outstanding_work, lost_work, private_work>>
      /\ status' = [status EXCEPT ![cur[r]] = "done"]
  BY DEF Return, workVars, runnerVars
<1>2. cur[r] \in Ops /\ status[cur[r]] = "running"
  BY <1>1 DEF Core, Lives, Runs, Owns, Active
<1>3. Cardinality(Outstanding') = Cardinality(Outstanding) - 1
  BY <1>0, <1>1, <1>2, OneLessOutstanding DEF Counted, Registers
<1>4. IsFiniteSet(Owing') /\ Cardinality(Owing') = Cardinality(Owing) + 1
  BY <1>0, <1>1, OneMoreOwes DEF Debt, Balance
<1>5. Kept' = Kept
  BY <1>1, SameKept
<1> QED
  BY <1>0, <1>1, <1>3, <1>4, <1>5, Figures DEF Balance

LEMMA WorkCleanupBalance ==
    ASSUME TypesInv, Balance, NEW r \in Runners, WorkCleanup(r) PROVE Balance'
<1>0. Types /\ Registers /\ r \in Threads /\ private_work[r] \in Nat
  BY Known DEF Registers
<1>1. pc[r] = "clean" /\ UNCHANGED <<outstanding_work, lost_work, status>>
  BY DEF WorkCleanup
<1>2. Outstanding' = Outstanding
  BY <1>1, SameOutstanding
<1>3. CASE private_work[r] = 1
  <2>1. Goto(r, "merge") /\ private_work' = [private_work EXCEPT ![r] = @ - 1]
    BY <1>3 DEF WorkCleanup
  <2>2. IsFiniteSet(Owing') /\ Cardinality(Owing') = Cardinality(Owing) - 1
    BY <1>0, <1>1, <2>1, OneLessOwes DEF Debt, Balance
  <2>3. IsFiniteSet(Kept') /\ Cardinality(Kept') = Cardinality(Kept) - 1
    <3>1. private_work[r] > 0 /\ IsFiniteSet(Kept)
      BY <1>3 DEF Balance
    <3> QED
      BY <1>0, <2>1, <3>1, OneLessKept, Zenon
  <2> QED
    BY <1>0, <1>1, <1>2, <2>2, <2>3, Figures DEF Balance
<1>4. CASE private_work[r] # 1
  <2>1. /\ Goto(r, IF private_work[r] > 1 THEN "clean_store" ELSE "finish_store")
        /\ private_work' = private_work
    BY <1>4 DEF WorkCleanup
  <2>2. Owing' = Owing
    BY <1>0, <1>1, <2>1, SameOwing DEF Debt
  <2>3. Kept' = Kept
    BY <2>1, SameKept
  <2> QED
    BY <1>1, <1>2, <2>2, <2>3, BalanceStays
<1> QED
  BY <1>3, <1>4

LEMMA StoresBalance ==
    ASSUME TypesInv, Balance, NEW r \in Runners,
           NoneStore(r) \/ CleanStore(r) \/ FinishStore(r)
    PROVE  Balance'
<1>0. /\ Types /\ Registers /\ r \in Threads /\ reg[r] \in Int
      /\ pc[r] = "clean_store" => private_work[r] > 0
  BY Known DEF Registers, TypesInv, CleanHasWork
<1>1. Loses(r) /\ status' = status
  BY DEF NoneStore, CleanStore, FinishStore
<1>2. Outstanding' = Outstanding
  BY <1>1, SameOutstanding
<1>3. CASE NoneStore(r)
  <2>1. /\ pc[r] = "none_store" /\ Goto(r, "clean") /\ outstanding_work' = reg[r] + 1
        /\ private_work' = private_work
    BY <1>3 DEF NoneStore, runnerVars
  <2>2. IsFiniteSet(Owing') /\ Cardinality(Owing') = Cardinality(Owing) + 1
    BY <1>0, <2>1, OneMoreOwes DEF Debt, Balance
  <2>3. Kept' = Kept
    BY <2>1, SameKept
  <2> QED
    BY <1>0, <1>1, <1>2, <2>1, <2>2, <2>3, Figures DEF Balance, Loses
<1>4. CASE CleanStore(r)
  <2>1. /\ pc[r] = "clean_store" /\ Goto(r, "clean") /\ outstanding_work' = reg[r] + 1
        /\ private_work' = [private_work EXCEPT ![r] = @ - 1]
    BY <1>4 DEF CleanStore
  <2>2. Owing' = Owing
    BY <1>0, <2>1, SameOwing DEF Debt
  <2>3. IsFiniteSet(Kept') /\ Cardinality(Kept') = Cardinality(Kept) - 1
    BY <1>0, <2>1, OneLessKept DEF Balance
  <2> QED
    BY <1>0, <1>1, <1>2, <2>1, <2>2, <2>3, Figures DEF Balance, Loses
<1>5. CASE FinishStore(r)
  <2>1. /\ pc[r] = "finish_store" /\ outstanding_work' = reg[r] - 1
        /\ Goto(r, IF reg[r] - 1 = 0 THEN "finish_stop" ELSE "merge")
        /\ private_work' = private_work
    BY <1>5 DEF FinishStore, runnerVars
  <2>2. IsFiniteSet(Owing') /\ Cardinality(Owing') = Cardinality(Owing) - 1
    BY <1>0, <2>1, OneLessOwes DEF Debt, Balance
  <2>3. Kept' = Kept
    BY <2>1, SameKept
  <2> QED
    BY <1>0, <1>1, <1>2, <2>1, <2>2, <2>3, Figures DEF Balance, Loses
<1> QED
  BY <1>3, <1>4, <1>5

LEMMA BalanceSteps ==
    ASSUME TypesInv, Core, Balance, NEW t \in Threads,
           \/ Call(t) \/ Continue(t)
           \/ t \in Runners /\ (Run(t) \/ RunStep(t))
    PROVE  Balance'
<1>1. CASE Call(t)
  <2>1. ASSUME NEW o \in service.ops, PostPrivate(t, o) PROVE Balance'
    BY <2>1, PostPrivateBalance
  <2>2. CASE \/ \E o \in service.ops : PostLoad(t, o)
             \/ \E s \in Sets, o \in service.ops : StartLoad(t, s, o)
             \/ \E s \in Sets : CancelOps(t, s)
    BY <2>2, LoadsAreNeutral, NeutralBalance, Zenon
  <2>3. CASE Stop(t) \/ Reset(t) \/ InitTask(t)
    <3>1. UNCHANGED <<outstanding_work, lost_work, private_work, status, pc>>
      BY <2>3, Zenon DEF Stop, Reset, InitTask, workVars, runnerVars
    <3>2. Owing' = Owing /\ Outstanding' = Outstanding /\ Kept' = Kept
      BY <3>1, SameOutstanding, SameKept DEF Owing
    <3> QED
      BY <3>1, <3>2, BalanceStays
  <2> QED
    BY <1>1, <2>1, <2>2, <2>3, Zenon DEF Call
<1>2. CASE Continue(t)
  <2>1. CASE PostDeferred(t)
    BY <2>1, LoadsAreNeutral, NeutralBalance, Zenon
  <2> QED
    BY <1>2, <2>1, PostStoreBalance, PostPushBalance, StartStoreBalance DEF Continue
<1>3. CASE t \in Runners /\ (Run(t) \/ RunStep(t))
  <2>1. CASE \/ Run(t) \/ RunNoWork(t) \/ Leave(t) \/ GoIdle(t) \/ WakeUp(t) \/ TakeTask(t)
             \/ Poll(t) \/ PollTimeout(t) \/ TaskCleanup(t) \/ NoneLoad(t) \/ FinishStop(t)
             \/ MergePrivate(t) \/ PerformIoDefer(t)
    BY <1>3, <2>1, MovesAreNeutral, NeutralBalance
  <2>2. CASE TakeOp(t) \/ PerformIo(t)
    BY <1>3, <2>2, TakingIsNeutral, NeutralBalance
  <2>3. CASE \/ Return(t) \/ WorkCleanup(t) \/ NoneStore(t) \/ CleanStore(t) \/ FinishStore(t)
    BY <1>3, <2>3, ReturnBalance, WorkCleanupBalance, StoresBalance
  <2> QED
    BY <1>3, <2>1, <2>2, <2>3 DEF RunStep
<1> QED
  BY <1>1, <1>2, <1>3

-----------------------------------------------------------------------------
(* Who takes a step is in the service, and only its place changes.         *)
LEMMA ActorsAreInside ==
    ASSUME NEW t \in Threads,
           \/ Call(t) \/ Continue(t)
           \/ t \in Runners /\ (Run(t) \/ RunStep(t))
    PROVE  /\ pc[t] # "out" \/ t \in service.threads
           /\ pc' = pc \/ \E to : Goto(t, to)
<1>1. CASE Call(t)
  <2>1. t \in service.threads
    BY <1>1, Zenon
    DEF Call, PostPrivate, PostLoad, StartLoad, CancelOps, Stop, Reset, InitTask, Calls
  <2>2. pc' = pc \/ \E to : Goto(t, to)
    BY <1>1, Zenon
    DEF Call, PostPrivate, PostLoad, StartLoad, CancelOps, Stop, Reset, InitTask
  <2> QED
    BY <2>1, <2>2
<1>2. CASE Continue(t)
  BY <1>2 DEF Continue, PostStore, PostPush, StartStore, PostDeferred, Deferred
<1>3. CASE t \in Runners /\ Run(t)
  BY <1>3, Zenon DEF Run
<1>4. CASE t \in Runners /\ RunStep(t)
  <2>1. CASE \/ RunNoWork(t) \/ Leave(t) \/ GoIdle(t) \/ WakeUp(t) \/ TakeTask(t)
             \/ Poll(t) \/ PollTimeout(t) \/ TaskCleanup(t)
    BY <2>1
    DEF RunNoWork, StopFrom, Leave, GoIdle, WakeUp, TakeTask, Poll, PollTimeout, TaskCleanup
  <2>2. CASE TakeOp(t) \/ PerformIo(t)
    <3>1. pc[t] \in {"top", "set"}
      BY <2>2 DEF TakeOp, PerformIo
    <3>2. \E to : Goto(t, to)
      BY <2>2, Zenon DEF TakeOp, PerformIo
    <3> QED
      BY <3>1, <3>2
  <2>3. CASE \/ PerformIoDefer(t) \/ NoneLoad(t) \/ NoneStore(t)
             \/ Return(t) \/ WorkCleanup(t) \/ CleanStore(t) \/ FinishStore(t)
             \/ FinishStop(t) \/ MergePrivate(t)
    BY <2>3
    DEF PerformIoDefer, Deferred, NoneLoad, NoneStore, Return, WorkCleanup,
        CleanStore, FinishStore, FinishStop, StopFrom, MergePrivate
  <2> QED
    BY <1>4, <2>1, <2>2, <2>3 DEF RunStep
<1> QED
  BY <1>1, <1>2, <1>3, <1>4


-----------------------------------------------------------------------------
(* Private units are held by the one runner of a one-thread service, and   *)
(* only in a handler, in a call it makes, or in work_cleanup.              *)

LEMMA KeepsFollows ==
    ASSUME NEW r \in Runners, private_work'[r] = private_work[r], service' = service,
           Keeps(r), MayKeep(r) => MayKeep(r)'
    PROVE  Keeps(r)'
BY Zenon DEF Keeps

(* The places where a thread holds nothing.                                *)
LEMMA NothingKept ==
    ASSUME NEW r \in Runners, Keeps(r),
           pc[r] \notin {"handler", "clean", "clean_store", "start_store", "defer"}
    PROVE  private_work[r] = 0
BY DEF Keeps, MayKeep

LEMMA KeptInRuns ==
    ASSUME TypesInv, NEW r \in Runners, Keeps(r), Run(r) \/ RunStep(r), service' = service
    PROVE  Keeps(r)'
<1>0. Types /\ Registers /\ r \in Threads /\ private_work[r] \in Nat
  BY Known DEF Registers
<1>1. CASE Return(r)
  <2>1. pc[r] = "handler" /\ Goto(r, "clean") /\ private_work' = private_work
    BY <1>1 DEF Return, runnerVars
  <2>2. MayKeep(r)'
    BY <1>0, <2>1, ThreadMoves DEF MayKeep, Types
  <2> QED
    BY <2>1, <2>2, KeepsFollows
<1>2. CASE WorkCleanup(r)
  <2>1. CASE private_work[r] = 1
    <3>1. private_work' = [private_work EXCEPT ![r] = 0]
      BY <1>2, <2>1, Zenon DEF WorkCleanup
    <3> QED
      BY <1>0, <3>1 DEF Keeps, Registers
  <2>2. CASE private_work[r] > 1
    <3>1. Goto(r, "clean_store") /\ private_work' = private_work
      BY <1>2, <2>2 DEF WorkCleanup
    <3>2. MayKeep(r)'
      BY <1>0, <3>1, ThreadMoves DEF MayKeep, Types
    <3> QED
      BY <3>1, <3>2, KeepsFollows
  <2>3. CASE private_work[r] = 0
    <3>1. private_work' = private_work
      BY <1>2, <2>3 DEF WorkCleanup
    <3> QED
      BY <2>3, <3>1 DEF Keeps
  <2> QED
    BY <1>0, <2>1, <2>2, <2>3
<1>3. CASE CleanStore(r)
  <2>1. /\ pc[r] = "clean_store" /\ Goto(r, "clean")
        /\ private_work' = [private_work EXCEPT ![r] = @ - 1]
    BY <1>3 DEF CleanStore
  <2>2. MayKeep(r)'
    BY <1>0, <2>1, ThreadMoves DEF MayKeep, Types
  <2>3. private_work[r] # 0
    BY <1>0, <2>1 DEF TypesInv, CleanHasWork
  <2> QED
    BY <2>2, <2>3, Zenon DEF Keeps
<1>4. ASSUME ~Return(r), ~WorkCleanup(r), ~CleanStore(r) PROVE Keeps(r)'
  <2>1. pc[r] \notin {"handler", "clean", "clean_store", "start_store", "defer"}
    BY <1>4
    DEF Run, RunStep, RunNoWork, Leave, GoIdle, WakeUp, TakeTask, TakeOp, Poll, PollTimeout,
        TaskCleanup, PerformIo, PerformIoDefer, NoneLoad, NoneStore, FinishStore, FinishStop,
        MergePrivate, StopFrom, Deferred
  <2>2. private_work' = private_work
    <3>1. CASE \/ Run(r) \/ RunNoWork(r) \/ Leave(r) \/ GoIdle(r) \/ WakeUp(r) \/ TakeTask(r)
               \/ TakeOp(r) \/ Poll(r) \/ PollTimeout(r)
      BY <3>1, Zenon
      DEF Run, RunNoWork, StopFrom, Leave, GoIdle, WakeUp, TakeTask, TakeOp, Poll, PollTimeout,
          runnerVars
    <3>2. CASE \/ TaskCleanup(r) \/ PerformIo(r) \/ PerformIoDefer(r) \/ NoneLoad(r)
               \/ NoneStore(r) \/ FinishStore(r) \/ FinishStop(r) \/ MergePrivate(r)
      BY <3>2, Zenon
      DEF TaskCleanup, PerformIo, PerformIoDefer, Deferred, NoneLoad, NoneStore, FinishStore,
          FinishStop, StopFrom, MergePrivate, runnerVars
    <3> QED
      BY <1>4, <3>1, <3>2 DEF RunStep
  <2> QED
    BY <2>1, <2>2, NothingKept DEF Keeps
<1> QED
  BY <1>1, <1>2, <1>3, <1>4

LEMMA KeptInCalls ==
    ASSUME TypesInv, NEW r \in Runners, Keeps(r), Call(r) \/ Continue(r), service' = service
    PROVE  Keeps(r)'
<1>0. Types /\ Registers /\ r \in Threads /\ service.ops \subseteq Ops
  BY Known, NamesAreApart DEF Types
<1>1. ASSUME NEW o \in service.ops, PostPrivate(r, o) PROVE Keeps(r)'
  <2>1. service.one_thread /\ r \in service.threads /\ pc[r] = "handler" /\ pc' = pc
    BY <1>1 DEF PostPrivate, Calls, Home
  <2> QED
    BY <2>1 DEF Keeps, MayKeep
<1>2. ASSUME NEW o \in service.ops, PostLoad(r, o) PROVE Keeps(r)'
  <2>1. /\ pc[r] = Home(r) /\ private_work' = private_work
        /\ ~(service.one_thread /\ r \in in_run)
    BY <1>2 DEF PostLoad, Calls, runnerVars
  <2>2. private_work[r] = 0
    BY <2>1 DEF Home, Keeps, MayKeep
  <2> QED
    BY <2>1, <2>2 DEF Keeps
<1>3. ASSUME NEW to, pc[r] = Home(r), Goto(r, to), to \in {"start_store", "defer"},
             private_work' = private_work, in_run' = in_run
      PROVE  Keeps(r)'
  <2>1. pc'[r] \in {"start_store", "defer"}
    BY <1>0, <1>3, ThreadMoves DEF Types
  <2>2. MayKeep(r) => MayKeep(r)'
    BY <1>3, <2>1 DEF MayKeep, Home
  <2> QED
    BY <1>3, <2>2, KeepsFollows
<1>4. ASSUME NEW from, pc[r] = from, Goto(r, Home(r)), from \in {"start_store", "defer"},
             private_work' = private_work, in_run' = in_run
      PROVE  Keeps(r)'
  <2>1. pc'[r] = Home(r)
    BY <1>0, <1>4, ThreadMoves DEF Types
  <2>2. MayKeep(r) => MayKeep(r)'
    BY <1>4, <2>1 DEF MayKeep, Home
  <2> QED
    BY <1>4, <2>2, KeepsFollows
<1>5. ASSUME NEW s \in Sets, NEW o \in service.ops, StartLoad(r, s, o) PROVE Keeps(r)'
  BY <1>3, <1>5 DEF StartLoad, Calls, runnerVars
<1>6. ASSUME NEW s \in Sets, CancelOps(r, s) PROVE Keeps(r)'
  BY <1>3, <1>6 DEF CancelOps, Calls, runnerVars
<1>7. CASE StartStore(r) \/ PostDeferred(r)
  <2>1. CASE StartStore(r)
    BY <1>4, <2>1 DEF StartStore, runnerVars
  <2>2. CASE PostDeferred(r)
    BY <1>4, <2>2 DEF PostDeferred, Deferred
  <2> QED
    BY <1>7, <2>1, <2>2
<1>8. CASE PostStore(r) \/ PostPush(r)
  <2>1. pc[r] \in {"post_store", "post_push"} /\ private_work' = private_work
    BY <1>8 DEF PostStore, PostPush, runnerVars
  <2> QED
    BY <2>1, NothingKept DEF Keeps
<1>9. CASE Stop(r) \/ Reset(r) \/ InitTask(r)
  <2>1. UNCHANGED <<private_work, pc, in_run>>
    BY <1>9, Zenon DEF Stop, Reset, InitTask, runnerVars, callVars
  <2> QED
    BY <2>1, KeepsFollows DEF MayKeep
<1> QED
  BY <1>1, <1>2, <1>5, <1>6, <1>7, <1>8, <1>9 DEF Call, Continue

(* A thread's step leaves what the others hold alone.                      *)
LEMMA OthersKeep ==
    ASSUME TypesInv, NEW t \in Threads,
           \/ Call(t) \/ Continue(t)
           \/ t \in Runners /\ (Run(t) \/ RunStep(t)),
           NEW r \in Runners, r # t, Keeps(r), service' = service
    PROVE  Keeps(r)'
<1>0. Types /\ Registers /\ r \in Threads
  BY Known
<1>1. pc'[r] = pc[r]
  BY <1>0, ActorsAreInside, ThreadMoves DEF Types
<1>2. private_work'[r] = private_work[r] /\ (r \in in_run => r \in in_run')
  <2>1. CASE Call(t)
    BY <1>0, <2>1
    DEF Call, PostPrivate, PostLoad, StartLoad, CancelOps, Stop, Reset, InitTask, Registers,
        runnerVars, callVars
  <2>2. CASE Continue(t)
    BY <2>2, Zenon
    DEF Continue, PostStore, PostPush, StartStore, PostDeferred, Deferred, runnerVars, callVars
  <2>3. CASE t \in Runners /\ (Run(t) \/ RunStep(t))
    <3>1. CASE Run(t) \/ Leave(t)
      BY <3>1 DEF Run, Leave, runnerVars
    <3>2. CASE \/ RunNoWork(t) \/ GoIdle(t) \/ WakeUp(t) \/ TakeTask(t)
               \/ TakeOp(t) \/ Poll(t) \/ PollTimeout(t)
      BY <3>2, Zenon
      DEF RunNoWork, StopFrom, GoIdle, WakeUp, TakeTask, TakeOp, Poll, PollTimeout, runnerVars,
          callVars
    <3>3. CASE \/ TaskCleanup(t) \/ PerformIo(t) \/ PerformIoDefer(t) \/ NoneLoad(t)
               \/ NoneStore(t) \/ FinishStore(t) \/ FinishStop(t) \/ MergePrivate(t) \/ Return(t)
      BY <3>3, Zenon
      DEF TaskCleanup, PerformIo, PerformIoDefer, Deferred, NoneLoad, NoneStore, FinishStore,
          FinishStop, StopFrom, MergePrivate, Return, runnerVars, callVars
    <3>4. CASE WorkCleanup(t) \/ CleanStore(t)
      BY <1>0, <3>4 DEF WorkCleanup, CleanStore, Registers, callVars
    <3> QED
      BY <2>3, <3>1, <3>2, <3>3, <3>4 DEF RunStep
  <2> QED
    BY <2>1, <2>2, <2>3
<1>3. MayKeep(r) => MayKeep(r)'
  BY <1>1, <1>2 DEF MayKeep
<1> QED
  BY <1>2, <1>3, KeepsFollows

-----------------------------------------------------------------------------
(* The invariant holds.                                                    *)

LEMMA PrivateSteps == ASSUME TypesInv, PrivateInv, [Next]_vars PROVE PrivateInv'
<1>0. Types /\ Runners \subseteq Threads
  BY Known
<1>1. service' = service
  BY LifeStays
<1>2. ASSUME NEW t \in Threads,
             \/ Call(t) \/ Continue(t)
             \/ t \in Runners /\ (Run(t) \/ RunStep(t))
      PROVE  PrivateInv'
  <2>1. t \in service.threads
    BY <1>2, ActorsAreInside DEF PrivateInv
  <2>2. \A u \in Threads : u # t => pc'[u] = pc[u]
    BY <1>0, <1>2, ActorsAreInside, ThreadMoves DEF Types
  <2>3. \A u \in Threads : u \notin service'.threads => pc'[u] = "out"
    BY <1>1, <2>1, <2>2 DEF PrivateInv
  <2>4. ASSUME NEW r \in Runners PROVE Keeps(r)'
    <3>1. Keeps(r)
      BY DEF PrivateInv
    <3>2. CASE r = t
      BY <1>1, <1>2, <3>1, <3>2, KeptInRuns, KeptInCalls
    <3>3. CASE r # t
      BY <1>1, <1>2, <3>1, <3>3, OthersKeep
    <3> QED
      BY <3>2, <3>3
  <2> QED
    BY <2>3, <2>4 DEF PrivateInv
<1>3. ASSUME (\E s \in Sets : Event(s)) \/ ShutdownService \/ UNCHANGED vars PROVE PrivateInv'
  <2>1. UNCHANGED <<private_work, pc, in_run>>
    BY <1>3, Zenon DEF Event, ShutdownService, vars, runnerVars, callVars
  <2>2. ASSUME NEW r \in Runners PROVE Keeps(r)'
    <3>1. MayKeep(r) => MayKeep(r)'
      BY <2>1, Zenon DEF MayKeep
    <3>2. private_work'[r] = private_work[r] /\ Keeps(r)
      BY <2>1 DEF PrivateInv
    <3> QED
      BY <1>1, <3>1, <3>2, KeepsFollows, Zenon
  <2> QED
    BY <1>1, <2>1, <2>2 DEF PrivateInv
<1> QED
  BY <1>0, <1>2, <1>3 DEF Next

LEMMA WorkSteps == ASSUME PlacesInv, WorkInv, [Next]_vars PROVE WorkInv'
<1>0. TypesInv /\ Runners \subseteq Threads
  BY Known DEF PlacesInv
<1>1. PrivateInv'
  BY <1>0, PrivateSteps DEF WorkInv
<1>2. ASSUME ~shutdown' PROVE Balance'
  <2>1. ~ShutdownService
    BY <1>2, Zenon DEF ShutdownService
  <2>2. ~shutdown
    BY <1>2, <2>1, LifeStays
  <2>3. Core /\ Balance
    BY <2>2 DEF PlacesInv, Core, WorkInv
  <2>4. ASSUME NEW t \in Threads,
               \/ Call(t) \/ Continue(t)
               \/ t \in Runners /\ (Run(t) \/ RunStep(t))
        PROVE  Balance'
    BY <1>0, <2>3, <2>4, BalanceSteps
  <2>5. ASSUME (\E s \in Sets : Event(s)) \/ UNCHANGED vars PROVE Balance'
    <3>1. UNCHANGED <<outstanding_work, lost_work, private_work, status, pc>>
      BY <2>5, Zenon DEF Event, vars, workVars, runnerVars
    <3>2. Owing' = Owing /\ Outstanding' = Outstanding /\ Kept' = Kept
      BY <3>1, SameOutstanding, SameKept DEF Owing
    <3> QED
      BY <2>3, <3>1, <3>2, BalanceStays
  <2> QED
    BY <1>0, <2>1, <2>4, <2>5 DEF Next
<1> QED
  BY <1>1, <1>2 DEF WorkInv

LEMMA WorkStarts == Init => WorkInv
<1> SUFFICES ASSUME Init PROVE WorkInv
  OBVIOUS
<1>1. /\ outstanding_work = 0 /\ lost_work = 0 /\ pc = [t \in Threads |-> "out"]
      /\ private_work = [r \in Runners |-> 0] /\ status = [o \in Ops |-> "new"]
  BY Zenon DEF Init
<1>2. Outstanding = {} /\ Owing = {}
  BY <1>1 DEF Outstanding, Owing
<1>3. Kept = {}
  <2>1. \A r \in Runners : 1..private_work[r] = {}
    BY <1>1
  <2> QED
    BY <2>1 DEF Kept
<1>4. Balance
  BY <1>1, <1>2, <1>3, FS_EmptySet DEF Balance
<1>5. PrivateInv
  BY <1>1 DEF PrivateInv, Keeps
<1> QED
  BY <1>4, <1>5 DEF WorkInv

(* finish_store is left for finish_stop by work_finished alone.            *)
LEMMA OnlyFinishStops ==
    ASSUME TypesInv, [Next]_vars, NEW r \in Runners,
           pc[r] = "finish_store", pc'[r] = "finish_stop"
    PROVE  FinishStore(r) /\ reg[r] = 1
<1>0. Types /\ Registers /\ r \in Threads
  BY Known
<1>1. PICK t \in Threads : \/ Call(t) \/ Continue(t)
                           \/ t \in Runners /\ (Run(t) \/ RunStep(t))
  <2>1. ASSUME ShutdownService \/ (\E s \in Sets : Event(s)) \/ UNCHANGED vars PROVE FALSE
    <3>1. pc' = pc
      BY <2>1, Zenon DEF ShutdownService, Event, vars
    <3> QED
      BY <3>1
  <2> QED
    BY <1>0, <2>1, Known DEF Next
<1>2. t = r
  BY <1>0, <1>1, ActorsAreInside, ThreadMoves DEF Types
<1>3. FinishStore(r)
  <2>1. ~Call(r)
    <3>1. Home(r) # "finish_store"
      BY HomeIsPlace
    <3> QED
      BY <3>1, Zenon
      DEF Call, PostPrivate, PostLoad, StartLoad, CancelOps, Stop, Reset, InitTask, Calls
  <2>2. ~Continue(r) /\ ~Run(r)
    BY DEF Continue, PostStore, PostPush, StartStore, PostDeferred, Deferred, Run
  <2>3. ~(\/ RunNoWork(r) \/ Leave(r) \/ GoIdle(r) \/ WakeUp(r) \/ TakeTask(r) \/ TakeOp(r)
          \/ Poll(r) \/ PollTimeout(r) \/ TaskCleanup(r) \/ PerformIo(r))
    BY DEF RunNoWork, StopFrom, Leave, GoIdle, WakeUp, TakeTask, TakeOp, Poll, PollTimeout,
           TaskCleanup, PerformIo
  <2>4. ~(\/ PerformIoDefer(r) \/ NoneLoad(r) \/ NoneStore(r) \/ Return(r) \/ WorkCleanup(r)
          \/ CleanStore(r) \/ FinishStop(r) \/ MergePrivate(r))
    BY DEF PerformIoDefer, Deferred, NoneLoad, NoneStore, Return, WorkCleanup, CleanStore,
           FinishStop, StopFrom, MergePrivate
  <2> QED
    BY <1>1, <1>2, <2>1, <2>2, <2>3, <2>4 DEF RunStep
<1> QED
  BY <1>0, <1>3 DEF FinishStore, Goto, Types, Registers

(* So is the place outside run() for its stop() by the first lines of run. *)
LEMMA OnlyRunFindsNoWork ==
    ASSUME TypesInv, [Next]_vars, NEW r \in Runners, pc[r] = "out", pc'[r] = "stop_out"
    PROVE  Run(r) /\ outstanding_work = 0
<1>0. Types /\ r \in Threads
  BY Known
<1>1. PICK t \in Threads : \/ Call(t) \/ Continue(t)
                           \/ t \in Runners /\ (Run(t) \/ RunStep(t))
  <2>1. ASSUME ShutdownService \/ (\E s \in Sets : Event(s)) \/ UNCHANGED vars PROVE FALSE
    <3>1. pc' = pc
      BY <2>1, Zenon DEF ShutdownService, Event, vars
    <3> QED
      BY <3>1
  <2> QED
    BY <1>0, <2>1, Known DEF Next
<1>2. t = r
  BY <1>0, <1>1, ActorsAreInside, ThreadMoves DEF Types
<1>3. ~Call(r)
  <2>1. ASSUME Call(r)
        PROVE  pc' = pc \/ \E to \in {"post_store", "start_store", "defer"} : Goto(r, to)
    BY <2>1, Zenon
    DEF Call, PostPrivate, PostLoad, StartLoad, CancelOps, Stop, Reset, InitTask
  <2> QED
    BY <1>0, <2>1, ThreadMoves DEF Types
<1>4. ~Continue(r) /\ ~RunStep(r)
  <2>1. ~Continue(r)
    BY DEF Continue, PostStore, PostPush, StartStore, PostDeferred, Deferred
  <2>2. ~(\/ RunNoWork(r) \/ Leave(r) \/ GoIdle(r) \/ WakeUp(r) \/ TakeTask(r) \/ TakeOp(r)
          \/ Poll(r) \/ PollTimeout(r) \/ TaskCleanup(r) \/ PerformIo(r))
    BY DEF RunNoWork, StopFrom, Leave, GoIdle, WakeUp, TakeTask, TakeOp, Poll, PollTimeout,
           TaskCleanup, PerformIo
  <2>3. ~(\/ PerformIoDefer(r) \/ NoneLoad(r) \/ NoneStore(r) \/ Return(r) \/ WorkCleanup(r)
          \/ CleanStore(r) \/ FinishStore(r) \/ FinishStop(r) \/ MergePrivate(r))
    BY DEF PerformIoDefer, Deferred, NoneLoad, NoneStore, Return, WorkCleanup, CleanStore,
           FinishStore, FinishStop, StopFrom, MergePrivate
  <2> QED
    BY <2>1, <2>2, <2>3 DEF RunStep
<1>5. Run(r)
  BY <1>1, <1>2, <1>3, <1>4
<1>6. ASSUME outstanding_work # 0 PROVE FALSE
  <2>1. Goto(r, "top")
    BY <1>5, <1>6, Zenon DEF Run
  <2> QED
    BY <1>0, <2>1, ThreadMoves DEF Types
<1> QED
  BY <1>5, <1>6

(* Where a runner holds nothing, nobody else does.                         *)
LEMMA NothingIsKept ==
    ASSUME TypesInv, PrivateInv, NEW r \in Runners, r \in service.threads,
           pc[r] \notin {"handler", "clean", "clean_store", "start_store", "defer"}
    PROVE  Kept = {}
<1>0. Types /\ Registers
  BY Known
<1>1. ASSUME NEW u \in Runners PROVE private_work[u] = 0
  <2>1. Keeps(u)
    BY DEF PrivateInv
  <2>2. ASSUME private_work[u] # 0 PROVE FALSE
    <3>1. service.one_thread /\ u \in service.threads /\ MayKeep(u)
      BY <2>1, <2>2 DEF Keeps
    <3>2. u = r
      BY <1>0, <3>1, TaskIoAssumption DEF Types
    <3> QED
      BY <3>1, <3>2 DEF MayKeep
  <2> QED
    BY <2>2
<1>2. \A u \in Runners : 1..private_work[u] = {}
  BY <1>1
<1> QED
  BY <1>2 DEF Kept

LEMMA StopsWhenDone ==
    ASSUME PlacesInv, WorkInv, [Next]_vars, lost_work' <= 0, NEW r \in Runners,
           \/ pc[r] = "finish_store" /\ pc'[r] = "finish_stop"
           \/ pc[r] = "out" /\ pc'[r] = "stop_out"
    PROVE  Outstanding = {}
<1>1. Types /\ Registers /\ TypesInv /\ InUse /\ r \in Threads
  BY Known DEF PlacesInv, TypesInv, WakeInv
<1>2. /\ ~shutdown /\ r \in service.threads
      /\ pc[r] \in {"finish_store", "out"}
      /\ outstanding_work + lost_work <= IF pc[r] = "out" THEN 0 ELSE 1
  <2>1. CASE pc[r] = "finish_store"
    <3>1. FinishStore(r) /\ reg[r] = 1
      BY <1>1, <2>1, OnlyFinishStops
    <3>2. lost_work' = lost_work + (outstanding_work - 1)
      BY <3>1 DEF FinishStore, Loses
    <3>3. ~shutdown /\ r \in service.threads
      BY <1>1, <2>1 DEF PlacesInv, Over, InUse
    <3> QED
      BY <1>1, <2>1, <3>2, <3>3 DEF Registers
  <2>2. CASE pc[r] = "out"
    <3>1. Run(r) /\ outstanding_work = 0
      BY <1>1, <2>2, OnlyRunFindsNoWork
    <3>2. ~shutdown /\ r \in service.threads /\ lost_work' = lost_work
      BY <3>1, Zenon DEF Run, workVars
    <3> QED
      BY <1>1, <2>2, <3>1, <3>2 DEF Registers
  <2> QED
    BY <2>1, <2>2
<1>3. Kept = {} /\ Balance
  BY <1>1, <1>2, NothingIsKept DEF WorkInv
<1>4. pc[r] = "finish_store" => Cardinality(Owing) # 0
  <2>1. pc[r] = "finish_store" => Owing # {}
    BY <1>1 DEF Owing
  <2> QED
    BY <1>3, <2>1, FS_EmptySet DEF Balance
<1>5. Cardinality(Kept) = 0
  BY <1>3, FS_EmptySet
<1>6. Cardinality(Outstanding) = 0
  BY <1>1, <1>2, <1>3, <1>4, <1>5, Figures DEF Balance
<1> QED
  BY <1>6, OutstandingIsFinite, FS_EmptySet

(* The unlocked outstanding_work_ (task_io_service.hpp), for any number of *)
(* threads: posts, starts, cancels, polls, what work_cleanup settles       *)
(* privately and what threads still owe add up, but for the updates that   *)
(* overlapping ++ and -- have lost.                                        *)
THEOREM WorkStaysExact == Spec => []WorkIsExact
<1>1. PlacesInv /\ WorkInv /\ [Next]_vars => PlacesInv' /\ WorkInv'
  BY PlacesSteps, WorkSteps
<1>2. WorkInv => WorkIsExact
  BY DEF WorkInv, Balance, WorkIsExact
<1> QED
  BY <1>1, <1>2, PlacesStart, WorkStarts, PTL DEF Spec

(* So run() and work_finished stop a service before its work is done only  *)
(* if an update has been lost.                                             *)
THEOREM NothingIsAbandoned == Spec => NoEarlyStop
<1>1. PlacesInv /\ WorkInv /\ [Next]_vars => PlacesInv' /\ WorkInv'
  BY PlacesSteps, WorkSteps
<1>2. PlacesInv /\ WorkInv /\ [Next]_vars
        => [lost_work' <= 0 =>
              \A r \in Runners :
                  \/ pc[r] = "finish_store" /\ pc'[r] = "finish_stop"
                  \/ pc[r] = "out" /\ pc'[r] = "stop_out"
                  => Outstanding = {}]_vars
  BY StopsWhenDone
<1> QED
  BY <1>1, <1>2, PlacesStart, WorkStarts, PTL DEF Spec, NoEarlyStop

=============================================================================
