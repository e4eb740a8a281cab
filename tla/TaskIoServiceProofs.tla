-------------------------- MODULE TaskIoServiceProofs --------------------------
(***************************************************************************)
(* The scheduler, for any number of threads, operations and descriptors:   *)
(* however the queues are merged, the reactor task is in one place, so two *)
(* threads never poll at once and polling does not stop for want of it.    *)
(***************************************************************************)
EXTENDS TaskIoService, FiniteSetTheorems, TLAPS

-----------------------------------------------------------------------------
(* What a merge of two lists keeps.                                        *)

LEMMA IntervalSize ==
    ASSUME NEW i \in Int, NEW k \in Int, i <= k + 1
    PROVE  IsFiniteSet(i..k) /\ Cardinality(i..k) = k - i + 1
<1>1. IsFiniteSet(i..k) /\ Cardinality(i..k) = IF i > k THEN 0 ELSE k - i + 1
  BY FS_Interval, Zenon
<1> QED
  BY <1>1

(* How many elements of the second list stand at the positions 1..i.       *)
Upto(at, i) == Cardinality(at \cap (1..i))

LEMMA CountBetween ==
    ASSUME NEW n \in Nat, NEW at \in SUBSET (1..n), NEW i \in 0..n, NEW k \in i..n
    PROVE  /\ Upto(at, i) \in Nat /\ Upto(at, k) \in Nat
           /\ Upto(at, i) <= Upto(at, k) /\ Upto(at, k) <= Upto(at, i) + (k - i)
           /\ k \notin at /\ i < k => Upto(at, k) < Upto(at, i) + (k - i)
           /\ k \in at /\ i < k => Upto(at, i) < Upto(at, k)
<1> DEFINE low == at \cap (1..i)
           mid == at \cap (i+1..k)
<1>1. i \in Nat /\ k \in Nat /\ i <= k /\ k <= n
  OBVIOUS
<1>2. IsFiniteSet(i+1..k) /\ IsFiniteSet(1..i) /\ Cardinality(i+1..k) = k - i
  <2>1. 1 \in Int /\ i + 1 \in Int /\ 1 <= i + 1 /\ i + 1 <= k + 1
    BY <1>1
  <2>2. IsFiniteSet(1..i) /\ IsFiniteSet(i+1..k) /\ Cardinality(i+1..k) = k - (i + 1) + 1
    BY <1>1, <2>1, IntervalSize
  <2> QED
    BY <1>1, <2>2
<1>3. IsFiniteSet(low) /\ IsFiniteSet(mid)
  BY <1>2, FS_Subset, low \in SUBSET (1..i), mid \in SUBSET (i+1..k)
<1>4. Cardinality(low) \in Nat /\ Cardinality(mid) \in Nat
  BY <1>3, FS_CardinalityType
<1>5. at \cap (1..k) = low \cup mid
  BY <1>1
<1>6. low \cap mid = {}
  BY <1>1
<1>7. Cardinality(low \cup mid) = Cardinality(low) + Cardinality(mid)
  <2>1. Cardinality(low \cup mid) = Cardinality(low) + Cardinality(mid) - Cardinality(low \cap mid)
    BY <1>3, FS_Union
  <2>2. Cardinality(low \cap mid) = 0
    BY <1>6, FS_EmptySet
  <2> HIDE DEF low, mid
  <2> QED
    BY <1>4, <2>1, <2>2
<1>8. Upto(at, i) = Cardinality(low) /\ Upto(at, k) = Cardinality(low) + Cardinality(mid)
  BY <1>5, <1>7 DEF Upto
<1>9. Cardinality(mid) <= k - i
  BY <1>2, FS_Subset, mid \in SUBSET (i+1..k)
<1>10. ASSUME k \notin at, i < k PROVE Cardinality(mid) < k - i
  <2>1. mid \in SUBSET (i+1..k-1)
    BY <1>1, <1>10
  <2>2. IsFiniteSet(i+1..k-1) /\ Cardinality(i+1..k-1) = k - 1 - i
    <3>1. i + 1 \in Int /\ k - 1 \in Int /\ i + 1 <= (k - 1) + 1
      BY <1>1, <1>10
    <3>2. IsFiniteSet(i+1..k-1) /\ Cardinality(i+1..k-1) = (k - 1) - (i + 1) + 1
      BY <3>1, IntervalSize
    <3> QED
      BY <1>1, <3>2
  <2>3. Cardinality(mid) <= k - 1 - i
    BY <2>1, <2>2, FS_Subset
  <2> QED
    BY <1>1, <1>4, <2>3
<1>11. ASSUME k \in at, i < k PROVE 0 < Cardinality(mid)
  <2>1. k \in mid
    BY <1>1, <1>11
  <2>2. Cardinality(mid) # 0
    BY <1>3, <2>1, FS_EmptySet
  <2> QED
    BY <1>4, <2>2
<1> HIDE DEF low, mid
<1> QED
  BY <1>1, <1>4, <1>8, <1>9, <1>10, <1>11

(* The elements of the first list are at the positions outside at, each    *)
(* once and in order; at the others are elements of the second.            *)
Interleaves(q, a, b, at, place) ==
    /\ at \subseteq 1..Len(q)
    /\ place \in [(1..Len(q)) \ at -> 1..Len(a)]
    /\ \A i \in (1..Len(q)) \ at : q[i] = a[place[i]]
    /\ \A i, k \in (1..Len(q)) \ at : place[i] = place[k] => i = k
    /\ \A i, k \in (1..Len(q)) \ at : i < k => place[i] < place[k]
    /\ \A j \in 1..Len(a) : \E i \in (1..Len(q)) \ at : place[i] = j
    /\ \A i \in at : \E j \in 1..Len(b) : q[i] = b[j]

LEMMA MergedShape ==
    ASSUME NEW S, NEW a \in Seq(S), NEW b \in Seq(S), NEW q \in Merged(a, b)
    PROVE  q \in Seq(S) /\ \E at, place : Interleaves(q, a, b, at, place)
<1> DEFINE n == Len(a) + Len(b)
<1>1. n \in Nat /\ Len(a) \in Nat /\ Len(b) \in Nat
  OBVIOUS
<1>2. PICK at \in SUBSET (1..n) :
         /\ Cardinality(at) = Len(b)
         /\ q = [i \in 1..n |-> IF i \in at THEN b[Upto(at, i)] ELSE a[i - Upto(at, i)]]
  BY DEF Merged, Upto
<1> HIDE DEF n
<1>3. Upto(at, 0) = 0 /\ Upto(at, n) = Len(b)
  <2>1. at \cap (1..0) = {}
    OBVIOUS
  <2>2. at \cap (1..n) = at
    OBVIOUS
  <2> QED
    BY <1>2, <2>1, <2>2, FS_EmptySet DEF Upto
<1>4. ASSUME NEW i \in at PROVE Upto(at, i) \in 1..Len(b)
  <2>1. i \in 1..n /\ 0 \in 0..n /\ i \in 0..n /\ n \in i..n
    BY <1>1, <1>2
  <2>2. Upto(at, i) \in Nat /\ 0 < Upto(at, i)
    BY <1>1, <1>3, <2>1, CountBetween
  <2>3. Upto(at, i) <= Upto(at, n)
    BY <1>1, <2>1, CountBetween
  <2> QED
    BY <1>1, <1>3, <2>2, <2>3
<1>5. ASSUME NEW i \in (1..n) \ at PROVE i - Upto(at, i) \in 1..Len(a)
  <2>1. i \in 1..n /\ 0 \in 0..n /\ i \in 0..n /\ n \in i..n
    BY <1>1
  <2>2. Upto(at, i) \in Nat /\ Upto(at, i) < i
    BY <1>1, <1>3, <2>1, CountBetween
  <2>3. Len(b) <= Upto(at, i) + (n - i)
    BY <1>1, <1>3, <2>1, CountBetween
  <2> QED
    BY <1>1, <2>1, <2>2, <2>3 DEF n
<1>6. q \in Seq(S) /\ Len(q) = n
  <2>1. \A i \in 1..n : (IF i \in at THEN b[Upto(at, i)] ELSE a[i - Upto(at, i)]) \in S
    BY <1>4, <1>5
  <2> QED
    BY <1>1, <1>2, <2>1
<1> DEFINE rest == (1..n) \ at
           place == [i \in rest |-> i - Upto(at, i)]
<1>7. place \in [rest -> 1..Len(a)]
  BY <1>5
<1>8. \A i \in rest : q[i] = a[place[i]]
  BY <1>2
<1>9. \A i \in at : \E j \in 1..Len(b) : q[i] = b[j]
  BY <1>2, <1>4
<1>10. ASSUME NEW i \in rest, NEW k \in rest, i < k PROVE place[i] < place[k]
  <2>1. i \in 0..n /\ k \in i..n /\ k \notin at
    BY <1>1, <1>10
  <2>2. /\ Upto(at, i) \in Nat /\ Upto(at, k) \in Nat
        /\ Upto(at, k) < Upto(at, i) + (k - i)
    BY <1>1, <1>10, <2>1, CountBetween
  <2> QED
    BY <1>1, <2>1, <2>2
<1>11. \A i, k \in rest : place[i] = place[k] => i = k
  <2> SUFFICES ASSUME NEW i \in rest, NEW k \in rest, i # k PROVE place[i] # place[k]
    OBVIOUS
  <2>1. i \in Int /\ k \in Int /\ place[i] \in Int /\ place[k] \in Int
    BY <1>1, <1>7
  <2>2. CASE i < k
    BY <1>10, <2>1, <2>2
  <2>3. CASE k < i
    BY <1>10, <2>1, <2>3
  <2> QED
    BY <2>1, <2>2, <2>3
<1>12. \A j \in 1..Len(a) : \E i \in rest : place[i] = j
  <2>1. IsFiniteSet(1..n) /\ Cardinality(1..n) = n
    <3>1. 1 \in Int /\ n \in Int /\ 1 <= n + 1 /\ n - 1 + 1 = n
      BY <1>1
    <3>2. IsFiniteSet(1..n) /\ Cardinality(1..n) = n - 1 + 1
      BY <3>1, IntervalSize
    <3> QED
      BY <3>1, <3>2
  <2>2. IsFiniteSet(at) /\ (1..n) \cap at = at
    BY <1>2, <2>1, FS_Subset
  <2>3. IsFiniteSet(rest) /\ Cardinality(rest) = Len(a)
    <3>1. /\ IsFiniteSet(rest)
          /\ Cardinality(rest) = Cardinality(1..n) - Cardinality((1..n) \cap at)
      BY <2>1, FS_Difference
    <3>2. n - Len(b) = Len(a)
      BY <1>1 DEF n
    <3> QED
      BY <1>2, <2>1, <2>2, <3>1, <3>2
  <2>4. IsFiniteSet(1..Len(a)) /\ Cardinality(1..Len(a)) = Len(a)
    BY <1>1, IntervalSize
  <2>5. place \in Injection(rest, 1..Len(a))
    BY <1>7, <1>11 DEF Injection, IsInjective
  <2>6. place \in Surjection(rest, 1..Len(a))
    BY <2>3, <2>4, <2>5, FS_Injection
  <2> QED
    BY <2>6 DEF Surjection
<1> HIDE DEF place
<1>13. Interleaves(q, a, b, at, place)
  BY <1>6, <1>7, <1>8, <1>9, <1>10, <1>11, <1>12 DEF Interleaves
<1> QED
  BY <1>6, <1>13

At(x, q) == {i \in 1..Len(q) : q[i] = x}
AtMostOne(x, q) == \A i, k \in At(x, q) : i = k

(* An element that is not in the second list is in the merged list as      *)
(* often as in the first: here, at most once, and once if it was there.    *)
LEMMA MergedKeeps ==
    ASSUME NEW S, NEW a \in Seq(S), NEW b \in Seq(S), NEW q \in Merged(a, b), NEW x,
           \A j \in 1..Len(b) : b[j] # x,
           AtMostOne(x, a)
    PROVE  /\ q \in Seq(S)
           /\ AtMostOne(x, q)
           /\ At(x, q) = {} <=> At(x, a) = {}
<1>1. q \in Seq(S)
  BY MergedShape
<1>2. PICK at, place : Interleaves(q, a, b, at, place)
  BY MergedShape
<1>3. ASSUME NEW i \in At(x, q) PROVE i \in (1..Len(q)) \ at /\ place[i] \in At(x, a)
  <2>1. i \in 1..Len(q) /\ q[i] = x
    BY DEF At
  <2>2. i \notin at
    BY <1>2, <2>1 DEF Interleaves
  <2>3. a[place[i]] = x /\ place[i] \in 1..Len(a)
    BY <1>2, <2>1, <2>2 DEF Interleaves
  <2> QED
    BY <2>1, <2>2, <2>3 DEF At
<1>4. AtMostOne(x, q)
  <2> SUFFICES ASSUME NEW i \in At(x, q), NEW k \in At(x, q) PROVE i = k
    BY DEF AtMostOne
  <2>1. place[i] = place[k]
    BY <1>3 DEF AtMostOne
  <2> QED
    BY <1>2, <1>3, <2>1 DEF Interleaves
<1>5. ASSUME NEW j \in At(x, a) PROVE At(x, q) # {}
  <2>1. j \in 1..Len(a) /\ a[j] = x
    BY DEF At
  <2>2. PICK i \in (1..Len(q)) \ at : place[i] = j
    BY <1>2, <2>1 DEF Interleaves
  <2>3. i \in At(x, q)
    BY <1>2, <2>1, <2>2 DEF At, Interleaves
  <2> QED
    BY <2>3
<1> QED
  BY <1>1, <1>3, <1>4, <1>5

LEMMA AppendKeeps ==
    ASSUME NEW S, NEW a \in Seq(S), NEW y \in S, NEW x
    PROVE  /\ Append(a, y) \in Seq(S)
           /\ y # x => At(x, Append(a, y)) = At(x, a)
           /\ y = x /\ At(x, a) = {} => At(x, Append(a, y)) = {Len(a) + 1}
<1>1. /\ Append(a, y) \in Seq(S) /\ Len(Append(a, y)) = Len(a) + 1 /\ Len(a) \in Nat
      /\ \A i \in 1..Len(a) : Append(a, y)[i] = a[i]
      /\ Append(a, y)[Len(a) + 1] = y
  OBVIOUS
<1>2. 1..(Len(a) + 1) = (1..Len(a)) \cup {Len(a) + 1} /\ Len(a) + 1 \notin 1..Len(a)
  BY <1>1
<1> QED
  BY <1>1, <1>2 DEF At

(* Taking the front element off.                                           *)
LEMMA TailKeeps ==
    ASSUME NEW S, NEW a \in Seq(S), a # <<>>, NEW x, AtMostOne(x, a)
    PROVE  /\ Head(a) \in S /\ Tail(a) \in Seq(S)
           /\ Head(a) = x => At(x, Tail(a)) = {} /\ At(x, a) # {}
           /\ Head(a) # x => /\ AtMostOne(x, Tail(a))
                             /\ At(x, Tail(a)) = {} <=> At(x, a) = {}
<1>1. /\ Head(a) \in S /\ Head(a) = a[1] /\ Tail(a) \in Seq(S)
      /\ Len(a) \in Nat \ {0} /\ Len(Tail(a)) = Len(a) - 1
      /\ \A i \in 1..Len(Tail(a)) : Tail(a)[i] = a[i + 1] /\ i + 1 \in 1..Len(a)
  OBVIOUS
<1>2. ASSUME NEW i \in At(x, Tail(a)) PROVE i \in Int /\ i # 0 /\ i + 1 \in At(x, a)
  <2>1. i \in 1..Len(Tail(a)) /\ Tail(a)[i] = x
    BY DEF At
  <2>2. a[i + 1] = x /\ i + 1 \in 1..Len(a) /\ i \in Int /\ i # 0
    BY <1>1, <2>1
  <2> QED
    BY <2>2 DEF At
<1>3. ASSUME Head(a) = x PROVE At(x, Tail(a)) = {} /\ At(x, a) # {}
  <2>1. 1 \in At(x, a)
    BY <1>1, <1>3 DEF At
  <2>2. ASSUME NEW i \in At(x, Tail(a)) PROVE FALSE
    <3>1. i + 1 = 1
      BY <1>2, <2>1 DEF AtMostOne
    <3> QED
      BY <1>2, <3>1
  <2> QED
    BY <2>1, <2>2
<1>4. ASSUME Head(a) # x
      PROVE  /\ AtMostOne(x, Tail(a))
             /\ At(x, Tail(a)) = {} <=> At(x, a) = {}
  <2>1. ASSUME NEW i \in At(x, Tail(a)), NEW k \in At(x, Tail(a)) PROVE i = k
    <3>1. i + 1 = k + 1 /\ i \in Int /\ k \in Int
      BY <1>2 DEF AtMostOne
    <3> QED
      BY <3>1
  <2>2. ASSUME NEW j \in At(x, a) PROVE At(x, Tail(a)) # {}
    <3>1. j \in 1..Len(a) /\ a[j] = x /\ j # 1
      BY <1>1, <1>4 DEF At
    <3>2. j - 1 \in 1..Len(Tail(a)) /\ (j - 1) + 1 = j
      BY <1>1, <3>1
    <3>3. Tail(a)[j - 1] = a[j]
      BY <1>1, <3>2
    <3>4. j - 1 \in At(x, Tail(a))
      BY <3>1, <3>2, <3>3 DEF At
    <3> QED
      BY <3>4
  <2> QED
    BY <1>2, <2>1, <2>2 DEF AtMostOne
<1> QED
  BY <1>1, <1>3, <1>4

-----------------------------------------------------------------------------
(* The invariant.                                                          *)

Types ==
    /\ service \in Services
    /\ op_que \in Seq(Elements)
    /\ private_op_que \in [Runners -> Seq(Ops \cup Sets)]
    /\ deferred \in [Threads -> Seq(Ops)]
    /\ pc \in [Threads -> Pc]
    /\ arg \in [Threads -> Ops \cup {None}]
    /\ cur \in [Runners -> Ops \cup Sets \cup {None}]
    /\ waiting \in [Sets -> SUBSET Ops] /\ ready \in SUBSET Sets

(* What a thread's place tells of the operation it is about.               *)
Stages ==
    /\ \A t \in Threads : pc[t] \in {"post_store", "post_push"} => arg[t] \in Ops
    /\ \A r \in Runners : pc[r] = "set" => cur[r] \in Sets

(* Without a reactor there is no task, and nobody polls.                   *)
TaskIsPlaced ==
    /\ OneTask
    /\ ~poller => TaskPlaces = {} /\ Pollers = {}

ServiceInv == Types /\ Stages /\ TaskIsPlaced

LEMMA NamesAreApart ==
    /\ Runners \subseteq Threads
    /\ Task \notin Ops /\ Task \notin Sets /\ None \notin Ops /\ None \notin Sets
    /\ Ops \cap Sets = {} /\ IsFiniteSet(Ops) /\ IsFiniteSet(Sets)
    /\ \A x \in Services : x.ops \subseteq Ops
BY TaskIoAssumption DEF Threads

LEMMA TasksAreAt == ASSUME Types PROVE TaskPlaces = At(Task, op_que)
BY DEF Types, TaskPlaces, At

LEMMA ServiceStarts == Init => ServiceInv
<1> SUFFICES ASSUME Init PROVE ServiceInv
  OBVIOUS
<1>1. Types
  <2>1. "out" \in Pc
    BY DEF Pc
  <2>2. deferred \in [Threads -> Seq(Ops)] /\ private_op_que \in [Runners -> Seq(Ops \cup Sets)]
    BY DEF Init
  <2>3. pc \in [Threads -> Pc] /\ waiting \in [Sets -> SUBSET Ops]
    BY <2>1 DEF Init
  <2>4. arg \in [Threads -> Ops \cup {None}] /\ cur \in [Runners -> Ops \cup Sets \cup {None}]
    BY DEF Init
  <2>5. service \in Services /\ op_que \in Seq(Elements) /\ ready = {}
    BY DEF Init
  <2> QED
    BY <2>2, <2>3, <2>4, <2>5 DEF Types
<1>2. Stages
  BY DEF Init, Stages, Threads
<1>3. TaskPlaces = {} /\ Pollers = {}
  BY DEF Init, TaskPlaces, Pollers, Threads
<1> QED
  BY <1>1, <1>2, <1>3 DEF ServiceInv, TaskIsPlaced, OneTask, Init

LEMMA TaskKept ==
    ASSUME TaskIsPlaced, op_que' = op_que, poller' = poller, Pollers' = Pollers
    PROVE  TaskIsPlaced'
BY DEF TaskIsPlaced, OneTask, TaskPlaces

(* A queue that has the task as often as before.                           *)
LEMMA TaskStays ==
    ASSUME Types, TaskIsPlaced, poller' = poller, Pollers' = Pollers,
           op_que' \in Seq(Elements),
           AtMostOne(Task, op_que'),
           At(Task, op_que') = {} <=> At(Task, op_que) = {}
    PROVE  TaskIsPlaced'
<1>1. TaskPlaces = At(Task, op_que) /\ TaskPlaces' = At(Task, op_que')
  BY DEF Types, TaskPlaces, At
<1> QED
  BY <1>1, Zenon DEF TaskIsPlaced, OneTask, AtMostOne

LEMMA AtMostOneTask == ASSUME Types, TaskIsPlaced PROVE AtMostOne(Task, op_que)
BY TasksAreAt DEF Types, TaskIsPlaced, OneTask, AtMostOne

(* A thread goes from one place to another.                                *)
LEMMA Moves ==
    ASSUME pc \in [Threads -> Pc], NEW t \in Threads, NEW to \in Pc, Goto(t, to)
    PROVE  /\ pc' \in [Threads -> Pc] /\ pc'[t] = to
           /\ \A u \in Threads : u # t => pc'[u] = pc[u]
           /\ pc[t] \notin {"poll", "polled"} /\ to \notin {"poll", "polled"}
                => Pollers' = Pollers
BY DEF Goto, Pollers, Threads

LEMMA HomeIsPlace == \A t : Home(t) \in Pc /\ Home(t) \in {"out", "handler"}
BY DEF Home, Pc

(* Steps that do no more than move a thread to a place where nothing is    *)
(* asked of it.                                                            *)
OnlyMoves(t, to) ==
    /\ Goto(t, to) /\ to \in Pc
    /\ pc[t] \notin {"poll", "polled"}
    /\ to \notin {"poll", "polled", "post_store", "set"}
    /\ to = "post_push" => pc[t] = "post_store"
    /\ cur' \in {cur, [cur EXCEPT ![t] = None]}
    /\ UNCHANGED <<service, poller, op_que, private_op_que, deferred, arg, waiting, ready>>

LEMMA MoveKeeps ==
    ASSUME ServiceInv, NEW t \in Threads, NEW to, OnlyMoves(t, to)
    PROVE  ServiceInv'
<1>1. Types /\ Stages /\ TaskIsPlaced
  BY DEF ServiceInv
<1>2. /\ pc' \in [Threads -> Pc] /\ pc'[t] = to
      /\ \A u \in Threads : u # t => pc'[u] = pc[u]
      /\ Pollers' = Pollers
  BY <1>1, Moves DEF Types, OnlyMoves
<1>3. Types'
  BY <1>1, <1>2 DEF Types, OnlyMoves
<1>4. Stages'
  <2>1. ASSUME NEW u \in Threads, pc'[u] \in {"post_store", "post_push"} PROVE arg'[u] \in Ops
    BY <1>1, <1>2, <2>1 DEF Stages, OnlyMoves
  <2>2. ASSUME NEW r \in Runners, pc'[r] = "set" PROVE cur'[r] \in Sets
    <3>1. r # t /\ r \in Threads /\ pc[r] = "set"
      BY <1>2, <2>2, NamesAreApart DEF OnlyMoves
    <3>2. cur'[r] = cur[r]
      BY <1>1, <3>1 DEF Types, OnlyMoves
    <3> QED
      BY <1>1, <3>1, <3>2 DEF Stages
  <2> QED
    BY <2>1, <2>2 DEF Stages
<1>5. TaskIsPlaced'
  BY <1>1, <1>2, TaskKept DEF OnlyMoves
<1> QED
  BY <1>3, <1>4, <1>5 DEF ServiceInv

LEMMA MovingSteps ==
    ASSUME NEW r \in Runners,
           \/ Run(r) \/ RunNoWork(r) \/ Leave(r) \/ GoIdle(r) \/ WakeUp(r)
           \/ NoneLoad(r) \/ NoneStore(r) \/ Return(r) \/ WorkCleanup(r)
           \/ CleanStore(r) \/ FinishStore(r) \/ FinishStop(r)
    PROVE  \E to : OnlyMoves(r, to)
<1> USE DEF OnlyMoves, Pc, queueVars, lifeVars, workVars, runnerVars, reactorVars, callVars
<1>1. ASSUME Run(r) PROVE OnlyMoves(r, "stop_out") \/ OnlyMoves(r, "top")
  BY <1>1 DEF Run
<1>2. ASSUME RunNoWork(r) PROVE OnlyMoves(r, "out")
  BY <1>2 DEF RunNoWork, StopFrom
<1>3. ASSUME Leave(r) PROVE OnlyMoves(r, "out")
  BY <1>3 DEF Leave
<1>4. ASSUME GoIdle(r) PROVE OnlyMoves(r, "wait")
  BY <1>4 DEF GoIdle
<1>5. ASSUME WakeUp(r) PROVE OnlyMoves(r, "top")
  BY <1>5 DEF WakeUp
<1>6. ASSUME NoneLoad(r) PROVE OnlyMoves(r, "none_store")
  BY <1>6 DEF NoneLoad
<1>7. ASSUME NoneStore(r) PROVE OnlyMoves(r, "clean")
  BY <1>7 DEF NoneStore
<1>8. ASSUME Return(r) PROVE OnlyMoves(r, "clean")
  BY <1>8 DEF Return
<1>9. ASSUME WorkCleanup(r)
      PROVE  \/ OnlyMoves(r, "merge") \/ OnlyMoves(r, "clean_store")
             \/ OnlyMoves(r, "finish_store")
  BY <1>9 DEF WorkCleanup
<1>10. ASSUME CleanStore(r) PROVE OnlyMoves(r, "clean")
  BY <1>10 DEF CleanStore
<1>11. ASSUME FinishStore(r) PROVE OnlyMoves(r, "finish_stop") \/ OnlyMoves(r, "merge")
  BY <1>11 DEF FinishStore
<1>12. ASSUME FinishStop(r) PROVE OnlyMoves(r, "merge")
  BY <1>12 DEF FinishStop, StopFrom
<1> HIDE DEF OnlyMoves
<1> QED
  BY <1>1, <1>2, <1>3, <1>4, <1>5, <1>6, <1>7, <1>8, <1>9, <1>10, <1>11, <1>12

LEMMA StagesFollow ==
    ASSUME Stages, NEW t \in Threads,
           \A u \in Threads : u # t => pc'[u] = pc[u] /\ arg'[u] = arg[u],
           \A r \in Runners : r # t => cur'[r] = cur[r],
           pc'[t] \in {"post_store", "post_push"} => arg'[t] \in Ops,
           pc'[t] = "set" => cur'[t] \in Sets
    PROVE  Stages'
BY NamesAreApart DEF Stages

(* Steps that leave the threads where they are.                            *)
LEMMA StandingKeeps ==
    ASSUME ServiceInv, op_que' = op_que, poller' = poller, Types',
           pc' = pc, arg' = arg, cur' = cur
    PROVE  ServiceInv'
<1>1. Stages' /\ Pollers' = Pollers
  BY DEF ServiceInv, Stages, Pollers
<1> QED
  BY <1>1, TaskKept DEF ServiceInv

(* Steps of a thread, at its call and after it, that leave the queue.      *)
LEMMA CallKeeps ==
    ASSUME ServiceInv, op_que' = op_que, poller' = poller, Types',
           NEW t \in Threads, NEW to \in Pc, Goto(t, to),
           pc[t] \notin {"poll", "polled"}, to \notin {"poll", "polled"},
           \A u \in Threads : u # t => arg'[u] = arg[u],
           \A r \in Runners : r # t => cur'[r] = cur[r],
           to \in {"post_store", "post_push"} => arg'[t] \in Ops,
           to = "set" => cur'[t] \in Sets
    PROVE  ServiceInv'
<1>1. Types /\ Stages /\ TaskIsPlaced
  BY DEF ServiceInv
<1>2. /\ pc' \in [Threads -> Pc] /\ pc'[t] = to
      /\ \A u \in Threads : u # t => pc'[u] = pc[u]
      /\ Pollers' = Pollers
  BY <1>1, Moves DEF Types
<1>3. Stages'
  BY <1>1, <1>2, StagesFollow
<1>4. TaskIsPlaced'
  BY <1>1, <1>2, TaskKept
<1> QED
  BY <1>3, <1>4 DEF ServiceInv

LEMMA StandingSteps ==
    ASSUME ServiceInv,
           \/ \E t \in Threads : \/ \E o \in service.ops : PostPrivate(t, o)
                                \/ Stop(t) \/ Reset(t)
           \/ \E s \in Sets : Event(s)
           \/ UNCHANGED vars
    PROVE  ServiceInv'
<1> USE DEF queueVars, lifeVars, workVars, runnerVars, reactorVars, callVars
<1>0. Types
  BY DEF ServiceInv
<1>1. ASSUME NEW t \in Threads, NEW o \in service.ops, PostPrivate(t, o) PROVE ServiceInv'
  <2>1. /\ op_que' = op_que /\ poller' = poller /\ pc' = pc /\ arg' = arg /\ cur' = cur
        /\ service' = service /\ deferred' = deferred /\ waiting' = waiting /\ ready' = ready
        /\ private_op_que' = [private_op_que EXCEPT ![t] = Append(@, o)]
    BY <1>1 DEF PostPrivate
  <2>2. o \in Ops
    BY <1>0, NamesAreApart DEF Types
  <2>3. private_op_que' \in [Runners -> Seq(Ops \cup Sets)]
    <3>1. CASE t \in Runners
      <4>1. private_op_que[t] \in Seq(Ops \cup Sets)
        BY <1>0, <3>1 DEF Types
      <4>2. Append(private_op_que[t], o) \in Seq(Ops \cup Sets)
        BY <2>2, <4>1
      <4> QED
        BY <1>0, <2>1, <4>2 DEF Types
    <3>2. CASE t \notin Runners
      BY <1>0, <2>1, <3>2 DEF Types
    <3> QED
      BY <3>1, <3>2
  <2>4. Types'
    BY <1>0, <2>1, <2>3 DEF Types
  <2> QED
    BY <2>1, <2>4, StandingKeeps
<1>2. ASSUME \/ \E t \in Threads : Stop(t) \/ Reset(t)
             \/ \E s \in Sets : Event(s)
             \/ UNCHANGED vars
      PROVE  ServiceInv'
  <2>1. /\ op_que' = op_que /\ poller' = poller /\ pc' = pc /\ arg' = arg /\ cur' = cur
        /\ service' = service /\ deferred' = deferred /\ waiting' = waiting
        /\ private_op_que' = private_op_que
        /\ ready' \in {ready} \cup {ready \cup {s} : s \in Sets}
    BY <1>2, Zenon DEF Stop, Reset, Event, vars
  <2>2. Types'
    BY <1>0, <2>1 DEF Types
  <2> QED
    BY <2>1, <2>2, StandingKeeps
<1> QED
  BY <1>1, <1>2

LEMMA OrdersAreSeqs ==
    ASSUME NEW S, IsFiniteSet(S), NEW q \in Orders(S) PROVE q \in Seq(S)
<1>1. Cardinality(S) \in Nat
  BY FS_CardinalityType
<1>2. q \in [1..Cardinality(S) -> S]
  BY DEF Orders
<1> QED
  BY <1>1, <1>2

LEMMA CallSteps ==
    ASSUME ServiceInv, NEW t \in Threads,
           \/ \E o \in service.ops : PostLoad(t, o)
           \/ \E s \in Sets, o \in service.ops : StartLoad(t, s, o)
           \/ \E s \in Sets : CancelOps(t, s)
           \/ PostStore(t) \/ StartStore(t)
    PROVE  ServiceInv'
<1> USE DEF queueVars, lifeVars, workVars, runnerVars, reactorVars, callVars
<1>0. Types /\ service.ops \subseteq Ops
  BY NamesAreApart DEF ServiceInv, Types
<1>1. ASSUME NEW o \in service.ops, PostLoad(t, o) PROVE ServiceInv'
  <2>1. /\ Goto(t, "post_store") /\ "post_store" \in Pc /\ pc[t] \notin {"poll", "polled"}
        /\ op_que' = op_que /\ poller' = poller /\ cur' = cur
        /\ service' = service /\ deferred' = deferred /\ waiting' = waiting /\ ready' = ready
        /\ private_op_que' = private_op_que /\ arg' = [arg EXCEPT ![t] = o]
    BY <1>1, HomeIsPlace DEF PostLoad, Calls, Pc, ApiPc
  <2>2. arg'[t] \in Ops /\ \A u \in Threads : u # t => arg'[u] = arg[u]
    BY <1>0, <2>1 DEF Types
  <2>3. Types'
    BY <1>0, <2>1, Moves DEF Types
  <2> QED
    BY <2>1, <2>2, <2>3, CallKeeps
<1>2. ASSUME NEW s \in Sets, NEW o \in service.ops, StartLoad(t, s, o) PROVE ServiceInv'
  <2>1. /\ Goto(t, "start_store") /\ "start_store" \in Pc /\ pc[t] \notin {"poll", "polled"}
        /\ op_que' = op_que /\ poller' = poller /\ cur' = cur
        /\ service' = service /\ deferred' = deferred /\ ready' = ready
        /\ waiting' = [waiting EXCEPT ![s] = @ \cup {o}]
        /\ private_op_que' = private_op_que /\ arg' = [arg EXCEPT ![t] = o]
    BY <1>2, HomeIsPlace DEF StartLoad, Calls, Pc, ApiPc
  <2>2. \A u \in Threads : u # t => arg'[u] = arg[u]
    BY <1>0, <2>1 DEF Types
  <2>3. Types'
    BY <1>0, <2>1, Moves DEF Types
  <2> QED
    BY <2>1, <2>2, <2>3, CallKeeps
<1>3. ASSUME NEW s \in Sets, CancelOps(t, s) PROVE ServiceInv'
  <2>1. PICK d \in Orders(waiting[s]) : deferred' = [deferred EXCEPT ![t] = d]
    BY <1>3 DEF CancelOps
  <2>2. /\ Goto(t, "defer") /\ "defer" \in Pc /\ pc[t] \notin {"poll", "polled"}
        /\ op_que' = op_que /\ poller' = poller /\ cur' = cur /\ arg' = arg
        /\ service' = service /\ ready' = ready
        /\ waiting' = [waiting EXCEPT ![s] = {}]
        /\ private_op_que' = private_op_que
    BY <1>3, HomeIsPlace DEF CancelOps, Calls, Pc, ApiPc
  <2>3. waiting[s] \subseteq Ops
    BY <1>0 DEF Types
  <2>4. IsFiniteSet(waiting[s])
    BY <2>3, NamesAreApart, FS_Subset
  <2>5. d \in Seq(waiting[s])
    BY <2>4, OrdersAreSeqs
  <2>6. d \in Seq(Ops)
    BY <2>3, <2>5
  <2>7. Types'
    BY <1>0, <2>1, <2>2, <2>6, Moves DEF Types
  <2> QED
    BY <2>2, <2>7, CallKeeps
<1>4. ASSUME PostStore(t) PROVE ServiceInv'
  <2>1. OnlyMoves(t, "post_push")
    BY <1>4 DEF PostStore, OnlyMoves, Pc, ApiPc
  <2> QED
    BY <2>1, MoveKeeps
<1>5. ASSUME StartStore(t) PROVE ServiceInv'
  <2>1. /\ Goto(t, Home(t)) /\ Home(t) \in Pc /\ Home(t) \in {"out", "handler"}
        /\ pc[t] \notin {"poll", "polled"}
        /\ op_que' = op_que /\ poller' = poller /\ cur' = cur
        /\ service' = service /\ deferred' = deferred /\ waiting' = waiting /\ ready' = ready
        /\ private_op_que' = private_op_que /\ arg' = [arg EXCEPT ![t] = None]
    BY <1>5, HomeIsPlace DEF StartStore
  <2>2. \A u \in Threads : u # t => arg'[u] = arg[u]
    BY <1>0, <2>1 DEF Types
  <2>3. Types'
    BY <1>0, <2>1, Moves DEF Types
  <2> QED
    BY <2>1, <2>2, <2>3, CallKeeps
<1> QED
  BY <1>1, <1>2, <1>3, <1>4, <1>5

(* Steps that change the queue, but not whether the task is in it.         *)
LEMMA QueueKeeps ==
    ASSUME ServiceInv, poller' = poller, Types',
           AtMostOne(Task, op_que'),
           At(Task, op_que') = {} <=> At(Task, op_que) = {},
           NEW t \in Threads, NEW to \in Pc, Goto(t, to),
           pc[t] \notin {"poll", "polled"}, to \notin {"poll", "polled"},
           \A u \in Threads : u # t => arg'[u] = arg[u],
           \A r \in Runners : r # t => cur'[r] = cur[r],
           to \in {"post_store", "post_push"} => arg'[t] \in Ops,
           to = "set" => cur'[t] \in Sets
    PROVE  ServiceInv'
<1>1. Types /\ Stages /\ TaskIsPlaced
  BY DEF ServiceInv
<1>2. /\ pc' \in [Threads -> Pc] /\ pc'[t] = to
      /\ \A u \in Threads : u # t => pc'[u] = pc[u]
      /\ Pollers' = Pollers
  BY <1>1, Moves DEF Types
<1>3. Stages'
  BY <1>1, <1>2, StagesFollow
<1>4. op_que' \in Seq(Elements)
  BY DEF Types
<1>5. TaskIsPlaced'
  BY <1>1, <1>2, <1>4, TaskStays
<1> QED
  BY <1>3, <1>5 DEF ServiceInv

LEMMA MergedTask ==
    ASSUME ServiceInv, NEW b \in Seq(Ops \cup Sets), NEW q \in Merged(op_que, b)
    PROVE  /\ q \in Seq(Elements)
           /\ AtMostOne(Task, q)
           /\ At(Task, q) = {} <=> At(Task, op_que) = {}
<1>1. op_que \in Seq(Elements) /\ b \in Seq(Elements)
  BY DEF ServiceInv, Types, Elements
<1>2. \A j \in 1..Len(b) : b[j] # Task
  BY NamesAreApart
<1>3. AtMostOne(Task, op_que)
  BY AtMostOneTask DEF ServiceInv
<1> QED
  BY <1>1, <1>2, <1>3, MergedKeeps

LEMMA PostPushKeeps ==
    ASSUME ServiceInv, NEW t \in Threads, PostPush(t) PROVE ServiceInv'
<1>0. Types /\ Stages
  BY DEF ServiceInv
<1>1. /\ Goto(t, Home(t)) /\ Home(t) \in Pc /\ Home(t) \in {"out", "handler"}
      /\ pc[t] = "post_push"
      /\ poller' = poller /\ cur' = cur
      /\ service' = service /\ deferred' = deferred /\ waiting' = waiting /\ ready' = ready
      /\ private_op_que' = private_op_que /\ arg' = [arg EXCEPT ![t] = None]
      /\ op_que' = Append(op_que, arg[t])
  BY HomeIsPlace DEF PostPush, lifeVars, reactorVars
<1>2. arg[t] \in Elements /\ arg[t] # Task
  BY <1>0, <1>1, NamesAreApart DEF Stages, Elements
<1>3. op_que' \in Seq(Elements) /\ At(Task, op_que') = At(Task, op_que)
  BY <1>0, <1>1, <1>2, AppendKeeps DEF Types
<1>6. AtMostOne(Task, op_que')
  BY <1>0, <1>3, AtMostOneTask DEF ServiceInv, AtMostOne
<1>4. \A u \in Threads : u # t => arg'[u] = arg[u]
  BY <1>0, <1>1 DEF Types
<1>5. Types'
  BY <1>0, <1>1, <1>3, Moves DEF Types
<1> QED
  BY <1>1, <1>3, <1>4, <1>5, <1>6, QueueKeeps

LEMMA DeferredKeeps ==
    ASSUME ServiceInv, NEW t \in Threads, NEW from, NEW to \in Pc, Deferred(t, from, to),
           from \notin {"poll", "polled"}, to \in {"out", "handler"}
    PROVE  ServiceInv'
<1>0. Types
  BY DEF ServiceInv
<1>1. /\ Goto(t, to) /\ pc[t] = from
      /\ poller' = poller /\ cur' = cur /\ arg' = arg
      /\ service' = service /\ waiting' = waiting /\ ready' = ready
      /\ deferred' = [deferred EXCEPT ![t] = <<>>]
      /\ \/ /\ \E q \in Merged(private_op_que[t], deferred[t]) :
                   private_op_que' = [private_op_que EXCEPT ![t] = q]
            /\ op_que' = op_que
         \/ /\ op_que' \in Merged(op_que, deferred[t])
            /\ private_op_que' = private_op_que
  BY DEF Deferred, lifeVars, reactorVars, queueVars
<1>2. deferred[t] \in Seq(Ops) /\ deferred[t] \in Seq(Ops \cup Sets)
  BY <1>0 DEF Types
<1>3. deferred' \in [Threads -> Seq(Ops)] /\ pc' \in [Threads -> Pc]
  BY <1>0, <1>1, Moves DEF Types
<1>4. CASE op_que' = op_que
  <2>1. private_op_que' \in [Runners -> Seq(Ops \cup Sets)]
    <3>1. ASSUME t \in Runners, NEW q \in Merged(private_op_que[t], deferred[t])
          PROVE  q \in Seq(Ops \cup Sets)
      BY <1>0, <1>2, <3>1, MergedShape DEF Types
    <3> QED
      BY <1>0, <1>1, <3>1 DEF Types
  <2>2. Types'
    BY <1>0, <1>1, <1>3, <1>4, <2>1 DEF Types
  <2> QED
    BY <1>1, <1>4, <2>2, CallKeeps
<1>5. CASE op_que' \in Merged(op_que, deferred[t]) /\ private_op_que' = private_op_que
  <2>1. /\ op_que' \in Seq(Elements)
        /\ AtMostOne(Task, op_que')
        /\ At(Task, op_que') = {} <=> At(Task, op_que) = {}
    BY <1>2, <1>5, MergedTask
  <2>2. Types'
    BY <1>0, <1>1, <1>3, <1>5, <2>1 DEF Types
  <2> QED
    BY <1>1, <2>1, <2>2, QueueKeeps
<1> QED
  BY <1>1, <1>4, <1>5

LEMMA MergePrivateKeeps ==
    ASSUME ServiceInv, NEW r \in Runners, MergePrivate(r) PROVE ServiceInv'
<1>0. Types /\ r \in Threads /\ "top" \in Pc
  BY NamesAreApart DEF ServiceInv, Pc
<1>1. /\ Goto(r, "top") /\ pc[r] = "merge"
      /\ poller' = poller /\ cur' = cur /\ arg' = arg /\ deferred' = deferred
      /\ service' = service /\ waiting' = waiting /\ ready' = ready
      /\ \/ op_que' = op_que /\ private_op_que' = private_op_que
         \/ /\ op_que' \in Merged(op_que, private_op_que[r])
            /\ private_op_que' = [private_op_que EXCEPT ![r] = <<>>]
  BY DEF MergePrivate, lifeVars, reactorVars, callVars
<1>2. /\ pc' \in [Threads -> Pc] /\ private_op_que' \in [Runners -> Seq(Ops \cup Sets)]
  <2>1. pc' \in [Threads -> Pc]
    BY <1>0, <1>1, Moves DEF Types
  <2>2. <<>> \in Seq(Ops \cup Sets)
    OBVIOUS
  <2> QED
    BY <1>0, <1>1, <2>1, <2>2 DEF Types
<1>3. CASE op_que' = op_que
  <2>1. Types'
    BY <1>0, <1>1, <1>2, <1>3 DEF Types
  <2> QED
    BY <1>0, <1>1, <1>3, <2>1, CallKeeps
<1>4. CASE op_que' \in Merged(op_que, private_op_que[r])
  <2>1. private_op_que[r] \in Seq(Ops \cup Sets)
    BY <1>0 DEF Types
  <2>2. /\ op_que' \in Seq(Elements)
        /\ AtMostOne(Task, op_que')
        /\ At(Task, op_que') = {} <=> At(Task, op_que) = {}
    BY <1>4, <2>1, MergedTask
  <2>3. Types'
    BY <1>0, <1>1, <1>2, <2>2 DEF Types
  <2> QED
    BY <1>0, <1>1, <2>2, <2>3, QueueKeeps
<1> QED
  BY <1>1, <1>3, <1>4

(* The reactor starts with its task at the end of the queue, and goes with *)
(* the queue when no thread is in the service.                             *)
LEMMA InitTaskKeeps ==
    ASSUME ServiceInv, NEW t \in Threads, InitTask(t) PROVE ServiceInv'
<1>0. Types /\ Stages /\ TaskIsPlaced
  BY DEF ServiceInv
<1>1. /\ ~poller /\ poller' = TRUE /\ op_que' = Append(op_que, Task)
      /\ service' = service /\ private_op_que' = private_op_que /\ deferred' = deferred
      /\ pc' = pc /\ arg' = arg /\ cur' = cur /\ waiting' = waiting /\ ready' = ready
  BY DEF InitTask, reactorVars, callVars
<1>2. TaskPlaces = {} /\ Pollers = {}
  BY <1>0, <1>1, Zenon DEF TaskIsPlaced
<1>3. Task \in Elements /\ op_que \in Seq(Elements) /\ At(Task, op_que) = {}
  BY <1>0, <1>2, TasksAreAt DEF Types, Elements
<1>4. op_que' \in Seq(Elements) /\ At(Task, op_que') = {Len(op_que) + 1}
  BY <1>1, <1>3, AppendKeeps
<1>5. Types' /\ Stages'
  BY <1>0, <1>1, <1>4 DEF Types, Stages
<1>6. TaskPlaces' = {Len(op_que) + 1}
  BY <1>4 DEF TaskPlaces, At, Types
<1>7. Pollers' = {}
  BY <1>1, <1>2 DEF Pollers
<1>8. TaskIsPlaced'
  BY <1>1, <1>6, <1>7 DEF TaskIsPlaced, OneTask
<1> QED
  BY <1>5, <1>8 DEF ServiceInv

LEMMA ShutdownKeeps ==
    ASSUME ServiceInv, ShutdownService PROVE ServiceInv'
<1>0. Types /\ Stages
  BY DEF ServiceInv
<1>1. /\ poller' = FALSE /\ op_que' = <<>> /\ \A t \in Threads : pc[t] = "out"
      /\ service' = service /\ private_op_que' = private_op_que /\ deferred' = deferred
      /\ pc' = pc /\ arg' = arg /\ cur' = cur /\ waiting' = waiting /\ ready' = ready
  BY DEF ShutdownService, runnerVars, reactorVars, callVars
<1>2. Types' /\ Stages'
  BY <1>0, <1>1 DEF Types, Stages
<1>3. TaskPlaces' = {}
  BY <1>1 DEF TaskPlaces
<1>4. Pollers' = {}
  BY <1>1, NamesAreApart DEF Pollers
<1>5. TaskIsPlaced'
  BY <1>1, <1>3, <1>4 DEF TaskIsPlaced, OneTask
<1> QED
  BY <1>2, <1>5 DEF ServiceInv

(* The thread that takes the task off the queue is the only one that       *)
(* polls: the task was in the queue, so nobody did.                        *)
LEMMA TakeTaskKeeps ==
    ASSUME ServiceInv, NEW r \in Runners, TakeTask(r) PROVE ServiceInv'
<1>0. Types /\ Stages /\ TaskIsPlaced /\ r \in Threads /\ "poll" \in Pc
  BY NamesAreApart DEF ServiceInv, Pc
<1>1. /\ poller' = poller /\ op_que # <<>> /\ Head(op_que) = Task /\ op_que' = Tail(op_que)
      /\ service' = service /\ private_op_que' = private_op_que /\ deferred' = deferred
      /\ Goto(r, "poll") /\ arg' = arg /\ cur' = cur /\ waiting' = waiting /\ ready' = ready
  BY DEF TakeTask, TaskIsNext, lifeVars, reactorVars, callVars
<1>2. /\ op_que' \in Seq(Elements)
      /\ At(Task, op_que') = {} /\ At(Task, op_que) # {}
  BY <1>0, <1>1, AtMostOneTask, TailKeeps DEF Types
<1>3. TaskPlaces # {} /\ TaskPlaces' = {}
  <2>1. TaskPlaces = At(Task, op_que)
    BY <1>0, TasksAreAt
  <2>2. TaskPlaces' = At(Task, op_que')
    BY <1>2 DEF TaskPlaces, At
  <2> QED
    BY <1>2, <2>1, <2>2
<1>4. poller /\ Pollers = {}
  BY <1>0, <1>3, Zenon DEF TaskIsPlaced, OneTask
<1>5. /\ pc' \in [Threads -> Pc] /\ pc'[r] = "poll"
      /\ \A u \in Threads : u # r => pc'[u] = pc[u]
  BY <1>0, <1>1, Moves DEF Types
<1>6. Pollers' = {r}
  BY <1>4, <1>5, NamesAreApart DEF Pollers
<1>7. Types'
  BY <1>0, <1>1, <1>2, <1>5 DEF Types
<1>8. Stages'
  BY <1>0, <1>1, <1>5, StagesFollow
<1>9. TaskIsPlaced'
  <2>1. \A a, b \in Pollers' : a = b
    BY <1>6
  <2>2. \A i, k \in TaskPlaces' : i = k
    BY <1>3
  <2>3. TaskPlaces' = {} /\ Pollers' # {} /\ poller'
    BY <1>1, <1>3, <1>4, <1>6, Zenon
  <2> QED
    BY <2>1, <2>2, <2>3, Zenon DEF TaskIsPlaced, OneTask
<1> QED
  BY <1>7, <1>8, <1>9 DEF ServiceInv

LEMMA TakeOpKeeps ==
    ASSUME ServiceInv, NEW r \in Runners, TakeOp(r) PROVE ServiceInv'
<1>0. Types /\ TaskIsPlaced /\ r \in Threads /\ {"handler", "set"} \subseteq Pc
  BY NamesAreApart DEF ServiceInv, Pc
<1>1. /\ poller' = poller /\ op_que # <<>> /\ Head(op_que) # Task /\ op_que' = Tail(op_que)
      /\ service' = service /\ private_op_que' = private_op_que /\ deferred' = deferred
      /\ pc[r] = "top" /\ arg' = arg /\ waiting' = waiting /\ ready' = ready
      /\ cur' = [cur EXCEPT ![r] = Head(op_que)]
      /\ \/ Goto(r, "handler")
         \/ Goto(r, "set") /\ Head(op_que) \notin Ops
  BY DEF TakeOp, TaskIsNext, lifeVars, reactorVars, callVars
<1>2. /\ op_que' \in Seq(Elements) /\ Head(op_que) \in Elements
      /\ AtMostOne(Task, op_que')
      /\ At(Task, op_que') = {} <=> At(Task, op_que) = {}
  BY <1>0, <1>1, AtMostOneTask, TailKeeps DEF Types
<1>3. Head(op_que) \in Ops \cup Sets
  BY <1>1, <1>2 DEF Elements
<1>4. /\ cur' \in [Runners -> Ops \cup Sets \cup {None}] /\ cur'[r] = Head(op_que)
      /\ \A u \in Runners : u # r => cur'[u] = cur[u]
  BY <1>0, <1>1, <1>3 DEF Types
<1>5. pc' \in [Threads -> Pc]
  BY <1>0, <1>1, Moves DEF Types
<1>6. Types'
  BY <1>0, <1>1, <1>2, <1>4, <1>5 DEF Types
<1>7. CASE Goto(r, "handler")
  BY <1>0, <1>1, <1>2, <1>4, <1>6, <1>7, QueueKeeps
<1>8. CASE Goto(r, "set") /\ Head(op_que) \notin Ops
  BY <1>0, <1>1, <1>2, <1>3, <1>4, <1>6, <1>8, QueueKeeps
<1> QED
  BY <1>1, <1>7, <1>8

(* The end of a poll, with events or with none: the poller still is one.   *)
LEMMA PollKeeps ==
    ASSUME ServiceInv, NEW r \in Runners, Poll(r) \/ PollTimeout(r) PROVE ServiceInv'
<1>0. Types /\ Stages /\ TaskIsPlaced /\ r \in Threads /\ "polled" \in Pc
  BY NamesAreApart DEF ServiceInv, Pc
<1>1. /\ poller' = poller /\ op_que' = op_que
      /\ service' = service /\ deferred' = deferred
      /\ Goto(r, "polled") /\ pc[r] = "poll" /\ arg' = arg /\ cur' = cur /\ waiting' = waiting
      /\ ready' \in SUBSET Sets
      /\ \/ private_op_que' = private_op_que
         \/ \E q \in Orders(ready) :
               private_op_que' = [private_op_que EXCEPT ![r] = @ \o q]
  BY <1>0 DEF Poll, PollTimeout, queueVars, lifeVars, runnerVars, reactorVars, callVars, Types
<1>2. ASSUME NEW q \in Orders(ready) PROVE private_op_que[r] \o q \in Seq(Ops \cup Sets)
  <2>1. ready \subseteq Sets /\ IsFiniteSet(ready)
    BY <1>0, NamesAreApart, FS_Subset DEF Types
  <2>2. q \in Seq(ready)
    BY <2>1, OrdersAreSeqs
  <2>3. q \in Seq(Ops \cup Sets) /\ private_op_que[r] \in Seq(Ops \cup Sets)
    BY <1>0, <2>1, <2>2 DEF Types
  <2> QED
    BY <2>3
<1>3. /\ pc' \in [Threads -> Pc] /\ pc'[r] = "polled"
      /\ \A u \in Threads : u # r => pc'[u] = pc[u]
  BY <1>0, <1>1, Moves DEF Types
<1>4. Pollers' = Pollers
  BY <1>1, <1>3, NamesAreApart DEF Pollers
<1>5. private_op_que' \in [Runners -> Seq(Ops \cup Sets)]
  BY <1>0, <1>1, <1>2 DEF Types
<1>6. Types'
  BY <1>0, <1>1, <1>3, <1>5 DEF Types
<1>7. Stages'
  BY <1>0, <1>1, <1>3, StagesFollow
<1>8. TaskIsPlaced'
  BY <1>0, <1>1, <1>4, TaskKept
<1> QED
  BY <1>6, <1>7, <1>8 DEF ServiceInv

(* The poller puts the task back: it was the only one, and the queue did   *)
(* not have it.                                                            *)
LEMMA TaskCleanupKeeps ==
    ASSUME ServiceInv, NEW r \in Runners, TaskCleanup(r) PROVE ServiceInv'
<1>0. Types /\ Stages /\ TaskIsPlaced /\ r \in Threads /\ "top" \in Pc
  BY NamesAreApart DEF ServiceInv, Pc
<1>1. /\ poller' = poller /\ pc[r] = "polled" /\ Goto(r, "top")
      /\ service' = service /\ deferred' = deferred
      /\ arg' = arg /\ cur' = cur /\ waiting' = waiting /\ ready' = ready
      /\ private_op_que' = [private_op_que EXCEPT ![r] = <<>>]
      /\ \E q \in Merged(op_que, private_op_que[r]) : op_que' = Append(q, Task)
  BY DEF TaskCleanup, Requeued, lifeVars, reactorVars, callVars
<1>2. PICK q \in Merged(op_que, private_op_que[r]) : op_que' = Append(q, Task)
  BY <1>1
<1>3. r \in Pollers
  BY <1>1 DEF Pollers
<1>4. poller /\ TaskPlaces = {} /\ \A a, b \in Pollers : a = b
  BY <1>0, <1>3, Zenon DEF TaskIsPlaced, OneTask
<1>5. q \in Seq(Elements) /\ At(Task, q) = {}
  <2>1. private_op_que[r] \in Seq(Ops \cup Sets)
    BY <1>0 DEF Types
  <2>2. q \in Seq(Elements) /\ (At(Task, q) = {} <=> At(Task, op_que) = {})
    BY <2>1, MergedTask
  <2> QED
    BY <1>0, <1>4, <2>2, TasksAreAt
<1>6. op_que' \in Seq(Elements) /\ At(Task, op_que') = {Len(q) + 1}
  BY <1>2, <1>5, AppendKeeps, Task \in Elements DEF Elements
<1>7. TaskPlaces' = {Len(q) + 1}
  BY <1>6 DEF TaskPlaces, At
<1>8. /\ pc' \in [Threads -> Pc] /\ pc'[r] = "top"
      /\ \A u \in Threads : u # r => pc'[u] = pc[u]
  BY <1>0, <1>1, Moves DEF Types
<1>9. Pollers' = {}
  <2>1. ASSUME NEW a \in Pollers' PROVE FALSE
    <3>1. a \in Runners /\ pc'[a] \in {"poll", "polled"}
      BY DEF Pollers
    <3>2. a # r /\ pc'[a] = pc[a]
      BY <1>8, <3>1, NamesAreApart
    <3>3. a \in Pollers
      BY <3>1, <3>2 DEF Pollers
    <3> QED
      BY <1>3, <1>4, <3>2, <3>3
  <2> QED
    BY <2>1
<1>10. private_op_que' \in [Runners -> Seq(Ops \cup Sets)]
  <2>1. <<>> \in Seq(Ops \cup Sets)
    OBVIOUS
  <2> QED
    BY <1>0, <1>1, <2>1 DEF Types
<1>11. Types'
  BY <1>0, <1>1, <1>6, <1>8, <1>10 DEF Types
<1>12. Stages'
  BY <1>0, <1>1, <1>8, StagesFollow
<1>13. TaskIsPlaced'
  <2>1. \A i, k \in TaskPlaces' : i = k
    BY <1>7
  <2>2. TaskPlaces' # {} /\ poller'
    BY <1>1, <1>4, <1>7, Zenon
  <2> QED
    BY <1>9, <2>1, <2>2 DEF TaskIsPlaced, OneTask
<1> QED
  BY <1>11, <1>12, <1>13 DEF ServiceInv

LEMMA PerformIoKeeps ==
    ASSUME ServiceInv, NEW r \in Runners, PerformIo(r) PROVE ServiceInv'
<1>0. /\ Types /\ Stages /\ r \in Threads
      /\ {"none_load", "handler", "set_defer"} \subseteq Pc
  BY NamesAreApart DEF ServiceInv, Pc
<1>1. /\ pc[r] = "set" /\ poller' = poller /\ op_que' = op_que
      /\ service' = service /\ private_op_que' = private_op_que
      /\ arg' = arg /\ ready' = ready
  BY DEF PerformIo, queueVars, lifeVars, callVars
<1>2. cur[r] \in Sets /\ waiting[cur[r]] \subseteq Ops
  BY <1>0, <1>1 DEF Stages, Types
<1>3. PICK done \in SUBSET waiting[cur[r]] : \E q \in Orders(done) :
         /\ waiting' = [waiting EXCEPT ![cur[r]] = @ \ done]
         /\ \/ Goto(r, "none_load") /\ cur' = cur /\ deferred' = deferred
            \/ /\ q # <<>>
               /\ cur' = [cur EXCEPT ![r] = Head(q)]
               /\ deferred' = [deferred EXCEPT ![r] = Tail(q)]
               /\ Goto(r, "handler") \/ Goto(r, "set_defer")
  BY DEF PerformIo
<1>4. PICK q \in Orders(done) :
         /\ waiting' = [waiting EXCEPT ![cur[r]] = @ \ done]
         /\ \/ Goto(r, "none_load") /\ cur' = cur /\ deferred' = deferred
            \/ /\ q # <<>>
               /\ cur' = [cur EXCEPT ![r] = Head(q)]
               /\ deferred' = [deferred EXCEPT ![r] = Tail(q)]
               /\ Goto(r, "handler") \/ Goto(r, "set_defer")
  BY <1>3
<1>5. q \in Seq(Ops)
  <2>1. done \subseteq Ops /\ IsFiniteSet(done)
    BY <1>2, NamesAreApart, FS_Subset
  <2>2. q \in Seq(done)
    BY <2>1, OrdersAreSeqs
  <2> QED
    BY <2>1, <2>2
<1>6. pc' \in [Threads -> Pc]
  BY <1>0, <1>4, Moves DEF Types
<1>7. waiting' \in [Sets -> SUBSET Ops]
  BY <1>0, <1>2, <1>4 DEF Types
<1>8. CASE Goto(r, "none_load") /\ cur' = cur /\ deferred' = deferred
  <2>1. Types'
    BY <1>0, <1>1, <1>6, <1>7, <1>8 DEF Types
  <2> QED
    BY <1>0, <1>1, <1>8, <2>1, CallKeeps
<1>9. CASE /\ q # <<>>
           /\ cur' = [cur EXCEPT ![r] = Head(q)]
           /\ deferred' = [deferred EXCEPT ![r] = Tail(q)]
           /\ Goto(r, "handler") \/ Goto(r, "set_defer")
  <2>1. Head(q) \in Ops /\ Tail(q) \in Seq(Ops)
    BY <1>5, <1>9
  <2>2. /\ cur' \in [Runners -> Ops \cup Sets \cup {None}]
        /\ \A u \in Runners : u # r => cur'[u] = cur[u]
    BY <1>0, <1>9, <2>1 DEF Types
  <2>3. deferred' \in [Threads -> Seq(Ops)]
    BY <1>0, <1>9, <2>1 DEF Types
  <2>4. Types'
    BY <1>0, <1>1, <1>6, <1>7, <2>2, <2>3 DEF Types
  <2> QED
    BY <1>0, <1>1, <1>9, <2>2, <2>4, CallKeeps
<1> QED
  BY <1>4, <1>8, <1>9

LEMMA ServiceSteps ==
    ASSUME ServiceInv, [Next]_vars PROVE ServiceInv'
<1>1. ASSUME NEW t \in Threads, Call(t) PROVE ServiceInv'
  <2>1. CASE (\E o \in service.ops : PostPrivate(t, o)) \/ Stop(t) \/ Reset(t)
    BY <2>1, StandingSteps
  <2>2. CASE \/ \E o \in service.ops : PostLoad(t, o)
             \/ \E s \in Sets, o \in service.ops : StartLoad(t, s, o)
             \/ \E s \in Sets : CancelOps(t, s)
    BY <2>2, CallSteps
  <2>3. CASE InitTask(t)
    BY <2>3, InitTaskKeeps
  <2> QED
    BY <1>1, <2>1, <2>2, <2>3 DEF Call
<1>2. ASSUME NEW t \in Threads, Continue(t) PROVE ServiceInv'
  <2>1. CASE PostStore(t) \/ StartStore(t)
    BY <2>1, CallSteps
  <2>2. CASE PostPush(t)
    BY <2>2, PostPushKeeps
  <2>3. CASE PostDeferred(t)
    BY <2>3, HomeIsPlace, DeferredKeeps DEF PostDeferred
  <2> QED
    BY <1>2, <2>1, <2>2, <2>3 DEF Continue
<1>3. ASSUME NEW r \in Runners, Run(r) \/ RunStep(r) PROVE ServiceInv'
  <2>0. r \in Threads
    BY NamesAreApart
  <2>1. CASE \/ Run(r) \/ RunNoWork(r) \/ Leave(r) \/ GoIdle(r) \/ WakeUp(r)
             \/ NoneLoad(r) \/ NoneStore(r) \/ Return(r) \/ WorkCleanup(r)
             \/ CleanStore(r) \/ FinishStore(r) \/ FinishStop(r)
    BY <2>0, <2>1, MovingSteps, MoveKeeps
  <2>2. CASE TakeTask(r) \/ TakeOp(r) \/ Poll(r) \/ PollTimeout(r) \/ TaskCleanup(r)
    BY <2>2, TakeTaskKeeps, TakeOpKeeps, PollKeeps, TaskCleanupKeeps
  <2>3. CASE PerformIo(r) \/ MergePrivate(r)
    BY <2>3, PerformIoKeeps, MergePrivateKeeps
  <2>4. CASE PerformIoDefer(r)
    BY <2>0, <2>4, DeferredKeeps DEF PerformIoDefer, Pc
  <2> QED
    BY <1>3, <2>1, <2>2, <2>3, <2>4 DEF RunStep
<1>4. CASE ShutdownService
  BY <1>4, ShutdownKeeps
<1>5. CASE (\E s \in Sets : Event(s)) \/ UNCHANGED vars
  BY <1>5, StandingSteps
<1> QED
  BY <1>1, <1>2, <1>3, <1>4, <1>5 DEF Next

(* The reactor task is always in one place, the queue or the hands of one  *)
(* thread (do_run_one and ~task_cleanup, task_io_service.hpp): two threads *)
(* never poll at once, and a service with a reactor can always poll again. *)
THEOREM OnePoller == Spec => []OneTask
<1>1. ServiceInv => OneTask
  BY DEF ServiceInv, TaskIsPlaced
<1>2. ServiceInv /\ [Next]_vars => ServiceInv'
  BY ServiceSteps
<1> QED
  BY <1>1, <1>2, ServiceStarts, PTL DEF Spec

-----------------------------------------------------------------------------
(* No queued work is stranded.                                             *)

NoRepeats(q) == \A i, k \in DOMAIN q : q[i] = q[k] => i = k

(* The idle stack holds sleeping threads, each once.                       *)
IdleAreAsleep ==
    /\ idle \in Seq(Runners) /\ NoRepeats(idle)
    /\ signalled \in [Runners -> BOOLEAN]
    /\ \A r \in RangeOf(idle) : pc[r] = "wait" /\ ~signalled[r]

(* Only a poller can be in need of an interrupt.                           *)
OnlyPollersBlock == ~task_interrupted => Pollers # {}

(* stop_all_threads left nobody asleep or polling undisturbed, and nobody  *)
(* goes to sleep or polls until the service is reset.                      *)
StoppedIsAwake == stopped => idle = <<>> /\ task_interrupted

InUse == \A r \in Runners : pc[r] # "out" => r \in service.threads

WakeInv ==
    ServiceInv /\ IdleAreAsleep /\ OnlyPollersBlock /\ StoppedIsAwake /\ InUse
    /\ NoStrandedWork

LEMMA TopOfStack ==
    ASSUME NEW S, NEW q \in Seq(S), q # <<>>, NoRepeats(q)
    PROVE  /\ Head(q) \in RangeOf(q) /\ Head(q) \in S
           /\ Tail(q) \in Seq(S) /\ NoRepeats(Tail(q))
           /\ RangeOf(Tail(q)) \subseteq RangeOf(q) \ {Head(q)}
<1>1. /\ Head(q) = q[1] /\ Len(q) \in Nat \ {0} /\ DOMAIN q = 1..Len(q)
      /\ Tail(q) \in Seq(S) /\ Head(q) \in S
      /\ DOMAIN Tail(q) = 1..(Len(q) - 1)
      /\ \A i \in DOMAIN Tail(q) : Tail(q)[i] = q[i + 1]
  OBVIOUS
<1>2. ASSUME NEW i \in DOMAIN Tail(q) PROVE i + 1 \in DOMAIN q /\ i \in Int /\ i + 1 # 1
  BY <1>1
<1>3. Head(q) \in RangeOf(q)
  BY <1>1 DEF RangeOf
<1>4. NoRepeats(Tail(q))
  <2> SUFFICES ASSUME NEW i \in DOMAIN Tail(q), NEW k \in DOMAIN Tail(q),
                      Tail(q)[i] = Tail(q)[k]
               PROVE  i = k
    BY DEF NoRepeats
  <2>1. i + 1 = k + 1
    BY <1>1, <1>2 DEF NoRepeats
  <2> QED
    BY <1>2, <2>1
<1>5. ASSUME NEW x \in RangeOf(Tail(q)) PROVE x \in RangeOf(q) /\ x # Head(q)
  <2>1. PICK i \in DOMAIN Tail(q) : x = Tail(q)[i]
    BY DEF RangeOf
  <2>2. x = q[i + 1] /\ i + 1 \in DOMAIN q /\ i + 1 # 1 /\ 1 \in DOMAIN q
    BY <1>1, <1>2, <2>1
  <2> QED
    BY <1>1, <2>2 DEF RangeOf, NoRepeats
<1> QED
  BY <1>1, <1>3, <1>4, <1>5

LEMMA PushOnStack ==
    ASSUME NEW S, NEW q \in Seq(S), NoRepeats(q), NEW x \in S, x \notin RangeOf(q)
    PROVE  /\ <<x>> \o q \in Seq(S) /\ NoRepeats(<<x>> \o q)
           /\ RangeOf(<<x>> \o q) = {x} \cup RangeOf(q)
<1> DEFINE p == <<x>> \o q
<1>1. /\ p \in Seq(S) /\ DOMAIN p = 1..(Len(q) + 1) /\ DOMAIN q = 1..Len(q)
      /\ Len(q) \in Nat /\ p[1] = x
      /\ \A i \in DOMAIN p : i # 1 => p[i] = q[i - 1] /\ i - 1 \in DOMAIN q
      /\ \A i \in DOMAIN q : q[i] = p[i + 1] /\ i + 1 \in DOMAIN p
  OBVIOUS
<1> HIDE DEF p
<1>2. NoRepeats(p)
  <2> SUFFICES ASSUME NEW i \in DOMAIN p, NEW k \in DOMAIN p, p[i] = p[k] PROVE i = k
    BY DEF NoRepeats
  <2>1. i \in Int /\ k \in Int
    BY <1>1
  <2>2. CASE i = 1 \/ k = 1
    BY <1>1, <2>2 DEF RangeOf
  <2>3. CASE i # 1 /\ k # 1
    <3>1. i - 1 = k - 1
      BY <1>1, <2>3 DEF NoRepeats
    <3> QED
      BY <2>1, <3>1
  <2> QED
    BY <2>2, <2>3
<1>3. RangeOf(p) = {x} \cup RangeOf(q)
  <2>1. 1 \in DOMAIN p
    BY <1>1
  <2>2. ASSUME NEW y \in RangeOf(p) PROVE y \in {x} \cup RangeOf(q)
    BY <1>1 DEF RangeOf
  <2>3. ASSUME NEW y \in RangeOf(q) PROVE y \in RangeOf(p)
    BY <1>1 DEF RangeOf
  <2>4. x \in RangeOf(p)
    BY <1>1, <2>1 DEF RangeOf
  <2> QED
    BY <2>2, <2>3, <2>4
<1> QED
  BY <1>1, <1>2, <1>3 DEF p

LEMMA WakeStarts == Init => WakeInv
<1> SUFFICES ASSUME Init PROVE WakeInv
  OBVIOUS
<1>1. ServiceInv
  BY ServiceStarts
<1>2. IdleAreAsleep
  BY DEF Init, IdleAreAsleep, NoRepeats, RangeOf
<1>3. task_interrupted /\ ~stopped /\ op_que = <<>>
  BY Zenon DEF Init
<1>4. InUse
  BY NamesAreApart DEF Init, InUse
<1> QED
  BY <1>1, <1>2, <1>3, <1>4, Zenon
  DEF WakeInv, OnlyPollersBlock, StoppedIsAwake, NoStrandedWork

(* The moves of one thread that wake nobody and put nobody to sleep.       *)
Calm(t, to) ==
    /\ Goto(t, to) /\ to \in Pc
    /\ UNCHANGED <<service, idle, signalled, task_interrupted, stopped>>
    /\ pc[t] # "top"
    /\ pc[t] = "wait" => to = "top" /\ signalled[t]
    /\ to # "wait"
    /\ pc[t] \in {"poll", "polled"} <=> to \in {"poll", "polled"}
    /\ op_que' = op_que \/ (to = "top" /\ t \in Runners)
    /\ pc[t] = "out" => t \in service.threads

LEMMA ThreadMoves ==
    ASSUME pc \in [Threads -> Pc], NEW t \in Threads, NEW to, Goto(t, to)
    PROVE  pc'[t] = to /\ \A u \in Threads : u # t => pc'[u] = pc[u]
BY DEF Goto

LEMMA InUseStays ==
    ASSUME pc \in [Threads -> Pc], InUse, NEW t \in Threads, NEW to, Goto(t, to),
           pc[t] = "out" => t \in service.threads, service' = service
    PROVE  InUse'
<1>1. ASSUME NEW r \in Runners, pc'[r] # "out" PROVE r \in service.threads
  BY <1>1, ThreadMoves, NamesAreApart DEF InUse
<1> QED
  BY <1>1 DEF InUse

LEMMA CalmKeeps ==
    ASSUME WakeInv, ServiceInv', NEW t \in Threads, NEW to, Calm(t, to)
    PROVE  WakeInv'
<1>1. /\ pc \in [Threads -> Pc] /\ pc'[t] = to
      /\ \A u \in Threads : u # t => pc'[u] = pc[u]
  BY ThreadMoves DEF WakeInv, ServiceInv, Types, Calm
<1>2. \A r \in RangeOf(idle) : r \in Runners /\ r # t
  <2>1. \A r \in RangeOf(idle) : r \in Runners
    BY DEF WakeInv, IdleAreAsleep, RangeOf
  <2> QED
    BY <2>1, Zenon DEF WakeInv, IdleAreAsleep, Calm
<1>3. IdleAreAsleep'
  <2>1. idle' = idle /\ signalled' = signalled /\ RangeOf(idle)' = RangeOf(idle)
    BY DEF Calm, RangeOf
  <2>2. \A r \in RangeOf(idle) : pc'[r] = "wait"
    BY <1>1, <1>2, NamesAreApart DEF WakeInv, IdleAreAsleep
  <2> QED
    BY <2>1, <2>2, Zenon DEF WakeInv, IdleAreAsleep, NoRepeats
<1>4. Pollers' = Pollers
  BY <1>1, NamesAreApart DEF Pollers, Calm
<1>5. OnTheWay \subseteq OnTheWay' /\ (to = "top" /\ t \in Runners => OnTheWay' # {})
  <2>1. ASSUME NEW r \in OnTheWay PROVE r \in OnTheWay'
    <3>1. r \in Runners /\ (pc[r] = "top" \/ (pc[r] = "wait" /\ signalled[r]))
      BY DEF OnTheWay
    <3>2. CASE r = t
      BY <1>1, <3>1, <3>2 DEF OnTheWay, Calm
    <3>3. CASE r # t
      <4>1. pc'[r] = pc[r] /\ signalled' = signalled
        BY <1>1, <3>1, <3>3, NamesAreApart DEF Calm
      <4> QED
        BY <3>1, <4>1, Zenon DEF OnTheWay
    <3> QED
      BY <3>2, <3>3
  <2>2. to = "top" /\ t \in Runners => t \in OnTheWay'
    BY <1>1 DEF OnTheWay
  <2> QED
    BY <2>1, <2>2
<1>6. InUse'
  BY <1>1, InUseStays DEF WakeInv, Calm
<1>7. OnlyPollersBlock' /\ StoppedIsAwake'
  BY <1>4, Zenon DEF WakeInv, OnlyPollersBlock, StoppedIsAwake, Calm
<1> QED
  BY <1>3, <1>5, <1>6, <1>7, Zenon DEF WakeInv, NoStrandedWork, Calm

(* Steps of the threads that are calm, and steps that move nobody.         *)
LEMMA CalmSteps ==
    ASSUME WakeInv, NEW t \in Threads,
           \/ \E o \in service.ops : PostLoad(t, o)
           \/ \E s \in Sets, o \in service.ops : StartLoad(t, s, o)
           \/ \E s \in Sets : CancelOps(t, s)
           \/ PostStore(t) \/ StartStore(t)
    PROVE  \E to : Calm(t, to)
<1> USE DEF Calm, Pc, ApiPc, queueVars, lifeVars, workVars, runnerVars, callVars
<1>1. ASSUME NEW o \in service.ops, PostLoad(t, o) PROVE Calm(t, "post_store")
  BY <1>1, HomeIsPlace DEF PostLoad, Calls
<1>2. ASSUME NEW s \in Sets, NEW o \in service.ops, StartLoad(t, s, o)
      PROVE  Calm(t, "start_store")
  BY <1>2, HomeIsPlace DEF StartLoad, Calls
<1>3. ASSUME NEW s \in Sets, CancelOps(t, s) PROVE Calm(t, "defer")
  BY <1>3, HomeIsPlace DEF CancelOps, Calls
<1>4. ASSUME PostStore(t) PROVE Calm(t, "post_push")
  BY <1>4 DEF PostStore
<1>5. ASSUME StartStore(t) PROVE Calm(t, Home(t))
  BY <1>5, HomeIsPlace DEF StartStore
<1> QED
  BY <1>1, <1>2, <1>3, <1>4, <1>5, Zenon

LEMMA CalmRuns ==
    ASSUME WakeInv, NEW r \in Runners,
           \/ Run(r) \/ WakeUp(r) \/ Poll(r) \/ PollTimeout(r)
           \/ NoneLoad(r) \/ NoneStore(r) \/ Return(r) \/ WorkCleanup(r)
           \/ CleanStore(r) \/ FinishStore(r) \/ PerformIo(r) \/ MergePrivate(r)
    PROVE  \E to : Calm(r, to)
<1> USE DEF Calm, Pc, queueVars, lifeVars, workVars, runnerVars, callVars
<1>1. ASSUME Run(r) PROVE Calm(r, "stop_out") \/ Calm(r, "top")
  BY <1>1 DEF Run
<1>2. ASSUME WakeUp(r) PROVE Calm(r, "top")
  BY <1>2 DEF WakeUp
<1>3. ASSUME Poll(r) \/ PollTimeout(r) PROVE Calm(r, "polled")
  BY <1>3 DEF Poll, PollTimeout
<1>4. ASSUME NoneLoad(r) PROVE Calm(r, "none_store")
  BY <1>4 DEF NoneLoad
<1>5. ASSUME NoneStore(r) \/ Return(r) \/ CleanStore(r) PROVE Calm(r, "clean")
  BY <1>5 DEF NoneStore, Return, CleanStore
<1>6. ASSUME WorkCleanup(r)
      PROVE  Calm(r, "merge") \/ Calm(r, "clean_store") \/ Calm(r, "finish_store")
  BY <1>6 DEF WorkCleanup
<1>7. ASSUME FinishStore(r) PROVE Calm(r, "finish_stop") \/ Calm(r, "merge")
  BY <1>7 DEF FinishStore
<1>8. ASSUME PerformIo(r)
      PROVE  Calm(r, "none_load") \/ Calm(r, "handler") \/ Calm(r, "set_defer")
  BY <1>8 DEF PerformIo
<1>9. ASSUME MergePrivate(r) PROVE Calm(r, "top")
  BY <1>9 DEF MergePrivate
<1> HIDE DEF Calm
<1> QED
  BY <1>1, <1>2, <1>3, <1>4, <1>5, <1>6, <1>7, <1>8, <1>9

LEMMA NobodyMoves ==
    ASSUME WakeInv, ServiceInv', pc' = pc,
           UNCHANGED <<service, op_que, idle, signalled, task_interrupted, stopped>>
    PROVE  WakeInv'
<1>1. /\ Pollers' = Pollers /\ OnTheWay' = OnTheWay
      /\ RangeOf(idle)' = RangeOf(idle)
  BY DEF Pollers, OnTheWay, RangeOf
<1>2. IdleAreAsleep' /\ InUse'
  BY <1>1, Zenon DEF WakeInv, IdleAreAsleep, InUse, NoRepeats
<1>3. OnlyPollersBlock' /\ StoppedIsAwake' /\ NoStrandedWork'
  BY <1>1, Zenon DEF WakeInv, OnlyPollersBlock, StoppedIsAwake, NoStrandedWork
<1> QED
  BY <1>2, <1>3 DEF WakeInv

(* Waking: the top of the stack, or the poller if there is nobody there.   *)
LEMMA PollersAreOfReactor == ASSUME WakeInv, Pollers # {} PROVE poller
BY Zenon DEF WakeInv, ServiceInv, TaskIsPlaced

LEMMA InterruptWorks ==
    ASSUME WakeInv, Interrupt PROVE task_interrupted'
<1>1. task_interrupted \/ poller
  BY PollersAreOfReactor, Zenon DEF WakeInv, OnlyPollersBlock
<1>2. CASE task_interrupted
  <2>1. task_interrupted' = task_interrupted
    BY <1>2, Zenon DEF Interrupt
  <2> QED
    BY <1>2, <2>1, Zenon
<1>3. CASE ~task_interrupted /\ poller
  <2>1. task_interrupted' = TRUE
    BY <1>3, Zenon DEF Interrupt
  <2> QED
    BY <2>1, Zenon
<1> QED
  BY <1>1, <1>2, <1>3, Zenon

LEMMA SleepersStay ==
    ASSUME WakeInv, NEW t \in Threads, pc[t] # "wait",
           \A u \in Threads : u # t => pc'[u] = pc[u]
    PROVE  \A r \in RangeOf(idle) : r \in Runners /\ pc'[r] = "wait"
<1>1. \A r \in RangeOf(idle) : r \in Runners /\ pc[r] = "wait"
  BY DEF WakeInv, IdleAreAsleep, RangeOf
<1> QED
  BY <1>1, NamesAreApart

(* Who is woken was asleep, and is on the way now.                         *)
LEMMA WakeOneIdleWorks ==
    ASSUME WakeInv, WakeOneIdle, \A r \in RangeOf(idle) : pc'[r] = "wait"
    PROVE  IdleAreAsleep' /\ OnTheWay' # {}
<1>1. /\ idle \in Seq(Runners) /\ NoRepeats(idle) /\ idle # <<>>
      /\ signalled \in [Runners -> BOOLEAN]
      /\ \A r \in RangeOf(idle) : pc[r] = "wait" /\ ~signalled[r]
      /\ idle' = Tail(idle) /\ signalled' = [signalled EXCEPT ![Head(idle)] = TRUE]
  BY Zenon DEF WakeInv, IdleAreAsleep, WakeOneIdle
<1>2. /\ Head(idle) \in RangeOf(idle) /\ Head(idle) \in Runners
      /\ Tail(idle) \in Seq(Runners) /\ NoRepeats(Tail(idle))
      /\ RangeOf(Tail(idle)) \subseteq RangeOf(idle) \ {Head(idle)}
  BY <1>1, TopOfStack
<1>3. signalled' \in [Runners -> BOOLEAN] /\ signalled'[Head(idle)]
  BY <1>1, <1>2
<1>4. \A r \in RangeOf(Tail(idle)) : r \in Runners /\ ~signalled'[r]
  <2>1. \A r \in RangeOf(idle) : r \in Runners
    BY <1>1 DEF RangeOf
  <2>2. \A r \in Runners : r # Head(idle) => signalled'[r] = signalled[r]
    BY <1>1
  <2> QED
    BY <1>1, <1>2, <2>1, <2>2
<1>5. IdleAreAsleep'
  <2>1. RangeOf(idle)' = RangeOf(Tail(idle)) /\ NoRepeats(idle)' = NoRepeats(Tail(idle))
    BY <1>1 DEF RangeOf, NoRepeats
  <2>2. \A r \in RangeOf(Tail(idle)) : pc'[r] = "wait" /\ ~signalled'[r]
    BY <1>2, <1>4, Zenon
  <2>3. /\ idle' \in Seq(Runners) /\ NoRepeats(idle)'
        /\ signalled' \in [Runners -> BOOLEAN]
        /\ \A r \in RangeOf(idle)' : pc'[r] = "wait" /\ ~signalled'[r]
    BY <1>1, <1>2, <1>3, <2>1, <2>2, Zenon
  <2> QED
    BY <2>3, Zenon DEF IdleAreAsleep
<1>6. Head(idle) \in OnTheWay'
  BY <1>2, <1>3, Zenon DEF OnTheWay
<1> QED
  BY <1>5, <1>6

LEMMA NobodyWoken ==
    ASSUME WakeInv, idle' = idle, signalled' = signalled,
           \A r \in RangeOf(idle) : pc'[r] = "wait"
    PROVE  IdleAreAsleep'
<1>1. RangeOf(idle)' = RangeOf(idle) /\ NoRepeats(idle)' = NoRepeats(idle)
  BY DEF RangeOf, NoRepeats
<1> QED
  BY <1>1, Zenon DEF WakeInv, IdleAreAsleep

LEMMA WakeOneWorks ==
    ASSUME WakeInv, WakeOne, \A r \in RangeOf(idle) : pc'[r] = "wait",
           Pollers' = Pollers, stopped' = stopped
    PROVE  IdleAreAsleep' /\ OnlyPollersBlock' /\ StoppedIsAwake' /\ NoStrandedWork'
<1>1. CASE WakeOneIdle /\ UNCHANGED <<task_interrupted, block>>
  <2>1. IdleAreAsleep' /\ OnTheWay' # {}
    BY <1>1, WakeOneIdleWorks
  <2>2. ~stopped'
    BY <1>1, Zenon DEF WakeInv, StoppedIsAwake, WakeOneIdle
  <2>3. OnlyPollersBlock'
    BY <1>1, Zenon DEF WakeInv, OnlyPollersBlock
  <2> QED
    BY <2>1, <2>2, <2>3, Zenon DEF StoppedIsAwake, NoStrandedWork
<1>2. CASE idle = <<>> /\ Interrupt /\ UNCHANGED <<idle, signalled>>
  <2>1. task_interrupted' /\ idle' = <<>>
    BY <1>2, InterruptWorks
  <2>2. IdleAreAsleep'
    BY <1>2, NobodyWoken
  <2> QED
    BY <2>1, <2>2, Zenon DEF OnlyPollersBlock, StoppedIsAwake, NoStrandedWork
<1> QED
  BY <1>1, <1>2, Zenon DEF WakeOne

(* Steps that queue work, or pass the rest of the queue on.                *)
LEMMA WakingKeeps ==
    ASSUME WakeInv, ServiceInv', WakeOne, stopped' = stopped, service' = service,
           NEW t \in Threads, NEW to \in Pc, Goto(t, to),
           pc[t] \notin {"out", "wait", "poll", "polled"}, to \notin {"poll", "polled"}
    PROVE  WakeInv'
<1>1. /\ pc \in [Threads -> Pc] /\ Pollers' = Pollers
      /\ \A u \in Threads : u # t => pc'[u] = pc[u]
  BY Moves DEF WakeInv, ServiceInv, Types
<1>2. \A r \in RangeOf(idle) : pc'[r] = "wait"
  BY <1>1, SleepersStay
<1>3. InUse'
  BY <1>1, InUseStays DEF WakeInv
<1>4. IdleAreAsleep' /\ OnlyPollersBlock' /\ StoppedIsAwake' /\ NoStrandedWork'
  BY <1>1, <1>2, WakeOneWorks
<1> QED
  BY <1>3, <1>4 DEF WakeInv

LEMMA PushesKeepWake ==
    ASSUME WakeInv, ServiceInv', NEW t \in Threads,
           PostPush(t) \/ (t \in Runners /\ PerformIoDefer(t)) \/ PostDeferred(t)
    PROVE  WakeInv'
<1>1. CASE PostPush(t)
  BY <1>1, HomeIsPlace, WakingKeeps DEF PostPush, lifeVars
<1>2. ASSUME NEW from \in {"defer", "set_defer"}, NEW to \in {"out", "handler"},
             Deferred(t, from, to)
      PROVE  WakeInv'
  <2>1. /\ Goto(t, to) /\ pc[t] = from /\ to \in Pc
        /\ service' = service /\ stopped' = stopped
    BY <1>2 DEF Deferred, lifeVars, queueVars, Pc
  <2>2. CASE WakeOne
    BY <2>1, <2>2, WakingKeeps
  <2>3. CASE UNCHANGED queueVars
    <3>1. Calm(t, to)
      BY <2>1, <2>3 DEF Calm, queueVars
    <3> QED
      BY <3>1, CalmKeeps
  <2> QED
    BY <1>2, <2>2, <2>3 DEF Deferred, queueVars
<1> QED
  BY <1>1, <1>2, HomeIsPlace DEF PerformIoDefer, PostDeferred

LEMMA InitTaskKeepsWake ==
    ASSUME WakeInv, ServiceInv', NEW t \in Threads, InitTask(t) PROVE WakeInv'
<1>1. /\ ~poller /\ pc' = pc /\ service' = service /\ stopped' = stopped
      /\ task_interrupted' = task_interrupted
      /\ WakeOneIdle \/ (idle = <<>> /\ idle' = idle /\ signalled' = signalled)
  BY Zenon DEF InitTask, lifeVars, queueVars
<1>2. task_interrupted' /\ Pollers' = Pollers
  <2>1. Pollers = {}
    BY <1>1, PollersAreOfReactor
  <2>2. task_interrupted
    BY <2>1, Zenon DEF WakeInv, OnlyPollersBlock
  <2>3. Pollers' = Pollers
    BY <1>1 DEF Pollers
  <2> QED
    BY <1>1, <2>2, <2>3, Zenon
<1>3. \A r \in RangeOf(idle) : pc'[r] = "wait"
  BY <1>1 DEF WakeInv, IdleAreAsleep
<1>4. InUse' /\ OnlyPollersBlock'
  BY <1>1, <1>2, Zenon DEF WakeInv, InUse, OnlyPollersBlock
<1>5. CASE WakeOneIdle
  <2>1. IdleAreAsleep' /\ OnTheWay' # {}
    BY <1>3, <1>5, WakeOneIdleWorks
  <2>2. ~stopped'
    BY <1>1, <1>5, Zenon DEF WakeInv, StoppedIsAwake, WakeOneIdle
  <2> QED
    BY <1>4, <2>1, <2>2, Zenon DEF WakeInv, StoppedIsAwake, NoStrandedWork
<1>6. CASE idle = <<>> /\ idle' = idle /\ signalled' = signalled
  <2>1. IdleAreAsleep'
    BY <1>3, <1>6, NobodyWoken
  <2> QED
    BY <1>2, <1>4, <1>6, <2>1, Zenon DEF WakeInv, StoppedIsAwake, NoStrandedWork
<1> QED
  BY <1>1, <1>5, <1>6

(* A stop wakes everybody and leaves nobody to be woken.                   *)
LEMMA StopAllWorks ==
    ASSUME WakeInv, StopAll
    PROVE  IdleAreAsleep' /\ OnlyPollersBlock' /\ StoppedIsAwake' /\ NoStrandedWork'
<1>1. stopped' /\ idle' = <<>> /\ task_interrupted'
  BY InterruptWorks, Zenon DEF StopAll
<1>2. signalled' = [r \in Runners |-> r \in RangeOf(idle) \/ signalled[r]]
  BY DEF StopAll
<1>3. signalled' \in [Runners -> BOOLEAN]
  BY <1>2
<1>4. RangeOf(idle)' = {} /\ NoRepeats(idle)' /\ idle' \in Seq(Runners)
  BY <1>1 DEF RangeOf, NoRepeats
<1>5. IdleAreAsleep'
  BY <1>3, <1>4, Zenon DEF IdleAreAsleep
<1> QED
  BY <1>1, <1>5, Zenon DEF OnlyPollersBlock, StoppedIsAwake, NoStrandedWork

LEMMA StopsKeepWake ==
    ASSUME WakeInv, ServiceInv',
           \/ \E t \in Threads : Stop(t) \/ Reset(t)
           \/ \E r \in Runners : RunNoWork(r) \/ FinishStop(r)
           \/ ShutdownService
    PROVE  WakeInv'
<1>1. ASSUME NEW t \in Threads, Stop(t) PROVE WakeInv'
  <2>1. StopAll /\ pc' = pc /\ service' = service
    BY <1>1 DEF Stop, lifeVars
  <2>2. InUse'
    BY <2>1, Zenon DEF WakeInv, InUse
  <2> QED
    BY <2>1, <2>2, StopAllWorks DEF WakeInv
<1>2. ASSUME NEW t \in Threads, Reset(t) PROVE WakeInv'
  <2>1. /\ stopped /\ ~stopped' /\ pc' = pc /\ service' = service
        /\ task_interrupted' = task_interrupted /\ idle' = idle
        /\ signalled' = signalled
    BY <1>2, Zenon DEF Reset, lifeVars
  <2>2. idle' = <<>> /\ task_interrupted'
    BY <2>1, Zenon DEF WakeInv, StoppedIsAwake
  <2>3. IdleAreAsleep'
    BY <2>1, NobodyWoken DEF WakeInv, IdleAreAsleep
  <2>4. InUse'
    BY <2>1, Zenon DEF WakeInv, InUse
  <2> QED
    BY <2>1, <2>2, <2>3, <2>4, Zenon
    DEF WakeInv, OnlyPollersBlock, StoppedIsAwake, NoStrandedWork
<1>3. ASSUME NEW r \in Runners, RunNoWork(r) \/ FinishStop(r) PROVE WakeInv'
  <2>1. /\ StopAll /\ service' = service /\ pc[r] # "out" /\ r \in Threads
        /\ Goto(r, "out") \/ Goto(r, "merge")
    BY <1>3, NamesAreApart DEF RunNoWork, FinishStop, StopFrom, lifeVars
  <2>2. InUse'
    BY <2>1, InUseStays DEF WakeInv, ServiceInv, Types
  <2> QED
    BY <2>1, <2>2, StopAllWorks DEF WakeInv
<1>4. CASE ShutdownService
  <2>1. /\ op_que' = <<>> /\ pc' = pc /\ service' = service /\ stopped' = stopped
        /\ task_interrupted' = task_interrupted /\ idle' = idle
        /\ signalled' = signalled
    BY <1>4 DEF ShutdownService, callVars
  <2>2. IdleAreAsleep'
    BY <2>1, NobodyWoken DEF WakeInv, IdleAreAsleep
  <2>3. InUse' /\ Pollers' = Pollers
    BY <2>1 DEF WakeInv, InUse, Pollers
  <2>4. OnlyPollersBlock' /\ StoppedIsAwake' /\ NoStrandedWork'
    BY <2>1, <2>3, Zenon DEF WakeInv, OnlyPollersBlock, StoppedIsAwake, NoStrandedWork
  <2> QED
    BY <2>2, <2>3, <2>4 DEF WakeInv
<1> QED
  BY <1>1, <1>2, <1>3, <1>4

(* Leaving a stopped service, and falling asleep over an empty queue.      *)
LEMMA LeavingKeepsWake ==
    ASSUME WakeInv, ServiceInv', NEW r \in Runners, Leave(r) \/ GoIdle(r)
    PROVE  WakeInv'
<1>1. /\ r \in Threads /\ pc \in [Threads -> Pc] /\ pc[r] = "top"
      /\ service' = service /\ stopped' = stopped
      /\ task_interrupted' = task_interrupted /\ op_que' = op_que
      /\ Goto(r, "out") \/ Goto(r, "wait")
  BY NamesAreApart DEF Leave, GoIdle, lifeVars, WakeInv, ServiceInv, Types
<1>2. InUse'
  BY <1>1, InUseStays DEF WakeInv
<1>3. Pollers' = Pollers
  BY <1>1, Moves DEF Pc
<1>4. \A u \in RangeOf(idle) : u \in Runners /\ pc'[u] = "wait" /\ u # r
  <2>1. \A u \in RangeOf(idle) : pc[u] = "wait"
    BY DEF WakeInv, IdleAreAsleep
  <2>2. \A u \in Threads : u # r => pc'[u] = pc[u]
    BY <1>1, ThreadMoves
  <2> QED
    BY <1>1, <2>1, <2>2, SleepersStay
<1>5. OnlyPollersBlock'
  BY <1>1, <1>3, Zenon DEF WakeInv, OnlyPollersBlock
<1>6. CASE Leave(r)
  <2>1. stopped /\ idle' = idle /\ signalled' = signalled
    BY <1>6 DEF Leave
  <2>2. IdleAreAsleep'
    BY <1>4, <2>1, NobodyWoken
  <2>3. StoppedIsAwake' /\ NoStrandedWork'
    BY <1>1, <2>1, Zenon DEF WakeInv, StoppedIsAwake, NoStrandedWork
  <2> QED
    BY <1>2, <1>5, <2>2, <2>3 DEF WakeInv
<1>7. CASE GoIdle(r)
  <2>1. /\ ~stopped /\ op_que = <<>>
        /\ idle' = <<r>> \o idle /\ signalled' = [signalled EXCEPT ![r] = FALSE]
        /\ Goto(r, "wait")
    BY <1>7 DEF GoIdle
  <2>2. /\ idle \in Seq(Runners) /\ NoRepeats(idle) /\ r \notin RangeOf(idle)
        /\ signalled \in [Runners -> BOOLEAN]
        /\ \A u \in RangeOf(idle) : ~signalled[u]
    BY <1>4, Zenon DEF WakeInv, IdleAreAsleep
  <2>3. /\ idle' \in Seq(Runners) /\ NoRepeats(<<r>> \o idle)
        /\ RangeOf(<<r>> \o idle) = {r} \cup RangeOf(idle)
    BY <2>1, <2>2, PushOnStack
  <2>4. RangeOf(idle)' = {r} \cup RangeOf(idle) /\ NoRepeats(idle)'
    BY <2>1, <2>3 DEF RangeOf, NoRepeats
  <2>5. /\ signalled' \in [Runners -> BOOLEAN] /\ ~signalled'[r]
        /\ \A u \in Runners : u # r => signalled'[u] = signalled[u]
    BY <2>1, <2>2
  <2>6. pc'[r] = "wait"
    BY <1>1, <2>1, ThreadMoves
  <2>7. \A u \in RangeOf(idle) : ~signalled'[u]
    <3> TAKE u \in RangeOf(idle)
    <3>1. u \in Runners /\ u # r
      BY <1>4
    <3>2. signalled'[u] = signalled[u] /\ ~signalled[u]
      BY <2>2, <2>5, <3>1, Zenon
    <3> QED
      BY <3>2, Zenon
  <2>8. \A u \in {r} \cup RangeOf(idle) : pc'[u] = "wait" /\ ~signalled'[u]
    BY <1>4, <2>5, <2>6, <2>7, Zenon
  <2>9. IdleAreAsleep'
    BY <2>3, <2>4, <2>5, <2>8, Zenon DEF IdleAreAsleep
  <2> QED
    BY <1>1, <1>2, <1>5, <2>1, <2>9, Zenon
    DEF WakeInv, StoppedIsAwake, NoStrandedWork
<1> QED
  BY <1>6, <1>7

(* The only runner of a one-thread service finds no thread asleep.         *)
LEMMA OneThreadIsAlone ==
    ASSUME WakeInv, service.one_thread, NEW r \in Runners, pc[r] = "top"
    PROVE  idle = <<>> /\ Pollers = {}
<1>1. \A a, b \in service.threads \cap Runners : a = b
  BY TaskIoAssumption DEF WakeInv, ServiceInv, Types
<1>2. \A a \in Runners : a # r => pc[a] = "out"
  BY <1>1 DEF WakeInv, InUse
<1>3. RangeOf(idle) = {}
  <2>1. \A a \in RangeOf(idle) : a \in Runners /\ pc[a] = "wait"
    BY DEF WakeInv, IdleAreAsleep, RangeOf
  <2> QED
    BY <1>2, <2>1
<1>4. idle = <<>>
  BY <1>3 DEF WakeInv, IdleAreAsleep, RangeOf
<1>5. Pollers = {}
  BY <1>2 DEF Pollers
<1> QED
  BY <1>4, <1>5

LEMMA TakeTaskKeepsWake ==
    ASSUME WakeInv, ServiceInv', NEW r \in Runners, TakeTask(r) PROVE WakeInv'
<1>1. /\ r \in Threads /\ pc \in [Threads -> Pc] /\ pc[r] = "top"
      /\ Goto(r, "poll") /\ service' = service /\ ~stopped /\ stopped' = stopped
      /\ op_que' = Tail(op_que) /\ task_interrupted' = (Tail(op_que) # <<>>)
  BY NamesAreApart, Zenon DEF TakeTask, lifeVars, WakeInv, ServiceInv, Types
<1>2. InUse'
  BY <1>1, InUseStays DEF WakeInv
<1>3. r \in Pollers'
  BY <1>1, ThreadMoves DEF Pollers
<1>4. \A u \in RangeOf(idle) : pc'[u] = "wait"
  BY <1>1, ThreadMoves, SleepersStay
<1>5. OnlyPollersBlock' /\ StoppedIsAwake'
  BY <1>1, <1>3, Zenon DEF OnlyPollersBlock, StoppedIsAwake
<1>6. CASE WakeOneIdle
  <2>1. IdleAreAsleep' /\ OnTheWay' # {}
    BY <1>4, <1>6, WakeOneIdleWorks
  <2> QED
    BY <1>2, <1>5, <2>1, Zenon DEF WakeInv, NoStrandedWork
<1>7. CASE /\ ~(Tail(op_que) # <<>> /\ ~service.one_thread /\ idle # <<>>)
           /\ idle' = idle /\ signalled' = signalled
  <2>1. IdleAreAsleep'
    BY <1>4, <1>7, NobodyWoken
  <2>2. op_que' = <<>> \/ idle = <<>>
    BY <1>1, <1>7, OneThreadIsAlone, Zenon
  <2>3. op_que' = <<>> \/ (idle' = <<>> /\ task_interrupted')
    BY <1>1, <1>7, <2>2, Zenon
  <2> QED
    BY <1>2, <1>5, <2>1, <2>3, Zenon DEF WakeInv, NoStrandedWork
<1> QED
  BY <1>6, <1>7, Zenon DEF TakeTask

LEMMA TakeOpKeepsWake ==
    ASSUME WakeInv, ServiceInv', NEW r \in Runners, TakeOp(r) PROVE WakeInv'
<1>1. /\ r \in Threads /\ pc \in [Threads -> Pc] /\ pc[r] = "top"
      /\ service' = service /\ ~stopped /\ stopped' = stopped
      /\ op_que' = Tail(op_que)
      /\ Goto(r, "handler") \/ Goto(r, "set")
  BY NamesAreApart, Zenon DEF TakeOp, lifeVars, WakeInv, ServiceInv, Types
<1>2. CASE WakeOne
  <2>1. "handler" \in Pc /\ "set" \in Pc
    BY DEF Pc
  <2> QED
    BY <1>1, <1>2, <2>1, WakingKeeps
<1>3. CASE /\ ~(Tail(op_que) # <<>> /\ ~service.one_thread)
           /\ idle' = idle /\ signalled' = signalled
           /\ task_interrupted' = task_interrupted
  <2>1. InUse'
    BY <1>1, InUseStays DEF WakeInv
  <2>2. \A u \in RangeOf(idle) : pc'[u] = "wait"
    BY <1>1, ThreadMoves, SleepersStay
  <2>3. IdleAreAsleep'
    BY <1>3, <2>2, NobodyWoken
  <2>4. Pollers' = Pollers
    BY <1>1, Moves DEF Pc
  <2>5. OnlyPollersBlock' /\ StoppedIsAwake'
    BY <1>1, <1>3, <2>4, Zenon DEF WakeInv, OnlyPollersBlock, StoppedIsAwake
  <2>6. op_que' = <<>> \/ (idle = <<>> /\ task_interrupted)
    <3>1. CASE Tail(op_que) = <<>>
      BY <1>1, <3>1
    <3>2. CASE service.one_thread
      <4>1. idle = <<>> /\ Pollers = {}
        BY <1>1, <3>2, OneThreadIsAlone
      <4> QED
        BY <4>1, Zenon DEF WakeInv, OnlyPollersBlock
    <3> QED
      BY <1>3, <3>1, <3>2
  <2>7. NoStrandedWork'
    BY <1>3, <2>6, Zenon DEF NoStrandedWork
  <2> QED
    BY <2>1, <2>3, <2>5, <2>7 DEF WakeInv
<1> QED
  BY <1>2, <1>3, Zenon DEF TakeOp

LEMMA TaskCleanupKeepsWake ==
    ASSUME WakeInv, ServiceInv', NEW r \in Runners, TaskCleanup(r) PROVE WakeInv'
<1>1. /\ r \in Threads /\ pc \in [Threads -> Pc] /\ pc[r] = "polled" /\ Goto(r, "top")
      /\ service' = service /\ stopped' = stopped /\ idle' = idle
      /\ signalled' = signalled /\ task_interrupted' = TRUE
  BY NamesAreApart DEF TaskCleanup, BackFromPoll, lifeVars, WakeInv, ServiceInv, Types
<1>2. InUse'
  BY <1>1, InUseStays DEF WakeInv
<1>3. \A u \in RangeOf(idle) : pc'[u] = "wait"
  BY <1>1, ThreadMoves, SleepersStay
<1>4. IdleAreAsleep'
  BY <1>1, <1>3, NobodyWoken
<1>5. r \in OnTheWay'
  BY <1>1, ThreadMoves DEF OnTheWay
<1>6. OnlyPollersBlock' /\ StoppedIsAwake' /\ NoStrandedWork'
  BY <1>1, <1>5, Zenon DEF WakeInv, OnlyPollersBlock, StoppedIsAwake, NoStrandedWork
<1> QED
  BY <1>2, <1>4, <1>6 DEF WakeInv

LEMMA WakeSteps ==
    ASSUME WakeInv, [Next]_vars PROVE WakeInv'
<1>0. ServiceInv'
  BY ServiceSteps DEF WakeInv
<1>1. ASSUME NEW t \in Threads, Call(t) PROVE WakeInv'
  <2>1. ASSUME NEW o \in service.ops, PostPrivate(t, o) PROVE WakeInv'
    BY <1>0, <2>1, NobodyMoves DEF PostPrivate, queueVars, lifeVars
  <2>2. CASE \/ \E o \in service.ops : PostLoad(t, o)
             \/ \E s \in Sets, o \in service.ops : StartLoad(t, s, o)
             \/ \E s \in Sets : CancelOps(t, s)
    BY <1>0, <2>2, CalmSteps, CalmKeeps
  <2>3. CASE Stop(t) \/ Reset(t)
    BY <1>0, <2>3, StopsKeepWake
  <2>4. CASE InitTask(t)
    BY <1>0, <2>4, InitTaskKeepsWake
  <2> QED
    BY <1>1, <2>1, <2>2, <2>3, <2>4 DEF Call
<1>2. ASSUME NEW t \in Threads, Continue(t) PROVE WakeInv'
  <2>1. CASE PostStore(t) \/ StartStore(t)
    BY <1>0, <2>1, CalmSteps, CalmKeeps
  <2>2. CASE PostPush(t) \/ PostDeferred(t)
    BY <1>0, <2>2, PushesKeepWake
  <2> QED
    BY <1>2, <2>1, <2>2 DEF Continue
<1>3. ASSUME NEW r \in Runners, Run(r) \/ RunStep(r) PROVE WakeInv'
  <2>0. r \in Threads
    BY NamesAreApart
  <2>1. CASE \/ Run(r) \/ WakeUp(r) \/ Poll(r) \/ PollTimeout(r)
             \/ NoneLoad(r) \/ NoneStore(r) \/ Return(r) \/ WorkCleanup(r)
             \/ CleanStore(r) \/ FinishStore(r) \/ PerformIo(r) \/ MergePrivate(r)
    BY <1>0, <2>0, <2>1, CalmRuns, CalmKeeps
  <2>2. CASE RunNoWork(r) \/ FinishStop(r)
    BY <1>0, <2>2, StopsKeepWake
  <2>3. CASE Leave(r) \/ GoIdle(r)
    BY <1>0, <2>3, LeavingKeepsWake
  <2>4. CASE TakeTask(r) \/ TakeOp(r) \/ TaskCleanup(r)
    BY <1>0, <2>4, TakeTaskKeepsWake, TakeOpKeepsWake, TaskCleanupKeepsWake
  <2>5. CASE PerformIoDefer(r)
    BY <1>0, <2>0, <2>5, PushesKeepWake
  <2> QED
    BY <1>3, <2>1, <2>2, <2>3, <2>4, <2>5 DEF RunStep
<1>4. CASE ShutdownService
  BY <1>0, <1>4, StopsKeepWake
<1>5. ASSUME NEW s \in Sets, Event(s) PROVE WakeInv'
  BY <1>0, <1>5, NobodyMoves DEF Event, queueVars, lifeVars
<1>6. CASE UNCHANGED vars
  BY <1>0, <1>6, NobodyMoves DEF vars, queueVars, lifeVars
<1> QED
  BY <1>1, <1>2, <1>3, <1>4, <1>5, <1>6 DEF Next

(* Whenever something is queued on a running service, a thread is on its   *)
(* way to the queue, or no thread is idle and the poller has been told     *)
(* (do_run_one, wake_one_thread_and_unlock, stop_all_threads): no order of *)
(* posts, polls and wake-ups loses the signal.                             *)
THEOREM NoWorkIsStranded == Spec => []NoStrandedWork
<1>1. WakeInv => NoStrandedWork
  BY DEF WakeInv
<1>2. WakeInv /\ [Next]_vars => WakeInv'
  BY WakeSteps
<1> QED
  BY <1>1, <1>2, WakeStarts, PTL DEF Spec
=============================================================================
