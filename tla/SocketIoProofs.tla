----------------------------- MODULE SocketIoProofs -----------------------------
(***************************************************************************)
(* Sockets on the reactor, for any number of sockets, threads, op_sets and *)
(* descriptors: no two sockets share an op_set or a descriptor, although   *)
(* both are used again as soon as they are given back, a socket is closed  *)
(* in two steps, and threads act on different sockets at the same time.    *)
(***************************************************************************)
EXTENDS SocketIo, FiniteSetTheorems, WellFoundedInduction, TLAPS

(* What the kernel and the library keep about who has what.                *)
RegistryTypes ==
    /\ sock \in [Socks -> [fd : Fds \cup {None}, set : Slots \cup {None}]]
    /\ file \in [Fds -> Conns \cup {None}]
    /\ entry \in [Fds -> [set : Slots \cup {None}, out : BOOLEAN]]
    /\ live \subseteq Slots /\ free \in Seq(Slots)
    /\ closing \in [Threads -> Socks \cup {None}]
    /\ opened \in Nat /\ scope \in Scopes

(* An op_set that was freed is in the pool once, and in nobody's hands.    *)
PoolIsApart ==
    /\ \A i \in 1..Len(free) : free[i] \notin live
    /\ \A i, j \in 1..Len(free) : free[i] = free[j] => i = j

(* A descriptor that a socket has is open.                                 *)
DescriptorsAreOpen == \A s \in Socks : sock[s].fd # None => file[sock[s].fd] # None

(* A descriptor without an op_set is being closed, by one thread.          *)
ClosedByOne ==
    /\ \A t \in Threads : closing[t] # None => /\ sock[closing[t]].set = None
                                               /\ sock[closing[t]].fd # None
    /\ \A t, u \in Threads : closing[t] # None /\ closing[t] = closing[u] => t = u
    /\ \A s \in Socks : sock[s].fd # None /\ sock[s].set = None
                            => \E t \in Threads : closing[t] = s

OneEach ==
    /\ \A s, r \in Socks : s # r =>
         /\ sock[s].set # None => sock[s].set # sock[r].set
         /\ sock[s].fd # None => sock[s].fd # sock[r].fd
    /\ \A s \in Socks : sock[s].set # None =>
         /\ sock[s].set \in live
         /\ sock[s].fd # None /\ entry[sock[s].fd].set = sock[s].set

RegistryInv == RegistryTypes /\ PoolIsApart /\ DescriptorsAreOpen /\ ClosedByOne /\ OneEach

registryVars == <<sock, file, live, free, closing, opened, scope>>

LEMMA NoneIsNothing ==
    /\ None \notin Socks /\ None \notin Slots /\ None \notin Fds /\ None \notin Conns
    /\ Conns = 1..MaxConns /\ MaxConns \in Nat
    /\ \A x \in Scopes : x.socks \subseteq Socks
BY SocketIoAssumption DEF Conns

LEMMA RegistryStarts == Init => RegistryInv
<1> SUFFICES ASSUME Init PROVE RegistryInv
  OBVIOUS
<1>1. RegistryTypes
  BY DEF Init, RegistryTypes, NoSet
<1>2. PoolIsApart /\ DescriptorsAreOpen /\ ClosedByOne /\ OneEach
  BY NoneIsNothing DEF Init, PoolIsApart, DescriptorsAreOpen, ClosedByOne, OneEach
<1> QED
  BY <1>1, <1>2 DEF RegistryInv

(* What leaves the registry alone, but for what epoll waits for.           *)
LEMMA RegistryKept ==
    ASSUME RegistryInv, UNCHANGED registryVars,
           entry' \in [Fds -> [set : Slots \cup {None}, out : BOOLEAN]],
           \A f \in Fds : entry'[f].set = entry[f].set
    PROVE  RegistryInv'
<1>1. RegistryTypes /\ PoolIsApart /\ DescriptorsAreOpen /\ ClosedByOne /\ OneEach
  BY DEF RegistryInv
<1>2. /\ sock' = sock /\ file' = file /\ live' = live /\ free' = free
      /\ closing' = closing /\ opened' = opened /\ scope' = scope
  BY DEF registryVars
<1>3. RegistryTypes' /\ PoolIsApart' /\ DescriptorsAreOpen' /\ ClosedByOne'
  BY <1>1, <1>2 DEF RegistryTypes, PoolIsApart, DescriptorsAreOpen, ClosedByOne
<1>4. \A s \in Socks : sock[s].fd # None => sock[s].fd \in Fds
  BY <1>1 DEF RegistryTypes
<1>5. OneEach'
  BY <1>1, <1>2, <1>4 DEF OneEach
<1> QED
  BY <1>3, <1>5 DEF RegistryInv

LEMMA StartKeeps ==
    ASSUME RegistryInv, NEW t \in Threads, NEW s \in Socks, NEW o, NEW kind, NEW want,
           Start(t, s, o, kind, want)
    PROVE  RegistryInv'
<1>1. UNCHANGED registryVars
  BY DEF Start, registryVars, poolVars
<1>2. PICK stale \in StaleErrno : StartOp(s, o, NewFor(s, kind, want), stale)
  BY DEF Start
<1>3. entry' = entry \/ entry' = [entry EXCEPT ![sock[s].fd].out = TRUE]
  BY <1>2, Zenon DEF StartOp
<1>4. entry \in [Fds -> [set : Slots \cup {None}, out : BOOLEAN]]
  BY DEF RegistryInv, RegistryTypes
<1>5. /\ entry' \in [Fds -> [set : Slots \cup {None}, out : BOOLEAN]]
      /\ \A f \in Fds : entry'[f].set = entry[f].set
  <2>1. CASE entry' = entry
    BY <1>4, <2>1
  <2>2. CASE entry' = [entry EXCEPT ![sock[s].fd].out = TRUE]
    <3>1. entry' = [f \in Fds |-> IF f = sock[s].fd THEN [entry[f] EXCEPT !.out = TRUE]
                                 ELSE entry[f]]
      BY <1>4, <2>2
    <3>2. \A f \in Fds : /\ [entry[f] EXCEPT !.out = TRUE] \in [set : Slots \cup {None}, out : BOOLEAN]
                         /\ [entry[f] EXCEPT !.out = TRUE].set = entry[f].set
      BY <1>4
    <3> QED
      BY <1>4, <3>1, <3>2
  <2> QED
    BY <1>3, <2>1, <2>2
<1> QED
  BY <1>1, <1>5, RegistryKept

LEMMA QuietSteps ==
    ASSUME RegistryInv,
           \/ \E t \in Threads : \/ \E s \in Socks : CancelOps(t, s)
                                \/ Poll(t) \/ TakeSet(t) \/ DoWork(t) \/ EndIo(t)
           \/ \E f \in Fds : Arrive(f) \/ PeerCloses(f) \/ Drain(f)
           \/ UNCHANGED vars
    PROVE  RegistryInv'
<1>1. UNCHANGED registryVars /\ entry' = entry
  BY Zenon DEF CancelOps, Poll, TakeSet, DoWork, EndIo, Arrive, PeerCloses, Drain, Works,
               registryVars, poolVars, kernelVars, vars
<1>2. entry \in [Fds -> [set : Slots \cup {None}, out : BOOLEAN]]
  BY DEF RegistryInv, RegistryTypes
<1> QED
  BY <1>1, <1>2, RegistryKept

(* The op_set that the pool hands out was in nobody's hands.               *)
LEMMA AllocIsFresh ==
    ASSUME RegistryTypes, PoolIsApart, NEW k \in Slots, Alloc(k)
    PROVE  /\ k \notin live /\ live' = live \cup {k}
           /\ free' \in Seq(Slots) /\ PoolIsApart'
<1>1. free \in Seq(Slots) /\ live \subseteq Slots
  BY DEF RegistryTypes
<1>2. CASE free = <<>>
  BY <1>1, <1>2 DEF Alloc, PoolIsApart
<1>3. CASE free # <<>>
  <2>1. k = free[1] /\ free' = Tail(free) /\ live' = live \cup {k} /\ Len(free) \in Nat \ {0}
    BY <1>1, <1>3 DEF Alloc
  <2>2. /\ free' \in Seq(Slots) /\ Len(free') = Len(free) - 1
        /\ \A i \in 1..Len(free') : free'[i] = free[i + 1] /\ i + 1 \in 1..Len(free)
    BY <1>1, <1>3, <2>1
  <2>3. k \notin live
    BY <2>1 DEF PoolIsApart
  <2>4. \A i \in 1..Len(free') : free'[i] \notin live'
    <3>1. \A i \in 1..Len(free') : free[i + 1] # free[1] /\ free[i + 1] \notin live
      BY <2>1, <2>2 DEF PoolIsApart
    <3> QED
      BY <2>1, <2>2, <3>1
  <2>5. \A i, j \in 1..Len(free') : free'[i] = free'[j] => i = j
    <3> SUFFICES ASSUME NEW i \in 1..Len(free'), NEW j \in 1..Len(free'),
                        free'[i] = free'[j]
                 PROVE  i = j
      OBVIOUS
    <3>1. free[i + 1] = free[j + 1] /\ i + 1 \in 1..Len(free) /\ j + 1 \in 1..Len(free)
      BY <2>2
    <3>2. i + 1 = j + 1
      BY <3>1 DEF PoolIsApart
    <3> QED
      BY <3>2, <2>1, <2>2
  <2> QED
    BY <2>1, <2>2, <2>3, <2>4, <2>5 DEF PoolIsApart
<1> QED
  BY <1>2, <1>3

LEMMA OpenKeeps ==
    ASSUME RegistryInv, NEW t \in Threads, NEW s \in Socks, Open(t, s)
    PROVE  RegistryInv'
<1>1. RegistryTypes /\ PoolIsApart /\ DescriptorsAreOpen /\ ClosedByOne /\ OneEach
  BY DEF RegistryInv
<1>2. PICK f \in Fds, k \in Slots :
         /\ file[f] = None
         /\ file' = [file EXCEPT ![f] = opened + 1]
         /\ Alloc(k)
         /\ entry' = [entry EXCEPT ![f] = [set |-> k, out |-> FALSE]]
         /\ sock' = [sock EXCEPT ![s] = [fd |-> f, set |-> k]]
  BY DEF Open
<1>3. /\ sock[s].fd = None /\ opened < MaxConns /\ opened' = opened + 1
      /\ closing' = closing /\ scope' = scope
  BY DEF Open
<1>4. /\ k \notin live /\ live' = live \cup {k} /\ free' \in Seq(Slots) /\ PoolIsApart'
  BY <1>1, <1>2, AllocIsFresh
<1>5. /\ opened + 1 \in Conns /\ opened + 1 # None /\ f # None /\ k # None
  BY <1>1, <1>3, NoneIsNothing DEF RegistryTypes
<1>6. RegistryTypes'
  BY <1>1, <1>2, <1>3, <1>4, <1>5 DEF RegistryTypes
<1>7. /\ sock'[s].fd = f /\ sock'[s].set = k
      /\ \A r \in Socks : r # s => sock'[r] = sock[r]
      /\ file'[f] # None /\ \A g \in Fds : g # f => file'[g] = file[g]
      /\ entry'[f].set = k /\ \A g \in Fds : g # f => entry'[g] = entry[g]
  BY <1>1, <1>2, <1>5 DEF RegistryTypes
<1>8. \A r \in Socks : /\ sock[r].fd # f /\ sock[r].set # k
                       /\ sock[r].fd # None => sock[r].fd \in Fds
  BY <1>1, <1>2, <1>4, <1>5 DEF RegistryTypes, DescriptorsAreOpen, OneEach
<1>9. \A u \in Threads : closing[u] # s
  BY <1>1, <1>3, NoneIsNothing DEF ClosedByOne
<1>10. DescriptorsAreOpen'
  <2> SUFFICES ASSUME NEW r \in Socks, sock'[r].fd # None PROVE file'[sock'[r].fd] # None
    BY DEF DescriptorsAreOpen
  <2>1. CASE r = s
    BY <1>7, <2>1
  <2>2. CASE r # s
    <3>1. sock'[r] = sock[r] /\ sock[r].fd \in Fds /\ sock[r].fd # f
      BY <1>7, <1>8, <2>2
    <3>2. file'[sock[r].fd] = file[sock[r].fd] /\ sock[r].fd # None
      BY <1>7, <3>1
    <3>3. file[sock[r].fd] # None
      BY <1>1, <3>2 DEF DescriptorsAreOpen
    <3> QED
      BY <3>1, <3>2, <3>3
  <2> QED
    BY <2>1, <2>2
<1>11. ClosedByOne'
  BY <1>1, <1>3, <1>5, <1>7, <1>9 DEF RegistryTypes, ClosedByOne
<1>12. OneEach'
  <2>1. ASSUME NEW q \in Socks, NEW r \in Socks, q # r
        PROVE  /\ sock'[q].set # None => sock'[q].set # sock'[r].set
               /\ sock'[q].fd # None => sock'[q].fd # sock'[r].fd
    <3>1. CASE q = s
      <4>1. sock'[r] = sock[r] /\ sock[r].fd # f /\ sock[r].set # k
        BY <1>7, <1>8, <2>1, <3>1
      <4> QED
        BY <1>7, <3>1, <4>1
    <3>2. CASE r = s
      <4>1. sock'[q] = sock[q] /\ sock[q].fd # f /\ sock[q].set # k
        BY <1>7, <1>8, <2>1, <3>2
      <4> QED
        BY <1>7, <3>2, <4>1
    <3>3. CASE q # s /\ r # s
      <4>1. sock'[q] = sock[q] /\ sock'[r] = sock[r]
        BY <1>7, <3>3
      <4> QED
        BY <1>1, <2>1, <4>1 DEF OneEach
    <3> QED
      BY <3>1, <3>2, <3>3
  <2>2. ASSUME NEW r \in Socks, sock'[r].set # None
        PROVE  /\ sock'[r].set \in live'
               /\ sock'[r].fd # None /\ entry'[sock'[r].fd].set = sock'[r].set
    <3>1. CASE r = s
      BY <1>4, <1>5, <1>7, <3>1
    <3>2. CASE r # s
      <4>1. sock'[r] = sock[r]
        BY <1>7, <3>2
      <4>2. /\ sock[r].fd # None /\ sock[r].set \in live
            /\ entry[sock[r].fd].set = sock[r].set
        BY <1>1, <2>2, <4>1 DEF OneEach
      <4>3. sock[r].fd \in Fds /\ sock[r].fd # f
        BY <1>8, <4>2
      <4>4. entry'[sock[r].fd] = entry[sock[r].fd]
        BY <1>7, <4>3
      <4> QED
        BY <1>4, <4>1, <4>2, <4>4
    <3> QED
      BY <3>1, <3>2
  <2> QED
    BY <2>1, <2>2 DEF OneEach
<1> QED
  BY <1>4, <1>6, <1>10, <1>11, <1>12 DEF RegistryInv

LEMMA DetachKeeps ==
    ASSUME RegistryInv, NEW t \in Threads, NEW s \in Socks, Detach(t, s)
    PROVE  RegistryInv'
<1>1. RegistryTypes /\ PoolIsApart /\ DescriptorsAreOpen /\ ClosedByOne /\ OneEach
  BY DEF RegistryInv
<1> DEFINE k == sock[s].set
<1>2. /\ sock[s].fd # None /\ closing[t] = None /\ \A u \in Threads : closing[u] # s
      /\ live' = live \ {k} /\ free' = <<k>> \o free
      /\ sock' = [sock EXCEPT ![s].set = None]
      /\ closing' = [closing EXCEPT ![t] = s]
      /\ file' = file /\ entry' = entry /\ opened' = opened /\ scope' = scope
  BY DEF Detach, Calls, Idle, Freed, kernelVars
<1>3. k \in Slots /\ k # None /\ k \in live
  <2>1. k # None
    BY <1>1, <1>2 DEF ClosedByOne
  <2> QED
    BY <1>1, <2>1, NoneIsNothing DEF RegistryTypes, OneEach
<1>4. /\ free \in Seq(Slots) /\ free' \in Seq(Slots) /\ Len(free') = Len(free) + 1
      /\ Len(free) \in Nat /\ free'[1] = k
      /\ \A i \in 2..Len(free') : free'[i] = free[i - 1] /\ i - 1 \in 1..Len(free)
  BY <1>1, <1>2, <1>3 DEF RegistryTypes
<1>5. PoolIsApart'
  <2>1. \A i \in 1..Len(free) : free[i] # k /\ free[i] \notin live
    BY <1>1, <1>3 DEF PoolIsApart
  <2>2. \A i \in 1..Len(free') : free'[i] \notin live'
    BY <1>2, <1>4, <2>1
  <2>3. \A i, j \in 1..Len(free') : free'[i] = free'[j] => i = j
    <3> SUFFICES ASSUME NEW i \in 1..Len(free'), NEW j \in 1..Len(free'),
                        free'[i] = free'[j]
                 PROVE  i = j
      OBVIOUS
    <3>0. ASSUME NEW m \in 1..Len(free'), m # 1 PROVE free'[m] # k
      <4>1. m \in 2..Len(free')
        BY <1>4, <3>0
      <4>2. free'[m] = free[m - 1] /\ m - 1 \in 1..Len(free)
        BY <1>4, <4>1
      <4>3. free[m - 1] # k
        BY <2>1, <4>2
      <4> QED
        BY <4>2, <4>3
    <3>1. CASE i = 1 \/ j = 1
      <4>1. i = 1 <=> j = 1
        BY <1>4, <3>0
      <4> QED
        BY <3>1, <4>1
    <3>2. CASE i # 1 /\ j # 1
      <4>1. free[i - 1] = free[j - 1] /\ i - 1 \in 1..Len(free) /\ j - 1 \in 1..Len(free)
        BY <1>4, <3>2
      <4>2. i - 1 = j - 1
        BY <1>1, <4>1 DEF PoolIsApart
      <4> QED
        BY <4>2, <1>4
    <3> QED
      BY <3>1, <3>2
  <2> QED
    BY <2>2, <2>3 DEF PoolIsApart
<1>6. /\ sock'[s].set = None /\ sock'[s].fd = sock[s].fd
      /\ \A r \in Socks : r # s => sock'[r] = sock[r]
      /\ closing'[t] = s /\ \A u \in Threads : u # t => closing'[u] = closing[u]
  BY <1>1, <1>2 DEF RegistryTypes
<1>7. RegistryTypes'
  <2>1. sock' \in [Socks -> [fd : Fds \cup {None}, set : Slots \cup {None}]]
    <3>1. sock' = [r \in Socks |-> IF r = s THEN [sock[r] EXCEPT !.set = None] ELSE sock[r]]
      BY <1>1, <1>2 DEF RegistryTypes
    <3>2. [sock[s] EXCEPT !.set = None] \in [fd : Fds \cup {None}, set : Slots \cup {None}]
      BY <1>1 DEF RegistryTypes
    <3> QED
      BY <1>1, <3>1, <3>2 DEF RegistryTypes
  <2>2. live' \subseteq Slots /\ closing' \in [Threads -> Socks \cup {None}]
    BY <1>1, <1>2 DEF RegistryTypes
  <2> QED
    BY <1>1, <1>2, <1>4, <2>1, <2>2 DEF RegistryTypes
<1>8. DescriptorsAreOpen'
  BY <1>1, <1>2, <1>6 DEF DescriptorsAreOpen
<1>9. ClosedByOne'
  <2>0. s # None /\ \A u \in Threads : closing[u] # None => closing[u] \in Socks /\ closing[u] # s
    BY <1>1, <1>2, NoneIsNothing DEF RegistryTypes
  <2>1. \A u \in Threads : closing'[u] # None => /\ sock'[closing'[u]].set = None
                                                 /\ sock'[closing'[u]].fd # None
    BY <1>1, <1>2, <1>6, <2>0 DEF ClosedByOne
  <2>2. \A u, v \in Threads : closing'[u] # None /\ closing'[u] = closing'[v] => u = v
    BY <1>1, <1>2, <1>6, <2>0 DEF ClosedByOne
  <2>3. \A r \in Socks : sock'[r].fd # None /\ sock'[r].set = None
                            => \E u \in Threads : closing'[u] = r
    <3>1. SUFFICES ASSUME NEW r \in Socks, sock'[r].fd # None, sock'[r].set = None, r # s
                   PROVE  \E u \in Threads : closing'[u] = r
      BY <1>6
    <3>2. PICK u \in Threads : closing[u] = r
      BY <1>1, <1>6, <3>1 DEF ClosedByOne
    <3>3. u # t
      BY <1>2, <3>2, NoneIsNothing
    <3> QED
      BY <1>6, <3>2, <3>3
  <2> QED
    BY <2>1, <2>2, <2>3 DEF ClosedByOne
<1>10. OneEach'
  BY <1>1, <1>2, <1>3, <1>6 DEF OneEach
<1> QED
  BY <1>5, <1>7, <1>8, <1>9, <1>10 DEF RegistryInv

LEMMA CloseFdKeeps ==
    ASSUME RegistryInv, NEW t \in Threads, CloseFd(t)
    PROVE  RegistryInv'
<1>1. RegistryTypes /\ PoolIsApart /\ DescriptorsAreOpen /\ ClosedByOne /\ OneEach
  BY DEF RegistryInv
<1> DEFINE s == closing[t]
           f == sock[s].fd
<1>2. /\ s # None
      /\ file' = [file EXCEPT ![f] = None]
      /\ entry' = [entry EXCEPT ![f] = NoSet]
      /\ sock' = [sock EXCEPT ![s].fd = None]
      /\ closing' = [closing EXCEPT ![t] = None]
      /\ live' = live /\ free' = free /\ opened' = opened /\ scope' = scope
  BY DEF CloseFd, poolVars
<1>3. /\ s \in Socks /\ f \in Fds /\ f # None /\ sock[s].set = None
  BY <1>1, <1>2 DEF RegistryTypes, ClosedByOne
<1>4. /\ sock'[s].fd = None /\ sock'[s].set = None
      /\ \A r \in Socks : r # s => sock'[r] = sock[r]
      /\ closing'[t] = None /\ \A u \in Threads : u # t => closing'[u] = closing[u]
      /\ \A g \in Fds : g # f => file'[g] = file[g] /\ entry'[g] = entry[g]
  BY <1>1, <1>2, <1>3 DEF RegistryTypes
<1>5. RegistryTypes'
  BY <1>1, <1>2, <1>3 DEF RegistryTypes, NoSet
<1>6. PoolIsApart'
  BY <1>1, <1>2 DEF PoolIsApart
<1>7. \A r \in Socks : /\ r # s => sock[r].fd # f
                       /\ sock[r].fd # None => sock[r].fd \in Fds
  BY <1>1, <1>3 DEF RegistryTypes, OneEach
<1>8. DescriptorsAreOpen'
  <2> SUFFICES ASSUME NEW r \in Socks, sock'[r].fd # None PROVE file'[sock'[r].fd] # None
    BY DEF DescriptorsAreOpen
  <2>1. r # s /\ sock'[r] = sock[r]
    BY <1>4
  <2>2. sock[r].fd \in Fds /\ sock[r].fd # f /\ sock[r].fd # None
    BY <1>7, <2>1
  <2>3. file'[sock[r].fd] = file[sock[r].fd]
    BY <1>4, <2>2
  <2>4. file[sock[r].fd] # None
    BY <1>1, <2>2 DEF DescriptorsAreOpen
  <2> QED
    BY <2>1, <2>3, <2>4
<1>9. ClosedByOne'
  <2>1. \A u \in Threads : u # t /\ closing[u] # None => closing[u] # s /\ closing[u] \in Socks
    BY <1>1, <1>2 DEF ClosedByOne, RegistryTypes
  <2>2. \A u \in Threads : closing'[u] # None => /\ sock'[closing'[u]].set = None
                                                 /\ sock'[closing'[u]].fd # None
    BY <1>1, <1>4, <2>1 DEF ClosedByOne
  <2>3. \A u, v \in Threads : closing'[u] # None /\ closing'[u] = closing'[v] => u = v
    BY <1>1, <1>4 DEF ClosedByOne
  <2>4. \A r \in Socks : sock'[r].fd # None /\ sock'[r].set = None
                            => \E u \in Threads : closing'[u] = r
    BY <1>1, <1>3, <1>4 DEF ClosedByOne
  <2> QED
    BY <2>2, <2>3, <2>4 DEF ClosedByOne
<1>10. OneEach'
  BY <1>1, <1>2, <1>3, <1>4, <1>7 DEF OneEach
<1> QED
  BY <1>5, <1>6, <1>8, <1>9, <1>10 DEF RegistryInv

LEMMA RegistrySteps == RegistryInv /\ [Next]_vars => RegistryInv'
<1> SUFFICES ASSUME RegistryInv, [Next]_vars PROVE RegistryInv'
  OBVIOUS
<1>0. scope.socks \subseteq Socks
  BY NoneIsNothing DEF RegistryInv, RegistryTypes
<1>1. CASE \E t \in Threads, s \in scope.socks : Api(t, s)
  <2>1. PICK t \in Threads, s \in Socks : Api(t, s)
    BY <1>0, <1>1
  <2> QED
    BY <2>1, OpenKeeps, DetachKeeps, StartKeeps, QuietSteps DEF Api
<1>2. CASE \E t \in Threads : Serve(t)
  BY <1>2, CloseFdKeeps, QuietSteps DEF Serve
<1>3. CASE \E f \in Fds : Arrive(f) \/ PeerCloses(f) \/ Drain(f)
  BY <1>3, QuietSteps
<1>4. CASE UNCHANGED vars
  BY <1>4, QuietSteps
<1> QED
  BY <1>1, <1>2, <1>3, <1>4 DEF Next

(* No two sockets share an op_set or a descriptor, and epoll's entries     *)
(* name the op_sets of the sockets whose descriptors they are              *)
(* (epoller::register_descriptor, deregister_descriptor, object_pool).     *)
THEOREM SocketsStayApart == Spec => []SetHasOneSocket
<1>1. RegistryInv => SetHasOneSocket
  <2> SUFFICES ASSUME RegistryInv PROVE SetHasOneSocket
    OBVIOUS
  <2>1. ToSet(free) \cap live = {}
    BY DEF RegistryInv, RegistryTypes, PoolIsApart, ToSet
  <2> QED
    BY <2>1 DEF RegistryInv, OneEach, SetHasOneSocket
<1> QED
  BY <1>1, RegistryStarts, RegistrySteps, PTL DEF Spec
-----------------------------------------------------------------------------
(* What the operations rest on.                                            *)

ConnType == [eof : BOOLEAN, avail : 0..scope.cap, room : 0..scope.cap]
OpType == [st : {"new", "waiting"}, kind : Kinds, want : 0..scope.cap,
           fd : Fds \cup {None}, conn : Conns \cup {0}]
SlotType == [q : [Kinds -> Seq(Ops)], out : BOOLEAN, shut : BOOLEAN, result : SUBSET Kinds]

LEMMA CapIsPositive == ASSUME scope \in Scopes PROVE scope.cap \in Nat \ {0}
BY SocketIoAssumption

LEMMA AmountFits ==
    ASSUME scope.cap \in Nat, NEW c \in ConnType, NEW p \in OpType
    PROVE  /\ Amount(c, p) \in Nat
           /\ p.kind = "read" => Amount(c, p) <= c.avail
           /\ p.kind = "write" => Amount(c, p) <= c.room
BY DEF ConnType, OpType, Amount, Lesser, Kinds

LEMMA MovedIsTyped ==
    ASSUME scope.cap \in Nat, NEW c \in ConnType, NEW p \in OpType
    PROVE  /\ Moved(c, p) \in ConnType /\ Moved(c, p).eof = c.eof
           /\ p.kind = "read" => Moved(c, p).room = c.room
                                 /\ Moved(c, p).avail = c.avail - Amount(c, p)
           /\ p.kind = "write" => Moved(c, p).avail = c.avail
                                 /\ Moved(c, p).room = c.room - Amount(c, p)
<1>1. /\ Amount(c, p) \in Nat
      /\ p.kind = "read" => Amount(c, p) <= c.avail
      /\ p.kind = "write" => Amount(c, p) <= c.room
  BY AmountFits
<1>2. p.kind \in {"read", "write"}
  BY DEF OpType, Kinds
<1> QED
  BY <1>1, <1>2 DEF Moved, ConnType

(* A transfer in one direction leaves the other as it was.                 *)
LEMMA OtherDirection ==
    ASSUME scope.cap \in Nat, NEW c \in ConnType, NEW p \in OpType, NEW r \in OpType,
           r.kind # p.kind
    PROVE  Amount(Moved(c, p), r) = Amount(c, r) /\ Bytes(Moved(c, p), r.kind) = Bytes(c, r.kind)
<1>1. p.kind \in {"read", "write"} /\ r.kind \in {"read", "write"}
  BY DEF OpType, Kinds
<1> QED
  BY <1>1, MovedIsTyped DEF Amount, Lesser, Bytes

(* An operation that must go on waiting has moved nothing.                 *)
LEMMA UnfinishedMovesNothing ==
    ASSUME scope.cap \in Nat, NEW c \in ConnType, NEW p \in OpType, NEW stale,
           ~Finished(Outcome(c, p, stale))
    PROVE  Amount(c, p) = 0 /\ Moved(c, p) = c
<1>1. Amount(c, p) \in Nat
  BY AmountFits
<1>2. Amount(c, p) = 0
  <2>1. CASE p.kind = "write" /\ c.eof
    BY <2>1 DEF Amount
  <2>2. CASE ~(p.kind = "write" /\ c.eof)
    <3>1. ~(Amount(c, p) > 0)
      BY <2>2 DEF Outcome, Finished
    <3> QED
      BY <1>1, <3>1
  <2> QED
    BY <2>1, <2>2
<1>3. Moved(c, p) = c
  BY <1>2 DEF Moved, ConnType
<1> QED
  BY <1>2, <1>3

InUse == {s \in Socks : sock[s].set # None}
Queue(s, kind) == slot[sock[s].set].q[kind]

(* Open descriptors have connections of their own.                         *)
FilesApart ==
    /\ \A f \in Fds : file[f] # None => file[f] \in 1..opened
    /\ \A f, g \in Fds : file[f] # None /\ file[f] = file[g] => f = g

(* The operations that wait at a socket are each there once, and are for   *)
(* its descriptor and the connection behind it.                            *)
ItsOwn(s, p, kind) == /\ p.st = "waiting" /\ p.kind = kind
                      /\ p.fd = sock[s].fd /\ p.conn = file[sock[s].fd]

QueueIsItsOwn(s, kind) ==
    /\ \A i \in 1..Len(Queue(s, kind)) : ItsOwn(s, op[Queue(s, kind)[i]], kind)
    /\ \A i, j \in 1..Len(Queue(s, kind)) : Queue(s, kind)[i] = Queue(s, kind)[j] => i = j

NobodysAreEmpty ==
    \A k \in Slots : (\A s \in InUse : sock[s].set # k) => slot[k].q = Empty

StandsAt(o, s) == \E i \in 1..Len(Queue(s, op[o].kind)) : Queue(s, op[o].kind)[i] = o

Placed == \A o \in Waiting : \E s \in InUse : StandsAt(o, s)

(* epoll reports EPOLLOUT for a socket at which a write waits.             *)
IsWatched(s) ==
    /\ slot[sock[s].set].out = entry[sock[s].fd].out
    /\ Queue(s, "write") # <<>> => slot[sock[s].set].out

(* NoLostEdge, with the edge at the socket's own descriptor.               *)
Seen(s, kind) ==
    \/ kind \in edge[sock[s].fd]
    \/ kind \in slot[sock[s].set].result /\ sock[s].set \in ToSet(que)
    \/ \E t \in Threads : cur[t].set = sock[s].set /\ kind \in cur[t].ev

IsKept(s, kind) ==
    /\ Queue(s, kind) # <<>> /\ sock[s].set \notin overwritten
    /\ Amount(conn[file[sock[s].fd]], op[Queue(s, kind)[1]]) > 0
    => Seen(s, kind)

IsSound(s) ==
    IsWatched(s) /\ \A kind \in Kinds : QueueIsItsOwn(s, kind) /\ IsKept(s, kind)

AllAreSound == \A s \in InUse : IsSound(s)

SocketInv == /\ RegistryInv /\ TypeOK
             /\ FilesApart /\ NobodysAreEmpty /\ Placed /\ AllAreSound

-----------------------------------------------------------------------------
(* Sockets in use are apart, and so is all that belongs to them.           *)

LEMMA InUseHave ==
    ASSUME RegistryInv, TypeOK, NEW s \in InUse
    PROVE  /\ s \in Socks /\ sock[s].set \in Slots /\ sock[s].fd \in Fds
           /\ sock[s].fd # None /\ sock[s].set # None /\ sock[s].set \in live
           /\ file[sock[s].fd] \in Conns /\ file[sock[s].fd] # None
           /\ entry[sock[s].fd].set = sock[s].set
           /\ conn[file[sock[s].fd]] \in ConnType
           /\ \A kind \in Kinds : Queue(s, kind) \in Seq(Ops)
           /\ \A kind \in Kinds : \A i \in 1..Len(Queue(s, kind)) : Queue(s, kind)[i] \in Ops
<1>1. /\ s \in Socks /\ sock[s].set \in Slots /\ sock[s].fd \in Fds
      /\ sock[s].fd # None /\ sock[s].set # None /\ sock[s].set \in live
      /\ entry[sock[s].fd].set = sock[s].set
  BY NoneIsNothing DEF InUse, RegistryInv, OneEach, RegistryTypes
<1>2. file[sock[s].fd] \in Conns /\ file[sock[s].fd] # None
  BY <1>1 DEF RegistryInv, DescriptorsAreOpen, RegistryTypes
<1>3. conn[file[sock[s].fd]] \in ConnType
  BY <1>2 DEF TypeOK, ConnType
<1>4. \A kind \in Kinds : Queue(s, kind) \in Seq(Ops)
  BY <1>1 DEF TypeOK, Queue
<1>5. \A kind \in Kinds : \A i \in 1..Len(Queue(s, kind)) : Queue(s, kind)[i] \in Ops
  BY <1>4
<1> QED
  BY <1>1, <1>2, <1>3, <1>4, <1>5

LEMMA InUseAreApart ==
    ASSUME RegistryInv, TypeOK, FilesApart, NEW s \in Socks, NEW r \in InUse, r # s
    PROVE  /\ sock[r].set # sock[s].set /\ sock[r].fd # sock[s].fd
           /\ sock[s].fd # None => file[sock[r].fd] # file[sock[s].fd]
<1>1. /\ r \in Socks /\ sock[r].fd \in Fds /\ sock[r].fd # None /\ sock[r].set # None
      /\ file[sock[r].fd] # None
  BY InUseHave
<1>2. sock[r].set # sock[s].set /\ sock[r].fd # sock[s].fd
  BY <1>1 DEF RegistryInv, OneEach
<1>3. sock[s].fd # None => sock[s].fd \in Fds
  BY DEF RegistryInv, RegistryTypes
<1> QED
  BY <1>1, <1>2, <1>3 DEF FilesApart

(* A step in which r has no part.                                          *)
Aloof(r) ==
    /\ sock'[r] = sock[r] /\ slot'[sock[r].set] = slot[sock[r].set]
    /\ file'[sock[r].fd] = file[sock[r].fd] /\ entry'[sock[r].fd] = entry[sock[r].fd]
    /\ edge'[sock[r].fd] = edge[sock[r].fd]
    /\ conn'[file[sock[r].fd]] = conn[file[sock[r].fd]]
    /\ \A kind \in Kinds : \A i \in 1..Len(Queue(r, kind)) :
          op'[Queue(r, kind)[i]] = op[Queue(r, kind)[i]]

LEMMA AloofStaysSound ==
    ASSUME RegistryInv, TypeOK, NEW r \in InUse, IsSound(r), Aloof(r),
           que' = que, overwritten' = overwritten,
           \A t \in Threads : cur'[t] = cur[t] \/ cur[t].set # sock[r].set
    PROVE  IsSound(r)'
<1>0. IsWatched(r)'
  <2>1. Queue(r, "write")' = Queue(r, "write")
    BY DEF Aloof, Queue
  <2> QED
    BY <2>1 DEF Aloof, IsWatched, IsSound
<1> SUFFICES ASSUME NEW kind \in Kinds
             PROVE  QueueIsItsOwn(r, kind)' /\ IsKept(r, kind)'
  BY <1>0 DEF IsSound
<1>1. QueueIsItsOwn(r, kind) /\ IsKept(r, kind)
  BY DEF IsSound
<1>2. Queue(r, kind)' = Queue(r, kind)
  BY DEF Aloof, Queue
<1>3. QueueIsItsOwn(r, kind)'
  BY <1>1, <1>2 DEF Aloof, QueueIsItsOwn, ItsOwn
<1>5. Seen(r, kind) => Seen(r, kind)'
  BY DEF Aloof, Seen
<1>6. Queue(r, kind) # <<>> => op'[Queue(r, kind)[1]] = op[Queue(r, kind)[1]]
  <2>1. Queue(r, kind) # <<>> => 1 \in 1..Len(Queue(r, kind))
    BY InUseHave
  <2> QED
    BY <2>1 DEF Aloof
<1>7. IsKept(r, kind)'
  BY <1>1, <1>2, <1>5, <1>6 DEF Aloof, IsKept
<1> QED
  BY <1>3, <1>7

(* A step of one socket.                                                   *)
LEMMA OneMoves ==
    ASSUME SocketInv, NEW s \in Socks,
           \A r \in InUse : r # s => Aloof(r),
           que' = que, overwritten' = overwritten,
           \A t \in Threads : cur'[t] = cur[t] \/ cur[t].set = sock[s].set,
           \A r \in Socks : r # s => sock'[r] = sock[r],
           sock'[s].set # None => IsSound(s)'
    PROVE  AllAreSound'
<1>1. ASSUME NEW r \in InUse' PROVE IsSound(r)'
  <2>1. r \in Socks /\ sock'[r].set # None
    BY DEF InUse
  <2>2. CASE r = s
    BY <2>1, <2>2
  <2>3. CASE r # s
    <3>1. r \in InUse /\ Aloof(r)
      BY <2>1, <2>3 DEF InUse
    <3>2. RegistryInv /\ TypeOK /\ FilesApart /\ IsSound(r)
      BY <3>1 DEF SocketInv, AllAreSound
    <3>3. sock[r].set # sock[s].set
      BY <2>3, <3>1, <3>2, InUseAreApart
    <3> QED
      BY <3>1, <3>2, <3>3, AloofStaysSound
  <2> QED
    BY <2>2, <2>3
<1> QED
  BY <1>1 DEF AllAreSound

LEMMA PartsOfInv ==
    ASSUME SocketInv
    PROVE  /\ RegistryInv /\ TypeOK /\ FilesApart /\ NobodysAreEmpty /\ Placed /\ AllAreSound
           /\ scope.cap \in Nat /\ scope.cap > 0
           /\ op \in [Ops -> OpType] /\ conn \in [Conns -> ConnType]
           /\ slot \in [Slots -> SlotType]
BY CapIsPositive DEF SocketInv, TypeOK, OpType, ConnType, SlotType

LEMMA TheirOps ==
    ASSUME SocketInv, NEW r \in InUse, NEW kind \in Kinds, NEW i \in 1..Len(Queue(r, kind))
    PROVE  /\ Queue(r, kind)[i] \in Ops
           /\ ItsOwn(r, op[Queue(r, kind)[i]], kind)
BY PartsOfInv, InUseHave DEF AllAreSound, IsSound, QueueIsItsOwn

(* An operation that is not at s is not touched by what s does to its own. *)
LEMMA AloofWhen ==
    ASSUME SocketInv, NEW s \in Socks, NEW r \in InUse, r # s,
           sock'[r] = sock[r],
           \A m \in Slots : m # sock[s].set => slot'[m] = slot[m],
           \A f \in Fds : f # sock[s].fd =>
               file'[f] = file[f] /\ entry'[f] = entry[f] /\ edge'[f] = edge[f],
           \A c \in Conns : \/ sock[s].fd # None /\ c = file[sock[s].fd]
                           \/ conn'[c] = conn[c],
           \A o \in Ops : op'[o] = op[o] \/ op[o].st = "new" \/ op[o].fd = sock[s].fd
    PROVE  Aloof(r)
<1>1. /\ sock[r].set # sock[s].set /\ sock[r].fd # sock[s].fd
      /\ sock[s].fd # None => file[sock[r].fd] # file[sock[s].fd]
  BY PartsOfInv, InUseAreApart
<1>2. /\ sock[r].set \in Slots /\ sock[r].fd \in Fds /\ file[sock[r].fd] \in Conns
  BY PartsOfInv, InUseHave
<1>3. ASSUME NEW kind \in Kinds, NEW i \in 1..Len(Queue(r, kind))
      PROVE  op'[Queue(r, kind)[i]] = op[Queue(r, kind)[i]]
  <2>1. /\ Queue(r, kind)[i] \in Ops /\ op[Queue(r, kind)[i]].st = "waiting"
        /\ op[Queue(r, kind)[i]].fd = sock[r].fd
    BY TheirOps DEF ItsOwn
  <2> QED
    BY <1>1, <2>1
<1> QED
  BY <1>1, <1>2, <1>3 DEF Aloof

-----------------------------------------------------------------------------
(* cancel_ops and deregister_descriptor: a socket's op_set is emptied.     *)

Emptied(s) ==
    /\ Cancelled(Queued(sock[s].set))
    /\ slot'[sock[s].set].q = Empty
    /\ \A m \in Slots : m # sock[s].set => slot'[m] = slot[m]
    /\ \A r \in Socks : r # s => sock'[r] = sock[r]
    /\ UNCHANGED <<kernelVars, que, cur, overwritten>>

LEMMA QueuedAre ==
    ASSUME SocketInv, NEW s \in InUse
    PROVE  /\ \A o \in Queued(sock[s].set) : o \in Ops /\ op[o].fd = sock[s].fd
           /\ \A kind \in Kinds : \A i \in 1..Len(Queue(s, kind)) :
                 Queue(s, kind)[i] \in Queued(sock[s].set)
<1>1. \A kind \in Kinds : Queue(s, kind) \in Seq(Ops) /\ Queue(s, kind) = slot[sock[s].set].q[kind]
  BY PartsOfInv, InUseHave DEF Queue
<1>2. \A o : o \in Queued(sock[s].set) <=>
         \E kind \in Kinds : \E i \in 1..Len(Queue(s, kind)) : o = Queue(s, kind)[i]
  <2>1. \A kind \in Kinds : DOMAIN Queue(s, kind) = 1..Len(Queue(s, kind))
    BY <1>1
  <2> QED
    BY <1>1, <2>1 DEF Queued, ToSet
<1> QED
  BY <1>2, TheirOps DEF ItsOwn

LEMMA EmptiedIsSound ==
    ASSUME SocketInv, NEW s \in InUse, Emptied(s),
           sock'[s].set # None => /\ sock'[s] = sock[s]
                                  /\ slot'[sock[s].set].out = slot[sock[s].set].out
    PROVE  /\ op' \in [Ops -> OpType]
           /\ NobodysAreEmpty' /\ Placed' /\ AllAreSound'
<1> DEFINE k == sock[s].set
<1>1. op' = [o \in Ops |-> IF o \in Queued(k) THEN NewOp ELSE op[o]]
  BY DEF Emptied, Cancelled, Posted
<1>2. NewOp \in OpType /\ NewOp.st = "new"
  BY PartsOfInv, NoneIsNothing DEF NewOp, OpType, Kinds, Conns
<1>3. op' \in [Ops -> OpType]
  BY <1>1, <1>2, PartsOfInv
<1>4. k \in Slots /\ s \in Socks
  BY PartsOfInv, InUseHave
<1>5. ASSUME NEW r \in InUse, r # s PROVE Aloof(r)
  <2>1. \A o \in Ops : op'[o] = op[o] \/ op[o].fd = sock[s].fd
    BY <1>1, QueuedAre
  <2>2. r \in Socks
    BY DEF InUse
  <2> QED
    BY <1>4, <1>5, <2>1, <2>2, AloofWhen DEF Emptied, kernelVars
<1>6. NobodysAreEmpty'
  <2> SUFFICES ASSUME NEW m \in Slots, \A r \in InUse' : sock'[r].set # m
               PROVE  slot'[m].q = Empty
    BY DEF NobodysAreEmpty, Empty
  <2>1. CASE m = k
    BY <2>1 DEF Emptied
  <2>2. CASE m # k
    <3>1. \A r \in InUse : sock[r].set # m
      BY <2>2 DEF Emptied, InUse
    <3> QED
      BY <2>2, <3>1, PartsOfInv DEF Emptied, NobodysAreEmpty
  <2> QED
    BY <2>1, <2>2
<1>7. Placed'
  <2> SUFFICES ASSUME NEW o \in Ops, op'[o].st = "waiting"
               PROVE  \E r \in InUse' : StandsAt(o, r)'
    BY DEF Placed, Waiting
  <2>1. o \notin Queued(k) /\ op'[o] = op[o]
    BY <1>1, <1>2
  <2>2. PICK r \in InUse : StandsAt(o, r)
    BY <2>1, PartsOfInv DEF Placed, Waiting
  <2>3. op[o].kind \in Kinds
    BY PartsOfInv DEF OpType
  <2>4. r # s
    BY <2>1, <2>2, <2>3, QueuedAre DEF StandsAt
  <2>5. Aloof(r) /\ r \in InUse'
    BY <1>5, <2>4 DEF Emptied, InUse
  <2>6. StandsAt(o, r)'
    BY <2>1, <2>2, <2>5 DEF StandsAt, Queue, Aloof
  <2> QED
    BY <2>5, <2>6
<1>8. ASSUME sock'[s].set # None PROVE IsSound(s)'
  <2>1. sock'[s] = sock[s] /\ slot'[k].out = slot[k].out /\ slot'[k].q = Empty
    BY <1>8 DEF Emptied
  <2>2. \A kind \in Kinds : Queue(s, kind)' = <<>>
    BY <2>1 DEF Queue, Empty
  <2>3. IsWatched(s)'
    <3>1. IsWatched(s)
      BY PartsOfInv DEF AllAreSound, IsSound
    <3> QED
      BY <2>1, <2>2, <3>1 DEF IsWatched, Emptied, kernelVars, Kinds
  <2> QED
    BY <2>2, <2>3 DEF IsSound, QueueIsItsOwn, IsKept
<1>9. AllAreSound'
  BY <1>4, <1>5, <1>8, OneMoves DEF Emptied
<1> QED
  BY <1>3, <1>6, <1>7, <1>9

(* TypeOK, with the types named.                                           *)
LEMMA TypesAre ==
    TypeOK <=>
    /\ scope \in Scopes
    /\ file \in [Fds -> Conns \cup {None}]
    /\ conn \in [Conns -> ConnType]
    /\ entry \in [Fds -> [set : Slots \cup {None}, out : BOOLEAN]]
    /\ edge \in [Fds -> SUBSET Kinds]
    /\ opened \in 0..MaxConns
    /\ sock \in [Socks -> [fd : Fds \cup {None}, set : Slots \cup {None}]]
    /\ slot \in [Slots -> SlotType]
    /\ live \subseteq Slots /\ free \in Seq(Slots) /\ que \in Seq(Slots)
    /\ op \in [Ops -> OpType]
    /\ cur \in [Threads -> [set : Slots \cup {None}, ev : SUBSET Kinds, locked : BOOLEAN]]
    /\ closing \in [Threads -> Socks \cup {None}]
    /\ overwritten \subseteq Slots
BY DEF TypeOK, ConnType, SlotType, OpType

(* What the registry's invariant says of types need not be shown again.    *)
LEMMA TypesFollow ==
    ASSUME RegistryInv', opened' \in 0..MaxConns,
           conn' \in [Conns -> ConnType'], edge' \in [Fds -> SUBSET Kinds],
           slot' \in [Slots -> SlotType], que' \in Seq(Slots), op' \in [Ops -> OpType'],
           cur' \in [Threads -> [set : Slots \cup {None}, ev : SUBSET Kinds, locked : BOOLEAN]],
           overwritten' \subseteq Slots
    PROVE  TypeOK'
BY DEF RegistryInv, RegistryTypes, TypeOK, ConnType, SlotType, OpType

LEMMA FilesKept ==
    ASSUME FilesApart, file' = file, opened' = opened PROVE FilesApart'
BY DEF FilesApart

(* An op_set whose queues change, and the flag out with them.              *)
LEMMA SlotTyped ==
    ASSUME NEW x \in SlotType, NEW q \in [Kinds -> Seq(Ops)], NEW b \in BOOLEAN, NEW d \in BOOLEAN
    PROVE  /\ [x EXCEPT !.q = q, !.shut = b] \in SlotType
           /\ [x EXCEPT !.q = q, !.out = b] \in SlotType
           /\ [x EXCEPT !.shut = d, !.out = b] \in SlotType
           /\ [x EXCEPT !.q = q] \in SlotType
BY DEF SlotType

LEMMA EmptyTyped == Empty \in [Kinds -> Seq(Ops)]
BY DEF Empty, Kinds

LEMMA CancelEmpties ==
    ASSUME SocketInv, NEW t \in Threads, NEW s \in Socks, CancelOps(t, s)
    PROVE  /\ s \in InUse /\ Emptied(s) /\ slot' \in [Slots -> SlotType]
           /\ slot'[sock[s].set].out = slot[sock[s].set].out
           /\ UNCHANGED <<scope, kernelVars, sock, que, cur, overwritten>>
<1> DEFINE k == sock[s].set
<1>1. /\ s \in InUse /\ k \in Slots /\ Cancelled(Queued(k))
      /\ slot' = [slot EXCEPT ![k].q = Empty]
      /\ UNCHANGED <<scope, kernelVars, sock, que, cur, overwritten>>
  BY PartsOfInv, NoneIsNothing DEF CancelOps, InUse, RegistryInv, RegistryTypes
<1>2. /\ slot' = [m \in Slots |-> IF m = k THEN [slot[m] EXCEPT !.q = Empty] ELSE slot[m]]
      /\ slot[k] \in SlotType
  BY <1>1, PartsOfInv
<1>3. /\ slot'[k].q = Empty /\ slot'[k].out = slot[k].out
      /\ \A m \in Slots : m # k => slot'[m] = slot[m]
      /\ slot' \in [Slots -> SlotType]
  <2>1. [slot[k] EXCEPT !.q = Empty] \in SlotType
    BY Zenon, <1>2, EmptyTyped, SlotTyped
  <2> QED
    BY ZenonT(40), <1>1, <1>2, <2>1, PartsOfInv DEF SlotType
<1>4. Emptied(s)
  BY <1>1, <1>3 DEF Emptied
<1> QED
  BY <1>1, <1>3, <1>4

LEMMA CancelIsSound ==
    ASSUME SocketInv, NEW t \in Threads, NEW s \in Socks, CancelOps(t, s)
    PROVE  SocketInv'
<1>1. /\ s \in InUse /\ Emptied(s) /\ slot' \in [Slots -> SlotType]
      /\ slot'[sock[s].set].out = slot[sock[s].set].out
      /\ UNCHANGED <<scope, kernelVars, sock, que, cur, overwritten>>
  BY CancelEmpties
<1>2. op' \in [Ops -> OpType] /\ NobodysAreEmpty' /\ Placed' /\ AllAreSound'
  BY <1>1, EmptiedIsSound
<1>3. RegistryInv'
  BY QuietSteps, PartsOfInv
<1>4. TypeOK'
  BY <1>1, <1>2, <1>3, PartsOfInv, TypesAre, TypesFollow
     DEF kernelVars, ConnType, OpType
<1>5. FilesApart'
  BY <1>1, FilesKept, PartsOfInv DEF kernelVars
<1> QED
  BY <1>2, <1>3, <1>4, <1>5 DEF SocketInv

LEMMA DetachEmpties ==
    ASSUME SocketInv, NEW t \in Threads, NEW s \in Socks, Detach(t, s)
    PROVE  /\ s \in InUse /\ Emptied(s) /\ slot' \in [Slots -> SlotType]
           /\ sock'[s].set = None
           /\ UNCHANGED <<scope, kernelVars, que, cur, overwritten>>
<1> DEFINE k == sock[s].set
<1>1. /\ sock[s].fd # None /\ \A u \in Threads : closing[u] # s
      /\ Cancelled(Queued(k)) /\ Deregistered(k)
      /\ sock' = [sock EXCEPT ![s].set = None]
      /\ UNCHANGED <<scope, kernelVars, que, cur, overwritten>>
  BY DEF Detach, Calls
<1>2. s \in InUse /\ k \in Slots
  BY <1>1, PartsOfInv, NoneIsNothing DEF InUse, RegistryInv, RegistryTypes, ClosedByOne
<1>3. /\ slot' = [m \in Slots |-> IF m = k THEN [slot[m] EXCEPT !.q = Empty, !.shut = TRUE]
                                  ELSE slot[m]]
      /\ slot[k] \in SlotType
  BY Zenon, <1>1, <1>2, PartsOfInv DEF Deregistered
<1>4. /\ slot'[k].q = Empty
      /\ \A m \in Slots : m # k => slot'[m] = slot[m]
      /\ slot' \in [Slots -> SlotType]
  <2>1. [slot[k] EXCEPT !.q = Empty, !.shut = TRUE] \in SlotType
    BY Zenon, <1>3, EmptyTyped, SlotTyped
  <2>2. slot'[k] = [slot[k] EXCEPT !.q = Empty, !.shut = TRUE]
    BY <1>2, <1>3
  <2>3. slot'[k].q = Empty
    BY <1>3, <2>2 DEF SlotType
  <2>4. \A m \in Slots : m # k => slot'[m] = slot[m]
    BY <1>3
  <2> QED
    BY Zenon, <1>3, <2>1, <2>3, <2>4, PartsOfInv
<1>5. sock'[s].set = None /\ \A r \in Socks : r # s => sock'[r] = sock[r]
  BY <1>1, PartsOfInv, TypesAre
<1>6. Emptied(s)
  BY <1>1, <1>4, <1>5 DEF Emptied
<1> QED
  BY <1>1, <1>2, <1>4, <1>5, <1>6

LEMMA DetachIsSound ==
    ASSUME SocketInv, NEW t \in Threads, NEW s \in Socks, Detach(t, s)
    PROVE  SocketInv'
<1>1. /\ s \in InUse /\ Emptied(s) /\ slot' \in [Slots -> SlotType]
      /\ sock'[s].set = None
      /\ UNCHANGED <<scope, kernelVars, que, cur, overwritten>>
  BY DetachEmpties
<1>2. op' \in [Ops -> OpType] /\ NobodysAreEmpty' /\ Placed' /\ AllAreSound'
  BY <1>1, EmptiedIsSound
<1>3. RegistryInv'
  BY DetachKeeps, PartsOfInv
<1>4. TypeOK'
  BY <1>1, <1>2, <1>3, PartsOfInv, TypesAre, TypesFollow
     DEF kernelVars, ConnType, OpType
<1>5. FilesApart'
  BY <1>1, FilesKept, PartsOfInv DEF kernelVars
<1> QED
  BY <1>2, <1>3, <1>4, <1>5 DEF SocketInv

-----------------------------------------------------------------------------
(* Steps that leave the operations and the sockets alone: events come and  *)
(* are passed on.                                                          *)

LEMMA QuietIsSound ==
    ASSUME SocketInv, RegistryInv',
           scope' = scope, file' = file, entry' = entry, opened' = opened,
           sock' = sock, op' = op,
           conn' \in [Conns -> ConnType], edge' \in [Fds -> SUBSET Kinds],
           slot' \in [Slots -> SlotType], que' \in Seq(Slots),
           cur' \in [Threads -> [set : Slots \cup {None}, ev : SUBSET Kinds, locked : BOOLEAN]],
           overwritten' \subseteq Slots,
           \A m \in Slots : slot'[m].q = slot[m].q /\ slot'[m].out = slot[m].out,
           \A s \in InUse, kind \in Kinds : IsKept(s, kind)'
    PROVE  SocketInv'
<1>1. InUse' = InUse /\ Waiting' = Waiting
  BY DEF InUse, Waiting
<1>2. \A s \in InUse : sock[s].set \in Slots
  BY PartsOfInv, InUseHave
<1>3. \A s \in InUse, kind \in Kinds : Queue(s, kind)' = Queue(s, kind)
  BY <1>2 DEF Queue
<1>4. TypeOK'
  BY PartsOfInv, TypesAre, TypesFollow DEF ConnType, OpType
<1>5. FilesApart'
  BY FilesKept, PartsOfInv
<1>6. NobodysAreEmpty'
  BY <1>1, PartsOfInv DEF NobodysAreEmpty, Empty
<1>7. Placed'
  <2> SUFFICES ASSUME NEW o \in Waiting PROVE \E s \in InUse : StandsAt(o, s)'
    BY <1>1 DEF Placed
  <2>1. PICK s \in InUse : StandsAt(o, s)
    BY PartsOfInv DEF Placed
  <2>2. op[o].kind \in Kinds
    BY PartsOfInv DEF Waiting, OpType
  <2> QED
    BY <1>3, <2>1, <2>2 DEF StandsAt
<1>8. AllAreSound'
  <2> SUFFICES ASSUME NEW s \in InUse PROVE IsSound(s)'
    BY <1>1 DEF AllAreSound
  <2>1. IsWatched(s) /\ \A kind \in Kinds : QueueIsItsOwn(s, kind)
    BY PartsOfInv DEF AllAreSound, IsSound
  <2>2. IsWatched(s)'
    BY <1>2, <1>3, <2>1 DEF IsWatched, Kinds
  <2>3. \A kind \in Kinds : QueueIsItsOwn(s, kind)'
    BY <1>3, <2>1 DEF QueueIsItsOwn, ItsOwn
  <2> QED
    BY <2>2, <2>3 DEF IsSound
<1> QED
  BY <1>4, <1>5, <1>6, <1>7, <1>8 DEF SocketInv

LEMMA WasKept ==
    ASSUME SocketInv, NEW s \in InUse, NEW kind \in Kinds
    PROVE  /\ IsKept(s, kind)
           /\ Queue(s, kind) # <<>> => /\ op[Queue(s, kind)[1]] \in OpType
                                       /\ op[Queue(s, kind)[1]].kind = kind
<1>1. IsKept(s, kind) /\ QueueIsItsOwn(s, kind)
  BY PartsOfInv DEF AllAreSound, IsSound
<1>2. Queue(s, kind) # <<>> => 1 \in 1..Len(Queue(s, kind))
  BY PartsOfInv, InUseHave
<1> QED
  BY <1>1, <1>2, TheirOps, PartsOfInv DEF ItsOwn

(* What the head of a queue could move once the connection is c, it could  *)
(* move before, or there is an edge.                                       *)
Announced(f, c) ==
    \A s \in InUse, kind \in Kinds :
        /\ sock[s].fd = f /\ Queue(s, kind) # <<>>
        /\ Amount(c, op[Queue(s, kind)[1]]) > 0
        => \/ kind \in edge'[f]
           \/ Amount(conn[file[f]], op[Queue(s, kind)[1]]) > 0

(* The peer changes a connection.                                          *)
LEMMA PeerIsSound ==
    ASSUME SocketInv, RegistryInv', NEW f \in Fds, NEW c \in ConnType,
           file[f] # None, conn' = [conn EXCEPT ![file[f]] = c],
           edge' \in [Fds -> SUBSET Kinds], \A g \in Fds : edge[g] \subseteq edge'[g],
           UNCHANGED <<scope, file, entry, opened, sock, slot, que, op, cur, overwritten>>,
           Announced(f, c)
    PROVE  SocketInv'
<1>1. file[f] \in Conns /\ conn' \in [Conns -> ConnType]
  BY PartsOfInv, TypesAre
<1>2. ASSUME NEW s \in InUse, NEW kind \in Kinds PROVE IsKept(s, kind)'
  <2>1. sock[s].fd \in Fds /\ file[sock[s].fd] \in Conns /\ file[sock[s].fd] # None
    BY PartsOfInv, InUseHave
  <2>2. Seen(s, kind) => Seen(s, kind)'
    BY <2>1 DEF Seen
  <2>3. kind \in edge'[sock[s].fd] => Seen(s, kind)'
    BY DEF Seen
  <2>4. IsKept(s, kind)
    BY WasKept
  <2>5. CASE sock[s].fd = f
    BY <1>1, <2>2, <2>3, <2>4, <2>5, PartsOfInv DEF IsKept, Queue, Announced
  <2>6. CASE sock[s].fd # f
    <3>1. file[sock[s].fd] # file[f]
      BY <2>1, <2>6, PartsOfInv DEF FilesApart
    <3>2. conn'[file[sock[s].fd]] = conn[file[sock[s].fd]]
      BY <2>1, <3>1, PartsOfInv
    <3> QED
      BY <2>2, <2>4, <3>2 DEF IsKept, Queue
  <2> QED
    BY <2>5, <2>6
<1> QED
  BY <1>1, <1>2, PartsOfInv, TypesAre, QuietIsSound

LEMMA PeerStepsAreSound ==
    ASSUME SocketInv, NEW f \in Fds, Arrive(f) \/ PeerCloses(f) \/ Drain(f)
    PROVE  SocketInv'
<1>1. RegistryInv'
  BY QuietSteps, PartsOfInv
<1>2. file[f] # None /\ file[f] \in Conns
  BY PartsOfInv, TypesAre DEF Arrive, PeerCloses, Drain
<1>3. conn[file[f]] \in ConnType /\ edge \in [Fds -> SUBSET Kinds] /\ scope.cap \in Nat
  BY <1>2, PartsOfInv, TypesAre
<1> DEFINE c == conn[file[f]]
<1>4. UNCHANGED <<scope, file, entry, opened, sock, slot, que, op, cur, overwritten>>
  BY DEF Arrive, PeerCloses, Drain
<1>5. CASE Arrive(f)
  <2> DEFINE d == [c EXCEPT !.avail = @ + 1]
  <2>1. conn' = [conn EXCEPT ![file[f]] = d] /\ d \in ConnType
    BY <1>2, <1>3, <1>5, PartsOfInv DEF Arrive, ConnType
  <2>2. /\ edge' \in [Fds -> SUBSET Kinds] /\ \A g \in Fds : edge[g] \subseteq edge'[g]
        /\ "read" \in edge'[f]
    BY <1>3, <1>5 DEF Arrive, Fires, Kinds
  <2>3. \A p \in OpType : p.kind = "write" => Amount(d, p) = Amount(c, p)
    BY <1>3 DEF Amount, ConnType
  <2>4. ASSUME NEW s \in InUse, NEW kind \in Kinds, sock[s].fd = f, Queue(s, kind) # <<>>,
               Amount(d, op[Queue(s, kind)[1]]) > 0
        PROVE  kind \in edge'[f] \/ Amount(c, op[Queue(s, kind)[1]]) > 0
    <3>1. kind \in {"read", "write"}
      BY DEF Kinds
    <3> QED
      BY <2>2, <2>3, <2>4, <3>1, WasKept
  <2>5. Announced(f, d)
    BY <2>4 DEF Announced
  <2> QED
    BY <1>1, <1>2, <1>4, <2>1, <2>2, <2>5, PeerIsSound
<1>6. CASE PeerCloses(f)
  <2> DEFINE d == [c EXCEPT !.eof = TRUE]
  <2>1. conn' = [conn EXCEPT ![file[f]] = d] /\ d \in ConnType
    BY <1>2, <1>3, <1>6, PartsOfInv DEF PeerCloses, ConnType
  <2>2. /\ edge' \in [Fds -> SUBSET Kinds] /\ \A g \in Fds : edge[g] \subseteq edge'[g]
        /\ Kinds \subseteq edge'[f]
    BY <1>3, <1>6 DEF PeerCloses, Fires
  <2>3. Announced(f, d)
    BY <2>2 DEF Announced
  <2> QED
    BY <1>1, <1>2, <1>4, <2>1, <2>2, <2>3, PeerIsSound
<1>7. CASE Drain(f)
  <2> DEFINE d == [c EXCEPT !.room = scope.cap]
  <2>1. conn' = [conn EXCEPT ![file[f]] = d] /\ d \in ConnType
    BY <1>2, <1>3, <1>7, PartsOfInv DEF Drain, ConnType
  <2>2. /\ edge' \in [Fds -> SUBSET Kinds] /\ \A g \in Fds : edge[g] \subseteq edge'[g]
        /\ entry[f].out => "write" \in edge'[f]
    BY <1>3, <1>7 DEF Drain, Fires, Kinds
  <2>3. \A p \in OpType : p.kind = "read" => Amount(d, p) = Amount(c, p)
    BY <1>3 DEF Amount, ConnType
  <2>4. ASSUME NEW s \in InUse, NEW kind \in Kinds, sock[s].fd = f, Queue(s, kind) # <<>>,
               Amount(d, op[Queue(s, kind)[1]]) > 0
        PROVE  kind \in edge'[f] \/ Amount(c, op[Queue(s, kind)[1]]) > 0
    <3>1. kind \in {"read", "write"}
      BY DEF Kinds
    <3>2. IsWatched(s)
      BY PartsOfInv DEF AllAreSound, IsSound
    <3>3. kind = "write" => kind \in edge'[f]
      BY <2>2, <2>4, <3>2 DEF IsWatched
    <3> QED
      BY <2>3, <2>4, <3>1, <3>3, WasKept
  <2>5. Announced(f, d)
    BY <2>4 DEF Announced
  <2> QED
    BY <1>1, <1>2, <1>4, <2>1, <2>2, <2>5, PeerIsSound
<1> QED
  BY <1>5, <1>6, <1>7

LEMMA EndIoIsSound ==
    ASSUME SocketInv, NEW t \in Threads, EndIo(t)
    PROVE  SocketInv'
<1>1. RegistryInv'
  BY QuietSteps, PartsOfInv
<1>2. /\ cur[t].set # None /\ Due(t) = {} /\ cur' = [cur EXCEPT ![t] = NoWork]
      /\ UNCHANGED <<scope, kernelVars, sock, slot, poolVars, que, op, closing, overwritten>>
  BY DEF EndIo
<1>3. cur' \in [Threads -> [set : Slots \cup {None}, ev : SUBSET Kinds, locked : BOOLEAN]]
  BY <1>2, PartsOfInv, TypesAre DEF NoWork
<1>4. ASSUME NEW s \in InUse, NEW kind \in Kinds PROVE IsKept(s, kind)'
  <2>1. \A u \in Threads : u # t => cur'[u] = cur[u]
    BY <1>2, PartsOfInv, TypesAre
  <2>2. Queue(s, kind) # <<>> /\ cur[t].set = sock[s].set => kind \notin cur[t].ev
    BY <1>2 DEF Due, Queue
  <2>3. Queue(s, kind) # <<>> /\ Seen(s, kind) => Seen(s, kind)'
    BY <1>2, <2>1, <2>2 DEF Seen, kernelVars
  <2>4. IsKept(s, kind)
    BY WasKept
  <2> QED
    BY <1>2, <2>3, <2>4 DEF IsKept, Queue, kernelVars
<1> QED
  BY <1>1, <1>2, <1>3, <1>4, PartsOfInv, TypesAre, QuietIsSound DEF kernelVars

(* The last of some positions.                                             *)
LEMMA HasLast ==
    ASSUME NEW n \in Nat, NEW I, I \subseteq 1..n, I # {}
    PROVE  \E i \in I : \A j \in I : j <= i
<1> DEFINE R == OpToRel(<, Nat)
           B == {m \in Nat : n - m \in I}
<1>1. IsWellFoundedOn(R, Nat)
  BY Zenon, NatLessThanWellFounded
<1>2. R = {ss \in Nat \X Nat : ss[1] < ss[2]}
  BY DEF OpToRel
<1>3. B \subseteq Nat /\ B # {}
  <2>1. PICK i \in I : TRUE
    OBVIOUS
  <2>2. i \in 1..n /\ n - i \in Nat /\ n - (n - i) = i
    BY <2>1
  <2> QED
    BY <2>1, <2>2
<1> HIDE DEF R
<1>4. PICK m \in B : \A x \in B : <<x, m>> \notin R
  BY <1>1, <1>3, WFMin
<1>5. \A x \in B : ~(x < m)
  BY <1>2, <1>3, <1>4
<1>6. \A j \in I : j <= n - m
  <2> SUFFICES ASSUME NEW j \in I PROVE j <= n - m
    OBVIOUS
  <2>1. j \in 1..n /\ n - j \in Nat /\ n - (n - j) = j
    OBVIOUS
  <2>2. ~(n - j < m)
    BY <1>5, <2>1
  <2> QED
    BY <1>4, <2>1, <2>2
<1> QED
  BY <1>4, <1>6

Hot == {f \in Fds : edge[f] # {} /\ entry[f].set # None}

(* A report names every descriptor with an event once; an op_set keeps the *)
(* events of its last one.                                                 *)
LEMMA PollReports ==
    ASSUME RegistryInv, TypeOK, NEW t, Poll(t)
    PROVE  \E n \in Nat : \E fds \in [1..n -> Hot], at \in [ToSet(que') -> 1..n] :
             /\ \A f \in Hot : \E i \in 1..n : fds[i] = f
             /\ que' = [i \in 1..n |-> entry[fds[i]].set]
             /\ \A k \in ToSet(que') : que'[at[k]] = k
             /\ slot' = [k \in Slots |-> IF k \in ToSet(que')
                           THEN [slot[k] EXCEPT !.result = edge[fds[at[k]]]] ELSE slot[k]]
             /\ overwritten' = overwritten \cup
                   {k \in Slots : Cardinality({i \in 1..n : que'[i] = k}) > 1}
<1> DEFINE n == Cardinality(Hot)
<1>1. IsFiniteSet(Hot) /\ n \in Nat
  <2>1. IsFiniteSet(Fds) /\ Hot \subseteq Fds
    BY SocketIoAssumption DEF Hot
  <2> QED
    BY <2>1, FS_Subset, FS_CardinalityType
<1>2. PICK fds \in SetToSeqs(Hot) :
         LET sets == [i \in DOMAIN fds |-> entry[fds[i]].set]
             last(k) == CHOOSE i \in DOMAIN fds :
                           sets[i] = k /\ \A j \in DOMAIN fds : sets[j] = k => j <= i
         IN /\ que' = sets
            /\ slot' = [k \in Slots |-> IF k \in ToSet(sets)
                           THEN [slot[k] EXCEPT !.result = edge[fds[last(k)]]]
                           ELSE slot[k]]
            /\ overwritten' = overwritten \cup
                  {k \in Slots : Cardinality({i \in DOMAIN sets : sets[i] = k}) > 1}
  BY DEF Poll, Hot
<1>3. /\ fds \in [1..n -> Hot] /\ DOMAIN fds = 1..n
      /\ \A i, j \in 1..n : fds[i] = fds[j] => i = j
  BY <1>2 DEF SetToSeqs
<1>4. \A f \in Hot : \E i \in 1..n : fds[i] = f
  <2>1. IsFiniteSet(1..n) /\ Cardinality(1..n) = n
    BY <1>1, FS_Interval
  <2>2. fds \in Injection(1..n, Hot)
    BY <1>3 DEF Injection, IsInjective
  <2>3. fds \in Surjection(1..n, Hot)
    BY <1>1, <2>1, <2>2, FS_Injection
  <2> QED
    BY <2>3 DEF Surjection
<1> DEFINE sets == [i \in 1..n |-> entry[fds[i]].set]
           last(k) == CHOOSE i \in 1..n : sets[i] = k /\ \A j \in 1..n : sets[j] = k => j <= i
           at == [k \in ToSet(sets) |-> last(k)]
<1>5. /\ que' = sets /\ DOMAIN sets = 1..n
      /\ slot' = [k \in Slots |-> IF k \in ToSet(sets)
                     THEN [slot[k] EXCEPT !.result = edge[fds[last(k)]]] ELSE slot[k]]
      /\ overwritten' = overwritten \cup
            {k \in Slots : Cardinality({i \in 1..n : sets[i] = k}) > 1}
  BY <1>2, <1>3
<1>6. ASSUME NEW k \in ToSet(sets)
      PROVE  last(k) \in 1..n /\ sets[last(k)] = k
  <2> DEFINE I == {i \in 1..n : sets[i] = k}
  <2>1. PICK i \in 1..n : sets[i] = k
    BY <1>6 DEF ToSet
  <2>2. I \subseteq 1..n /\ I # {}
    BY <2>1
  <2>3. \E m \in I : \A j \in I : j <= m
    <3> HIDE DEF I
    <3> QED
      BY <1>1, <2>2, HasLast
  <2>4. \E m \in 1..n : sets[m] = k /\ \A j \in 1..n : sets[j] = k => j <= m
    BY <2>3
  <2> HIDE DEF sets
  <2> QED
    BY <2>4
<1>7. at \in [ToSet(que') -> 1..n] /\ \A k \in ToSet(que') : que'[at[k]] = k
  BY <1>5, <1>6
<1>8. slot' = [k \in Slots |-> IF k \in ToSet(que')
                  THEN [slot[k] EXCEPT !.result = edge[fds[at[k]]]] ELSE slot[k]]
  BY <1>5
<1> n \in Nat /\ fds \in [1..n -> Hot] /\ at \in [ToSet(que') -> 1..n]
  BY <1>1, <1>3, <1>7
<1>9. /\ que' = [i \in 1..n |-> entry[fds[i]].set]
       /\ overwritten' = overwritten \cup
             {k \in Slots : Cardinality({i \in 1..n : que'[i] = k}) > 1}
  BY <1>5
<1> HIDE DEF n, sets, at
<1> WITNESS n \in Nat
<1> WITNESS fds \in [1..n -> Hot], at \in [ToSet(que') -> 1..n]
<1> QED
  BY <1>4, <1>7, <1>8, <1>9

LEMMA TwoOrMore ==
    ASSUME NEW S, IsFiniteSet(S), NEW a \in S, NEW b \in S, a # b
    PROVE  Cardinality(S) > 1
<1>1. IsFiniteSet({a}) /\ Cardinality({a}) = 1
  BY FS_Singleton
<1>2. IsFiniteSet({a} \cup {b}) /\ Cardinality({a} \cup {b}) = 2
  BY <1>1, FS_AddElement
<1>3. Cardinality({a} \cup {b}) <= Cardinality(S) /\ Cardinality(S) \in Nat
  BY FS_Subset, FS_CardinalityType
<1> QED
  BY <1>2, <1>3

LEMMA PollIsSound ==
    ASSUME SocketInv, NEW t \in Threads, Poll(t)
    PROVE  SocketInv'
<1>1. RegistryInv'
  BY QuietSteps, PartsOfInv
<1>2. PICK n \in Nat : \E fds \in [1..n -> Hot], at \in [ToSet(que') -> 1..n] :
             /\ \A f \in Hot : \E i \in 1..n : fds[i] = f
             /\ que' = [i \in 1..n |-> entry[fds[i]].set]
             /\ \A k \in ToSet(que') : que'[at[k]] = k
             /\ slot' = [k \in Slots |-> IF k \in ToSet(que')
                           THEN [slot[k] EXCEPT !.result = edge[fds[at[k]]]] ELSE slot[k]]
             /\ overwritten' = overwritten \cup
                   {k \in Slots : Cardinality({i \in 1..n : que'[i] = k}) > 1}
  BY PollReports, PartsOfInv
<1>3. PICK fds \in [1..n -> Hot], at \in [ToSet(que') -> 1..n] :
             /\ \A f \in Hot : \E i \in 1..n : fds[i] = f
             /\ que' = [i \in 1..n |-> entry[fds[i]].set]
             /\ \A k \in ToSet(que') : que'[at[k]] = k
             /\ slot' = [k \in Slots |-> IF k \in ToSet(que')
                           THEN [slot[k] EXCEPT !.result = edge[fds[at[k]]]] ELSE slot[k]]
             /\ overwritten' = overwritten \cup
                   {k \in Slots : Cardinality({i \in 1..n : que'[i] = k}) > 1}
  BY <1>2
<1>4. /\ que = <<>> /\ edge' = [f \in Fds |-> IF f \in Hot THEN {} ELSE edge[f]]
      /\ UNCHANGED <<scope, file, conn, entry, opened, sock, op, cur>>
  BY DEF Poll, Hot
<1>5. /\ Hot \subseteq Fds /\ \A f \in Hot : entry[f].set \in Slots /\ edge[f] \in SUBSET Kinds
  BY PartsOfInv, TypesAre DEF Hot
<1>6. edge' \in [Fds -> SUBSET Kinds] /\ que' \in Seq(Slots) /\ DOMAIN que' = 1..n
  <2>1. edge' \in [Fds -> SUBSET Kinds]
    BY <1>4, PartsOfInv, TypesAre
  <2>2. que' \in [1..n -> Slots]
    BY <1>3, <1>5
  <2> QED
    BY <2>1, <2>2
<1>7. /\ slot' \in [Slots -> SlotType]
      /\ \A m \in Slots : slot'[m].q = slot[m].q /\ slot'[m].out = slot[m].out
      /\ \A m \in ToSet(que') : m \in Slots /\ slot'[m].result = edge[fds[at[m]]]
  <2>1. \A m \in ToSet(que') : m \in Slots /\ edge[fds[at[m]]] \in SUBSET Kinds
    BY <1>5, <1>6 DEF ToSet
  <2>2. \A x \in SlotType, e \in SUBSET Kinds :
            /\ [x EXCEPT !.result = e] \in SlotType /\ [x EXCEPT !.result = e].result = e
            /\ [x EXCEPT !.result = e].q = x.q /\ [x EXCEPT !.result = e].out = x.out
    BY DEF SlotType
  <2>3. \A m \in Slots : slot[m] \in SlotType
    BY PartsOfInv
  <2>4. ASSUME NEW m \in Slots
        PROVE  slot'[m] \in SlotType /\ slot'[m].q = slot[m].q /\ slot'[m].out = slot[m].out
    <3>1. CASE m \in ToSet(que')
      BY <1>3, <2>1, <2>2, <2>3, <3>1
    <3>2. CASE m \notin ToSet(que')
      BY <1>3, <2>3, <3>2
    <3> QED
      BY <3>1, <3>2
  <2>5. ASSUME NEW m \in ToSet(que') PROVE slot'[m].result = edge[fds[at[m]]]
    BY <1>3, <2>1, <2>2, <2>3
  <2>6. slot' = [m \in Slots |-> slot'[m]]
    BY <1>3
  <2> QED
    BY <2>1, <2>4, <2>5, <2>6
<1>8. overwritten' \subseteq Slots /\ overwritten \subseteq overwritten'
  BY <1>3, PartsOfInv, TypesAre
<1>9. ASSUME NEW s \in InUse, NEW kind \in Kinds PROVE IsKept(s, kind)'
  <2> DEFINE k == sock[s].set
             f == sock[s].fd
  <2>1. /\ k \in Slots /\ k # None /\ f \in Fds /\ entry[f].set = k
    BY PartsOfInv, InUseHave
  <2>0. Queue(s, kind)' = Queue(s, kind)
    BY <1>4, <1>7, <2>1 DEF Queue
  <2>2. SUFFICES ASSUME k \notin overwritten', Seen(s, kind) PROVE Seen(s, kind)'
    <3>1. IsKept(s, kind) /\ (k \notin overwritten' => k \notin overwritten)
      BY <1>8, WasKept
    <3> QED
      BY <1>4, <2>0, <3>1 DEF IsKept
  <2>3. CASE kind \in edge[f]
    <3>1. f \in Hot
      BY <2>1, <2>3 DEF Hot
    <3>2. PICK i \in 1..n : fds[i] = f
      BY <1>3, <3>1
    <3>3. que'[i] = k /\ k \in ToSet(que')
      BY <1>3, <1>6, <2>1, <3>2 DEF ToSet
    <3>4. at[k] \in 1..n /\ que'[at[k]] = k
      BY <1>3, <3>3
    <3>5. at[k] = i
      <4> DEFINE S == {j \in 1..n : que'[j] = k}
      <4>1. IsFiniteSet(S)
        BY FS_Interval, FS_Subset
      <4>2. ~(Cardinality(S) > 1)
        BY <1>3, <2>1, <2>2
      <4>3. i \in S /\ at[k] \in S
        BY <3>2, <3>3, <3>4
      <4> HIDE DEF S
      <4> QED
        BY <4>1, <4>2, <4>3, TwoOrMore
    <3>6. slot'[k].result = edge[f]
      BY <1>7, <3>2, <3>3, <3>5
    <3> QED
      BY <1>4, <2>3, <3>3, <3>6 DEF Seen
  <2>4. CASE k \in ToSet(que)
    BY <1>4, <2>4 DEF ToSet
  <2>5. CASE \E u \in Threads : cur[u].set = k /\ kind \in cur[u].ev
    BY <1>4, <2>5 DEF Seen
  <2> QED
    BY <2>2, <2>3, <2>4, <2>5 DEF Seen
<1> QED
  BY <1>1, <1>4, <1>6, <1>7, <1>8, <1>9, PartsOfInv, TypesAre, QuietIsSound

LEMMA TakeSetIsSound ==
    ASSUME SocketInv, NEW t \in Threads, TakeSet(t)
    PROVE  SocketInv'
<1> DEFINE h == Head(que)
<1>1. RegistryInv'
  BY QuietSteps, PartsOfInv
<1>2. /\ cur[t].set = None /\ que # <<>> /\ que' = Tail(que)
      /\ cur' = [cur EXCEPT ![t] = [set |-> h, ev |-> slot[h].result, locked |-> FALSE]]
      /\ slot' = slot \/ (h \notin ToSet(Tail(que)) /\ slot' = [slot EXCEPT ![h].result = {}])
      /\ UNCHANGED <<scope, kernelVars, sock, op, overwritten>>
  BY Zenon DEF TakeSet, Idle
<1>3. /\ que \in Seq(Slots) /\ h \in Slots /\ que' \in Seq(Slots)
      /\ ToSet(que) = {h} \cup ToSet(que')
  <2>1. que \in Seq(Slots) /\ que # <<>>
    BY <1>2, PartsOfInv, TypesAre
  <2>2. h = que[1] /\ h \in Slots /\ Tail(que) \in Seq(Slots) /\ Len(que) \in Nat /\ Len(que) > 0
        /\ Len(Tail(que)) = Len(que) - 1 /\ DOMAIN que = 1..Len(que)
        /\ DOMAIN Tail(que) = 1..(Len(que) - 1)
        /\ \A i \in 1..(Len(que) - 1) : Tail(que)[i] = que[i + 1]
    BY <2>1
  <2>3. \A i \in 1..Len(que) : i = 1 \/ (i - 1 \in 1..(Len(que) - 1) /\ que[i] = Tail(que)[i - 1])
    BY <2>2
  <2>4. \A i \in 1..(Len(que) - 1) : i + 1 \in 1..Len(que)
    BY <2>2
  <2>5. ASSUME NEW x \in ToSet(que) PROVE x \in {h} \cup ToSet(Tail(que))
    <3>1. PICK i \in 1..Len(que) : x = que[i]
      BY <2>2 DEF ToSet
    <3>2. CASE i = 1
      BY <2>2, <3>1, <3>2
    <3>3. CASE i # 1
      <4>1. i - 1 \in DOMAIN Tail(que) /\ x = Tail(que)[i - 1]
        BY <2>2, <2>3, <3>1, <3>3
      <4> QED
        BY <4>1 DEF ToSet
    <3> QED
      BY <3>2, <3>3
  <2>6. {h} \cup ToSet(Tail(que)) \subseteq ToSet(que)
    BY <2>2, <2>4 DEF ToSet
  <2> QED
    BY <1>2, <2>2, <2>5, <2>6
<1>4. /\ slot' \in [Slots -> SlotType]
      /\ \A m \in Slots : slot'[m].q = slot[m].q /\ slot'[m].out = slot[m].out
      /\ \A m \in Slots : slot'[m] = slot[m] \/ (m = h /\ h \notin ToSet(que'))
  <2>1. \A m \in Slots : slot[m] \in SlotType
    BY PartsOfInv
  <2>2. CASE slot' = slot
    BY <2>1, <2>2, PartsOfInv
  <2>3. CASE h \notin ToSet(Tail(que)) /\ slot' = [slot EXCEPT ![h].result = {}]
    <3>1. slot' = [m \in Slots |-> IF m = h THEN [slot[m] EXCEPT !.result = {}] ELSE slot[m]]
      BY <2>3, PartsOfInv
    <3>2. /\ [slot[h] EXCEPT !.result = {}] \in SlotType
          /\ [slot[h] EXCEPT !.result = {}].q = slot[h].q
          /\ [slot[h] EXCEPT !.result = {}].out = slot[h].out
      BY <1>3, <2>1 DEF SlotType
    <3> QED
      BY <1>2, <1>3, <2>1, <2>3, <3>1, <3>2
  <2> QED
    BY <1>2, <2>2, <2>3
<1>5. cur' \in [Threads -> [set : Slots \cup {None}, ev : SUBSET Kinds, locked : BOOLEAN]]
  <2>1. slot[h].result \in SUBSET Kinds
    BY <1>3, PartsOfInv DEF SlotType
  <2> QED
    BY <1>2, <1>3, <2>1, PartsOfInv, TypesAre
<1>6. ASSUME NEW s \in InUse, NEW kind \in Kinds PROVE IsKept(s, kind)'
  <2> DEFINE k == sock[s].set
  <2>1. k \in Slots /\ k # None
    BY PartsOfInv, InUseHave
  <2>0. Queue(s, kind)' = Queue(s, kind)
    BY <1>2, <1>4, <2>1 DEF Queue
  <2>2. SUFFICES ASSUME Seen(s, kind) PROVE Seen(s, kind)'
    BY <1>2, <2>0, WasKept DEF IsKept, kernelVars
  <2>3. CASE kind \in edge[sock[s].fd]
    BY <1>2, <2>3 DEF Seen, kernelVars
  <2>4. CASE kind \in slot[k].result /\ k \in ToSet(que)
    <3>1. CASE k = h
      <4>1. cur'[t].set = k /\ kind \in cur'[t].ev
        BY <1>2, <2>4, <3>1, PartsOfInv, TypesAre
      <4> QED
        BY <1>2, <4>1 DEF Seen
    <3>2. CASE k # h
      BY <1>2, <1>3, <1>4, <2>1, <2>4, <3>2 DEF Seen
    <3> QED
      BY <3>1, <3>2
  <2>5. CASE \E u \in Threads : cur[u].set = k /\ kind \in cur[u].ev
    <3>1. PICK u \in Threads : cur[u].set = k /\ kind \in cur[u].ev
      BY <2>5
    <3>2. cur'[u] = cur[u]
      BY <1>2, <2>1, <3>1, PartsOfInv, TypesAre
    <3> QED
      BY <1>2, <3>1, <3>2 DEF Seen
  <2> QED
    BY <2>2, <2>3, <2>4, <2>5 DEF Seen
<1> QED
  BY <1>1, <1>2, <1>3, <1>4, <1>5, <1>6, PartsOfInv, TypesAre, QuietIsSound DEF kernelVars

-----------------------------------------------------------------------------
(* Sockets come and go.                                                    *)

(* An operation stays where it stands when a step keeps aloof of the place. *)
LEMMA StillStands ==
    ASSUME NEW a, NEW r, StandsAt(a, r), op'[a].kind = op[a].kind, Aloof(r)
    PROVE  StandsAt(a, r)'
<1> DEFINE old == slot[sock[r].set].q[op[a].kind]
           new == slot'[sock'[r].set].q[op'[a].kind]
<1>1. new = old
  BY DEF Aloof
<1>2. \E i \in 1..Len(old) : old[i] = a
  BY DEF StandsAt, Queue
<1> HIDE DEF old, new
<1>3. \E i \in 1..Len(new) : new[i] = a
  BY <1>1, <1>2
<1> QED
  BY <1>3 DEF StandsAt, Queue, new

LEMMA StillPlaced ==
    ASSUME SocketInv, op' = op, \A r \in InUse : Aloof(r)
    PROVE  Placed'
<1> SUFFICES ASSUME NEW o \in Waiting PROVE \E r \in InUse' : StandsAt(o, r)'
  BY DEF Placed, Waiting
<1>1. PICK r \in InUse : StandsAt(o, r)
  BY PartsOfInv DEF Placed
<1>2. Aloof(r) /\ r \in InUse'
  BY DEF Aloof, InUse
<1>3. StandsAt(o, r)'
  BY <1>1, <1>2, StillStands
<1> QED
  BY <1>2, <1>3

LEMMA CloseFdIsSound ==
    ASSUME SocketInv, NEW t \in Threads, CloseFd(t)
    PROVE  SocketInv'
<1> DEFINE s == closing[t]
           f == sock[s].fd
<1>1. RegistryInv'
  BY CloseFdKeeps, PartsOfInv
<1>2. /\ s # None
      /\ conn' = [conn EXCEPT ![file[f]] = NoConn]
      /\ file' = [file EXCEPT ![f] = None]
      /\ entry' = [entry EXCEPT ![f] = NoSet]
      /\ edge' = [edge EXCEPT ![f] = {}]
      /\ sock' = [sock EXCEPT ![s].fd = None]
      /\ UNCHANGED <<scope, opened, slot, que, op, cur, overwritten>>
  BY DEF CloseFd
<1>3. /\ s \in Socks /\ f \in Fds /\ f # None /\ sock[s].set = None
      /\ file[f] \in Conns /\ file[f] # None
  <2>1. s \in Socks /\ sock[s].set = None /\ f # None
    BY <1>2, PartsOfInv, TypesAre DEF RegistryInv, ClosedByOne
  <2>2. f \in Fds
    BY <2>1, PartsOfInv, TypesAre
  <2> QED
    BY <2>1, <2>2, PartsOfInv, TypesAre DEF RegistryInv, DescriptorsAreOpen
<1>4. /\ sock'[s].set = None
      /\ \A r \in Socks : r # s => sock'[r] = sock[r]
      /\ \A g \in Fds : g # f => file'[g] = file[g] /\ entry'[g] = entry[g] /\ edge'[g] = edge[g]
      /\ \A c \in Conns : c # file[f] => conn'[c] = conn[c]
      /\ file'[f] = None
  BY <1>2, <1>3, PartsOfInv, TypesAre
<1>5. ASSUME NEW r \in InUse PROVE Aloof(r)
  <2>1. r \in Socks /\ r # s /\ r \in InUse
    BY <1>3 DEF InUse
  <2> QED
    BY <1>2, <1>3, <1>4, <2>1, AloofWhen
<1>6. AllAreSound'
  BY <1>2, <1>3, <1>4, <1>5, OneMoves
<1>7. Placed'
  BY <1>2, <1>5, StillPlaced
<1>8. NobodysAreEmpty'
  <2>1. InUse' = InUse /\ \A r \in InUse : sock'[r] = sock[r]
    BY <1>3, <1>4 DEF InUse
  <2> QED
    BY <1>2, <2>1, PartsOfInv DEF NobodysAreEmpty, Empty
<1>9. FilesApart'
  BY <1>2, <1>3, <1>4, PartsOfInv DEF FilesApart
<1>10. TypeOK'
  <2>1. NoConn \in ConnType
    BY PartsOfInv DEF NoConn, ConnType
  <2>2. conn' \in [Conns -> ConnType]
    BY <1>2, <2>1, PartsOfInv
  <2>3. edge' \in [Fds -> SUBSET Kinds]
    BY <1>2, PartsOfInv, TypesAre
  <2> QED
    BY <1>1, <1>2, <2>2, <2>3, PartsOfInv, TypesAre, TypesFollow DEF ConnType, OpType
<1> QED
  BY <1>1, <1>6, <1>7, <1>8, <1>9, <1>10 DEF SocketInv

LEMMA OpenIsSound ==
    ASSUME SocketInv, NEW t \in Threads, NEW s \in Socks, Open(t, s)
    PROVE  SocketInv'
<1>1. RegistryInv'
  BY OpenKeeps, PartsOfInv
<1>2. PICK f \in Fds, k \in Slots :
         /\ file[f] = None
         /\ file' = [file EXCEPT ![f] = opened + 1]
         /\ Alloc(k) /\ Registered(k)
         /\ entry' = [entry EXCEPT ![f] = [set |-> k, out |-> FALSE]]
         /\ edge' = [edge EXCEPT ![f] = Kinds]
         /\ sock' = [sock EXCEPT ![s] = [fd |-> f, set |-> k]]
  BY DEF Open
<1>3. /\ sock[s].fd = None /\ opened < MaxConns /\ opened' = opened + 1
      /\ UNCHANGED <<scope, conn, que, op, cur, overwritten>>
  BY DEF Open
<1>4. sock[s].set = None /\ s \notin InUse /\ k \notin live
  BY <1>2, <1>3, AllocIsFresh, PartsOfInv DEF RegistryInv, OneEach, InUse
<1>5. slot[k].q = Empty /\ \A r \in InUse : sock[r].set # k
  <2>1. \A r \in InUse : sock[r].set # k
    BY <1>4, PartsOfInv, InUseHave
  <2> QED
    BY <2>1, PartsOfInv DEF NobodysAreEmpty
<1>6. /\ opened \in 0..MaxConns /\ MaxConns \in Nat /\ opened + 1 \in Conns /\ opened + 1 # None
      /\ f # None /\ k # None
  BY <1>3, NoneIsNothing, PartsOfInv, TypesAre
<1>7. /\ sock'[s].fd = f /\ sock'[s].set = k
      /\ \A r \in Socks : r # s => sock'[r] = sock[r]
      /\ \A g \in Fds : g # f => file'[g] = file[g] /\ entry'[g] = entry[g] /\ edge'[g] = edge[g]
      /\ file'[f] = opened + 1 /\ entry'[f].out = FALSE
  BY <1>2, PartsOfInv, TypesAre
<1>8. /\ slot' \in [Slots -> SlotType]
      /\ slot'[k].q = Empty /\ slot'[k].out = FALSE
      /\ \A m \in Slots : m # k => slot'[m] = slot[m]
  <2>1. slot' = [m \in Slots |-> IF m = k THEN [slot[m] EXCEPT !.shut = FALSE, !.out = FALSE]
                                 ELSE slot[m]]
    BY Zenon, <1>2, PartsOfInv DEF Registered
  <2>2. /\ [slot[k] EXCEPT !.shut = FALSE, !.out = FALSE] \in SlotType
        /\ [slot[k] EXCEPT !.shut = FALSE, !.out = FALSE].q = slot[k].q
        /\ [slot[k] EXCEPT !.shut = FALSE, !.out = FALSE].out = FALSE
    BY PartsOfInv DEF SlotType
  <2> QED
    BY Zenon, <1>5, <2>1, <2>2, PartsOfInv
<1>9. ASSUME NEW r \in InUse PROVE Aloof(r)
  <2>1. /\ r \in Socks /\ r # s /\ sock[r].fd \in Fds /\ sock[r].set \in Slots
        /\ file[sock[r].fd] # None
    BY <1>4, PartsOfInv, InUseHave
  <2>2. sock[r].fd # f /\ sock[r].set # k
    BY <1>2, <1>5, <2>1
  <2> QED
    BY <1>3, <1>7, <1>8, <2>1, <2>2 DEF Aloof
<1>10. IsSound(s)'
  <2>1. \A kind \in Kinds : Queue(s, kind)' = <<>>
    BY <1>7, <1>8 DEF Queue, Empty
  <2>2. IsWatched(s)'
    BY <1>7, <1>8, <2>1 DEF IsWatched, Kinds
  <2> QED
    BY <2>1, <2>2 DEF IsSound, QueueIsItsOwn, IsKept
<1>11. AllAreSound'
  BY <1>3, <1>7, <1>9, <1>10, OneMoves
<1>12. Placed'
  BY <1>3, <1>9, StillPlaced
<1>13. NobodysAreEmpty'
  <2> SUFFICES ASSUME NEW m \in Slots, \A r \in InUse' : sock'[r].set # m
               PROVE  slot'[m].q = Empty
    BY DEF NobodysAreEmpty, Empty
  <2>1. \A r \in InUse : r \in InUse' /\ sock'[r] = sock[r]
    BY <1>4, <1>7 DEF InUse
  <2> QED
    BY <1>8, <2>1, PartsOfInv DEF NobodysAreEmpty
<1>14. FilesApart'
  BY <1>2, <1>3, <1>6, <1>7, PartsOfInv DEF FilesApart, Conns
<1>15. TypeOK'
  <2>1. edge' \in [Fds -> SUBSET Kinds]
    BY <1>2, PartsOfInv, TypesAre
  <2> QED
    BY <1>1, <1>3, <1>6, <1>8, <2>1, PartsOfInv, TypesAre, TypesFollow DEF ConnType, OpType
<1> QED
  BY <1>1, <1>11, <1>12, <1>13, <1>14, <1>15 DEF SocketInv

-----------------------------------------------------------------------------
(* start_op.                                                               *)

(* What a start changes, whatever becomes of the operation.                *)
StartsAt(s, o, p) ==
    /\ op[o].st = "new" /\ p \in OpType /\ ItsOwn(s, p, p.kind)
    /\ UNCHANGED <<scope, file, opened, sock, que, cur, overwritten>>

FinishedAtOnce(s, p) ==
    /\ Queue(s, p.kind) = <<>>
    /\ conn' = [conn EXCEPT ![file[sock[s].fd]] = Moved(@, p)]
    /\ UNCHANGED <<op, slot, entry, edge>>

PutInQueue(s, o, p) ==
    /\ Queue(s, p.kind) = <<>> => Amount(conn[file[sock[s].fd]], p) = 0
    /\ op' = [op EXCEPT ![o] = p] /\ conn' = conn
    /\ slot' \in [Slots -> SlotType]
    /\ \A m \in Slots : m # sock[s].set => slot'[m] = slot[m]
    /\ slot'[sock[s].set].q = [slot[sock[s].set].q EXCEPT ![p.kind] = Append(@, o)]
    /\ slot'[sock[s].set].result = slot[sock[s].set].result
    /\ slot'[sock[s].set].out = entry'[sock[s].fd].out
    /\ p.kind = "write" \/ slot[sock[s].set].out => slot'[sock[s].set].out
    /\ edge' \in [Fds -> SUBSET Kinds] /\ edge[sock[s].fd] \subseteq edge'[sock[s].fd]
    /\ \A g \in Fds : g # sock[s].fd => entry'[g] = entry[g] /\ edge'[g] = edge[g]

LEMMA StartDoes ==
    ASSUME SocketInv, NEW t \in Threads, NEW s \in Socks, NEW o \in Ops,
           NEW kind \in Kinds, NEW want \in 0..scope.cap, Start(t, s, o, kind, want)
    PROVE  /\ s \in InUse /\ \E p \in OpType : p.kind = kind
                             /\ StartsAt(s, o, p) /\ (FinishedAtOnce(s, p) \/ PutInQueue(s, o, p))
<1> DEFINE p == NewFor(s, kind, want)
           k == sock[s].set
           f == sock[s].fd
           c == file[f]
           q == slot[k].q[kind]
<1>1. PICK stale \in StaleErrno : StartOp(s, o, p, stale)
  BY DEF Start
<1>2. /\ f # None /\ op[o].st = "new" /\ \A u \in Threads : closing[u] # s
      /\ UNCHANGED <<scope, file, opened, sock, que, cur, overwritten>>
  BY DEF Start, Calls
<1>3. s \in InUse
  BY <1>2, PartsOfInv DEF InUse, RegistryInv, ClosedByOne
<1>4. /\ k \in Slots /\ f \in Fds /\ c \in Conns /\ conn[c] \in ConnType /\ slot[k] \in SlotType
      /\ q \in Seq(Ops)
  BY <1>3, PartsOfInv, InUseHave DEF Queue
<1>5. p \in OpType /\ p.kind = kind /\ p.conn = c /\ ItsOwn(s, p, kind)
  <2>1. p = [st |-> "waiting", kind |-> kind, want |-> want, fd |-> f, conn |-> c]
    BY DEF NewFor
  <2> QED
    BY <1>4, <2>1 DEF OpType, ItsOwn
<1>6. StartsAt(s, o, p)
  BY <1>2, <1>5 DEF StartsAt
<1>7. IsWatched(s)
  BY <1>3, PartsOfInv DEF AllAreSound, IsSound
<1> DEFINE tries == q = <<>>
           waits == ~(tries /\ Done(p, stale))
           watch == waits /\ tries /\ Watches(k, kind)
<1> HIDE DEF p
<1>8. /\ IF tries THEN Works(p) ELSE UNCHANGED conn
      /\ op' = IF waits THEN [op EXCEPT ![o] = p] ELSE op
      /\ slot' = IF waits
                 THEN [slot EXCEPT ![k].q[kind] = Append(@, o), ![k].out = @ \/ watch]
                 ELSE slot
      /\ IF watch
         THEN /\ entry' = [entry EXCEPT ![f].out = TRUE]
              /\ edge' = [edge EXCEPT ![f] = @ \cup Level(conn[file[f]])]
         ELSE UNCHANGED <<entry, edge>>
  BY <1>1, <1>5 DEF StartOp, Speculates
<1>9. CASE ~waits
  <2>1. FinishedAtOnce(s, p)
    BY <1>5, <1>8, <1>9 DEF FinishedAtOnce, Works, Queue
  <2> QED
    BY <1>3, <1>5, <1>6, <2>1
<1>10. CASE waits
  <2>1. tries => Amount(conn[c], p) = 0 /\ conn' = conn
    <3>1. SUFFICES ASSUME tries PROVE Amount(conn[c], p) = 0 /\ conn' = conn
      OBVIOUS
    <3>2. ~Finished(Outcome(conn[c], p, stale))
      BY <1>5, <1>10, <3>1 DEF Done
    <3>3. Amount(conn[c], p) = 0 /\ Moved(conn[c], p) = conn[c]
      BY <1>4, <1>5, <3>2, PartsOfInv, UnfinishedMovesNothing
    <3> QED
      BY <1>4, <1>5, <1>8, <3>1, <3>3, PartsOfInv DEF Works
  <2>2. conn' = conn /\ op' = [op EXCEPT ![o] = p]
    BY <1>8, <1>10, <2>1
  <2> DEFINE new == [slot[k] EXCEPT !.q = [slot[k].q EXCEPT ![kind] = Append(@, o)],
                                    !.out = @ \/ watch]
  <2>3. slot' = [slot EXCEPT ![k] = new]
    <3>1. slot' = [slot EXCEPT ![k].q[kind] = Append(@, o), ![k].out = @ \/ watch]
      BY <1>8, <1>10
    <3> HIDE DEF watch
    <3> QED
      BY <1>4, <3>1, PartsOfInv DEF SlotType
  <2>4. watch \in BOOLEAN
    OBVIOUS
  <2>5. /\ new \in SlotType /\ new.out = (slot[k].out \/ watch) /\ new.result = slot[k].result
        /\ new.q = [slot[k].q EXCEPT ![kind] = Append(@, o)]
    <3> HIDE DEF watch
    <3>1. [slot[k].q EXCEPT ![kind] = Append(@, o)] \in [Kinds -> Seq(Ops)]
      BY <1>4 DEF SlotType
    <3> QED
      BY <1>4, <2>4, <3>1 DEF SlotType
  <2>6. /\ slot' \in [Slots -> SlotType] /\ slot'[k] = new
        /\ \A m \in Slots : m # k => slot'[m] = slot[m]
    <3> HIDE DEF new
    <3> QED
      BY <1>4, <2>3, <2>5, PartsOfInv
  <2>7. slot'[k].out = entry'[f].out /\ (kind = "write" \/ slot[k].out => slot'[k].out)
    <3>1. slot[k].out = entry[f].out /\ (slot[k].q["write"] # <<>> => slot[k].out)
      BY <1>7 DEF IsWatched, Queue
    <3>2. kind = "write" /\ ~slot[k].out => watch
      BY <1>10, <3>1 DEF Watches
    <3>3. entry'[f].out = (entry[f].out \/ watch)
      <4>1. CASE watch
        <5>1. entry' = [entry EXCEPT ![f].out = TRUE]
          BY <1>8, <4>1
        <5> HIDE DEF watch
        <5> QED
          BY <1>4, <4>1, <5>1, PartsOfInv, TypesAre
      <4>2. CASE ~watch
        <5>1. entry' = entry
          BY <1>8, <4>2
        <5>2. entry[f].out \in BOOLEAN
          BY <1>4, PartsOfInv, TypesAre
        <5> QED
          BY <4>2, <5>1, <5>2
      <4> QED
        BY <4>1, <4>2
    <3> HIDE DEF watch, new
    <3> QED
      BY <2>5, <2>6, <3>1, <3>2, <3>3
  <2>8. /\ edge' \in [Fds -> SUBSET Kinds] /\ edge[f] \subseteq edge'[f]
        /\ \A g \in Fds : g # f => entry'[g] = entry[g] /\ edge'[g] = edge[g]
    <3>1. Level(conn[c]) \subseteq Kinds
      BY DEF Level
    <3>2. \/ UNCHANGED <<entry, edge>>
          \/ /\ entry' = [entry EXCEPT ![f].out = TRUE]
             /\ edge' = [edge EXCEPT ![f] = @ \cup Level(conn[c])]
      BY <1>8
    <3>3. entry \in [Fds -> [set : Slots \cup {None}, out : BOOLEAN]] /\ edge \in [Fds -> SUBSET Kinds]
      BY PartsOfInv, TypesAre
    <3>4. CASE UNCHANGED <<entry, edge>>
      BY <1>4, <3>3, <3>4
    <3>5. CASE /\ entry' = [entry EXCEPT ![f].out = TRUE]
               /\ edge' = [edge EXCEPT ![f] = @ \cup Level(conn[c])]
      BY <1>4, <3>1, <3>3, <3>5
    <3> QED
      BY <3>2, <3>4, <3>5
  <2>9. PutInQueue(s, o, p)
    <3> HIDE DEF new
    <3> QED
      BY <1>5, <2>1, <2>2, <2>5, <2>6, <2>7, <2>8 DEF PutInQueue, Queue
  <2> QED
    BY <1>3, <1>5, <1>6, <2>9
<1> QED
  BY <1>9, <1>10

LEMMA OthersAreAloof ==
    ASSUME SocketInv, NEW s \in InUse, NEW o \in Ops, NEW p \in OpType, StartsAt(s, o, p),
           FinishedAtOnce(s, p) \/ PutInQueue(s, o, p),
           NEW r \in InUse, r # s
    PROVE  Aloof(r)
<1>1. /\ s \in Socks /\ r \in Socks /\ file[sock[s].fd] \in Conns /\ sock[s].fd # None
  BY PartsOfInv, InUseHave
<1>2. op[o].st = "new" /\ sock' = sock /\ file' = file
  BY DEF StartsAt
<1>3. CASE FinishedAtOnce(s, p)
  <2>1. \A c \in Conns : c = file[sock[s].fd] \/ conn'[c] = conn[c]
    BY <1>1, <1>3, PartsOfInv DEF FinishedAtOnce
  <2> QED
    BY <1>1, <1>2, <1>3, <2>1, AloofWhen DEF FinishedAtOnce
<1>4. CASE PutInQueue(s, o, p)
  <2>1. \A a \in Ops : op'[a] = op[a] \/ op[a].st = "new"
    BY <1>2, <1>4, PartsOfInv DEF PutInQueue
  <2> QED
    BY <1>1, <1>2, <1>4, <2>1, AloofWhen DEF PutInQueue
<1> QED
  BY <1>3, <1>4

(* Where operations, sockets and queues stay, each stands where it stood.   *)
LEMMA NobodyMoves ==
    ASSUME Placed, UNCHANGED <<op, sock, slot>>
    PROVE  Placed'
<1> SUFFICES ASSUME NEW a \in Ops, op'[a].st = "waiting"
             PROVE  \E r \in InUse' : StandsAt(a, r)'
  BY DEF Placed, Waiting
<1>1. PICK r \in InUse : StandsAt(a, r)
  BY DEF Placed, Waiting
<1>2. StandsAt(a, r)' /\ r \in InUse'
  BY <1>1 DEF StandsAt, Queue, InUse
<1> QED
  BY <1>2

LEMMA FinishedAtOnceIsSound ==
    ASSUME SocketInv, NEW s \in InUse, NEW o \in Ops, NEW p \in OpType, StartsAt(s, o, p),
           FinishedAtOnce(s, p)
    PROVE  /\ conn' \in [Conns -> ConnType] /\ IsSound(s)'
           /\ NobodysAreEmpty' /\ Placed'
<1> DEFINE c == file[sock[s].fd]
<1>1. /\ Queue(s, p.kind) = <<>> /\ conn' = [conn EXCEPT ![c] = Moved(@, p)]
      /\ UNCHANGED <<scope, file, opened, sock, que, cur, overwritten, op, slot, entry, edge>>
  BY DEF FinishedAtOnce, StartsAt
<1>2. c \in Conns /\ conn[c] \in ConnType /\ Moved(conn[c], p) \in ConnType
  BY PartsOfInv, InUseHave, MovedIsTyped
<1>3. conn' \in [Conns -> ConnType] /\ conn'[c] = Moved(conn[c], p)
  BY <1>1, <1>2, PartsOfInv
<1>4. \A r \in InUse, kind \in Kinds : Queue(r, kind)' = Queue(r, kind)
  BY <1>1 DEF Queue
<1>5. InUse' = InUse /\ Waiting' = Waiting
  BY <1>1 DEF InUse, Waiting
<1>6. IsWatched(s) /\ \A kind \in Kinds : QueueIsItsOwn(s, kind)
  BY PartsOfInv DEF AllAreSound, IsSound
<1>7. IsWatched(s)' /\ \A kind \in Kinds : QueueIsItsOwn(s, kind)'
  <2>1. IsWatched(s)'
    BY <1>1, <1>6 DEF IsWatched, Queue
  <2>2. ASSUME NEW kind \in Kinds PROVE QueueIsItsOwn(s, kind)'
    BY <1>1, <1>4, <1>6 DEF QueueIsItsOwn, ItsOwn
  <2> QED
    BY <2>1, <2>2
<1>8. ASSUME NEW kind \in Kinds PROVE IsKept(s, kind)'
  <2>1. CASE kind = p.kind
    BY <1>1, <1>4, <2>1 DEF IsKept
  <2>2. CASE kind # p.kind
    <3>1. Seen(s, kind) => Seen(s, kind)'
      BY <1>1 DEF Seen
    <3>2. Queue(s, kind) # <<>> => Amount(conn'[c], op[Queue(s, kind)[1]])
                                     = Amount(conn[c], op[Queue(s, kind)[1]])
      BY <1>2, <1>3, <2>2, WasKept, OtherDirection, PartsOfInv
    <3> QED
      BY <1>1, <1>4, <3>1, <3>2, WasKept DEF IsKept
  <2> QED
    BY <2>1, <2>2
<1>9. NobodysAreEmpty'
  BY <1>1, <1>5, PartsOfInv DEF NobodysAreEmpty, Empty
<1>10. Placed'
  BY <1>1, PartsOfInv, NobodyMoves
<1> QED
  BY <1>3, <1>7, <1>8, <1>9, <1>10 DEF IsSound

LEMMA PutInQueueIsSound ==
    ASSUME SocketInv, NEW s \in InUse, NEW o \in Ops, NEW p \in OpType, StartsAt(s, o, p),
           PutInQueue(s, o, p)
    PROVE  IsSound(s)' /\ NobodysAreEmpty' /\ Placed'
<1> DEFINE k == sock[s].set
           c == file[sock[s].fd]
           q == Queue(s, p.kind)
<1>1. /\ op[o].st = "new" /\ ItsOwn(s, p, p.kind) /\ p.kind \in Kinds
      /\ UNCHANGED <<scope, file, opened, sock, que, cur, overwritten, conn>>
  BY DEF StartsAt, PutInQueue, OpType
<1>2. /\ k \in Slots /\ q \in Seq(Ops) /\ s \in Socks /\ sock[s].fd \in Fds
      /\ slot[k] \in SlotType
  BY <1>1, PartsOfInv, InUseHave
<1>3. op'[o] = p /\ \A a \in Ops : a # o => op'[a] = op[a]
  BY PartsOfInv DEF PutInQueue
<1>4. /\ Queue(s, p.kind)' = Append(q, o)
      /\ \A kind \in Kinds : kind # p.kind => Queue(s, kind)' = Queue(s, kind)
  BY Zenon, <1>1, <1>2 DEF PutInQueue, Queue, SlotType
<1>5. /\ Len(q) \in Nat /\ Len(Append(q, o)) = Len(q) + 1 /\ Append(q, o)[Len(q) + 1] = o
      /\ \A i \in 1..Len(q) : Append(q, o)[i] = q[i]
  BY <1>2
<1>6. \A kind \in Kinds : \A i \in 1..Len(Queue(s, kind)) :
        /\ Queue(s, kind)[i] \in Ops /\ Queue(s, kind)[i] # o
        /\ op'[Queue(s, kind)[i]] = op[Queue(s, kind)[i]]
  BY <1>1, <1>3, TheirOps DEF ItsOwn
<1>7. IsWatched(s)'
  <2>1. IsWatched(s)
    BY PartsOfInv DEF AllAreSound, IsSound
  <2>2. slot'[k].out = entry'[sock[s].fd].out
    BY DEF PutInQueue
  <2>3. Queue(s, "write")' # <<>> => slot'[k].out
    <3>1. CASE p.kind = "write"
      BY <3>1 DEF PutInQueue
    <3>2. CASE p.kind # "write"
      BY <1>4, <2>1, <3>2 DEF PutInQueue, IsWatched, Kinds
    <3> QED
      BY <3>1, <3>2
  <2> QED
    BY <1>1, <2>2, <2>3 DEF IsWatched
<1>8. ASSUME NEW kind \in Kinds PROVE QueueIsItsOwn(s, kind)'
  <2>1. QueueIsItsOwn(s, kind)
    BY PartsOfInv DEF AllAreSound, IsSound
  <2>2. CASE kind # p.kind
    BY <1>1, <1>4, <1>6, <2>1, <2>2 DEF QueueIsItsOwn, ItsOwn
  <2>3. CASE kind = p.kind
    <3> DEFINE x == Append(q, o)
    <3>1. Len(x) = Len(q) + 1 /\ x[Len(q) + 1] = o /\ \A i \in 1..Len(q) : x[i] = q[i]
      BY <1>5
    <3>2. \A i \in 1..Len(x) : i = Len(q) + 1 \/ i \in 1..Len(q)
      BY <1>5
    <3>3. \A i \in 1..Len(q) : q[i] # o /\ op'[q[i]] = op[q[i]] /\ ItsOwn(s, op[q[i]], kind)
      BY <1>6, <2>1, <2>3 DEF QueueIsItsOwn
    <3>4. \A i, j \in 1..Len(q) : q[i] = q[j] => i = j
      BY <2>1, <2>3 DEF QueueIsItsOwn
    <3>5. Queue(s, kind)' = x
      BY <1>4, <2>3
    <3> HIDE DEF x
    <3>6. \A i \in 1..Len(x) : ItsOwn(s, op'[x[i]], kind)
      BY <1>1, <1>3, <2>3, <3>1, <3>2, <3>3
    <3>7. \A i, j \in 1..Len(x) : x[i] = x[j] => i = j
      BY <3>1, <3>2, <3>3, <3>4
    <3> QED
      BY <1>1, <3>5, <3>6, <3>7 DEF QueueIsItsOwn, ItsOwn
  <2> QED
    BY <2>2, <2>3
<1>9. ASSUME NEW kind \in Kinds PROVE IsKept(s, kind)'
  <2>1. Seen(s, kind) => Seen(s, kind)'
    BY <1>1, <1>2 DEF Seen, PutInQueue
  <2>2. IsKept(s, kind)
    BY WasKept
  <2>3. CASE Queue(s, kind) # <<>>
    <3>1. 1 \in 1..Len(Queue(s, kind))
      BY <2>3, PartsOfInv, InUseHave
    <3>2. Queue(s, kind)'[1] = Queue(s, kind)[1] /\ op'[Queue(s, kind)[1]] = op[Queue(s, kind)[1]]
      BY <1>4, <1>5, <1>6, <3>1
    <3> QED
      BY <1>1, <2>1, <2>2, <2>3, <3>2 DEF IsKept
  <2>4. CASE Queue(s, kind) = <<>> /\ kind # p.kind
    BY <1>4, <2>4 DEF IsKept
  <2>5. CASE Queue(s, kind) = <<>> /\ kind = p.kind
    <3>1. Queue(s, kind)'[1] = o /\ Amount(conn[c], p) = 0
      <4>1. q = <<>> /\ Len(q) = 0
        BY <2>5
      <4>2. Amount(conn[c], p) = 0
        BY <4>1 DEF PutInQueue
      <4>3. Queue(s, kind)' = Append(q, o)
        BY <1>4, <2>5
      <4> QED
        BY <1>5, <4>1, <4>2, <4>3
    <3> QED
      BY <1>1, <1>3, <3>1 DEF IsKept
  <2> QED
    BY <2>3, <2>4, <2>5
<1>10. NobodysAreEmpty'
  <2> SUFFICES ASSUME NEW m \in Slots, \A r \in InUse : sock[r].set # m
               PROVE  slot'[m].q = Empty
    BY <1>1 DEF NobodysAreEmpty, Empty, InUse
  <2>1. m # k /\ slot[m].q = Empty
    BY PartsOfInv DEF NobodysAreEmpty
  <2> QED
    BY <2>1 DEF PutInQueue
<1>11. Placed'
  <2> SUFFICES ASSUME NEW a \in Ops, op'[a].st = "waiting"
               PROVE  \E r \in InUse : StandsAt(a, r)'
    BY <1>1 DEF Placed, Waiting, InUse
  <2>1. CASE a = o
    <3>1. Len(q) + 1 \in 1..Len(Append(q, o)) /\ op'[a].kind = p.kind
      BY <1>3, <1>5, <2>1
    <3> QED
      BY <1>4, <1>5, <2>1, <3>1 DEF StandsAt
  <2>2. CASE a # o
    <3>1. op'[a] = op[a] /\ a \in Waiting /\ op[a].kind \in Kinds
      BY <1>3, <2>2, PartsOfInv DEF Waiting, OpType
    <3>2. PICK r \in InUse : StandsAt(a, r)
      BY <3>1, PartsOfInv DEF Placed
    <3>3. CASE r # s
      <4>1. Aloof(r)
        BY <3>3, OthersAreAloof
      <4> QED
        BY <3>1, <3>2, <4>1, StillStands DEF Aloof, InUse
    <3>4. CASE r = s
      <4>1. PICK i \in 1..Len(Queue(s, op[a].kind)) : Queue(s, op[a].kind)[i] = a
        BY <3>2, <3>4 DEF StandsAt
      <4>2. CASE op[a].kind = p.kind
        <5>1. i \in 1..Len(Append(q, o)) /\ Append(q, o)[i] = a
          BY <1>5, <4>1, <4>2
        <5> QED
          BY <1>4, <3>1, <4>2, <5>1 DEF StandsAt
      <4>3. CASE op[a].kind # p.kind
        <5> DEFINE kind == op[a].kind
        <5>1. Queue(s, kind)' = Queue(s, kind) /\ op'[a].kind = kind
          BY <1>4, <3>1, <4>3
        <5>2. \E j \in 1..Len(Queue(s, kind)') : Queue(s, kind)'[j] = a
          BY <4>1, <5>1
        <5> QED
          BY <3>1, <3>4, <5>1, <5>2 DEF StandsAt
      <4> QED
        BY <4>2, <4>3
    <3> QED
      BY <3>3, <3>4
  <2> QED
    BY <2>1, <2>2
<1> QED
  BY <1>7, <1>8, <1>9, <1>10, <1>11 DEF IsSound

LEMMA StartIsSound ==
    ASSUME SocketInv, NEW t \in Threads, NEW s \in Socks, NEW o \in Ops,
           NEW kind \in Kinds, NEW want \in 0..scope.cap, Start(t, s, o, kind, want)
    PROVE  SocketInv'
<1>1. RegistryInv'
  BY StartKeeps, PartsOfInv
<1>2. PICK p \in OpType : StartsAt(s, o, p) /\ (FinishedAtOnce(s, p) \/ PutInQueue(s, o, p))
  BY StartDoes
<1>3. s \in InUse
  BY StartDoes
<1>4. IsSound(s)' /\ NobodysAreEmpty' /\ Placed'
  BY <1>2, <1>3, FinishedAtOnceIsSound, PutInQueueIsSound
<1>5. UNCHANGED <<scope, file, opened, sock, que, cur, overwritten>>
  BY <1>2 DEF StartsAt
<1>6. \A r \in InUse : r # s => Aloof(r)
  BY <1>2, <1>3, OthersAreAloof
<1>7. AllAreSound'
  BY <1>4, <1>5, <1>6, OneMoves
<1>8. FilesApart'
  BY <1>5, FilesKept, PartsOfInv
<1>9. /\ conn' \in [Conns -> ConnType] /\ edge' \in [Fds -> SUBSET Kinds]
      /\ slot' \in [Slots -> SlotType] /\ op' \in [Ops -> OpType]
  <2>1. CASE FinishedAtOnce(s, p)
    BY <1>2, <1>3, <2>1, FinishedAtOnceIsSound, PartsOfInv, TypesAre DEF FinishedAtOnce
  <2>2. CASE PutInQueue(s, o, p)
    BY <2>2, PartsOfInv, TypesAre DEF PutInQueue
  <2> QED
    BY <1>2, <2>1, <2>2
<1>10. TypeOK'
  BY <1>1, <1>5, <1>9, PartsOfInv, TypesAre, TypesFollow DEF ConnType, OpType
<1> QED
  BY <1>1, <1>4, <1>7, <1>8, <1>10 DEF SocketInv

-----------------------------------------------------------------------------
(* perform_io.                                                             *)

CurType == [set : Slots \cup {None}, ev : SUBSET Kinds, locked : BOOLEAN]

WorksAt(t, s, kind) ==
    /\ cur[t].set = sock[s].set /\ kind \in cur[t].ev /\ Queue(s, kind) # <<>>
    /\ cur' \in [Threads -> CurType] /\ cur'[t].set = cur[t].set
    /\ \A u \in Threads : u # t => cur'[u] = cur[u]
    /\ UNCHANGED <<scope, file, entry, edge, opened, sock, que, closing, overwritten>>

HeadIsDone(t, s, kind) ==
    LET o == Queue(s, kind)[1]
        k == sock[s].set
    IN /\ conn' = [conn EXCEPT ![file[sock[s].fd]] = Moved(@, op[o])]
       /\ op' = [op EXCEPT ![o] = NewOp]
       /\ slot' \in [Slots -> SlotType]
       /\ \A m \in Slots : m # k => slot'[m] = slot[m]
       /\ slot'[k].q = [slot[k].q EXCEPT ![kind] = Tail(@)]
       /\ slot'[k].out = slot[k].out /\ slot'[k].result = slot[k].result
       /\ cur'[t].ev = cur[t].ev

HeadMustWait(t, s, kind) ==
    /\ Amount(conn[file[sock[s].fd]], op[Queue(s, kind)[1]]) = 0
    /\ UNCHANGED <<conn, op, slot>>
    /\ cur'[t].ev = cur[t].ev \ {kind}

LEMMA DoWorkDoes ==
    ASSUME SocketInv, NEW t \in Threads, DoWork(t)
    PROVE  \E s \in InUse, kind \in Kinds :
               WorksAt(t, s, kind) /\ (HeadIsDone(t, s, kind) \/ HeadMustWait(t, s, kind))
<1> DEFINE k == cur[t].set
           kind == IF "write" \in Due(t) THEN "write" ELSE "read"
           o == Head(slot[k].q[kind])
           q == slot[k].q[kind]
<1>1. /\ k # None /\ Due(t) # {}
      /\ UNCHANGED <<scope, file, entry, edge, opened, sock, que, closing, overwritten>>
  BY Zenon DEF DoWork
<1>2. PICK stale \in StaleErrno :
         /\ Works(op[o])
         /\ IF Done(op[o], stale)
            THEN /\ op' = [op EXCEPT ![o] = Posted]
                 /\ slot' = [slot EXCEPT ![k].q[kind] = Tail(@)]
                 /\ cur' = [cur EXCEPT ![t].locked = TRUE]
            ELSE /\ cur' = [cur EXCEPT ![t].locked = TRUE, ![t].ev = @ \ {kind}]
                 /\ UNCHANGED <<op, slot>>
  BY Zenon DEF DoWork
<1>3. k \in Slots /\ cur[t] \in CurType /\ slot[k] \in SlotType
  BY <1>1, PartsOfInv, TypesAre DEF CurType
<1>4. kind \in Kinds /\ kind \in cur[t].ev /\ q # <<>> /\ q \in Seq(Ops)
  <2>1. Due(t) \subseteq Kinds /\ Kinds = {"read", "write"}
    BY <1>3 DEF Due, CurType, Kinds
  <2>2. kind \in Due(t)
    BY <1>1, <2>1
  <2> HIDE DEF kind
  <2> QED
    BY <1>3, <2>1, <2>2 DEF Due, SlotType
<1> HIDE DEF kind
<1>5. PICK s \in InUse : sock[s].set = k
  <2>1. slot[k].q # Empty
    BY <1>4 DEF Empty
  <2> QED
    BY <1>3, <2>1, PartsOfInv DEF NobodysAreEmpty
<1> DEFINE c == file[sock[s].fd]
<1>6. q = Queue(s, kind) /\ o = q[1] /\ 1 \in 1..Len(q) /\ o \in Ops
  BY <1>4, <1>5 DEF Queue
<1>7. op[o] \in OpType /\ op[o].conn = c /\ c \in Conns /\ conn[c] \in ConnType
  BY <1>4, <1>6, TheirOps, PartsOfInv, InUseHave DEF ItsOwn
<1>8. conn' = [conn EXCEPT ![c] = Moved(@, op[o])]
  BY Zenon, <1>2, <1>7 DEF Works
<1>9. CASE Done(op[o], stale)
  <2>1. /\ op' = [op EXCEPT ![o] = NewOp]
        /\ slot' = [slot EXCEPT ![k].q[kind] = Tail(@)]
        /\ cur' = [cur EXCEPT ![t].locked = TRUE]
    BY Zenon, <1>2, <1>9 DEF Posted
  <2> DEFINE new == [slot[k] EXCEPT !.q = [slot[k].q EXCEPT ![kind] = Tail(@)]]
  <2>2. slot' = [slot EXCEPT ![k] = new]
    BY <1>3, <1>4, <2>1, PartsOfInv DEF SlotType
  <2>3. /\ new \in SlotType /\ new.q = [slot[k].q EXCEPT ![kind] = Tail(@)]
        /\ new.out = slot[k].out /\ new.result = slot[k].result
    <3>1. [slot[k].q EXCEPT ![kind] = Tail(@)] \in [Kinds -> Seq(Ops)]
      BY <1>3, <1>4 DEF SlotType
    <3> QED
      BY <1>3, <3>1 DEF SlotType
  <2>4. /\ slot' \in [Slots -> SlotType] /\ slot'[k] = new
        /\ \A m \in Slots : m # k => slot'[m] = slot[m]
    <3> HIDE DEF new
    <3> QED
      BY <1>3, <2>2, <2>3, PartsOfInv
  <2>5. /\ cur' \in [Threads -> CurType] /\ cur'[t].set = k /\ cur'[t].ev = cur[t].ev
        /\ \A u \in Threads : u # t => cur'[u] = cur[u]
    <3>1. [cur[t] EXCEPT !.locked = TRUE] \in CurType
      BY <1>3 DEF CurType
    <3> QED
      BY <1>3, <2>1, <3>1, PartsOfInv, TypesAre DEF CurType
  <2>6. WorksAt(t, s, kind)
    BY <1>1, <1>4, <1>5, <1>6, <2>5 DEF WorksAt
  <2>7. HeadIsDone(t, s, kind)
    <3> HIDE DEF new
    <3> QED
      BY <1>5, <1>6, <1>8, <2>1, <2>3, <2>4, <2>5 DEF HeadIsDone
  <2> QED
    BY <1>4, <1>5, <2>6, <2>7
<1>10. CASE ~Done(op[o], stale)
  <2>1. /\ cur' = [cur EXCEPT ![t].locked = TRUE, ![t].ev = @ \ {kind}]
        /\ UNCHANGED <<op, slot>>
    BY <1>2, <1>10
  <2>2. Amount(conn[c], op[o]) = 0 /\ Moved(conn[c], op[o]) = conn[c]
    BY <1>7, <1>10, PartsOfInv, UnfinishedMovesNothing DEF Done
  <2>3. conn' = conn
    BY <1>7, <1>8, <2>2, PartsOfInv
  <2> DEFINE new == [cur[t] EXCEPT !.locked = TRUE, !.ev = @ \ {kind}]
  <2>4. cur' = [cur EXCEPT ![t] = new]
    BY <1>3, <2>1, PartsOfInv, TypesAre DEF CurType
  <2>5. new \in CurType /\ new.set = k /\ new.ev = cur[t].ev \ {kind}
    BY <1>3 DEF CurType
  <2>6. /\ cur' \in [Threads -> CurType] /\ cur'[t].set = k /\ cur'[t].ev = cur[t].ev \ {kind}
        /\ \A u \in Threads : u # t => cur'[u] = cur[u]
    <3> HIDE DEF new
    <3> QED
      BY <2>4, <2>5, PartsOfInv, TypesAre DEF CurType
  <2>7. WorksAt(t, s, kind)
    BY <1>1, <1>4, <1>5, <1>6, <2>6 DEF WorksAt
  <2>8. HeadMustWait(t, s, kind)
    BY <1>6, <2>1, <2>2, <2>3, <2>6 DEF HeadMustWait
  <2> QED
    BY <1>4, <1>5, <2>7, <2>8
<1> QED
  BY <1>9, <1>10

LEMMA HeadIs ==
    ASSUME SocketInv, NEW s \in InUse, NEW kind \in Kinds, Queue(s, kind) # <<>>
    PROVE  LET q == Queue(s, kind)
           IN /\ q \in Seq(Ops) /\ 1 \in 1..Len(q) /\ q[1] \in Ops
              /\ op[q[1]] \in OpType /\ ItsOwn(s, op[q[1]], kind)
              /\ Len(Tail(q)) = Len(q) - 1
              /\ \A i \in 1..Len(Tail(q)) : Tail(q)[i] = q[i + 1] /\ i + 1 \in 2..Len(q)
BY PartsOfInv, InUseHave, TheirOps

LEMMA WorkingLeavesOthers ==
    ASSUME SocketInv, NEW t \in Threads, NEW s \in InUse, NEW kind \in Kinds,
           WorksAt(t, s, kind), HeadIsDone(t, s, kind) \/ HeadMustWait(t, s, kind),
           NEW r \in InUse, r # s
    PROVE  Aloof(r)
<1>1. /\ s \in Socks /\ r \in Socks /\ file[sock[s].fd] \in Conns /\ sock[s].fd # None
      /\ UNCHANGED <<sock, file, entry, edge>>
  BY PartsOfInv, InUseHave DEF WorksAt
<1>2. CASE HeadIsDone(t, s, kind)
  <2>1. \A c \in Conns : c = file[sock[s].fd] \/ conn'[c] = conn[c]
    BY <1>1, <1>2, PartsOfInv DEF HeadIsDone
  <2>2. \A a \in Ops : op'[a] = op[a] \/ op[a].fd = sock[s].fd
    <3> DEFINE o == Queue(s, kind)[1]
    <3>1. op' = [op EXCEPT ![o] = NewOp]
      BY <1>2 DEF HeadIsDone
    <3>2. ItsOwn(s, op[o], kind)
      BY HeadIs DEF WorksAt
    <3>3. op[o].fd = sock[s].fd /\ op \in [Ops -> OpType]
      BY <3>2, PartsOfInv DEF ItsOwn
    <3> HIDE DEF o
    <3> QED
      BY <3>1, <3>3
  <2>3. \A m \in Slots : m # sock[s].set => slot'[m] = slot[m]
    BY <1>2 DEF HeadIsDone
  <2> QED
    BY <1>1, <2>1, <2>2, <2>3, AloofWhen
<1>3. CASE HeadMustWait(t, s, kind)
  BY <1>1, <1>3, AloofWhen DEF HeadMustWait
<1> QED
  BY <1>2, <1>3

LEMMA HeadMustWaitIsSound ==
    ASSUME SocketInv, RegistryInv', NEW t \in Threads, NEW s \in InUse, NEW kind \in Kinds,
           WorksAt(t, s, kind), HeadMustWait(t, s, kind)
    PROVE  SocketInv'
<1>1. /\ UNCHANGED <<scope, file, entry, edge, opened, sock, que, overwritten, conn, op, slot>>
      /\ Amount(conn[file[sock[s].fd]], op[Queue(s, kind)[1]]) = 0
      /\ cur[t].set = sock[s].set /\ cur'[t].set = sock[s].set
      /\ cur'[t].ev = cur[t].ev \ {kind} /\ \A u \in Threads : u # t => cur'[u] = cur[u]
      /\ cur' \in [Threads -> CurType]
  BY DEF WorksAt, HeadMustWait
<1>2. ASSUME NEW r \in InUse, NEW d \in Kinds PROVE IsKept(r, d)'
  <2>1. Queue(r, d)' = Queue(r, d)
    BY <1>1 DEF Queue
  <2>2. CASE r = s /\ d = kind
    BY <1>1, <2>1, <2>2 DEF IsKept
  <2>3. CASE ~(r = s /\ d = kind)
    <3>1. r # s => sock[r].set # sock[s].set
      BY PartsOfInv, InUseHave, InUseAreApart
    <3>2. Seen(r, d) => Seen(r, d)'
      <4>1. \A u \in Threads : cur[u].set = sock[r].set /\ d \in cur[u].ev
                                 => cur'[u].set = sock[r].set /\ d \in cur'[u].ev
        BY <1>1, <2>3, <3>1
      <4> QED
        BY <1>1, <4>1 DEF Seen
    <3> QED
      BY <1>1, <2>1, <3>2, WasKept DEF IsKept
  <2> QED
    BY <2>2, <2>3
<1> QED
  BY <1>1, <1>2, PartsOfInv, TypesAre, QuietIsSound DEF CurType

(* The queue of kind loses its head, and all else about it stays.          *)
LEMMA HeadIsDoneChanges ==
    ASSUME SocketInv, NEW t \in Threads, NEW s \in InUse, NEW kind \in Kinds,
           WorksAt(t, s, kind), HeadIsDone(t, s, kind)
    PROVE  LET q == Queue(s, kind)
               c == file[sock[s].fd]
           IN /\ Queue(s, kind)' = Tail(q)
              /\ \A d \in Kinds : d # kind => Queue(s, d)' = Queue(s, d)
              /\ op'[q[1]].st = "new" /\ op' \in [Ops -> OpType]
              /\ \A a \in Ops : a # q[1] => op'[a] = op[a]
              /\ conn' \in [Conns -> ConnType] /\ conn'[c] = Moved(conn[c], op[q[1]])
              /\ \A b \in Conns : b # c => conn'[b] = conn[b]
              /\ \A d \in Kinds : \A i \in 1..Len(Queue(s, d)) :
                    d # kind \/ i # 1 => Queue(s, d)[i] # q[1]
<1> DEFINE q == Queue(s, kind)
           c == file[sock[s].fd]
           k == sock[s].set
<1>1. /\ q # <<>> /\ sock' = sock /\ conn' = [conn EXCEPT ![c] = Moved(@, op[q[1]])]
      /\ op' = [op EXCEPT ![q[1]] = NewOp] /\ slot'[k].q = [slot[k].q EXCEPT ![kind] = Tail(@)]
  BY DEF WorksAt, HeadIsDone
<1>2. /\ q \in Seq(Ops) /\ 1 \in 1..Len(q) /\ q[1] \in Ops
      /\ op[q[1]] \in OpType /\ ItsOwn(s, op[q[1]], kind)
  BY <1>1, HeadIs
<1>3. k \in Slots /\ slot[k].q \in [Kinds -> Seq(Ops)] /\ c \in Conns /\ conn[c] \in ConnType
  BY PartsOfInv, InUseHave DEF SlotType
<1>4. Moved(conn[c], op[q[1]]) \in ConnType
  BY <1>2, <1>3, MovedIsTyped, PartsOfInv
<1>5. NewOp \in OpType /\ NewOp.st = "new"
  BY PartsOfInv, NoneIsNothing DEF NewOp, OpType, Kinds, Conns
<1>6. /\ Queue(s, kind)' = Tail(q)
      /\ \A d \in Kinds : d # kind => Queue(s, d)' = Queue(s, d)
  BY <1>1, <1>3 DEF Queue
<1>7. /\ op'[q[1]].st = "new" /\ op' \in [Ops -> OpType]
      /\ \A a \in Ops : a # q[1] => op'[a] = op[a]
  BY <1>1, <1>2, <1>5, PartsOfInv
<1>8. /\ conn' \in [Conns -> ConnType] /\ conn'[c] = Moved(conn[c], op[q[1]])
      /\ \A b \in Conns : b # c => conn'[b] = conn[b]
  BY <1>1, <1>3, <1>4, PartsOfInv
<1>9. ASSUME NEW d \in Kinds, NEW i \in 1..Len(Queue(s, d)), d # kind \/ i # 1
      PROVE  Queue(s, d)[i] # q[1]
  <2>1. CASE d # kind
    BY <1>2, <2>1, TheirOps DEF ItsOwn
  <2>2. CASE d = kind /\ i # 1
    <3>1. QueueIsItsOwn(s, kind)
      BY PartsOfInv DEF AllAreSound, IsSound
    <3> QED
      BY <1>2, <2>2, <3>1 DEF QueueIsItsOwn
  <2> QED
    BY <1>9, <2>1, <2>2
<1> QED
  BY <1>6, <1>7, <1>8, <1>9

LEMMA HeadIsDoneIsSound ==
    ASSUME SocketInv, RegistryInv', NEW t \in Threads, NEW s \in InUse, NEW kind \in Kinds,
           WorksAt(t, s, kind), HeadIsDone(t, s, kind)
    PROVE  SocketInv'
<1> DEFINE q == Queue(s, kind)
           c == file[sock[s].fd]
           k == sock[s].set
           o == q[1]
<1>1. /\ UNCHANGED <<scope, file, entry, edge, opened, sock, que, overwritten>>
      /\ cur[t].set = k /\ cur'[t].set = k /\ kind \in cur[t].ev /\ cur'[t].ev = cur[t].ev
      /\ \A u \in Threads : u # t => cur'[u] = cur[u]
      /\ cur' \in [Threads -> CurType] /\ slot' \in [Slots -> SlotType]
      /\ \A m \in Slots : m # k => slot'[m] = slot[m]
      /\ slot'[k].out = slot[k].out /\ slot'[k].result = slot[k].result
      /\ q # <<>>
  BY DEF WorksAt, HeadIsDone
<1>2. /\ Queue(s, kind)' = Tail(q)
      /\ \A d \in Kinds : d # kind => Queue(s, d)' = Queue(s, d)
      /\ op'[o].st = "new" /\ op' \in [Ops -> OpType]
      /\ \A a \in Ops : a # o => op'[a] = op[a]
      /\ conn' \in [Conns -> ConnType] /\ conn'[c] = Moved(conn[c], op[o])
      /\ \A d \in Kinds : \A i \in 1..Len(Queue(s, d)) :
            d # kind \/ i # 1 => Queue(s, d)[i] # o
  BY HeadIsDoneChanges
<1>3. /\ q \in Seq(Ops) /\ 1 \in 1..Len(q) /\ o \in Ops /\ op[o] \in OpType
      /\ ItsOwn(s, op[o], kind) /\ Len(Tail(q)) = Len(q) - 1
      /\ \A i \in 1..Len(Tail(q)) : Tail(q)[i] = q[i + 1] /\ i + 1 \in 2..Len(q)
  BY <1>1, HeadIs
<1>4. s \in Socks /\ k \in Slots /\ c \in Conns /\ conn[c] \in ConnType
  BY PartsOfInv, InUseHave
<1>5. \A r \in InUse : r # s => Aloof(r)
  BY WorkingLeavesOthers
<1>6. \A d \in Kinds : \A i \in 1..Len(Queue(s, d)) :
          d # kind \/ i # 1 => op'[Queue(s, d)[i]] = op[Queue(s, d)[i]]
  BY <1>2, TheirOps
<1>7. ASSUME NEW d \in Kinds PROVE QueueIsItsOwn(s, d)'
  <2>1. QueueIsItsOwn(s, d)
    BY PartsOfInv DEF AllAreSound, IsSound
  <2>2. CASE d # kind
    BY <1>1, <1>2, <1>6, <2>1, <2>2 DEF QueueIsItsOwn, ItsOwn
  <2>3. CASE d = kind
    <3> DEFINE x == Tail(q)
    <3>1. /\ Len(x) = Len(q) - 1 /\ Len(q) \in Nat
          /\ \A i \in 1..Len(x) : x[i] = q[i + 1] /\ i + 1 \in 1..Len(q) /\ i + 1 # 1
      BY <1>3
    <3>2. \A i \in 1..Len(q) : i # 1 => op'[q[i]] = op[q[i]]
      BY <1>6
    <3>3. \A i \in 1..Len(q) : ItsOwn(s, op[q[i]], kind)
      BY <2>1, <2>3 DEF QueueIsItsOwn
    <3>4. \A i, j \in 1..Len(q) : q[i] = q[j] => i = j
      BY <2>1, <2>3 DEF QueueIsItsOwn
    <3>5. Queue(s, d)' = x
      BY <1>2, <2>3
    <3> HIDE DEF x
    <3>6. \A i \in 1..Len(x) : ItsOwn(s, op'[x[i]], kind)
      BY <3>1, <3>2, <3>3
    <3>7. ASSUME NEW i \in 1..Len(x), NEW j \in 1..Len(x), x[i] = x[j] PROVE i = j
      <4>1. i + 1 = j + 1
        BY <3>1, <3>4, <3>7
      <4> QED
        BY <3>1, <4>1
    <3> QED
      BY <1>1, <2>3, <3>5, <3>6, <3>7 DEF QueueIsItsOwn, ItsOwn
  <2> QED
    BY <2>2, <2>3
<1>8. ASSUME NEW d \in Kinds PROVE IsKept(s, d)'
  <2>1. Seen(s, d) => Seen(s, d)'
    <3>1. \A u \in Threads : cur[u].set = k /\ d \in cur[u].ev
                               => cur'[u].set = k /\ d \in cur'[u].ev
      BY <1>1
    <3> QED
      BY <1>1, <3>1 DEF Seen
  <2>2. CASE d = kind
    <3>1. cur'[t].set = sock'[s].set /\ kind \in cur'[t].ev
      BY <1>1
    <3> QED
      BY <2>2, <3>1 DEF IsKept, Seen
  <2>3. CASE d # kind
    <3>1. Queue(s, d)' = Queue(s, d)
      BY <1>2, <2>3
    <3>2. SUFFICES ASSUME Queue(s, d) # <<>> PROVE IsKept(s, d)'
      BY <3>1 DEF IsKept
    <3>3. 1 \in 1..Len(Queue(s, d)) /\ op'[Queue(s, d)[1]] = op[Queue(s, d)[1]]
      BY <1>6, <2>3, <3>2, PartsOfInv, InUseHave
    <3>4. /\ op[Queue(s, d)[1]] \in OpType /\ op[Queue(s, d)[1]].kind = d /\ op[o].kind = kind
      BY <1>3, <3>2, WasKept DEF ItsOwn
    <3>5. Amount(conn'[c], op[Queue(s, d)[1]]) = Amount(conn[c], op[Queue(s, d)[1]])
      BY <1>2, <1>3, <1>4, <2>3, <3>4, OtherDirection, PartsOfInv
    <3> QED
      BY <1>1, <2>1, <3>1, <3>3, <3>5, WasKept DEF IsKept
  <2> QED
    BY <2>2, <2>3
<1>9. IsWatched(s)'
  <2>1. IsWatched(s)
    BY PartsOfInv DEF AllAreSound, IsSound
  <2>2. Queue(s, "write")' # <<>> => Queue(s, "write") # <<>>
    BY <1>1, <1>2 DEF Kinds
  <2> QED
    BY <1>1, <2>1, <2>2 DEF IsWatched
<1>10. AllAreSound'
  <2>1. IsSound(s)'
    BY <1>7, <1>8, <1>9 DEF IsSound
  <2>2. \A u \in Threads : cur'[u] = cur[u] \/ cur[u].set = sock[s].set
    BY <1>1
  <2>3. /\ que' = que /\ overwritten' = overwritten
        /\ \A r \in Socks : r # s => sock'[r] = sock[r]
    BY <1>1
  <2> QED
    BY <1>4, <1>5, <2>1, <2>2, <2>3, OneMoves
<1>11. NobodysAreEmpty'
  <2> SUFFICES ASSUME NEW m \in Slots, \A r \in InUse : sock[r].set # m
               PROVE  slot'[m].q = Empty
    BY <1>1 DEF NobodysAreEmpty, Empty, InUse
  <2>1. m # k /\ slot[m].q = Empty
    BY PartsOfInv DEF NobodysAreEmpty
  <2> QED
    BY <1>1, <2>1
<1>12. Placed'
  <2> SUFFICES ASSUME NEW a \in Ops, op'[a].st = "waiting"
               PROVE  \E r \in InUse : StandsAt(a, r)'
    BY <1>1 DEF Placed, Waiting, InUse
  <2>1. a # o /\ op'[a] = op[a] /\ a \in Waiting /\ op[a].kind \in Kinds
    BY <1>2, PartsOfInv DEF Waiting, OpType
  <2>2. PICK r \in InUse : StandsAt(a, r)
    BY <2>1, PartsOfInv DEF Placed
  <2>3. CASE r # s
    <3>1. Aloof(r)
      BY <1>5, <2>3
    <3>2. Queue(r, op[a].kind)' = Queue(r, op[a].kind)
      BY <2>1, <3>1 DEF Queue, Aloof
    <3>3. StandsAt(a, r)'
      BY <2>1, <2>2, <3>2 DEF StandsAt
    <3> QED
      BY <3>3
  <2>4. CASE r = s
    <3> DEFINE d == op[a].kind
    <3>1. PICK i \in 1..Len(Queue(s, d)) : Queue(s, d)[i] = a
      BY <2>2, <2>4 DEF StandsAt
    <3>2. \E j \in 1..Len(Queue(s, d)') : Queue(s, d)'[j] = a
      <4>1. CASE d # kind
        BY <1>2, <2>1, <3>1, <4>1
      <4>2. CASE d = kind
        <5>1. i # 1 /\ i \in 1..Len(q)
          BY <2>1, <3>1, <4>2
        <5>2. i - 1 \in 1..Len(Tail(q)) /\ i - 1 + 1 = i
          BY <1>3, <5>1
        <5>3. Tail(q)[i - 1] = a
          BY <1>3, <3>1, <4>2, <5>2
        <5> QED
          BY <1>2, <4>2, <5>2, <5>3
      <4> QED
        BY <4>1, <4>2
    <3> QED
      BY <2>1, <2>4, <3>2 DEF StandsAt
  <2> QED
    BY <2>3, <2>4
<1>13. FilesApart'
  BY <1>1, FilesKept, PartsOfInv
<1>14. TypeOK'
  BY <1>1, <1>2, PartsOfInv, TypesAre, TypesFollow DEF ConnType, OpType, CurType
<1> QED
  BY <1>10, <1>11, <1>12, <1>13, <1>14 DEF SocketInv

LEMMA DoWorkIsSound ==
    ASSUME SocketInv, NEW t \in Threads, DoWork(t)
    PROVE  SocketInv'
<1>1. RegistryInv'
  BY QuietSteps, PartsOfInv
<1> QED
  BY <1>1, DoWorkDoes, HeadIsDoneIsSound, HeadMustWaitIsSound

-----------------------------------------------------------------------------
(* The invariant, and what it says.                                        *)

LEMMA SocketStarts == Init => SocketInv
<1> SUFFICES ASSUME Init PROVE SocketInv
  OBVIOUS
<1>1. RegistryInv
  BY RegistryStarts
<1>2. scope \in Scopes /\ scope.cap \in Nat \ {0}
  BY CapIsPositive DEF Init
<1>3. InUse = {} /\ Waiting = {}
  BY DEF Init, InUse, Waiting, NewOp
<1>4. TypeOK
  <2>1. NoConn \in ConnType /\ NewOp \in OpType /\ NoWork \in CurType /\ NoSet.set = None
    BY <1>2, NoneIsNothing DEF NoConn, ConnType, NewOp, OpType, NoWork, CurType, NoSet, Kinds, Conns
  <2>2. [q |-> Empty, out |-> FALSE, shut |-> FALSE, result |-> {}] \in SlotType
    BY EmptyTyped DEF SlotType
  <2>3. opened \in 0..MaxConns
    BY SocketIoAssumption DEF Init
  <2>4. /\ conn \in [Conns -> ConnType] /\ op \in [Ops -> OpType] /\ slot \in [Slots -> SlotType]
        /\ cur \in [Threads -> CurType]
    BY <2>1, <2>2 DEF Init
  <2>5. /\ edge \in [Fds -> SUBSET Kinds] /\ que \in Seq(Slots) /\ overwritten \subseteq Slots
    BY DEF Init
  <2> QED
    BY <1>1, <2>3, <2>4, <2>5, TypesAre DEF CurType, RegistryInv, RegistryTypes
<1>5. FilesApart /\ NobodysAreEmpty
  BY DEF Init, FilesApart, NobodysAreEmpty
<1>6. Placed /\ AllAreSound
  BY <1>3 DEF Placed, AllAreSound
<1> QED
  BY <1>1, <1>4, <1>5, <1>6 DEF SocketInv

LEMMA StutterIsSound == SocketInv /\ UNCHANGED vars => SocketInv'
<1> SUFFICES ASSUME SocketInv, UNCHANGED vars PROVE SocketInv'
  OBVIOUS
<1>1. RegistryInv'
  BY QuietSteps, PartsOfInv
<1>2. /\ UNCHANGED <<scope, file, conn, entry, edge, opened, sock, slot, que, op, cur, overwritten>>
  BY DEF vars, kernelVars
<1>3. \A s \in InUse, kind \in Kinds : IsKept(s, kind)'
  BY Zenon, <1>2, WasKept DEF IsKept, Queue, Seen
<1> QED
  BY <1>1, <1>2, <1>3, PartsOfInv, TypesAre, QuietIsSound

LEMMA SocketSteps == SocketInv /\ [Next]_vars => SocketInv'
<1> SUFFICES ASSUME SocketInv, [Next]_vars PROVE SocketInv'
  OBVIOUS
<1>0. scope.socks \subseteq Socks /\ scope.ops \subseteq Ops /\ scope.cap \in Nat
  BY SocketIoAssumption, PartsOfInv, TypesAre
<1>1. CASE \E t \in Threads, s \in scope.socks : Api(t, s)
  <2>1. PICK t \in Threads, s \in Socks : Api(t, s)
    BY <1>0, <1>1
  <2>2. CASE Open(t, s) \/ CancelOps(t, s) \/ Detach(t, s)
    BY <2>2, OpenIsSound, CancelIsSound, DetachIsSound
  <2>3. CASE \E o \in scope.ops, kind \in Kinds, want \in 1..scope.cap :
                 <<s, kind>> \in scope.uses /\ Start(t, s, o, kind, want)
    <3>1. PICK o \in Ops, kind \in Kinds, want \in 0..scope.cap : Start(t, s, o, kind, want)
      BY <1>0, <2>3
    <3> QED
      BY <3>1, StartIsSound
  <2> QED
    BY <2>1, <2>2, <2>3 DEF Api
<1>2. CASE \E t \in Threads : Serve(t)
  BY <1>2, CloseFdIsSound, PollIsSound, TakeSetIsSound, DoWorkIsSound, EndIoIsSound DEF Serve
<1>3. CASE \E f \in Fds : Arrive(f) \/ PeerCloses(f) \/ Drain(f)
  BY <1>3, PeerStepsAreSound
<1>4. CASE UNCHANGED vars
  BY <1>4, StutterIsSound
<1> QED
  BY <1>1, <1>2, <1>3, <1>4 DEF Next

(* start_op, cancel_ops, perform_io, deregister_descriptor and close, by   *)
(* any threads in any order: every variable keeps its type, and every      *)
(* waiting operation stands in the queue of an open socket, for that       *)
(* socket's descriptor and connection.                                     *)
THEOREM OperationsStaySound == Spec => []OperationsAreSound
<1>1. SocketInv => OperationsAreSound
  <2> SUFFICES ASSUME SocketInv PROVE TypeOK /\ WaitsOnItsOwn
    BY DEF OperationsAreSound
  <2>1. ASSUME NEW o \in Waiting
        PROVE  \E s \in Socks :
                 /\ sock[s].set # None
                 /\ sock[s].fd = op[o].fd /\ file[op[o].fd] = op[o].conn
                 /\ o \in ToSet(slot[sock[s].set].q[op[o].kind])
    <3>1. PICK s \in InUse : StandsAt(o, s)
      BY PartsOfInv DEF Placed
    <3>2. op[o].kind \in Kinds
      BY PartsOfInv DEF Waiting, OpType
    <3>3. PICK i \in 1..Len(Queue(s, op[o].kind)) : Queue(s, op[o].kind)[i] = o
      BY <3>1 DEF StandsAt
    <3>4. ItsOwn(s, op[o], op[o].kind)
      BY <3>2, <3>3, TheirOps
    <3>5. o \in ToSet(Queue(s, op[o].kind))
      <4>1. Queue(s, op[o].kind) \in Seq(Ops)
        BY <3>2, PartsOfInv, InUseHave
      <4> QED
        BY <3>3, <4>1 DEF ToSet
    <3> QED
      BY <3>4, <3>5 DEF ItsOwn, InUse, Queue
  <2>2. ASSUME NEW k \in Slots
        PROVE  Queued(k) \subseteq Waiting /\ (k \notin live => Queued(k) = {})
    <3>1. CASE \E s \in InUse : sock[s].set = k
      <4>1. PICK s \in InUse : sock[s].set = k
        BY <3>1
      <4>2. k \in live
        BY <4>1, PartsOfInv, InUseHave
      <4>3. ASSUME NEW o \in Queued(k) PROVE o \in Waiting
        <5>1. PICK kind \in Kinds : o \in ToSet(Queue(s, kind))
          BY <4>1, <4>3 DEF Queued, Queue
        <5>2. Queue(s, kind) \in Seq(Ops)
          BY PartsOfInv, InUseHave
        <5>3. PICK i \in 1..Len(Queue(s, kind)) : Queue(s, kind)[i] = o
          BY <5>1, <5>2 DEF ToSet
        <5> QED
          BY <5>3, TheirOps DEF ItsOwn, Waiting
      <4> QED
        BY <4>2, <4>3
    <3>2. CASE \A s \in InUse : sock[s].set # k
      <4>1. slot[k].q = Empty
        BY <3>2, PartsOfInv DEF NobodysAreEmpty
      <4>2. Queued(k) = {}
        BY <4>1 DEF Queued, Empty, ToSet, Kinds
      <4> QED
        BY <4>2
    <3> QED
      BY <3>1, <3>2
  <2> QED
    BY <2>1, <2>2, PartsOfInv DEF WaitsOnItsOwn
<1> QED
  BY <1>1, SocketStarts, SocketSteps, PTL DEF Spec

(* An operation waits, and its connection could serve it: then its event   *)
(* is at the descriptor, in a poll's report or in a thread's hands, but    *)
(* for op_sets whose report was overwritten.                               *)
THEOREM NoEdgeIsLost == Spec => []NoLostEdge
<1>1. SocketInv => NoLostEdge
  <2> SUFFICES ASSUME SocketInv, NEW s \in Socks, NEW kind \in Kinds,
                      sock[s].set # None, slot[sock[s].set].q[kind] # <<>>,
                      sock[s].set \notin overwritten,
                      Amount(conn[file[sock[s].fd]], op[slot[sock[s].set].q[kind][1]]) > 0
               PROVE  OnItsWay(sock[s].set, kind)
    BY DEF NoLostEdge
  <2>1. s \in InUse
    BY DEF InUse
  <2>2. Seen(s, kind)
    BY Zenon, <2>1, WasKept DEF IsKept, Queue
  <2>3. sock[s].fd \in Fds /\ entry[sock[s].fd].set = sock[s].set
    BY <2>1, PartsOfInv, InUseHave
  <2> QED
    BY <2>2, <2>3 DEF Seen, OnItsWay
<1> QED
  BY <1>1, SocketStarts, SocketSteps, PTL DEF Spec

-----------------------------------------------------------------------------
(* Transfers finish in the order in which they were started.               *)

LEMMA AloofIsInOrder ==
    ASSUME SocketInv, NEW s \in InUse, NEW kind \in Kinds, Aloof(s)
    PROVE  BytesInOrder(s, kind)
<1> DEFINE q == Queue(s, kind)
           c == file[sock[s].fd]
<1>1. q \in Seq(Ops) /\ DOMAIN q = 1..Len(q) /\ conn[c] \in ConnType
  BY PartsOfInv, InUseHave
<1>2. \A i \in 1..Len(q) : op'[q[i]].st = "waiting"
  BY TheirOps DEF Aloof, ItsOwn
<1>3. ~(Bytes(conn'[c], kind) < Bytes(conn[c], kind))
  BY <1>1 DEF Aloof, Bytes, ConnType
<1> QED
  BY Zenon, <1>1, <1>2, <1>3 DEF BytesInOrder, Queue

(* All operations stay, and no bytes of the direction move.                *)
LEMMA StayingIsInOrder ==
    ASSUME SocketInv, NEW s \in InUse, NEW kind \in Kinds,
           \A i \in 1..Len(Queue(s, kind)) : op'[Queue(s, kind)[i]].st = "waiting",
           ~(Bytes(conn'[file[sock[s].fd]], kind) < Bytes(conn[file[sock[s].fd]], kind))
    PROVE  BytesInOrder(s, kind)
<1>1. DOMAIN Queue(s, kind) = 1..Len(Queue(s, kind))
  BY PartsOfInv, InUseHave
<1> QED
  BY Zenon, <1>1 DEF BytesInOrder, Queue

LEMMA BytesAreKept ==
    ASSUME SocketInv, NEW s \in InUse, NEW kind \in Kinds,
           conn'[file[sock[s].fd]] = conn[file[sock[s].fd]]
    PROVE  ~(Bytes(conn'[file[sock[s].fd]], kind) < Bytes(conn[file[sock[s].fd]], kind))
<1>1. conn[file[sock[s].fd]] \in ConnType
  BY PartsOfInv, InUseHave
<1> QED
  BY <1>1 DEF Bytes, ConnType

LEMMA WorkIsInOrder ==
    ASSUME SocketInv, NEW t \in Threads, DoWork(t), NEW r \in InUse, NEW d \in Kinds
    PROVE  BytesInOrder(r, d)
<1>1. PICK s \in InUse, kind \in Kinds :
         WorksAt(t, s, kind) /\ (HeadIsDone(t, s, kind) \/ HeadMustWait(t, s, kind))
  BY DoWorkDoes
<1> DEFINE c == file[sock[s].fd]
           q == Queue(s, d)
<1>2. CASE r # s
  BY <1>1, <1>2, WorkingLeavesOthers, AloofIsInOrder
<1>3. CASE r = s /\ HeadMustWait(t, s, kind)
  BY <1>3, TheirOps, BytesAreKept, StayingIsInOrder DEF HeadMustWait, ItsOwn
<1>4. CASE r = s /\ HeadIsDone(t, s, kind)
  <2> DEFINE o == Queue(s, kind)[1]
  <2>1. /\ op'[o].st = "new" /\ \A a \in Ops : a # o => op'[a] = op[a]
        /\ conn'[c] = Moved(conn[c], op[o])
        /\ \A e \in Kinds : \A i \in 1..Len(Queue(s, e)) :
              e # kind \/ i # 1 => Queue(s, e)[i] # o
    BY <1>1, <1>4, HeadIsDoneChanges
  <2>2. conn[c] \in ConnType /\ op[o] \in OpType /\ op[o].kind = kind
    BY <1>1, PartsOfInv, InUseHave, WasKept DEF WorksAt
  <2>3. \A i \in 1..Len(q) : d # kind \/ i # 1 => op'[q[i]].st = "waiting"
    BY <2>1, TheirOps DEF ItsOwn
  <2>4. CASE d # kind
    <3>1. d \in {"read", "write"} /\ kind \in {"read", "write"}
      BY DEF Kinds
    <3>2. ~(Bytes(conn'[c], d) < Bytes(conn[c], d))
      <4>1. scope.cap \in Nat
        BY PartsOfInv
      <4>2. /\ op[o].kind = "read" => conn'[c].room = conn[c].room
            /\ op[o].kind = "write" => conn'[c].avail = conn[c].avail
        BY <2>1, <2>2, <4>1, MovedIsTyped
      <4>3. Bytes(conn'[c], d) = Bytes(conn[c], d)
        BY <2>2, <2>4, <3>1, <4>2 DEF Bytes
      <4>4. Bytes(conn[c], d) \in Nat
        BY <2>2, <4>1 DEF Bytes, ConnType
      <4> QED
        BY <4>3, <4>4
    <3> QED
      BY <1>4, <2>3, <2>4, <3>2, StayingIsInOrder
  <2>5. CASE d = kind
    <3>1. DOMAIN q = 1..Len(q)
      BY PartsOfInv, InUseHave
    <3>2. \A i, j \in 1..Len(q) : i < j => j # 1
      BY <3>1
    <3> QED
      BY ZenonT(40), <1>4, <2>1, <2>3, <2>5, <3>1, <3>2 DEF BytesInOrder, Queue
  <2> QED
    BY <2>4, <2>5
<1> QED
  BY <1>1, <1>2, <1>3, <1>4

LEMMA StartIsInOrder ==
    ASSUME SocketInv, NEW t \in Threads, NEW s \in Socks, NEW o \in Ops,
           NEW kind \in Kinds, NEW want \in 0..scope.cap, Start(t, s, o, kind, want),
           NEW r \in InUse, NEW d \in Kinds
    PROVE  BytesInOrder(r, d)
<1>1. PICK p \in OpType : StartsAt(s, o, p) /\ (FinishedAtOnce(s, p) \/ PutInQueue(s, o, p))
  BY StartDoes
<1>2. s \in InUse
  BY StartDoes
<1> DEFINE c == file[sock[s].fd]
<1>3. CASE r # s
  BY <1>1, <1>2, <1>3, OthersAreAloof, AloofIsInOrder
<1>4. CASE r = s /\ PutInQueue(s, o, p)
  <2>1. \A i \in 1..Len(Queue(s, d)) : op'[Queue(s, d)[i]].st = "waiting"
    BY <1>1, <1>2, <1>4, TheirOps, PartsOfInv DEF StartsAt, PutInQueue, ItsOwn
  <2> QED
    BY <1>2, <1>4, <2>1, BytesAreKept, StayingIsInOrder DEF PutInQueue
<1>5. CASE r = s /\ FinishedAtOnce(s, p)
  <2>1. CASE d = p.kind
    BY Zenon, <1>5, <2>1 DEF FinishedAtOnce, BytesInOrder, Queue
  <2>2. CASE d # p.kind
    <3>1. c \in Conns /\ conn[c] \in ConnType
      BY <1>2, PartsOfInv, InUseHave
    <3>2. conn'[c] = Moved(conn[c], p)
      BY <1>5, <3>1, PartsOfInv DEF FinishedAtOnce
    <3>3. d \in {"read", "write"} /\ p.kind \in {"read", "write"}
      BY DEF Kinds, OpType
    <3>4. ~(Bytes(conn'[c], d) < Bytes(conn[c], d))
      <4>1. scope.cap \in Nat
        BY PartsOfInv
      <4>2. /\ p.kind = "read" => conn'[c].room = conn[c].room
            /\ p.kind = "write" => conn'[c].avail = conn[c].avail
        BY <3>1, <3>2, <4>1, MovedIsTyped
      <4>3. Bytes(conn'[c], d) = Bytes(conn[c], d)
        BY <2>2, <3>3, <4>2 DEF Bytes
      <4>4. Bytes(conn[c], d) \in Nat
        BY <3>1, <4>1 DEF Bytes, ConnType
      <4> QED
        BY <4>3, <4>4
    <3>5. \A i \in 1..Len(Queue(s, d)) : op'[Queue(s, d)[i]].st = "waiting"
      BY <1>2, <1>5, TheirOps DEF FinishedAtOnce, ItsOwn
    <3> QED
      BY <1>5, <3>4, <3>5, StayingIsInOrder
  <2> QED
    BY <2>1, <2>2
<1> QED
  BY <1>1, <1>3, <1>4, <1>5

(* What empties an op_set empties it.                                      *)
LEMMA EmptyingIsInOrder ==
    ASSUME SocketInv, NEW s \in InUse, Emptied(s), NEW r \in InUse, NEW d \in Kinds
    PROVE  BytesInOrder(r, d)
<1>1. \A o \in Ops : op'[o].st = (IF o \in Queued(sock[s].set) THEN "new" ELSE op[o].st)
  BY DEF Emptied, Cancelled, Posted, NewOp
<1>2. ~(Bytes(conn'[file[sock[r].fd]], d) < Bytes(conn[file[sock[r].fd]], d))
  BY BytesAreKept DEF Emptied, kernelVars
<1>3. CASE r = s
  <2>1. \A i \in 1..Len(Queue(s, d)) : op'[Queue(s, d)[i]].st # "waiting"
    BY <1>1, QueuedAre, TheirOps
  <2>2. DOMAIN Queue(s, d) = 1..Len(Queue(s, d))
    BY PartsOfInv, InUseHave
  <2> QED
    BY Zenon, <1>2, <1>3, <2>1, <2>2 DEF BytesInOrder, Queue
<1>4. CASE r # s
  <2>1. sock[r].fd # sock[s].fd
    BY <1>4, PartsOfInv, InUseHave, InUseAreApart
  <2>2. \A i \in 1..Len(Queue(r, d)) : op'[Queue(r, d)[i]].st = "waiting"
    BY <1>1, <2>1, QueuedAre, TheirOps DEF ItsOwn
  <2> QED
    BY <1>2, <2>2, StayingIsInOrder
<1> QED
  BY <1>3, <1>4

LEMMA CloseIsInOrder ==
    ASSUME SocketInv, NEW t \in Threads, CloseFd(t), NEW r \in InUse, NEW d \in Kinds
    PROVE  BytesInOrder(r, d)
<1> DEFINE s == closing[t]
<1>1. /\ s # None /\ conn' = [conn EXCEPT ![file[sock[s].fd]] = NoConn] /\ op' = op
  BY DEF CloseFd
<1>2. s \in Socks /\ sock[s].set = None /\ sock[s].fd # None
  BY <1>1, PartsOfInv, TypesAre DEF RegistryInv, ClosedByOne
<1>3. r # s /\ file[sock[r].fd] \in Conns
  BY <1>2, PartsOfInv, InUseHave
<1>4. file[sock[r].fd] # file[sock[s].fd]
  BY <1>2, <1>3, PartsOfInv, InUseAreApart
<1>5. conn'[file[sock[r].fd]] = conn[file[sock[r].fd]]
  BY <1>1, <1>3, <1>4, PartsOfInv
<1> QED
  BY <1>1, <1>5, BytesAreKept, StayingIsInOrder, TheirOps DEF ItsOwn

LEMMA PeerIsInOrder ==
    ASSUME SocketInv, NEW f \in Fds, Arrive(f) \/ PeerCloses(f) \/ Drain(f),
           NEW r \in InUse, NEW d \in Kinds
    PROVE  BytesInOrder(r, d)
<1> DEFINE c == file[sock[r].fd]
<1>1. c \in Conns /\ conn[c] \in ConnType /\ scope.cap \in Nat
  BY PartsOfInv, InUseHave
<1>2. file[f] \in Conns /\ conn[file[f]] \in ConnType /\ op' = op
  BY PartsOfInv, TypesAre DEF Arrive, PeerCloses, Drain
<1>3. \/ conn' = [conn EXCEPT ![file[f]].avail = @ + 1]
      \/ conn' = [conn EXCEPT ![file[f]].eof = TRUE]
      \/ conn' = [conn EXCEPT ![file[f]].room = scope.cap]
  BY DEF Arrive, PeerCloses, Drain
<1>4. conn'[c].avail >= conn[c].avail /\ conn'[c].room >= conn[c].room
  <2>1. CASE c # file[f]
    <3>1. conn'[c] = conn[c]
      BY <1>1, <1>3, <2>1, PartsOfInv
    <3> QED
      BY <1>1, <3>1 DEF ConnType
  <2>2. CASE c = file[f]
    <3>1. \/ conn'[c] = [conn[c] EXCEPT !.avail = @ + 1]
          \/ conn'[c] = [conn[c] EXCEPT !.eof = TRUE]
          \/ conn'[c] = [conn[c] EXCEPT !.room = scope.cap]
      BY <1>1, <1>3, <2>2, PartsOfInv
    <3> QED
      BY SMTT(30), <1>1, <3>1 DEF ConnType
  <2> QED
    BY <2>1, <2>2
<1>5. ~(Bytes(conn'[c], d) < Bytes(conn[c], d))
  <2>1. Bytes(conn'[c], d) >= Bytes(conn[c], d)
    BY <1>4 DEF Bytes
  <2>2. /\ conn[c].avail \in Nat /\ conn[c].room \in Nat
        /\ conn'[c].avail \in Nat /\ conn'[c].room \in Nat
    <3>1. SocketInv'
      BY PeerStepsAreSound
    <3>2. conn' \in [Conns -> [eof : BOOLEAN, avail : 0..scope'.cap, room : 0..scope'.cap]]
      BY <3>1 DEF SocketInv, TypeOK
    <3> QED
      BY <1>1, <3>2 DEF ConnType
  <2> QED
    BY <2>1, <2>2 DEF Bytes
<1> QED
  BY <1>2, <1>5, StayingIsInOrder, TheirOps DEF ItsOwn

LEMMA OrderSteps ==
    SocketInv /\ [Next]_vars =>
        [\A s \in Socks, kind \in Kinds : BytesInOrder(s, kind)]_vars
<1> SUFFICES ASSUME SocketInv, Next, NEW r \in Socks, NEW d \in Kinds
             PROVE  BytesInOrder(r, d)
  OBVIOUS
<1>1. CASE r \notin InUse
  BY <1>1 DEF InUse, BytesInOrder
<1>2. CASE r \in InUse
  <2>0. scope.socks \subseteq Socks /\ scope.ops \subseteq Ops /\ scope.cap \in Nat
    BY SocketIoAssumption, PartsOfInv, TypesAre
  <2>1. ASSUME op' = op, conn' = conn PROVE BytesInOrder(r, d)
    BY <1>2, <2>1, BytesAreKept, StayingIsInOrder, TheirOps DEF ItsOwn
  <2>2. CASE \E t \in Threads, s \in scope.socks : Api(t, s)
    <3>1. PICK t \in Threads, s \in Socks : Api(t, s)
      BY <2>0, <2>2
    <3>2. CASE Open(t, s)
      BY <2>1, <3>2 DEF Open
    <3>3. CASE CancelOps(t, s) \/ Detach(t, s)
      BY <1>2, <3>3, CancelEmpties, DetachEmpties, EmptyingIsInOrder
    <3>4. CASE \E o \in scope.ops, kind \in Kinds, want \in 1..scope.cap :
                   <<s, kind>> \in scope.uses /\ Start(t, s, o, kind, want)
      <4>1. PICK o \in Ops, kind \in Kinds, want \in 0..scope.cap : Start(t, s, o, kind, want)
        BY <2>0, <3>4
      <4> QED
        BY <1>2, <4>1, StartIsInOrder
    <3> QED
      BY <3>1, <3>2, <3>3, <3>4 DEF Api
  <2>3. CASE \E t \in Threads : Serve(t)
    <3>1. PICK t \in Threads : Serve(t)
      BY <2>3
    <3>2. CASE Poll(t) \/ TakeSet(t) \/ EndIo(t)
      BY <2>1, <3>2 DEF Poll, TakeSet, EndIo, kernelVars
    <3> QED
      BY <1>2, <3>1, <3>2, CloseIsInOrder, WorkIsInOrder DEF Serve
  <2>4. CASE \E f \in Fds : Arrive(f) \/ PeerCloses(f) \/ Drain(f)
    BY <1>2, <2>4, PeerIsInOrder
  <2> QED
    BY <2>2, <2>3, <2>4 DEF Next
<1> QED
  BY <1>1, <1>2

(* The bytes of a connection go to its reads, and its room to its writes,  *)
(* in the order in which start_op took them: perform_io finishes the head  *)
(* of a queue first, and start_op never passes one that waits.             *)
THEOREM TransfersAreInOrder == Spec => InOrder
<1>1. SocketInv /\ [Next]_vars =>
        [\A s \in Socks, kind \in Kinds : BytesInOrder(s, kind)]_vars
  BY OrderSteps
<1> QED
  BY <1>1, SocketStarts, SocketSteps, PTL DEF Spec, InOrder
=============================================================================
