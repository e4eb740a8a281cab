------------------------------ MODULE ProgramProofs ------------------------------
(***************************************************************************)
(* The smaller programs, each for any value of its constants: the chat     *)
(* gives every participant every message, in order, and its writes never   *)
(* mix; the tokens of the first thread pool match its jobs; the demo and   *)
(* the two servers of epoll_half_async drop no edge that matters, and      *)
(* every report is complete; the echo server answers with what it read,    *)
(* unless two connections share its buffer.                                *)
(***************************************************************************)
EXTENDS Chat, UnstablePool, HalfAsync, EpollEcho, FiniteSetTheorems, SequenceTheorems,
        WellFoundedInduction, TLAPS

-----------------------------------------------------------------------------
(* Chat.                                                                   *)

SessionRecords == [st : {"none", "started"}, reads : Reading, w : Writer]
ClientRecords ==
    [st : {"connecting", "up", "closed", "failed"}, reads : Reading, w : Writer,
     posted : Seq(Messages \cup {<<"close">>}), typed : Nat, input : BOOLEAN, runs : BOOLEAN]

ChatTypes ==
    /\ client \in [Clients -> ClientRecords] /\ session \in [Clients -> SessionRecords]
    /\ \A c \in Clients : client[c].typed <= Lines[c]
    /\ participants \subseteq Clients
    /\ recent_msgs \in Seq(Messages) /\ log \in Seq(Messages)
    /\ toServer \in [Clients -> Seq(Units)] /\ toClient \in [Clients -> Seq(Units)]
    /\ broken \subseteq Clients
    /\ since \in [Clients -> Nat]
    /\ got \in [Clients -> Seq(Messages)] /\ printed \in [Clients -> Seq(Messages)]

(* At most one write is under way, and it is that of the first message of  *)
(* the queue.                                                              *)
OneWrite(w) ==
    \/ w.writes = <<>>
    \/ /\ w.q # <<>> /\ Len(w.writes) = 1
       /\ w.writes[1] \in {Sent(w.q[1]), << <<"body", w.q[1]>> >>, <<>>}

(* How many units of it the socket has taken.                              *)
Taken(w) == IF w.writes = <<>> THEN 0 ELSE 2 - Len(w.writes[1])

(* What is on its way continues the messages ms where n of them have been  *)
(* read, and e units of the next.                                          *)
InStep(wire, ms, n, e) ==
    \A k \in Nat \ {0} :
        /\ 2 * k - 1 - e \in DOMAIN wire => wire[2 * k - 1 - e] = <<"header", ms[n + k]>>
        /\ 2 * k - e \in DOMAIN wire => wire[2 * k - e] = <<"body", ms[n + k]>>

HalfRead(r) == IF r = "body" THEN 1 ELSE 0

(* The room and its sessions.                                              *)
RoomInv ==
    /\ Len(recent_msgs) <= Len(log)
    /\ \A i \in DOMAIN recent_msgs : recent_msgs[i] = log[Len(log) - Len(recent_msgs) + i]
    /\ \A c \in participants : session[c].st = "started"

(* What a session has written and has still to write.                      *)
SessionInv(c) ==
    LET s == since[c] - 1
        q == session[c].w.q
    IN IF session[c].st = "none"
       THEN /\ session[c].reads = "no" /\ session[c].w = NoWriter
            /\ got[c] = <<>> /\ printed[c] = <<>> /\ toClient[c] = <<>>
       ELSE /\ s \in Nat
            /\ \A i \in DOMAIN got[c] : got[c][i] = log[s + i]
            /\ \A i \in DOMAIN q : q[i] = log[s + Len(got[c]) + i]
            /\ s + Len(got[c]) + Len(q) <= Len(log)
            /\ c \in participants => s + Len(got[c]) + Len(q) = Len(log)

(* From a session to its client.                                           *)
DownInv(c) ==
    /\ client[c].st = "connecting" => session[c].st = "none" /\ c \notin broken
    /\ client[c].st = "up" => client[c].reads # "no"
    /\ client[c].st = "up" /\ session[c].st = "none" => client[c].reads = "header"
    /\ c \in broken => toClient[c] = <<>> /\ toServer[c] = <<>>
    /\ session[c].st = "started" =>
         LET s == since[c] - 1
             e == HalfRead(client[c].reads)
         IN /\ \A i \in DOMAIN printed[c] : printed[c][i] = log[s + i]
            /\ Len(printed[c]) <= Len(got[c]) + Len(session[c].w.q)
            /\ client[c].st = "up" /\ c \notin broken =>
                 /\ InStep(toClient[c], log, s + Len(printed[c]), e)
                 /\ 2 * Len(printed[c]) + e + Len(toClient[c])
                      = 2 * Len(got[c]) + Taken(session[c].w)

SaidBy(c, i) == {j \in 1..i : log[j][1] = c}
Said(c) == Cardinality(SaidBy(c, Len(log)))
Typed(c) == [n \in Nat |-> <<c, n>>]

(* The lines among what is posted, and those that have left it.            *)
LinesPosted(c) ==
    IF client[c].input \/ client[c].posted = <<>> THEN Len(client[c].posted)
    ELSE Len(client[c].posted) - 1
LinesRun(c) == client[c].typed - LinesPosted(c)

PostedInv(c) ==
    /\ LinesRun(c) \in Nat
    /\ \A i \in 1..LinesPosted(c) : client[c].posted[i] = <<c, LinesRun(c) + i>>
    /\ LinesPosted(c) # Len(client[c].posted)
         => client[c].posted[Len(client[c].posted)] = <<"close">>

(* From a user to the room.                                                *)
UpInv(c) ==
    LET q == client[c].w.q
        e == HalfRead(session[c].reads)
    IN /\ Len(q) <= LinesRun(c)
       /\ \A i \in DOMAIN q : q[i] = <<c, LinesRun(c) - Len(q) + i>>
       /\ session[c].reads # "no" \/ session[c].st = "none" =>
            /\ InStep(toServer[c], Typed(c), Said(c), e)
            /\ client[c].st = "up" /\ c \notin broken =>
                 2 * Said(c) + e + Len(toServer[c])
                   = 2 * (LinesRun(c) - Len(q)) + Taken(client[c].w)
       /\ client[c].st = "connecting" =>
            /\ toServer[c] = <<>> /\ Said(c) = 0
            /\ LinesRun(c) = Len(q) /\ Taken(client[c].w) = 0

InOrderInv ==
    \A c \in Clients : \A i \in DOMAIN log :
        log[i][1] = c => log[i][2] = Cardinality(SaidBy(c, i))

ClientInv(c) ==
    /\ OneWrite(client[c].w) /\ OneWrite(session[c].w)
    /\ SessionInv(c) /\ DownInv(c) /\ PostedInv(c) /\ UpInv(c)

ChatInv == ChatTypes /\ RoomInv /\ InOrderInv /\ \A c \in Clients : ClientInv(c)

(* Sequences of one element, and one element more or less.                 *)
LEMMA OnlyOne ==
    ASSUME NEW S, NEW x \in S
    PROVE  <<x>> \in Seq(S) /\ Len(<<x>>) = 1 /\ <<x>>[1] = x /\ <<x>> # <<>>
  OBVIOUS

LEMMA OneLess ==
    ASSUME NEW S, NEW q \in Seq(S), q # <<>>
    PROVE  /\ Tail(q) \in Seq(S) /\ Len(Tail(q)) = Len(q) - 1 /\ Len(q) \in Nat \ {0}
           /\ q[1] \in S /\ \A i \in 1..Len(Tail(q)) : Tail(q)[i] = q[i + 1]
  OBVIOUS

LEMMA OneLong ==
    ASSUME NEW S, NEW q \in Seq(S), Len(q) = 1, NEW y \in S
    PROVE  /\ Tail(q) = <<>> /\ q[1] \in S /\ q # <<>>
           /\ [q EXCEPT ![1] = y] \in Seq(S) /\ Len([q EXCEPT ![1] = y]) = 1
           /\ [q EXCEPT ![1] = y][1] = y
<1>1. q # <<>> /\ 1 \in 1..Len(q) /\ q[1] \in S
  OBVIOUS
<1>2. Tail(q) \in Seq(S) /\ Len(Tail(q)) = 0
  BY <1>1, OneLess
<1>3. Tail(q) = <<>>
  BY <1>2, EmptySeq
<1>4. /\ [q EXCEPT ![1] = y] \in Seq(S) /\ Len([q EXCEPT ![1] = y]) = 1
      /\ [q EXCEPT ![1] = y][1] = y
  BY <1>1
<1> QED
  BY <1>1, <1>3, <1>4

LEMMA OneMore ==
    ASSUME NEW S, NEW q \in Seq(S), NEW x \in S
    PROVE  /\ Append(q, x) \in Seq(S) /\ Len(Append(q, x)) = Len(q) + 1
           /\ Append(q, x) # <<>> /\ Append(q, x)[Len(q) + 1] = x
           /\ \A i \in 1..Len(q) : Append(q, x)[i] = q[i]
           /\ q = <<>> => Append(q, x)[1] = x
           /\ q # <<>> => Append(q, x)[1] = q[1]
<1>1. /\ Append(q, x) \in Seq(S) /\ Len(Append(q, x)) = Len(q) + 1
      /\ Append(q, x)[Len(q) + 1] = x /\ \A i \in 1..Len(q) : Append(q, x)[i] = q[i]
  OBVIOUS
<1>2. Len(q) \in Nat /\ (q = <<>> => Len(q) = 0) /\ (q # <<>> => 1 \in 1..Len(q))
  OBVIOUS
<1>3. Append(q, x) # <<>>
  BY <1>1, <1>2
<1> QED
  BY <1>1, <1>2, <1>3

(* Reading a unit, and putting one more on its way.                        *)
LEMMA HeaderComes ==
    ASSUME NEW S, NEW wire \in Seq(S), NEW ms, NEW n \in Nat, InStep(wire, ms, n, 0), wire # <<>>
    PROVE  wire[1] = <<"header", ms[n + 1]>> /\ InStep(Tail(wire), ms, n, 1)
<1>1. /\ Len(wire) \in Nat \ {0} /\ Len(Tail(wire)) = Len(wire) - 1
      /\ DOMAIN wire = 1..Len(wire) /\ DOMAIN Tail(wire) = 1..(Len(wire) - 1)
      /\ \A i \in 1..(Len(wire) - 1) : Tail(wire)[i] = wire[i + 1]
  OBVIOUS
<1>2. wire[1] = <<"header", ms[n + 1]>>
  <2>1. 2 * 1 - 1 - 0 = 1 /\ 1 \in DOMAIN wire /\ 1 \in Nat \ {0}
    BY <1>1
  <2>2. 2 * 1 - 1 - 0 \in DOMAIN wire => wire[2 * 1 - 1 - 0] = <<"header", ms[n + 1]>>
    BY <2>1 DEF InStep
  <2> QED
    BY <2>1, <2>2
<1>3. ASSUME NEW k \in Nat \ {0}
      PROVE  /\ 2 * k - 1 - 1 \in DOMAIN Tail(wire)
                  => Tail(wire)[2 * k - 1 - 1] = <<"header", ms[n + k]>>
             /\ 2 * k - 1 \in DOMAIN Tail(wire) => Tail(wire)[2 * k - 1] = <<"body", ms[n + k]>>
  <2>1. /\ 2 * k - 1 - 0 \in DOMAIN wire => wire[2 * k - 1 - 0] = <<"header", ms[n + k]>>
        /\ 2 * k - 0 \in DOMAIN wire => wire[2 * k - 0] = <<"body", ms[n + k]>>
    BY DEF InStep
  <2> QED
    BY <1>1, <2>1
<1> QED
  BY <1>2, <1>3 DEF InStep

LEMMA BodyComes ==
    ASSUME NEW S, NEW wire \in Seq(S), NEW ms, NEW n \in Nat, InStep(wire, ms, n, 1), wire # <<>>
    PROVE  wire[1] = <<"body", ms[n + 1]>> /\ InStep(Tail(wire), ms, n + 1, 0)
<1>1. /\ Len(wire) \in Nat \ {0} /\ Len(Tail(wire)) = Len(wire) - 1
      /\ DOMAIN wire = 1..Len(wire) /\ DOMAIN Tail(wire) = 1..(Len(wire) - 1)
      /\ \A i \in 1..(Len(wire) - 1) : Tail(wire)[i] = wire[i + 1]
  OBVIOUS
<1>2. wire[1] = <<"body", ms[n + 1]>>
  <2>1. 2 * 1 - 1 = 1 /\ 1 \in DOMAIN wire /\ 1 \in Nat \ {0}
    BY <1>1
  <2>2. 2 * 1 - 1 \in DOMAIN wire => wire[2 * 1 - 1] = <<"body", ms[n + 1]>>
    BY <2>1 DEF InStep
  <2> QED
    BY <2>1, <2>2
<1>3. ASSUME NEW k \in Nat \ {0}
      PROVE  /\ 2 * k - 1 - 0 \in DOMAIN Tail(wire)
                  => Tail(wire)[2 * k - 1 - 0] = <<"header", ms[(n + 1) + k]>>
             /\ 2 * k - 0 \in DOMAIN Tail(wire)
                  => Tail(wire)[2 * k - 0] = <<"body", ms[(n + 1) + k]>>
  <2>1. k + 1 \in Nat \ {0} /\ n + (k + 1) = (n + 1) + k
    OBVIOUS
  <2>2. /\ 2 * (k + 1) - 1 - 1 \in DOMAIN wire
             => wire[2 * (k + 1) - 1 - 1] = <<"header", ms[n + (k + 1)]>>
        /\ 2 * (k + 1) - 1 \in DOMAIN wire => wire[2 * (k + 1) - 1] = <<"body", ms[n + (k + 1)]>>
    BY <2>1 DEF InStep
  <2>3. 2 * (k + 1) - 1 - 1 = (2 * k - 1 - 0) + 1 /\ 2 * (k + 1) - 1 = (2 * k - 0) + 1
    OBVIOUS
  <2> QED
    BY <1>1, <2>1, <2>2, <2>3
<1> QED
  BY <1>2, <1>3 DEF InStep

(* Where w messages have gone, and some units of the next, n messages and  *)
(* e units of the next have come, and the wire holds the difference.       *)
Between(wire, n, e, w, taken) == 2 * n + e + Len(wire) = 2 * w + taken
NextUnit(unit, ms, w, taken) == unit = <<IF taken = 0 THEN "header" ELSE "body", ms[w + 1]>>

LEMMA UnitGoes ==
    ASSUME NEW S, NEW wire \in Seq(S), NEW ms, NEW n \in Nat, NEW e \in {0, 1},
           InStep(wire, ms, n, e), NEW w \in Nat, NEW taken \in {0, 1}, NEW unit \in S,
           Between(wire, n, e, w, taken), NextUnit(unit, ms, w, taken)
    PROVE  InStep(Append(wire, unit), ms, n, e)
<1> USE DEF Between, NextUnit
<1> DEFINE new == Append(wire, unit)
           L == Len(wire)
<1>1. /\ L \in Nat /\ DOMAIN wire = 1..L /\ DOMAIN new = 1..(L + 1) /\ new[L + 1] = unit
      /\ \A i \in 1..L : new[i] = wire[i]
  OBVIOUS
<1> HIDE DEF new
<1>2. ASSUME NEW k \in Nat \ {0}
      PROVE  /\ 2 * k - 1 - e \in DOMAIN new => new[2 * k - 1 - e] = <<"header", ms[n + k]>>
             /\ 2 * k - e \in DOMAIN new => new[2 * k - e] = <<"body", ms[n + k]>>
  <2>1. /\ 2 * k - 1 - e \in DOMAIN wire => wire[2 * k - 1 - e] = <<"header", ms[n + k]>>
        /\ 2 * k - e \in DOMAIN wire => wire[2 * k - e] = <<"body", ms[n + k]>>
    BY DEF InStep
  <2> HIDE DEF L
  <2>2. CASE 2 * k - 1 - e = L + 1
    <3> DEFINE j == n + k - w
    <3>a. j \in Int /\ 2 * j = taken + 2
      BY <1>1, <2>2 DEF L
    <3>b. taken = 0 /\ j = 1
      <4> HIDE DEF j
      <4> QED
        BY <3>a
    <3>1. taken = 0 /\ n + k = w + 1
      BY <3>b
    <3>2. unit = <<"header", ms[n + k]>>
      BY <3>1
    <3>3. 2 * k - e \notin DOMAIN new
      BY <1>1, <2>2
    <3> QED
      BY <1>1, <2>2, <3>2, <3>3
  <2>3. CASE 2 * k - e = L + 1
    <3> DEFINE j == n + k - w
    <3>a. j \in Int /\ 2 * j = taken + 1
      BY <1>1, <2>3 DEF L
    <3>b. taken = 1 /\ j = 1
      <4> HIDE DEF j
      <4> QED
        BY <3>a
    <3>1. taken = 1 /\ n + k = w + 1
      BY <3>b
    <3>2. unit = <<"body", ms[n + k]>>
      BY <3>1
    <3>3. 2 * k - 1 - e \in DOMAIN new => 2 * k - 1 - e \in 1..L
      BY <1>1, <2>3
    <3> QED
      BY <1>1, <2>1, <2>3, <3>2, <3>3
  <2>4. CASE 2 * k - 1 - e # L + 1 /\ 2 * k - e # L + 1
    BY <1>1, <2>1, <2>4
  <2> QED
    BY <2>2, <2>3, <2>4
<1> QED
  BY <1>2 DEF InStep, new

(* More messages change nothing of what is on its way.                     *)
Within(wire, n, e, m) == 2 * n + e + Len(wire) <= 2 * m

LEMMA MoreIsSaid ==
    ASSUME NEW S, NEW wire \in Seq(S), NEW ms, NEW more, NEW n \in Nat, NEW e \in {0, 1},
           NEW m \in Nat, \A i \in 1..m : more[i] = ms[i],
           Within(wire, n, e, m), InStep(wire, ms, n, e)
    PROVE  InStep(wire, more, n, e)
<1> USE DEF Within
<1>1. ASSUME NEW k \in Nat \ {0}
      PROVE  /\ 2 * k - 1 - e \in DOMAIN wire => wire[2 * k - 1 - e] = <<"header", more[n + k]>>
             /\ 2 * k - e \in DOMAIN wire => wire[2 * k - e] = <<"body", more[n + k]>>
  <2>1. /\ 2 * k - 1 - e \in DOMAIN wire => wire[2 * k - 1 - e] = <<"header", ms[n + k]>>
        /\ 2 * k - e \in DOMAIN wire => wire[2 * k - e] = <<"body", ms[n + k]>>
    BY DEF InStep
  <2>2. Len(wire) \in Nat /\ DOMAIN wire = 1..Len(wire)
    OBVIOUS
  <2>3. 2 * k - 1 - e \in DOMAIN wire \/ 2 * k - e \in DOMAIN wire => n + k \in 1..m
    BY <2>2
  <2> QED
    BY <2>1, <2>3
<1> QED
  BY <1>1 DEF InStep

LEMMA NothingGoes == ASSUME NEW ms, NEW n, NEW e PROVE InStep(<<>>, ms, n, e)
  BY DEF InStep

-----------------------------------------------------------------------------
(* Writers.                                                                *)

LEMMA AWriter ==
    ASSUME NEW q \in Seq(Messages), NEW writes \in Seq(Seq(Units))
    PROVE  /\ [q |-> q, writes |-> writes] \in Writer
           /\ [q |-> q, writes |-> writes].q = q
           /\ [q |-> q, writes |-> writes].writes = writes
  BY DEF Writer

LEMMA OfAWriter ==
    ASSUME NEW w \in Writer
    PROVE  /\ w.q \in Seq(Messages) /\ w.writes \in Seq(Seq(Units))
           /\ w = [q |-> w.q, writes |-> w.writes]
  BY DEF Writer

LEMMA SentIsTwo ==
    ASSUME NEW m \in Messages
    PROVE  /\ Sent(m) \in Seq(Units) /\ Len(Sent(m)) = 2 /\ Sent(m) # <<>>
           /\ Sent(m)[1] = <<"header", m>> /\ Sent(m)[2] = <<"body", m>>
           /\ Tail(Sent(m)) = << <<"body", m>> >>
  BY DEF Sent, Units

LEMMA TakenInRange ==
    ASSUME NEW w \in Writer, OneWrite(w)
    PROVE  /\ Taken(w) \in 0..2 /\ (Taken(w) > 0 => w.q # <<>>)
           /\ Done(w) => w.writes = << <<>> >> /\ Taken(w) = 2 /\ w.q # <<>>
           /\ w.q \in Seq(Messages)
<1>1. w.q \in Seq(Messages) /\ w.writes \in Seq(Seq(Units))
  BY DEF Writer
<1>2. CASE w.writes = <<>>
  <2>1. Taken(w) = 0 /\ ~Done(w)
    BY <1>2 DEF Taken, Done
  <2> QED
    BY <1>1, <2>1
<1>3. CASE w.writes # <<>>
  <2>1. /\ w.q # <<>> /\ Len(w.writes) = 1 /\ w.q[1] \in Messages
        /\ w.writes[1] \in {Sent(w.q[1]), << <<"body", w.q[1]>> >>, <<>>}
    BY <1>1, <1>3 DEF OneWrite
  <2>2. Len(w.writes[1]) \in 0..2 /\ (w.writes[1] = <<>> => Len(w.writes[1]) = 0)
    BY <2>1, SentIsTwo
  <2>3. Taken(w) = 2 - Len(w.writes[1])
    BY <1>3 DEF Taken
  <2>4. w.writes[1] = <<>> => w.writes = << <<>> >>
    BY <1>1, <2>1
  <2>5. Done(w) => w.writes[1] = <<>>
    BY DEF Done
  <2>6. Taken(w) \in 0..2 /\ (Done(w) => Taken(w) = 2)
    <3> DEFINE n == Len(w.writes[1])
    <3>1. n \in 0..2 /\ (Done(w) => n = 0) /\ Taken(w) = 2 - n
      BY <2>2, <2>3, <2>5
    <3> HIDE DEF n
    <3> QED
      BY <3>1
  <2> QED
    BY <1>1, <2>1, <2>4, <2>5, <2>6
<1> QED
  BY <1>2, <1>3

LEMMA PushKeeps ==
    ASSUME NEW w \in Writer, OneWrite(w), NEW m \in Messages
    PROVE  /\ Pushed(w, m) \in Writer /\ OneWrite(Pushed(w, m))
           /\ Pushed(w, m).q = Append(w.q, m) /\ Taken(Pushed(w, m)) = Taken(w)
<1>1. w.q \in Seq(Messages) /\ w.writes \in Seq(Seq(Units))
  BY DEF Writer
<1>2. /\ Pushed(w, m).q = Append(w.q, m)
      /\ Pushed(w, m).writes = IF w.q = <<>> THEN <<Sent(m)>> ELSE w.writes
      /\ Pushed(w, m) = [q |-> Pushed(w, m).q, writes |-> Pushed(w, m).writes]
  BY DEF Pushed
<1>3. /\ Append(w.q, m) \in Seq(Messages) /\ Append(w.q, m) # <<>>
      /\ (w.q = <<>> => Append(w.q, m)[1] = m) /\ (w.q # <<>> => Append(w.q, m)[1] = w.q[1])
  BY <1>1, OneMore
<1>4. CASE w.q = <<>>
  <2>1. w.writes = <<>> /\ Taken(w) = 0
    BY <1>4 DEF OneWrite, Taken
  <2>2. <<Sent(m)>> \in Seq(Seq(Units)) /\ Len(<<Sent(m)>>) = 1 /\ <<Sent(m)>>[1] = Sent(m)
    BY SentIsTwo
  <2>3. OneWrite(Pushed(w, m)) /\ Taken(Pushed(w, m)) = 0
    BY <1>2, <1>3, <1>4, <2>2, SentIsTwo DEF OneWrite, Taken
  <2> QED
    BY <1>2, <1>3, <1>4, <2>1, <2>2, <2>3 DEF Writer
<1>5. CASE w.q # <<>>
  <2>1. OneWrite(Pushed(w, m)) /\ Taken(Pushed(w, m)) = Taken(w)
    BY <1>2, <1>3, <1>5 DEF OneWrite, Taken
  <2> QED
    BY <1>1, <1>2, <1>3, <1>5, <2>1 DEF Writer
<1> QED
  BY <1>4, <1>5

LEMMA PopKeeps ==
    ASSUME NEW w \in Writer, OneWrite(w), Done(w)
    PROVE  /\ Popped(w) \in Writer /\ OneWrite(Popped(w))
           /\ Popped(w).q = Tail(w.q) /\ Taken(Popped(w)) = 0
<1>1. w.q \in Seq(Messages) /\ w.q # <<>> /\ w.writes = << <<>> >>
  BY TakenInRange
<1>2. Tail(w.q) \in Seq(Messages) /\ Tail(w.writes) = <<>>
  BY <1>1
<1>3. /\ Popped(w).q = Tail(w.q)
      /\ Popped(w).writes = <<>> \o IF Tail(w.q) = <<>> THEN <<>> ELSE <<Sent(Tail(w.q)[1])>>
      /\ Popped(w) = [q |-> Popped(w).q, writes |-> Popped(w).writes]
  BY <1>2 DEF Popped
<1>4. CASE Tail(w.q) = <<>>
  <2>1. Popped(w).writes = <<>>
    BY <1>3, <1>4
  <2>2. Popped(w) = [q |-> Tail(w.q), writes |-> <<>>] /\ <<>> \in Seq(Seq(Units))
    BY <1>3, <2>1
  <2>3. Popped(w) \in Writer
    BY <1>2, <2>2, AWriter
  <2> QED
    BY <1>3, <2>1, <2>3 DEF OneWrite, Taken
<1>5. CASE Tail(w.q) # <<>>
  <2>1. Tail(w.q)[1] \in Messages
    BY <1>2, <1>5
  <2>2. Sent(Tail(w.q)[1]) \in Seq(Units) /\ Len(Sent(Tail(w.q)[1])) = 2
    BY <2>1, SentIsTwo
  <2> DEFINE unit == Sent(Tail(w.q)[1])
  <2> HIDE DEF unit
  <2>3. Popped(w).writes = <<unit>>
    <3>1. <<>> \o <<unit>> = <<unit>>
      <4>1. unit \in Seq(Units)
        BY <2>2 DEF unit
      <4>2. <<unit>> \in Seq(Seq(Units))
        BY <4>1, OnlyOne
      <4> QED
        BY <4>2, ConcatEmptySeq
    <3>2. Popped(w).writes = <<>> \o <<unit>>
      BY <1>3, <1>5 DEF unit
    <3> QED
      BY <3>1, <3>2
  <2>4. /\ Popped(w).writes \in Seq(Seq(Units)) /\ Len(Popped(w).writes) = 1
        /\ Popped(w).writes[1] = unit /\ Popped(w).writes # <<>>
    <3>1. unit \in Seq(Units)
      BY <2>2 DEF unit
    <3> QED
      BY <2>3, <3>1, OnlyOne
  <2>5. Popped(w) \in Writer
    <3>1. Popped(w).q \in Seq(Messages) /\ Popped(w).writes \in Seq(Seq(Units))
      BY <1>2, <1>3, <2>4
    <3>2. [q |-> Popped(w).q, writes |-> Popped(w).writes] \in Writer
      BY <3>1, AWriter
    <3>3. Popped(w) = [q |-> Popped(w).q, writes |-> Popped(w).writes]
      BY <1>3
    <3> QED
      BY <3>2, <3>3
  <2>6. Taken(Popped(w)) = 0
    <3>1. Len(unit) = 2
      BY <2>2 DEF unit
    <3> QED
      BY <2>4, <3>1 DEF Taken
  <2> QED
    BY <1>3, <1>5, <2>4, <2>5, <2>6 DEF OneWrite, unit
<1> QED
  BY <1>4, <1>5

LEMMA FailKeeps ==
    ASSUME NEW w \in Writer, OneWrite(w), w.writes # <<>>
    PROVE  /\ Failed(w) \in Writer /\ OneWrite(Failed(w))
           /\ Failed(w).q = w.q /\ Failed(w).writes = <<>>
<1>1. /\ w.q \in Seq(Messages) /\ w.writes \in Seq(Seq(Units)) /\ Len(w.writes) = 1
      /\ w = [q |-> w.q, writes |-> w.writes]
  BY OfAWriter DEF OneWrite
<1>2. Tail(w.writes) = <<>> /\ <<>> \in Seq(Seq(Units))
  <2>1. w.writes[1] \in Seq(Units)
    BY <1>1
  <2> QED
    BY <1>1, <2>1, OneLong
<1>3. Failed(w) = [q |-> w.q, writes |-> <<>>]
  BY <1>1, <1>2 DEF Failed
<1>4. Failed(w) \in Writer /\ Failed(w).q = w.q /\ Failed(w).writes = <<>>
  <2>1. Failed(w) \in Writer
    <3>1. w.q \in Seq(Messages) /\ <<>> \in Seq(Seq(Units))
      BY <1>1, <1>2
    <3>2. [q |-> w.q, writes |-> <<>>] \in Writer
      BY <3>1, AWriter
    <3> QED
      BY <1>3, <3>2
  <2> QED
    BY <1>3, <2>1
<1> QED
  BY <1>4 DEF OneWrite

LEMMA MoveKeeps ==
    ASSUME NEW w \in Writer, OneWrite(w), NEW i \in DOMAIN w.writes, w.writes[i] # <<>>
    PROVE  /\ i = 1 /\ w.q # <<>> /\ w.q \in Seq(Messages)
           /\ Moved(w, i) \in Writer /\ OneWrite(Moved(w, i)) /\ Moved(w, i).q = w.q
           /\ Taken(w) \in {0, 1} /\ Taken(Moved(w, i)) = Taken(w) + 1
           /\ w.writes[i][1] = <<IF Taken(w) = 0 THEN "header" ELSE "body", w.q[1]>>
           /\ w.writes[i][1] \in Units
<1>1. w.q \in Seq(Messages) /\ w.writes \in Seq(Seq(Units)) /\ w.writes # <<>>
  BY DEF Writer
<1>2. /\ w.q # <<>> /\ Len(w.writes) = 1 /\ i = 1 /\ w.q[1] \in Messages
      /\ w.writes[1] \in {Sent(w.q[1]), << <<"body", w.q[1]>> >>}
  BY <1>1 DEF OneWrite
<1>3. Moved(w, i) = [q |-> w.q, writes |-> [w.writes EXCEPT ![1] = Tail(w.writes[1])]]
  <2> DEFINE new == [w.writes EXCEPT ![1] = Tail(w.writes[1])]
  <2>1. Moved(w, i) = [w EXCEPT !.writes = new]
    BY <1>2, Zenon DEF Moved
  <2>2. w = [q |-> w.q, writes |-> w.writes]
    BY OfAWriter
  <2> HIDE DEF new
  <2>3. [w EXCEPT !.writes = new] = [q |-> w.q, writes |-> new]
    BY <2>2
  <2> QED
    BY <2>1, <2>3 DEF new
<1>4. CASE w.writes[1] = Sent(w.q[1])
  <2>1. w.writes[1][1] = <<"header", w.q[1]>> /\ Tail(w.writes[1]) = << <<"body", w.q[1]>> >>
        /\ Len(w.writes[1]) = 2 /\ w.writes[1][1] \in Units /\ << <<"body", w.q[1]>> >> \in Seq(Units)
    BY <1>2, <1>4, SentIsTwo DEF Units
  <2>2. /\ Moved(w, i).q = w.q
        /\ Moved(w, i).writes \in Seq(Seq(Units)) /\ Len(Moved(w, i).writes) = 1
        /\ Moved(w, i).writes[1] = << <<"body", w.q[1]>> >> /\ Moved(w, i).writes # <<>>
    <3> DEFINE left == Tail(w.writes[1])
               new == [w.writes EXCEPT ![1] = left]
    <3>1. left = << <<"body", w.q[1]>> >> /\ left \in Seq(Units)
      BY <2>1
    <3>2. Moved(w, i).q = w.q /\ Moved(w, i).writes = new
      BY <1>3
    <3> HIDE DEF left
    <3>3. new \in Seq(Seq(Units)) /\ Len(new) = 1 /\ new[1] = left
      BY <1>1, <1>2, <3>1, OneLong
    <3>4. new # <<>>
      BY <3>3
    <3> QED
      BY <3>1, <3>2, <3>3, <3>4
  <2>3. Taken(w) = 0 /\ Taken(Moved(w, i)) = 1
    BY <1>1, <2>1, <2>2 DEF Taken
  <2>4. Moved(w, i) \in Writer /\ OneWrite(Moved(w, i))
    <3>1. Moved(w, i) = [q |-> Moved(w, i).q, writes |-> Moved(w, i).writes]
      BY <1>3
    <3>2. Moved(w, i) \in Writer
      BY <1>1, <2>2, <3>1, AWriter
    <3> QED
      BY <1>2, <2>2, <3>2 DEF OneWrite
  <2> QED
    BY <1>1, <1>2, <2>1, <2>2, <2>3, <2>4
<1>5. CASE w.writes[1] = << <<"body", w.q[1]>> >>
  <2>1. w.writes[1][1] = <<"body", w.q[1]>> /\ Tail(w.writes[1]) = <<>>
        /\ Len(w.writes[1]) = 1 /\ w.writes[1][1] \in Units
    BY <1>2, <1>5 DEF Units
  <2>2. /\ Moved(w, i).q = w.q
        /\ Moved(w, i).writes \in Seq(Seq(Units)) /\ Len(Moved(w, i).writes) = 1
        /\ Moved(w, i).writes[1] = <<>> /\ Moved(w, i).writes # <<>>
    <3> DEFINE left == Tail(w.writes[1])
               new == [w.writes EXCEPT ![1] = left]
    <3>1. left = <<>> /\ left \in Seq(Units)
      BY <2>1, EmptySeq
    <3>2. Moved(w, i).q = w.q /\ Moved(w, i).writes = new
      BY <1>3
    <3> HIDE DEF left
    <3>3. new \in Seq(Seq(Units)) /\ Len(new) = 1 /\ new[1] = left
      BY <1>1, <1>2, <3>1, OneLong
    <3>4. new # <<>>
      BY <3>3
    <3> QED
      BY <3>1, <3>2, <3>3, <3>4
  <2>3. Taken(w) = 1 /\ Taken(Moved(w, i)) = 2
    BY <1>1, <2>1, <2>2 DEF Taken
  <2>4. Moved(w, i) \in Writer /\ OneWrite(Moved(w, i))
    <3>1. Moved(w, i) = [q |-> Moved(w, i).q, writes |-> Moved(w, i).writes]
      BY <1>3
    <3>2. Moved(w, i) \in Writer
      BY <1>1, <2>2, <3>1, AWriter
    <3> QED
      BY <1>2, <2>2, <3>2 DEF OneWrite
  <2> QED
    BY <1>1, <1>2, <2>1, <2>2, <2>3, <2>4
<1> QED
  BY <1>2, <1>4, <1>5

LEMMA FillKeeps ==
    ASSUME NEW msgs \in Seq(Messages)
    PROVE  /\ Filled(msgs) \in Writer /\ OneWrite(Filled(msgs))
           /\ Filled(msgs).q = msgs /\ Taken(Filled(msgs)) = 0
<1>1. CASE msgs = <<>>
  BY <1>1 DEF Filled, Writer, OneWrite, Taken
<1>2. CASE msgs # <<>>
  <2>1. msgs[1] \in Messages
    BY <1>2
  <2>2. Sent(msgs[1]) \in Seq(Units) /\ Len(Sent(msgs[1])) = 2
    BY <2>1, SentIsTwo
  <2>3. Filled(msgs) = [q |-> msgs, writes |-> <<Sent(msgs[1])>>]
    BY <1>2 DEF Filled
  <2> QED
    BY <1>2, <2>2, <2>3 DEF Writer, OneWrite, Taken
<1> QED
  BY <1>1, <1>2

-----------------------------------------------------------------------------
(* Steps of one connection.                                                *)

(* What is invariant of a client that a step does not concern.             *)
AsBefore(c) ==
    /\ client'[c] = client[c] /\ session'[c] = session[c]
    /\ toServer'[c] = toServer[c] /\ toClient'[c] = toClient[c]
    /\ got'[c] = got[c] /\ printed'[c] = printed[c] /\ since'[c] = since[c]
    /\ (c \in participants' <=> c \in participants) /\ (c \in broken' <=> c \in broken)

LEMMA OthersStay ==
    ASSUME NEW c \in Clients, ClientInv(c), AsBefore(c), log' = log
    PROVE  ClientInv(c)'
<1>1. SessionInv(c)'
  BY DEF ClientInv, AsBefore, SessionInv
<1>2. DownInv(c)'
  BY DEF ClientInv, AsBefore, DownInv
<1>3. LinesPosted(c)' = LinesPosted(c) /\ LinesRun(c)' = LinesRun(c)
  BY DEF AsBefore, LinesPosted, LinesRun
<1>4. PostedInv(c)'
  BY <1>3 DEF ClientInv, AsBefore, PostedInv
<1>5. Said(c)' = Said(c)
  BY DEF Said, SaidBy
<1>6. UpInv(c)'
  BY <1>3, <1>5 DEF ClientInv, AsBefore, UpInv, Typed
<1> QED
  BY <1>1, <1>2, <1>4, <1>6 DEF ClientInv, AsBefore

(* A step of one connection that delivers nothing.                         *)
LEMMA OneConnection ==
    ASSUME ChatInv, NEW c \in Clients, ChatTypes', ClientInv(c)',
           log' = log, recent_msgs' = recent_msgs,
           \A d \in Clients : d # c => AsBefore(d),
           c \in participants' => session'[c].st = "started"
    PROVE  ChatInv'
<1>1. \A d \in Clients : ClientInv(d)'
  BY OthersStay DEF ChatInv
<1>2. RoomInv'
  <2>1. \A d \in participants' : d \in Clients
    BY DEF ChatTypes
  <2> QED
    BY <2>1 DEF ChatInv, RoomInv, AsBefore
<1>3. InOrderInv'
  BY DEF ChatInv, InOrderInv, SaidBy
<1> QED
  BY <1>1, <1>2, <1>3 DEF ChatInv

LEMMA ClientParts ==
    ASSUME NEW cl \in ClientRecords
    PROVE  /\ cl.st \in {"connecting", "up", "closed", "failed"} /\ cl.reads \in Reading
           /\ cl.w \in Writer /\ cl.posted \in Seq(Messages \cup {<<"close">>})
           /\ cl.typed \in Nat /\ cl.input \in BOOLEAN /\ cl.runs \in BOOLEAN
  BY DEF ClientRecords

LEMMA SessionParts ==
    ASSUME NEW se \in SessionRecords
    PROVE  se.st \in {"none", "started"} /\ se.reads \in Reading /\ se.w \in Writer
  BY DEF SessionRecords

(* A step of a client alone keeps the rest, when the client is over, or    *)
(* goes on as it was.                                                      *)
LEMMA ClientTurns ==
    ASSUME ChatInv, NEW c \in Clients, NEW new \in ClientRecords,
           ClientStep(c, new), UNCHANGED <<wireVars, printed>>,
           new.typed <= Lines[c], OneWrite(new.w), PostedInv(c)', DownInv(c)', UpInv(c)'
    PROVE  ChatInv'
<1>1. /\ client' = [client EXCEPT ![c] = new]
      /\ UNCHANGED <<session, participants, recent_msgs, log, since, toServer, toClient, broken,
                     got, printed>>
  BY DEF ClientStep, roomVars, wireVars
<1>2. client \in [Clients -> ClientRecords]
  BY DEF ChatInv, ChatTypes
<1>3. ChatTypes'
  BY <1>1, <1>2 DEF ChatInv, ChatTypes
<1>4. client'[c] = new /\ \A d \in Clients : d # c => client'[d] = client[d]
  BY <1>1, <1>2
<1>5. SessionInv(c)' /\ OneWrite(session'[c].w)
  BY <1>1 DEF ChatInv, ClientInv, SessionInv
<1>6. ClientInv(c)'
  BY <1>4, <1>5 DEF ClientInv
<1>7. \A d \in Clients : d # c => AsBefore(d)
  BY <1>1, <1>4 DEF AsBefore
<1>8. c \in participants' => session'[c].st = "started"
  BY <1>1 DEF ChatInv, RoomInv
<1> QED
  BY <1>1, <1>3, <1>6, <1>7, <1>8, OneConnection

LEMMA ClientIsOver ==
    ASSUME ChatInv, NEW c \in Clients, NEW new \in ClientRecords,
           ClientStep(c, new), UNCHANGED <<wireVars, printed>>,
           new.st \in {"closed", "failed"}, new.w.q = client[c].w.q,
           LinesRun(c)' = LinesRun(c)
    PROVE  DownInv(c)' /\ UpInv(c)'
<1>1. /\ client'[c] = new
      /\ UNCHANGED <<session, participants, log, since, toServer, toClient, broken, got, printed>>
  BY DEF ClientStep, roomVars, wireVars, ChatInv, ChatTypes
<1>2. DownInv(c)'
  BY ZenonT(40), <1>1 DEF ChatInv, ClientInv, DownInv
<1>3. Said(c)' = Said(c)
  BY <1>1 DEF Said, SaidBy
<1>4. UpInv(c)'
  BY <1>1, <1>3 DEF ChatInv, ClientInv, UpInv, Typed
<1> QED
  BY <1>2, <1>4

(* A step that leaves the lines that are posted alone.                     *)
LEMMA PostedStays ==
    ASSUME NEW c \in Clients, ClientInv(c),
           client'[c].input = client[c].input, client'[c].posted = client[c].posted,
           client'[c].typed = client[c].typed
    PROVE  PostedInv(c)' /\ LinesRun(c)' = LinesRun(c)
<1>1. LinesPosted(c)' = LinesPosted(c) /\ LinesRun(c)' = LinesRun(c)
  BY DEF LinesPosted, LinesRun
<1> QED
  BY <1>1 DEF ClientInv, PostedInv

(* What the invariant says of one connection.                              *)
LEMMA OfOne ==
    ASSUME ChatInv, NEW c \in Clients
    PROVE  /\ client[c] \in ClientRecords /\ session[c] \in SessionRecords /\ ClientInv(c)
           /\ client[c].typed <= Lines[c] /\ client[c].w \in Writer /\ session[c].w \in Writer
           /\ client[c].w.q \in Seq(Messages) /\ session[c].w.q \in Seq(Messages)
           /\ toServer[c] \in Seq(Units) /\ toClient[c] \in Seq(Units)
           /\ since[c] \in Nat /\ got[c] \in Seq(Messages) /\ printed[c] \in Seq(Messages)
           /\ log \in Seq(Messages) /\ recent_msgs \in Seq(Messages)
<1>1. client[c] \in ClientRecords /\ session[c] \in SessionRecords /\ ClientInv(c)
  BY DEF ChatInv, ChatTypes
<1>2. client[c].w \in Writer /\ session[c].w \in Writer
  BY <1>1 DEF ClientRecords, SessionRecords
<1>3. client[c].w.q \in Seq(Messages) /\ session[c].w.q \in Seq(Messages)
  BY <1>2, OfAWriter
<1> QED
  BY <1>1, <1>2, <1>3 DEF ChatInv, ChatTypes

LEMMA SaidIsNat == ASSUME ChatInv, NEW c PROVE Said(c) \in Nat
<1>1. Len(log) \in Nat
  BY DEF ChatInv, ChatTypes
<1>2. IsFiniteSet(1..Len(log))
  BY <1>1, FS_Interval
<1>3. IsFiniteSet(SaidBy(c, Len(log)))
  BY <1>2, FS_Subset DEF SaidBy
<1> QED
  BY <1>3, FS_CardinalityType DEF Said

LEMMA ConnectKeeps ==
    ASSUME ChatInv, NEW c \in Clients, HandleConnect(c)
    PROVE  ChatInv'
<1> DEFINE cl == client[c]
           up == [cl EXCEPT !.st = "up", !.reads = "header"]
           failed == [cl EXCEPT !.st = "failed"]
<1>1. /\ cl \in ClientRecords /\ ClientInv(c) /\ cl.typed <= Lines[c] /\ OneWrite(cl.w)
      /\ cl.st = "connecting" /\ UNCHANGED <<wireVars, printed>>
      /\ ClientStep(c, up) \/ ClientStep(c, failed)
  BY OfOne DEF HandleConnect, ClientInv
<1>2. /\ up \in ClientRecords /\ up.st = "up" /\ up.reads = "header" /\ up.w = cl.w
      /\ up.posted = cl.posted /\ up.typed = cl.typed /\ up.input = cl.input
      /\ failed \in ClientRecords /\ failed.st = "failed" /\ failed.w = cl.w
      /\ failed.posted = cl.posted /\ failed.typed = cl.typed /\ failed.input = cl.input
  BY <1>1, ClientParts DEF ClientRecords, Reading
<1> HIDE DEF up, failed
<1>3. CASE ClientStep(c, up)
  <2>1. /\ client'[c] = up
        /\ UNCHANGED <<session, participants, log, since, toServer, toClient, broken, got, printed>>
    BY <1>1, <1>3 DEF ClientStep, roomVars, wireVars, ChatInv, ChatTypes
  <2>2. PostedInv(c)' /\ LinesRun(c)' = LinesRun(c)
    BY <1>1, <1>2, <2>1, PostedStays
  <2>3. session[c].st = "none" /\ session[c].reads = "no" /\ c \notin broken
    BY <1>1 DEF ClientInv, DownInv, SessionInv
  <2>4. DownInv(c)'
    BY <1>1, <1>2, <2>1, <2>3 DEF DownInv
  <2>5. Said(c)' = Said(c)
    BY <2>1 DEF Said, SaidBy
  <2>6. UpInv(c)'
    <3>1. /\ Said(c) = 0 /\ toServer[c] = <<>> /\ LinesRun(c) = Len(cl.w.q) /\ Taken(cl.w) = 0
          /\ LinesRun(c) \in Nat /\ HalfRead(session[c].reads) = 0
      BY <1>1, <2>3 DEF ClientInv, UpInv, PostedInv, HalfRead
    <3>2. 2 * Said(c) + HalfRead(session[c].reads) + Len(toServer[c])
            = 2 * (LinesRun(c) - Len(cl.w.q)) + Taken(cl.w)
      BY <3>1
    <3> QED
      BY <1>1, <1>2, <2>1, <2>2, <2>5, <3>2 DEF UpInv, ClientInv, Typed
  <2> QED
    BY <1>1, <1>2, <1>3, <2>2, <2>4, <2>6, ClientTurns
<1>4. CASE ClientStep(c, failed)
  <2>1. client'[c] = failed
    BY <1>4 DEF ClientStep, ChatInv, ChatTypes
  <2>2. PostedInv(c)' /\ LinesRun(c)' = LinesRun(c)
    BY <1>1, <1>2, <2>1, PostedStays
  <2>3. DownInv(c)' /\ UpInv(c)'
    BY <1>1, <1>2, <1>4, <2>2, ClientIsOver
  <2> QED
    BY <1>1, <1>2, <1>4, <2>2, <2>3, ClientTurns
<1> QED
  BY <1>1, <1>3, <1>4

LEMMA ReadErrorKeeps ==
    ASSUME ChatInv, NEW c \in Clients, CReadError(c)
    PROVE  ChatInv'
<1> DEFINE cl == client[c]
           new == Closed([cl EXCEPT !.reads = "no"])
<1>1. /\ cl \in ClientRecords /\ ClientInv(c) /\ cl.typed <= Lines[c] /\ OneWrite(cl.w)
      /\ UNCHANGED <<wireVars, printed>> /\ ClientStep(c, new)
  BY OfOne DEF CReadError, ClientInv
<1>2. /\ new \in ClientRecords /\ new.st = "closed" /\ new.w = cl.w
      /\ new.posted = cl.posted /\ new.typed = cl.typed /\ new.input = cl.input
  BY <1>1, ClientParts DEF ClientRecords, Reading, Closed
<1> HIDE DEF new
<1>3. client'[c] = new
  BY <1>1 DEF ClientStep, ChatInv, ChatTypes
<1>4. PostedInv(c)' /\ LinesRun(c)' = LinesRun(c)
  BY <1>1, <1>2, <1>3, PostedStays
<1>5. DownInv(c)' /\ UpInv(c)'
  BY <1>1, <1>2, <1>4, ClientIsOver
<1> QED
  BY <1>1, <1>2, <1>4, <1>5, ClientTurns

LEMMA ReturnKeeps ==
    ASSUME ChatInv, NEW c \in Clients, RunReturns(c)
    PROVE  ChatInv'
<1> DEFINE cl == client[c]
           new == [cl EXCEPT !.runs = FALSE]
<1>1. /\ cl \in ClientRecords /\ ClientInv(c) /\ cl.typed <= Lines[c] /\ OneWrite(cl.w)
      /\ UNCHANGED <<wireVars, printed>> /\ ClientStep(c, new)
      /\ cl.st # "connecting" /\ cl.reads = "no"
  BY OfOne DEF RunReturns, ClientInv
<1>2. /\ new \in ClientRecords /\ new.st = cl.st /\ new.w = cl.w /\ new.reads = cl.reads
      /\ new.posted = cl.posted /\ new.typed = cl.typed /\ new.input = cl.input
  BY <1>1, ClientParts DEF ClientRecords
<1>3. new.st \in {"closed", "failed"}
  BY <1>1, <1>2, ClientParts DEF ClientInv, DownInv
<1> HIDE DEF new
<1>4. client'[c] = new
  BY <1>1 DEF ClientStep, ChatInv, ChatTypes
<1>5. PostedInv(c)' /\ LinesRun(c)' = LinesRun(c)
  BY <1>1, <1>2, <1>4, PostedStays
<1>6. DownInv(c)' /\ UpInv(c)'
  BY <1>1, <1>2, <1>3, <1>5, ClientIsOver
<1> QED
  BY <1>1, <1>2, <1>5, <1>6, ClientTurns

LEMMA CWrittenKeeps ==
    ASSUME ChatInv, NEW c \in Clients, CWritten(c)
    PROVE  ChatInv'
<1> DEFINE cl == client[c]
           w == cl.w
           new == [cl EXCEPT !.w = Popped(w)]
<1>1. /\ cl \in ClientRecords /\ ClientInv(c) /\ cl.typed <= Lines[c] /\ OneWrite(w)
      /\ w \in Writer /\ w.q \in Seq(Messages) /\ Done(w)
      /\ UNCHANGED <<wireVars, printed>> /\ ClientStep(c, new)
  BY OfOne DEF CWritten, ClientInv
<1>2. /\ Popped(w) \in Writer /\ OneWrite(Popped(w)) /\ Popped(w).q = Tail(w.q)
      /\ Taken(Popped(w)) = 0 /\ Taken(w) = 2 /\ w.q # <<>>
  BY <1>1, PopKeeps, TakenInRange
<1>3. /\ new \in ClientRecords /\ new.st = cl.st /\ new.w = Popped(w) /\ new.reads = cl.reads
      /\ new.posted = cl.posted /\ new.typed = cl.typed /\ new.input = cl.input
  BY <1>1, <1>2, ClientParts DEF ClientRecords
<1> HIDE DEF new
<1>4. /\ client'[c] = new
      /\ UNCHANGED <<session, participants, log, since, toServer, toClient, broken, got, printed>>
  BY <1>1 DEF ClientStep, roomVars, wireVars, ChatInv, ChatTypes
<1>5. PostedInv(c)' /\ LinesRun(c)' = LinesRun(c)
  BY <1>1, <1>3, <1>4, PostedStays
<1>6. DownInv(c)'
  BY <1>1, <1>3, <1>4 DEF DownInv, ClientInv
<1>7. Said(c)' = Said(c)
  BY <1>4 DEF Said, SaidBy
<1>8. UpInv(c)'
  <2>1. cl.st # "connecting"
    BY <1>1, <1>2 DEF ClientInv, UpInv
  <2>2. /\ Tail(w.q) \in Seq(Messages) /\ Len(Tail(w.q)) = Len(w.q) - 1 /\ Len(w.q) \in Nat \ {0}
        /\ \A i \in 1..Len(Tail(w.q)) : Tail(w.q)[i] = w.q[i + 1]
    BY <1>1, <1>2, OneLess
  <2> DEFINE rest == Tail(w.q)
             n == LinesRun(c)
  <2> HIDE DEF rest
  <2>3. n \in Nat /\ Len(w.q) <= n /\ \A i \in DOMAIN w.q : w.q[i] = <<c, n - Len(w.q) + i>>
    BY <1>1 DEF ClientInv, PostedInv, UpInv
  <2>4. Len(rest) <= n /\ n - Len(rest) = n - Len(w.q) + 1
    BY <2>2, <2>3 DEF rest
  <2>5. ASSUME NEW i \in DOMAIN rest
        PROVE  rest[i] = <<c, n - Len(rest) + i>>
    <3>1. i \in 1..Len(rest) /\ i + 1 \in DOMAIN w.q /\ rest[i] = w.q[i + 1]
      BY <1>1, <2>2 DEF rest
    <3>2. n - Len(w.q) + (i + 1) = n - Len(rest) + i
      <4> DEFINE a == Len(w.q)
                 b == Len(rest)
      <4>1. i \in Int /\ a \in Int /\ n \in Int /\ b = a - 1
        BY <2>2, <2>3, <3>1 DEF rest
      <4> HIDE DEF n, a, b
      <4>2. n - a + (i + 1) = n - b + i
        BY <4>1
      <4> QED
        BY <4>2 DEF a, b
    <3> QED
      BY <2>3, <3>1, <3>2
  <2>6. 2 * (n - Len(w.q)) + Taken(w) = 2 * (n - Len(rest)) + Taken(Popped(w))
    BY <1>2, <2>2, <2>3 DEF rest
  <2> HIDE DEF n
  <2>7. LinesRun(c)' = n /\ LinesRun(c) = n
    BY <1>5 DEF n
  <2>8. client'[c].w = Popped(w) /\ client'[c].w.q = rest
    BY <1>2, <1>3, <1>4 DEF rest
  <2> QED
    BY <1>1, <1>3, <1>4, <1>7, <2>1, <2>4, <2>5, <2>6, <2>7, <2>8 DEF UpInv, ClientInv, Typed
<1> QED
  BY <1>1, <1>2, <1>3, <1>5, <1>6, <1>8, ClientTurns

LEMMA CWriteErrorKeeps ==
    ASSUME ChatInv, NEW c \in Clients, CWriteError(c)
    PROVE  ChatInv'
<1> DEFINE cl == [client[c] EXCEPT !.w = Failed(@)]
           new == IF cl.st = "up" THEN Closed(cl)
                  ELSE [cl EXCEPT !.st = IF @ = "connecting" THEN "failed" ELSE @]
<1>1. /\ client[c] \in ClientRecords /\ ClientInv(c) /\ client[c].typed <= Lines[c]
      /\ OneWrite(client[c].w) /\ client[c].w \in Writer /\ client[c].w.writes # <<>>
      /\ UNCHANGED <<wireVars, printed>> /\ ClientStep(c, new)
  BY OfOne DEF CWriteError, ClientInv
<1>2. /\ Failed(client[c].w) \in Writer /\ OneWrite(Failed(client[c].w))
      /\ Failed(client[c].w).q = client[c].w.q
  BY <1>1, FailKeeps
<1>3. /\ new \in ClientRecords /\ new.st \in {"closed", "failed"} /\ new.w = Failed(client[c].w)
      /\ new.posted = client[c].posted /\ new.typed = client[c].typed
      /\ new.input = client[c].input
  BY <1>1, <1>2, ClientParts DEF ClientRecords, Closed
<1> HIDE DEF new
<1>4. client'[c] = new
  BY <1>1 DEF ClientStep, ChatInv, ChatTypes
<1>5. PostedInv(c)' /\ LinesRun(c)' = LinesRun(c)
  BY <1>1, <1>3, <1>4, PostedStays
<1>6. DownInv(c)' /\ UpInv(c)'
  BY <1>1, <1>2, <1>3, <1>5, ClientIsOver
<1> QED
  BY <1>1, <1>2, <1>3, <1>5, <1>6, ClientTurns

(* What a user types only lengthens what is posted.                        *)
LEMMA UserTurns ==
    ASSUME ChatInv, NEW c \in Clients, NEW new \in ClientRecords,
           ClientStep(c, new), UNCHANGED <<wireVars, printed>>,
           new.typed <= Lines[c], new.w = client[c].w, new.st = client[c].st,
           new.reads = client[c].reads, PostedInv(c)', LinesRun(c)' = LinesRun(c)
    PROVE  ChatInv'
<1>1. /\ client'[c] = new
      /\ UNCHANGED <<session, participants, log, since, toServer, toClient, broken, got, printed>>
  BY DEF ClientStep, roomVars, wireVars, ChatInv, ChatTypes
<1>2. ClientInv(c)
  BY OfOne
<1>3. DownInv(c)'
  BY <1>1, <1>2 DEF DownInv, ClientInv
<1>4. Said(c)' = Said(c)
  BY <1>1 DEF Said, SaidBy
<1>5. UpInv(c)'
  BY <1>1, <1>2, <1>4 DEF UpInv, ClientInv, Typed
<1> QED
  BY <1>2, <1>3, <1>5, ClientTurns DEF ClientInv

LEMMA TypeKeeps ==
    ASSUME ChatInv, NEW c \in Clients, Type(c)
    PROVE  ChatInv'
<1> DEFINE cl == client[c]
           m == <<c, cl.typed + 1>>
           new == [cl EXCEPT !.typed = @ + 1, !.posted = Append(@, m)]
<1>1. /\ cl \in ClientRecords /\ ClientInv(c) /\ cl.typed < Lines[c] /\ cl.input
  BY OfOne DEF Type
<1>2. cl.typed \in Nat /\ cl.posted \in Seq(Messages \cup {<<"close">>})
  BY <1>1, ClientParts
<1>3. m \in Messages
  BY <1>1, <1>2, ChatAssumption DEF Messages
<1>4. ClientStep(c, new) /\ UNCHANGED <<wireVars, printed>>
  BY <1>1 DEF Type, ClientStep, ClientRecords, ChatInv, ChatTypes
<1>5. /\ Append(cl.posted, m) \in Seq(Messages \cup {<<"close">>})
      /\ Len(Append(cl.posted, m)) = Len(cl.posted) + 1
      /\ Append(cl.posted, m)[Len(cl.posted) + 1] = m
      /\ \A i \in 1..Len(cl.posted) : Append(cl.posted, m)[i] = cl.posted[i]
  BY <1>2, <1>3, OneMore
<1> DEFINE posted == Append(cl.posted, m)
           typed == cl.typed + 1
<1>6. /\ new \in ClientRecords /\ new.st = cl.st /\ new.w = cl.w /\ new.reads = cl.reads
      /\ new.posted = posted /\ new.typed = typed /\ new.input = cl.input
  <2>1. new = [cl EXCEPT !.typed = typed, !.posted = posted]
    OBVIOUS
  <2>2. posted \in Seq(Messages \cup {<<"close">>}) /\ typed \in Nat
    BY <1>2, <1>5
  <2> HIDE DEF posted, typed, new
  <2> QED
    BY <1>1, <2>1, <2>2, ClientParts DEF ClientRecords
<1> HIDE DEF new
<1>7. client'[c] = new
  BY <1>4 DEF ClientStep, ChatInv, ChatTypes
<1>8. LinesPosted(c) = Len(cl.posted) /\ LinesPosted(c)' = Len(cl.posted) + 1
  BY <1>1, <1>5, <1>6, <1>7 DEF LinesPosted
<1>9. Len(cl.posted) \in Nat
  BY <1>2
<1>10. LinesRun(c)' = LinesRun(c) /\ LinesRun(c) = cl.typed - Len(cl.posted)
  <2> DEFINE a == cl.typed
             b == Len(cl.posted)
  <2>1. client'[c].typed = a + 1 /\ LinesPosted(c)' = b + 1 /\ LinesPosted(c) = b
    BY <1>6, <1>7, <1>8
  <2>2. LinesRun(c)' = (a + 1) - (b + 1) /\ LinesRun(c) = a - b
    BY <2>1 DEF LinesRun
  <2>3. a \in Nat /\ b \in Nat
    BY <1>2, <1>9
  <2> HIDE DEF a, b
  <2>4. LinesRun(c)' = a - b /\ LinesRun(c) = a - b
    BY <2>2, <2>3
  <2> QED
    BY <2>4 DEF a, b
<1>11. PostedInv(c)'
  <2>1. \A i \in 1..Len(cl.posted) : cl.posted[i] = <<c, LinesRun(c) + i>>
    BY <1>1, <1>8 DEF ClientInv, PostedInv
  <2>2. ASSUME NEW i \in 1..(Len(cl.posted) + 1)
        PROVE  Append(cl.posted, m)[i] = <<c, LinesRun(c) + i>>
    <3>1. CASE i \in 1..Len(cl.posted)
      BY <1>5, <2>1, <3>1
    <3>2. CASE i = Len(cl.posted) + 1
      <4>1. LinesRun(c) + i = cl.typed + 1
        BY <1>2, <1>9, <1>10, <3>2
      <4> QED
        BY <1>5, <3>2, <4>1
    <3> QED
      BY <1>9, <3>1, <3>2
  <2>3. LinesRun(c) \in Nat
    BY <1>1 DEF ClientInv, PostedInv
  <2> QED
    BY <1>5, <1>6, <1>7, <1>8, <1>10, <2>2, <2>3 DEF PostedInv
<1>12. new.typed <= Lines[c]
  BY <1>1, <1>2, <1>6, ChatAssumption
<1> QED
  BY <1>4, <1>6, <1>10, <1>11, <1>12, UserTurns

LEMMA EndKeeps ==
    ASSUME ChatInv, NEW c \in Clients, EndOfInput(c)
    PROVE  ChatInv'
<1> DEFINE cl == client[c]
           m == <<"close">>
           new == [cl EXCEPT !.input = FALSE, !.posted = Append(@, m)]
<1>1. /\ cl \in ClientRecords /\ ClientInv(c) /\ cl.typed <= Lines[c] /\ cl.input
  BY OfOne DEF EndOfInput
<1>2. cl.typed \in Nat /\ cl.posted \in Seq(Messages \cup {m})
  BY <1>1, ClientParts
<1>4. ClientStep(c, new) /\ UNCHANGED <<wireVars, printed>>
  BY <1>1 DEF EndOfInput, ClientStep, ClientRecords, ChatInv, ChatTypes
<1>5. /\ Append(cl.posted, m) \in Seq(Messages \cup {m})
      /\ Len(Append(cl.posted, m)) = Len(cl.posted) + 1 /\ Append(cl.posted, m) # <<>>
      /\ Append(cl.posted, m)[Len(cl.posted) + 1] = m
      /\ \A i \in 1..Len(cl.posted) : Append(cl.posted, m)[i] = cl.posted[i]
  <2>1. m \in Messages \cup {m}
    OBVIOUS
  <2> QED
    BY <1>2, <2>1, OneMore
<1>6. /\ new \in ClientRecords /\ new.st = cl.st /\ new.w = cl.w /\ new.reads = cl.reads
      /\ new.posted = Append(cl.posted, m) /\ new.typed = cl.typed /\ new.input = FALSE
  BY <1>1, <1>2, <1>5, ClientParts DEF ClientRecords
<1> HIDE DEF new
<1>7. client'[c] = new
  BY <1>4 DEF ClientStep, ChatInv, ChatTypes
<1>9. Len(cl.posted) \in Nat
  BY <1>2
<1>8. LinesPosted(c) = Len(cl.posted) /\ LinesPosted(c)' = Len(cl.posted)
  <2> DEFINE k == Len(cl.posted)
             longer == Append(cl.posted, m)
  <2>1. LinesPosted(c) = k
    BY <1>1 DEF LinesPosted
  <2>2. client'[c].posted = longer /\ client'[c].input = FALSE
    BY <1>6, <1>7
  <2>3. longer # <<>> /\ Len(longer) = k + 1 /\ k \in Nat
    BY <1>5, <1>9
  <2> HIDE DEF k, longer
  <2>4. LinesPosted(c)' = Len(longer) - 1
    BY <2>2, <2>3 DEF LinesPosted
  <2>5. LinesPosted(c)' = k
    BY <2>3, <2>4
  <2> QED
    BY <2>1, <2>5 DEF k
<1>10. LinesRun(c)' = LinesRun(c)
  <2>1. client'[c].typed = cl.typed
    BY <1>6, <1>7, Zenon
  <2>2. LinesPosted(c)' = LinesPosted(c)
    BY <1>8, Zenon
  <2> QED
    BY <2>1, <2>2 DEF LinesRun
<1>11. PostedInv(c)'
  <2> DEFINE old == cl.posted
             longer == Append(old, m)
             k == Len(old)
  <2>1. /\ LinesRun(c) \in Nat /\ \A i \in 1..k : old[i] = <<c, LinesRun(c) + i>>
    BY <1>1, <1>8 DEF PostedInv, ClientInv
  <2>2. client'[c].posted = longer
    BY <1>6, <1>7
  <2>3. /\ Len(longer) = k + 1 /\ longer[k + 1] = m /\ \A i \in 1..k : longer[i] = old[i]
    BY <1>5
  <2>4. LinesPosted(c)' = k
    BY <1>8
  <2> HIDE DEF old, longer, k, m
  <2>5. \A i \in 1..k : longer[i] = <<c, LinesRun(c) + i>>
    BY <2>1, <2>3
  <2>6. longer[Len(longer)] = <<"close">>
    BY <2>3 DEF m
  <2> QED
    BY <1>10, <2>1, <2>2, <2>4, <2>5, <2>6 DEF PostedInv
<1> QED
  BY <1>1, <1>4, <1>6, <1>10, <1>11, UserTurns

LEMMA RunKeeps ==
    ASSUME ChatInv, NEW c \in Clients, RunPosted(c)
    PROVE  ChatInv'
<1> DEFINE cl == client[c]
           w == cl.w
           m == cl.posted[1]
           n == LinesRun(c)
           rest == Tail(cl.posted)
           close == [cl EXCEPT !.posted = rest, !.st = IF @ = "up" THEN "closed" ELSE "failed"]
           line == [cl EXCEPT !.posted = rest, !.w = Pushed(w, m)]
<1>1. /\ cl \in ClientRecords /\ ClientInv(c) /\ cl.typed <= Lines[c] /\ OneWrite(w)
      /\ w \in Writer /\ w.q \in Seq(Messages) /\ cl.posted # <<>>
      /\ UNCHANGED <<wireVars, printed>>
  BY OfOne DEF RunPosted, ClientInv
<1>2. /\ cl.typed \in Nat /\ cl.posted \in Seq(Messages \cup {<<"close">>}) /\ cl.input \in BOOLEAN
      /\ n \in Nat /\ n = cl.typed - LinesPosted(c) /\ PostedInv(c)
  BY <1>1, ClientParts DEF ClientInv, PostedInv, LinesRun
<1>3. /\ rest \in Seq(Messages \cup {<<"close">>}) /\ Len(rest) = Len(cl.posted) - 1
      /\ Len(cl.posted) \in Nat \ {0} /\ m \in Messages \cup {<<"close">>}
      /\ \A i \in 1..Len(rest) : rest[i] = cl.posted[i + 1]
  BY <1>1, <1>2, OneLess
<1>4. IF m = <<"close">> THEN ClientStep(c, close) ELSE ClientStep(c, line)
  BY <1>1 DEF RunPosted, DoWrite, ClientRecords
<1> HIDE DEF rest
<1>5. CASE m = <<"close">>
  <2>1. LinesPosted(c) = 0 /\ Len(cl.posted) = 1 /\ ~cl.input
    <3>1. LinesPosted(c) \in Nat /\ LinesPosted(c) \in {Len(cl.posted), Len(cl.posted) - 1}
      BY <1>1, <1>3 DEF LinesPosted
    <3>2. ~(1 \in 1..LinesPosted(c))
      <4>1. 1 \in 1..LinesPosted(c) => m = <<c, n + 1>>
        BY <1>2 DEF PostedInv
      <4>2. <<"close">> # <<c, n + 1>>
        <5>1. Len(<<"close">>) = 1 /\ Len(<<c, n + 1>>) = 2
          OBVIOUS
        <5> QED
          BY <5>1
      <4> QED
        BY <1>5, <4>1, <4>2
    <3>3. LinesPosted(c) = 0
      BY <3>1, <3>2
    <3> QED
      BY <1>3, <3>1, <3>3 DEF LinesPosted
  <2>2. /\ close \in ClientRecords /\ close.st \in {"closed", "failed"} /\ close.w = w
        /\ close.posted = rest /\ close.typed = cl.typed /\ close.input = cl.input
    BY <1>1, <1>2, <1>3, ClientParts DEF ClientRecords
  <2> HIDE DEF close
  <2>3. ClientStep(c, close) /\ client'[c] = close
    BY <1>4, <1>5 DEF ClientStep, ChatInv, ChatTypes
  <2>4. Len(rest) = 0 /\ rest = <<>>
    BY <1>3, <2>1, EmptySeq
  <2>5. LinesPosted(c)' = 0 /\ LinesRun(c)' = n
    BY <1>2, <2>1, <2>2, <2>3, <2>4 DEF LinesPosted, LinesRun
  <2>6. PostedInv(c)'
    BY <1>2, <2>2, <2>3, <2>4, <2>5 DEF PostedInv
  <2>7. DownInv(c)' /\ UpInv(c)'
    BY <1>1, <2>2, <2>3, <2>5, ClientIsOver
  <2> QED
    BY <1>1, <2>2, <2>3, <2>6, <2>7, ClientTurns
<1>6. CASE m # <<"close">>
  <2>1. m \in Messages
    BY <1>3, <1>6
  <2>2. /\ Pushed(w, m) \in Writer /\ OneWrite(Pushed(w, m))
        /\ Pushed(w, m).q = Append(w.q, m) /\ Taken(Pushed(w, m)) = Taken(w)
    BY <1>1, <2>1, PushKeeps
  <2>3. /\ line \in ClientRecords /\ line.st = cl.st /\ line.w = Pushed(w, m)
        /\ line.posted = rest /\ line.typed = cl.typed /\ line.input = cl.input
        /\ line.reads = cl.reads
    BY <1>1, <1>2, <1>3, <2>2, ClientParts DEF ClientRecords
  <2> HIDE DEF line
  <2>4. ClientStep(c, line) /\ client'[c] = line
    BY <1>4, <1>6 DEF ClientStep, ChatInv, ChatTypes
  <2>5. UNCHANGED <<session, participants, log, since, toServer, toClient, broken, got, printed>>
    BY <1>1, <2>4 DEF ClientStep, roomVars, wireVars
  <2>6. /\ LinesPosted(c) \in Nat \ {0}
        /\ LinesPosted(c) # Len(cl.posted) => Len(cl.posted) > 1 /\ ~cl.input
        /\ LinesPosted(c) = IF cl.input THEN Len(cl.posted) ELSE Len(cl.posted) - 1
    <3>1. LinesPosted(c) = IF cl.input THEN Len(cl.posted) ELSE Len(cl.posted) - 1
      BY <1>1 DEF LinesPosted
    <3>2. LinesPosted(c) # Len(cl.posted) => Len(cl.posted) # 1
      BY <1>2, <1>6 DEF PostedInv
    <3> DEFINE k == LinesPosted(c)
               p == Len(cl.posted)
               open == cl.input
    <3>3. p \in Nat \ {0} /\ open \in BOOLEAN
      BY <1>2, <1>3
    <3>4. k = (IF open THEN p ELSE p - 1) /\ (k # p => p # 1)
      BY <3>1, <3>2
    <3> HIDE DEF k, p, open
    <3>5. k \in Nat \ {0} /\ (k # p => p > 1 /\ ~open) /\ k = IF open THEN p ELSE p - 1
      BY <3>3, <3>4
    <3> QED
      BY <3>5 DEF k, p, open
  <2>7. LinesPosted(c)' = LinesPosted(c) - 1
    <3>1. client'[c].posted = rest /\ client'[c].input = cl.input
      BY <2>3, <2>4
    <3>2. cl.input => LinesPosted(c)' = Len(rest)
      BY <3>1 DEF LinesPosted
    <3>3. ~cl.input => rest # <<>> /\ LinesPosted(c)' = Len(rest) - 1
      <4>1. ~cl.input => Len(rest) # 0
        BY <1>3, <2>6
      <4> QED
        BY <3>1, <4>1 DEF LinesPosted
    <3> QED
      BY <1>2, <1>3, <2>6, <3>2, <3>3
  <2>8. LinesRun(c)' = n + 1
    <3> DEFINE t == cl.typed
               k == LinesPosted(c)
    <3>1. client'[c].typed = t /\ LinesPosted(c)' = k - 1
      BY <2>3, <2>4, <2>7
    <3>2. LinesRun(c)' = t - (k - 1)
      BY <3>1 DEF LinesRun
    <3>3. t \in Nat /\ k \in Nat /\ n = t - k
      BY <1>2, <2>6
    <3> HIDE DEF t, k, n
    <3> QED
      BY <3>2, <3>3
  <2>9. m = <<c, n + 1>>
    BY <1>2, <2>6 DEF PostedInv
  <2>10. PostedInv(c)'
    <3>1. ASSUME NEW i \in 1..(LinesPosted(c) - 1)
          PROVE  rest[i] = <<c, (n + 1) + i>>
      <4>1. i + 1 \in 1..LinesPosted(c) /\ i \in 1..Len(rest) /\ n + (i + 1) = (n + 1) + i
        BY <1>2, <1>3, <2>6
      <4>2. cl.posted[i + 1] = <<c, n + (i + 1)>>
        BY <1>2, <4>1 DEF PostedInv
      <4> QED
        BY <1>3, <4>1, <4>2
    <3>2. LinesPosted(c) - 1 # Len(rest) => rest[Len(rest)] = <<"close">>
      <4> DEFINE all == cl.posted
                 p == Len(all)
                 l == Len(rest)
                 k == LinesPosted(c)
      <4>1. /\ l = p - 1 /\ p \in Nat \ {0} /\ k \in Nat \ {0} /\ (k # p => p > 1)
            /\ \A i \in 1..l : rest[i] = all[i + 1]
        BY <1>3, <2>6
      <4>2. k # p => all[p] = <<"close">>
        BY <1>2 DEF PostedInv
      <4> HIDE DEF all, p, l, k
      <4>3. k - 1 # l => k # p /\ l \in 1..l /\ l + 1 = p
        BY <4>1
      <4>4. k - 1 # l => rest[l] = all[p]
        BY <4>1, <4>3
      <4>5. k - 1 # l => rest[l] = <<"close">>
        BY <4>2, <4>3, <4>4
      <4> QED
        BY <4>5 DEF k, l
    <3>3. n + 1 \in Nat
      BY <1>2
    <3>4. client'[c].posted = rest
      BY <2>3, <2>4
    <3> HIDE DEF n
    <3> QED
      BY <2>7, <2>8, <3>1, <3>2, <3>3, <3>4 DEF PostedInv
  <2>11. DownInv(c)'
    BY <1>1, <2>3, <2>4, <2>5 DEF DownInv, ClientInv
  <2>12. Said(c)' = Said(c)
    BY <2>5 DEF Said, SaidBy
  <2>13. UpInv(c)'
    <3> DEFINE q == Append(w.q, m)
               k == Len(w.q)
    <3>1. /\ q \in Seq(Messages) /\ Len(q) = k + 1 /\ q[k + 1] = m
          /\ \A i \in 1..k : q[i] = w.q[i]
      BY <1>1, <2>1, OneMore
    <3>2. k \in Nat /\ k <= n /\ \A i \in 1..k : w.q[i] = <<c, n - k + i>>
      <4>1. UpInv(c) /\ k \in Nat /\ DOMAIN w.q = 1..k
        BY <1>1 DEF ClientInv
      <4>2. k <= n
        BY <4>1 DEF UpInv
      <4>3. \A i \in 1..k : w.q[i] = <<c, n - k + i>>
        BY <4>1 DEF UpInv
      <4> QED
        BY <4>1, <4>2, <4>3
    <3> HIDE DEF q, k, n
    <3>3. n \in Nat /\ m = <<c, n + 1>> /\ LinesRun(c)' = n + 1 /\ LinesRun(c) = n
      BY <1>2, <2>8, <2>9 DEF n
    <3>4. Len(q) <= n + 1 /\ (n + 1) - Len(q) = n - k
      BY <3>1, <3>2, <3>3
    <3>5. ASSUME NEW i \in DOMAIN q
          PROVE  q[i] = <<c, (n + 1) - Len(q) + i>>
      <4>1. i \in 1..k \/ i = k + 1
        BY <3>1, <3>2
      <4>2. (n - k) + (k + 1) = n + 1
        BY <3>2, <3>3
      <4> QED
        BY <3>1, <3>2, <3>3, <3>4, <4>1, <4>2
    <3>6. client'[c].w = Pushed(w, m) /\ client'[c].w.q = q /\ client'[c].st = cl.st
      BY <2>2, <2>3, <2>4 DEF q
    <3>7. 2 * (n - k) + Taken(w) = 2 * ((n + 1) - Len(q)) + Taken(client'[c].w)
      BY <2>2, <3>4, <3>6
    <3>8. n = k => n + 1 = Len(q)
      BY <3>1
    <3>9. Taken(client'[c].w) = Taken(w)
      BY <2>2, <3>6
    <3> QED
      BY <1>1, <2>5, <2>12, <3>3, <3>4, <3>5, <3>6, <3>7, <3>8, <3>9
      DEF UpInv, ClientInv, Typed, k
  <2> QED
    BY <1>1, <2>2, <2>3, <2>4, <2>10, <2>11, <2>13, ClientTurns
<1> QED
  BY <1>5, <1>6

LEMMA UnitParts ==
    ASSUME NEW u \in Units
    PROVE  u[1] \in {"header", "body"} /\ u[2] \in Messages
  BY DEF Units

LEMMA HeaderKeeps ==
    ASSUME ChatInv, NEW c \in Clients, CReadHeader(c)
    PROVE  ChatInv'
<1> DEFINE cl == client[c]
           wire == toClient[c]
           s == since[c] - 1
           n == s + Len(printed[c])
           new == [cl EXCEPT !.reads = "body"]
<1>1. /\ cl \in ClientRecords /\ ClientInv(c) /\ wire \in Seq(Units) /\ wire # <<>>
      /\ cl.st = "up" /\ cl.reads = "header" /\ toClient' = [toClient EXCEPT ![c] = Tail(@)]
      /\ printed[c] \in Seq(Messages) /\ got[c] \in Seq(Messages)
  BY OfOne DEF CReadHeader
<1>2. /\ session[c].st = "started" /\ c \notin broken /\ s \in Nat
  BY <1>1, OfOne, SessionParts DEF ClientInv, SessionInv, DownInv
<1>3. n \in Nat /\ InStep(wire, log, n, 0) /\ HalfRead("header") = 0 /\ HalfRead("body") = 1
  <2>1. HalfRead("header") = 0 /\ HalfRead("body") = 1
    BY DEF HalfRead
  <2>2. n \in Nat
    BY <1>1, <1>2
  <2> QED
    BY <1>1, <1>2, <2>1, <2>2 DEF ClientInv, DownInv
<1>4. wire[1][1] = "header" /\ InStep(Tail(wire), log, n, 1)
  <2> HIDE DEF n
  <2>1. wire[1] = <<"header", log[n + 1]>> /\ InStep(Tail(wire), log, n, 1)
    BY <1>1, <1>3, HeaderComes
  <2> QED
    BY <2>1
<1>5. ClientStep(c, new) /\ UNCHANGED <<toServer, broken, printed>>
  BY <1>4 DEF CReadHeader
<1>6. /\ new \in ClientRecords /\ new.st = "up" /\ new.w = cl.w /\ new.reads = "body"
      /\ new.posted = cl.posted /\ new.typed = cl.typed /\ new.input = cl.input
  BY <1>1, ClientParts DEF ClientRecords, Reading
<1> HIDE DEF new
<1>7. /\ client' = [client EXCEPT ![c] = new] /\ client'[c] = new
      /\ UNCHANGED <<session, participants, recent_msgs, log, since, toServer, broken, got, printed>>
  BY <1>5 DEF ClientStep, roomVars, ChatInv, ChatTypes
<1>8. /\ Tail(wire) \in Seq(Units) /\ Len(Tail(wire)) = Len(wire) - 1
      /\ toClient'[c] = Tail(wire)
  BY <1>1, OneLess DEF ChatInv, ChatTypes
<1>9. ChatTypes'
  BY <1>1, <1>6, <1>7, <1>8 DEF ChatInv, ChatTypes
<1>10. PostedInv(c)' /\ LinesRun(c)' = LinesRun(c)
  BY <1>1, <1>6, <1>7, PostedStays
<1>11. SessionInv(c)'
  BY <1>1, <1>2, <1>7 DEF ClientInv, SessionInv
<1>12. DownInv(c)'
  <2>1. 2 * Len(printed[c]) + 0 + Len(wire) = 2 * Len(got[c]) + Taken(session[c].w)
    BY <1>1, <1>2, <1>3 DEF ClientInv, DownInv
  <2>2. Len(wire) \in Nat /\ Len(printed[c]) \in Nat
    BY <1>1
  <2> DEFINE P == Len(printed[c])
             L == Len(wire)
             sum == 2 * Len(got[c]) + Taken(session[c].w)
             less == Len(Tail(wire))
  <2>3. 2 * P + 1 + less = sum
    <3>1. 2 * P + 0 + L = sum /\ less = L - 1 /\ L \in Nat /\ P \in Nat
      BY <1>8, <2>1, <2>2
    <3> HIDE DEF P, L, sum, less
    <3> QED
      BY <3>1
  <2> QED
    BY ZenonT(40), <1>1, <1>2, <1>3, <1>4, <1>6, <1>7, <1>8, <2>3 DEF ClientInv, DownInv
<1>13. Said(c)' = Said(c)
  BY <1>7 DEF Said, SaidBy
<1>14. UpInv(c)'
  BY <1>1, <1>6, <1>7, <1>10, <1>13 DEF ClientInv, UpInv, Typed
<1>15. ClientInv(c)'
  BY <1>1, <1>6, <1>7, <1>10, <1>11, <1>12, <1>14 DEF ClientInv
<1>16. \A d \in Clients : d # c => AsBefore(d)
  BY <1>1, <1>7 DEF AsBefore, ChatInv, ChatTypes
<1> QED
  BY <1>2, <1>7, <1>9, <1>15, <1>16, OneConnection

LEMMA BodyKeeps ==
    ASSUME ChatInv, NEW c \in Clients, CReadBody(c)
    PROVE  ChatInv'
<1> DEFINE cl == client[c]
           wire == toClient[c]
           s == since[c] - 1
           P == Len(printed[c])
           G == Len(got[c])
           Q == Len(session[c].w.q)
           n == s + P
           m == wire[1][2]
           new == [cl EXCEPT !.reads = "header"]
<1>1. /\ cl \in ClientRecords /\ ClientInv(c) /\ wire \in Seq(Units) /\ wire # <<>>
      /\ cl.st = "up" /\ cl.reads = "body" /\ toClient' = [toClient EXCEPT ![c] = Tail(@)]
      /\ printed[c] \in Seq(Messages) /\ got[c] \in Seq(Messages)
      /\ session[c].w \in Writer /\ session[c].w.q \in Seq(Messages)
      /\ ClientStep(c, new) /\ UNCHANGED <<toServer, broken>>
      /\ printed' = [printed EXCEPT ![c] = Append(@, m)]
  BY OfOne DEF CReadBody
<1>2. /\ session[c].st = "started" /\ c \notin broken /\ s \in Nat
  BY <1>1, OfOne, SessionParts DEF ClientInv, SessionInv, DownInv
<1>3. n \in Nat /\ InStep(wire, log, n, 1) /\ HalfRead("header") = 0 /\ HalfRead("body") = 1
  <2>1. HalfRead("header") = 0 /\ HalfRead("body") = 1
    BY DEF HalfRead
  <2>2. n \in Nat
    BY <1>1, <1>2
  <2> QED
    BY <1>1, <1>2, <2>1, <2>2 DEF ClientInv, DownInv
<1>4. m = log[n + 1] /\ m \in Messages /\ InStep(Tail(wire), log, n + 1, 0)
  <2> HIDE DEF n
  <2>1. wire[1] = <<"body", log[n + 1]>> /\ InStep(Tail(wire), log, n + 1, 0)
    BY <1>1, <1>3, BodyComes
  <2>2. wire[1] \in Units
    BY <1>1, OneLess
  <2> QED
    BY <2>1, <2>2, UnitParts
<1>6. /\ new \in ClientRecords /\ new.st = "up" /\ new.w = cl.w /\ new.reads = "header"
      /\ new.posted = cl.posted /\ new.typed = cl.typed /\ new.input = cl.input
  BY <1>1, ClientParts DEF ClientRecords, Reading
<1> HIDE DEF new, m
<1>7. /\ client' = [client EXCEPT ![c] = new] /\ client'[c] = new
      /\ UNCHANGED <<session, participants, recent_msgs, log, since, toServer, broken, got>>
  BY <1>1 DEF ClientStep, roomVars, ChatInv, ChatTypes
<1>8. /\ Tail(wire) \in Seq(Units) /\ Len(Tail(wire)) = Len(wire) - 1 /\ Len(wire) \in Nat \ {0}
      /\ toClient'[c] = Tail(wire)
  BY <1>1, OneLess DEF ChatInv, ChatTypes
<1> DEFINE out == Append(printed[c], m)
<1>9. /\ out \in Seq(Messages) /\ Len(out) = P + 1 /\ out[P + 1] = m
      /\ \A i \in 1..P : out[i] = printed[c][i]
  BY <1>1, <1>4, OneMore
<1>a. printed'[c] = out /\ printed' = [printed EXCEPT ![c] = out]
  BY <1>1 DEF ChatInv, ChatTypes
<1> HIDE DEF out
<1>b. ChatTypes'
  BY ZenonT(40), <1>1, <1>6, <1>7, <1>8, <1>9, <1>a DEF ChatInv, ChatTypes
<1>10. PostedInv(c)' /\ LinesRun(c)' = LinesRun(c)
  BY <1>1, <1>6, <1>7, PostedStays
<1>11. SessionInv(c)'
  BY <1>1, <1>2, <1>7 DEF ClientInv, SessionInv
<1>12. DownInv(c)'
  <2>1. 2 * P + 1 + Len(wire) = 2 * G + Taken(session[c].w) /\ P <= G + Q
    BY <1>1, <1>2, <1>3 DEF ClientInv, DownInv
  <2>2. P \in Nat /\ G \in Nat /\ Q \in Nat
    BY <1>1
  <2>3. Taken(session[c].w) \in 0..2 /\ (Taken(session[c].w) > 0 => session[c].w.q # <<>>)
    BY <1>1, TakenInRange DEF ClientInv
  <2>4. Taken(session[c].w) > 0 => Q > 0
    BY <1>1, <2>3
  <2>5. \A i \in 1..P : printed[c][i] = log[s + i]
    BY <1>1, <1>2 DEF ClientInv, DownInv
  <2> DEFINE T == Taken(session[c].w)
             L == Len(wire)
  <2>6. L \in Nat \ {0} /\ Len(Tail(wire)) = L - 1 /\ T \in 0..2 /\ (T > 0 => Q > 0)
        /\ 2 * P + 1 + L = 2 * G + T
    BY <1>8, <2>1, <2>3, <2>4
  <2> HIDE DEF P, G, Q, T, L
  <2>7. P + 1 <= G + Q /\ 2 * (P + 1) + 0 + (L - 1) = 2 * G + T
    BY <2>1, <2>2, <2>6
  <2>8. ASSUME NEW i \in 1..(P + 1)
        PROVE  out[i] = log[s + i]
    <3>1. CASE i \in 1..P
      BY <1>9, <2>5, <3>1
    <3>2. CASE i = P + 1
      <4>1. s + i = n + 1
        BY <1>2, <2>2, <3>2
      <4> QED
        BY <1>4, <1>9, <3>2, <4>1
    <3> QED
      BY <2>2, <3>1, <3>2
  <2>9. s + (P + 1) = n + 1
    BY <1>2, <2>2
  <2>10. InStep(Tail(wire), log, s + (P + 1), 0)
    BY <1>4, <2>9
  <2>11. /\ HalfRead(client'[c].reads) = 0 /\ client'[c].st = "up" /\ client'[c].reads = "header"
         /\ Len(printed'[c]) = P + 1
    BY <1>3, <1>6, <1>7, <1>9, <1>a
  <2>12. \A i \in DOMAIN printed'[c] : printed'[c][i] = log'[s' + i]
    BY <1>7, <1>9, <1>a, <2>8, <2>11
  <2>13. Len(printed'[c]) <= Len(got'[c]) + Len(session'[c].w.q)
    BY <1>7, <2>7, <2>11 DEF G, Q
  <2>14. /\ InStep(toClient'[c], log', s' + Len(printed'[c]), 0)
         /\ 2 * Len(printed'[c]) + 0 + Len(toClient'[c]) = 2 * Len(got'[c]) + Taken(session'[c].w)
    BY <1>7, <1>8, <2>6, <2>7, <2>10, <2>11 DEF G, T
  <2> QED
    BY <1>1, <1>2, <1>7, <2>11, <2>12, <2>13, <2>14 DEF ClientInv, DownInv
<1>13. Said(c)' = Said(c)
  BY <1>7 DEF Said, SaidBy
<1>14. UpInv(c)'
  BY <1>1, <1>6, <1>7, <1>10, <1>13 DEF ClientInv, UpInv, Typed
<1>15. ClientInv(c)'
  BY <1>1, <1>6, <1>7, <1>10, <1>11, <1>12, <1>14 DEF ClientInv
<1>16. \A d \in Clients : d # c => AsBefore(d)
  BY <1>1, <1>7 DEF AsBefore, ChatInv, ChatTypes
<1> QED
  BY <1>2, <1>7, <1>b, <1>15, <1>16, OneConnection

LEMMA BreakKeeps ==
    ASSUME ChatInv, NEW c \in Clients, Break(c)
    PROVE  ChatInv'
<1>1. /\ ClientInv(c) /\ client[c].st \in {"up", "closed"}
      /\ broken' = broken \cup {c}
      /\ toServer' = [toServer EXCEPT ![c] = <<>>] /\ toClient' = [toClient EXCEPT ![c] = <<>>]
      /\ UNCHANGED <<client, session, participants, recent_msgs, log, since, got, printed>>
  BY OfOne DEF Break, roomVars
<1>2. toServer'[c] = <<>> /\ toClient'[c] = <<>> /\ c \in broken'
  BY <1>1 DEF ChatInv, ChatTypes
<1>3. ChatTypes'
  BY <1>1 DEF ChatInv, ChatTypes
<1>4. PostedInv(c)' /\ LinesRun(c)' = LinesRun(c)
  BY <1>1, PostedStays
<1>5. SessionInv(c)'
  BY <1>1, <1>2 DEF ClientInv, SessionInv
<1>6. DownInv(c)'
  BY <1>1, <1>2 DEF ClientInv, DownInv
<1>7. UpInv(c)'
  <2>1. Said(c)' = Said(c)
    BY <1>1 DEF Said, SaidBy
  <2>2. InStep(toServer[c], Typed(c), Said(c), HalfRead(session[c].reads))'
    BY <1>2, NothingGoes
  <2> QED
    BY <1>1, <1>2, <1>4, <2>1, <2>2 DEF ClientInv, UpInv
<1>8. ClientInv(c)'
  BY <1>1, <1>4, <1>5, <1>6, <1>7 DEF ClientInv
<1>9. \A d \in Clients : d # c => AsBefore(d)
  BY <1>1 DEF AsBefore, ChatInv, ChatTypes
<1>10. c \in participants' => session'[c].st = "started"
  BY <1>1 DEF ChatInv, RoomInv
<1> QED
  BY <1>1, <1>3, <1>8, <1>9, <1>10, OneConnection

LEMMA SendUpKeeps ==
    ASSUME ChatInv, NEW c \in Clients, SendUp(c)
    PROVE  ChatInv'
<1> DEFINE cl == client[c]
           w == cl.w
           q == w.q
           wire == toServer[c]
           e == HalfRead(session[c].reads)
           open == session[c].reads # "no" \/ session[c].st = "none"
<1>1. /\ cl \in ClientRecords /\ ClientInv(c) /\ wire \in Seq(Units) /\ OneWrite(w)
      /\ w \in Writer /\ q \in Seq(Messages) /\ cl.st = "up" /\ c \notin broken
      /\ UNCHANGED <<session, participants, recent_msgs, log, since, toClient, broken, got, printed>>
  BY OfOne DEF SendUp, roomVars, ClientInv
<1>2. PICK i \in DOMAIN w.writes :
        /\ w.writes[i] # <<>>
        /\ toServer' = [toServer EXCEPT ![c] = Append(@, w.writes[i][1])]
        /\ client' = [client EXCEPT ![c].w = Moved(@, i)]
  BY DEF SendUp
<1> DEFINE unit == w.writes[i][1]
           out == Append(wire, unit)
           new == [cl EXCEPT !.w = Moved(w, i)]
<1>3. /\ q # <<>> /\ Moved(w, i) \in Writer /\ OneWrite(Moved(w, i)) /\ Moved(w, i).q = q
      /\ Taken(w) \in {0, 1} /\ Taken(Moved(w, i)) = Taken(w) + 1
      /\ unit = <<IF Taken(w) = 0 THEN "header" ELSE "body", q[1]>> /\ unit \in Units
  BY <1>1, <1>2, MoveKeeps
<1> HIDE DEF unit
<1>4. out \in Seq(Units) /\ Len(out) = Len(wire) + 1
  BY <1>1, <1>3, OneMore
<1>5. /\ new \in ClientRecords /\ new.st = "up" /\ new.w = Moved(w, i) /\ new.reads = cl.reads
      /\ new.posted = cl.posted /\ new.typed = cl.typed /\ new.input = cl.input
  BY <1>1, <1>3, ClientParts DEF ClientRecords
<1>6. /\ client' = [client EXCEPT ![c] = new] /\ client'[c] = new
      /\ toServer' = [toServer EXCEPT ![c] = out] /\ toServer'[c] = out
  BY <1>2 DEF unit, ChatInv, ChatTypes
<1> HIDE DEF new, out
<1>7. ChatTypes'
  BY <1>1, <1>4, <1>5, <1>6 DEF ChatInv, ChatTypes
<1>8. PostedInv(c)' /\ LinesRun(c)' = LinesRun(c)
  BY <1>1, <1>5, <1>6, PostedStays
<1>9. SessionInv(c)'
  BY <1>1 DEF ClientInv, SessionInv
<1>10. DownInv(c)'
  BY <1>1, <1>5, <1>6 DEF ClientInv, DownInv
<1>11. Said(c)' = Said(c)
  BY <1>1 DEF Said, SaidBy
<1>12. UpInv(c)'
  <2> DEFINE k == LinesRun(c) - Len(q)
             n == Said(c)
             L == Len(wire)
             T == Taken(w)
  <2>1. /\ Len(q) <= LinesRun(c) /\ \A j \in DOMAIN q : q[j] = <<c, k + j>>
        /\ open => InStep(wire, Typed(c), n, e) /\ 2 * n + e + L = 2 * k + T
    BY <1>1 DEF ClientInv, UpInv
  <2>2. k \in Nat /\ n \in Nat /\ L \in Nat /\ e \in {0, 1} /\ Len(q) \in Nat
    <3> DEFINE a == LinesRun(c)
               b == Len(q)
    <3>1. a \in Nat /\ b \in Nat /\ b <= a
      BY <1>1, <2>1 DEF ClientInv, PostedInv
    <3>2. a - b \in Nat
      <4> HIDE DEF a, b
      <4> QED
        BY <3>1
    <3>3. n \in Nat /\ L \in Nat /\ e \in {0, 1}
      BY <1>1, SaidIsNat DEF HalfRead
    <3> QED
      BY <3>1, <3>2, <3>3
  <2>3. 1 \in DOMAIN q
    BY <1>1, <1>3
  <2> HIDE DEF k, n, e, open
  <2>4. q[1] = Typed(c)[k + 1]
    <3>1. q[1] = <<c, k + 1>>
      BY <2>1, <2>3
    <3>2. k + 1 \in Nat
      BY <2>2
    <3> QED
      BY <3>1, <3>2 DEF Typed
  <2>5. open => InStep(out, Typed(c), n, e)
    <3>1. NextUnit(unit, Typed(c), k, Taken(w)) /\ (open => Between(wire, n, e, k, Taken(w)))
      BY <1>3, <2>1, <2>4 DEF NextUnit, Between
    <3> QED
      BY <1>1, <1>3, <2>1, <2>2, <3>1, UnitGoes DEF out
  <2>6. open => 2 * n + e + Len(out) = 2 * k + Taken(Moved(w, i))
    <3> DEFINE more == Len(out)
               after == Taken(Moved(w, i))
    <3>1. more = L + 1 /\ after = T + 1 /\ T \in {0, 1}
      BY <1>3, <1>4
    <3>2. open => 2 * n + e + L = 2 * k + T
      BY <2>1
    <3> HIDE DEF L, T, more, after
    <3>3. open => 2 * n + e + more = 2 * k + after
      BY <2>2, <3>1, <3>2
    <3> QED
      BY <3>3 DEF more, after
  <2> QED
    BY <1>1, <1>3, <1>5, <1>6, <1>8, <1>11, <2>1, <2>5, <2>6 DEF UpInv, k, n, e, open, Typed
<1>13. ClientInv(c)'
  BY <1>1, <1>3, <1>5, <1>6, <1>8, <1>9, <1>10, <1>12 DEF ClientInv
<1>14. \A d \in Clients : d # c => AsBefore(d)
  BY <1>1, <1>6 DEF AsBefore, ChatInv, ChatTypes
<1>15. c \in participants' => session'[c].st = "started"
  BY <1>1 DEF ChatInv, RoomInv
<1> QED
  BY <1>1, <1>7, <1>13, <1>14, <1>15, OneConnection

LEMMA SendDownKeeps ==
    ASSUME ChatInv, NEW c \in Clients, SendDown(c)
    PROVE  ChatInv'
<1> DEFINE se == session[c]
           w == se.w
           q == w.q
           wire == toClient[c]
           s == since[c] - 1
           e == HalfRead(client[c].reads)
<1>1. /\ se \in SessionRecords /\ ClientInv(c) /\ wire \in Seq(Units) /\ OneWrite(w)
      /\ w \in Writer /\ q \in Seq(Messages) /\ client[c].st = "up" /\ c \notin broken
      /\ printed[c] \in Seq(Messages) /\ got[c] \in Seq(Messages)
      /\ UNCHANGED <<client, participants, recent_msgs, log, since, toServer, broken, got, printed>>
  BY OfOne DEF SendDown, roomVars, ClientInv
<1>2. PICK i \in DOMAIN w.writes :
        /\ w.writes[i] # <<>>
        /\ toClient' = [toClient EXCEPT ![c] = Append(@, w.writes[i][1])]
        /\ session' = [session EXCEPT ![c].w = Moved(@, i)]
  BY DEF SendDown
<1> DEFINE unit == w.writes[i][1]
           out == Append(wire, unit)
           new == [se EXCEPT !.w = Moved(w, i)]
<1>3. /\ q # <<>> /\ Moved(w, i) \in Writer /\ OneWrite(Moved(w, i)) /\ Moved(w, i).q = q
      /\ Taken(w) \in {0, 1} /\ Taken(Moved(w, i)) = Taken(w) + 1
      /\ unit = <<IF Taken(w) = 0 THEN "header" ELSE "body", q[1]>> /\ unit \in Units
  BY <1>1, <1>2, MoveKeeps
<1> HIDE DEF unit
<1>4. out \in Seq(Units) /\ Len(out) = Len(wire) + 1
  BY <1>1, <1>3, OneMore
<1>5. new \in SessionRecords /\ new.st = se.st /\ new.w = Moved(w, i) /\ new.reads = se.reads
  BY <1>1, <1>3, SessionParts DEF SessionRecords
<1>6. /\ session' = [session EXCEPT ![c] = new] /\ session'[c] = new
      /\ toClient' = [toClient EXCEPT ![c] = out] /\ toClient'[c] = out
  BY <1>2 DEF unit, ChatInv, ChatTypes
<1> HIDE DEF new, out
<1>7. ChatTypes'
  BY <1>1, <1>4, <1>5, <1>6 DEF ChatInv, ChatTypes
<1>8. PostedInv(c)' /\ LinesRun(c)' = LinesRun(c)
  BY <1>1, PostedStays
<1>9. se.st = "started" /\ s \in Nat
  <2>1. NoWriter.q = <<>>
    BY DEF NoWriter
  <2> QED
    BY <1>1, <1>3, <2>1, SessionParts DEF ClientInv, SessionInv
<1>10. SessionInv(c)'
  BY <1>1, <1>3, <1>5, <1>6, <1>9 DEF ClientInv, SessionInv
<1>11. Said(c)' = Said(c)
  BY <1>1 DEF Said, SaidBy
<1>12. UpInv(c)'
  BY <1>1, <1>5, <1>6, <1>8, <1>11 DEF ClientInv, UpInv, Typed
<1>13. DownInv(c)'
  <2> DEFINE P == Len(printed[c])
             G == Len(got[c])
             L == Len(wire)
             T == Taken(w)
  <2>1. InStep(wire, log, s + P, e) /\ 2 * P + e + L = 2 * G + T
    BY <1>1, <1>9 DEF ClientInv, DownInv
  <2>2. P \in Nat /\ G \in Nat /\ L \in Nat /\ e \in {0, 1} /\ s \in Nat /\ T \in {0, 1}
    BY <1>1, <1>3, <1>9 DEF HalfRead
  <2>3. q[1] = log[s + G + 1]
    <3>1. \A j \in DOMAIN q : q[j] = log[s + G + j]
      BY <1>1, <1>9 DEF ClientInv, SessionInv
    <3>2. 1 \in DOMAIN q
      BY <1>1, <1>3
    <3> QED
      BY <3>1, <3>2
  <2> HIDE DEF s, e, P, G, T
  <2>4. s + P \in Nat /\ s + G \in Nat /\ 2 * (s + P) + e + L = 2 * (s + G) + T
    <3> HIDE DEF L
    <3> QED
      BY <2>1, <2>2
  <2>5. unit = <<IF T = 0 THEN "header" ELSE "body", log[(s + G) + 1]>>
    BY <1>3, <2>3 DEF T
  <2>6. InStep(out, log, s + P, e)
    <3>1. NextUnit(unit, log, s + G, T) /\ Between(wire, s + P, e, s + G, T)
      BY <2>4, <2>5 DEF NextUnit, Between
    <3> QED
      BY <1>1, <1>3, <2>1, <2>2, <2>4, <3>1, UnitGoes DEF out
  <2>7. 2 * P + e + Len(out) = 2 * G + Taken(Moved(w, i))
    <3> DEFINE more == Len(out)
               after == Taken(Moved(w, i))
    <3>1. more = L + 1 /\ after = T + 1
      BY <1>3, <1>4 DEF T
    <3>2. 2 * P + e + L = 2 * G + T
      BY <2>1
    <3> HIDE DEF L, more, after
    <3>3. 2 * P + e + more = 2 * G + after
      BY <2>2, <3>1, <3>2
    <3> QED
      BY <3>3 DEF more, after
  <2> QED
    BY <1>1, <1>3, <1>5, <1>6, <1>9, <2>6, <2>7 DEF ClientInv, DownInv, P, G, e, s
<1>14. ClientInv(c)'
  BY <1>1, <1>3, <1>5, <1>6, <1>8, <1>10, <1>12, <1>13 DEF ClientInv
<1>15. \A d \in Clients : d # c => AsBefore(d)
  BY <1>1, <1>6 DEF AsBefore, ChatInv, ChatTypes
<1>16. c \in participants' => session'[c].st = "started"
  BY <1>5, <1>6, <1>9
<1> QED
  BY <1>1, <1>7, <1>14, <1>15, <1>16, OneConnection

-----------------------------------------------------------------------------
(* Steps of the server.                                                    *)

LEMMA SReadErrorKeeps ==
    ASSUME ChatInv, NEW c \in Clients, SReadError(c)
    PROVE  ChatInv'
<1> DEFINE se == session[c]
           new == [se EXCEPT !.reads = "no"]
<1>1. /\ se \in SessionRecords /\ ClientInv(c) /\ se.reads # "no"
      /\ session' = [session EXCEPT ![c] = new] /\ participants' = participants \ {c}
      /\ UNCHANGED <<client, recent_msgs, toServer, toClient, broken, log, since, got, printed>>
  BY OfOne DEF SReadError, Leave, wireVars
<1>2. new \in SessionRecords /\ new.st = se.st /\ new.w = se.w /\ new.reads = "no"
  BY <1>1, SessionParts DEF SessionRecords, Reading
<1>3. se.st = "started"
  BY <1>1, SessionParts DEF ClientInv, SessionInv
<1> HIDE DEF new
<1>4. session'[c] = new
  BY <1>1 DEF ChatInv, ChatTypes
<1>5. ChatTypes'
  BY <1>1, <1>2 DEF ChatInv, ChatTypes
<1>6. PostedInv(c)' /\ LinesRun(c)' = LinesRun(c)
  BY <1>1, PostedStays
<1>7. SessionInv(c)'
  BY <1>1, <1>2, <1>3, <1>4 DEF ClientInv, SessionInv
<1>8. DownInv(c)'
  BY <1>1, <1>2, <1>4 DEF ClientInv, DownInv
<1>9. Said(c)' = Said(c)
  BY <1>1 DEF Said, SaidBy
<1>10. UpInv(c)'
  BY <1>1, <1>2, <1>3, <1>4, <1>6, <1>9 DEF ClientInv, UpInv
<1>11. ClientInv(c)'
  BY <1>1, <1>2, <1>4, <1>6, <1>7, <1>8, <1>10 DEF ClientInv
<1>12. \A d \in Clients : d # c => AsBefore(d)
  BY <1>1 DEF AsBefore, ChatInv, ChatTypes
<1> QED
  BY <1>1, <1>5, <1>11, <1>12, OneConnection

LEMMA SWriteErrorKeeps ==
    ASSUME ChatInv, NEW c \in Clients, SWriteError(c)
    PROVE  ChatInv'
<1> DEFINE se == session[c]
           new == [se EXCEPT !.w = Failed(@)]
<1>1. /\ se \in SessionRecords /\ ClientInv(c) /\ se.w \in Writer /\ OneWrite(se.w)
      /\ se.w.writes # <<>> /\ (c \in broken \/ client[c].st = "closed")
      /\ session' = [session EXCEPT ![c] = new] /\ participants' = participants \ {c}
      /\ UNCHANGED <<client, recent_msgs, toServer, toClient, broken, log, since, got, printed>>
  BY OfOne DEF SWriteError, Leave, wireVars, ClientInv
<1>2. Failed(se.w) \in Writer /\ OneWrite(Failed(se.w)) /\ Failed(se.w).q = se.w.q
  BY <1>1, FailKeeps
<1>3. new \in SessionRecords /\ new.st = se.st /\ new.w = Failed(se.w) /\ new.reads = se.reads
  BY <1>1, <1>2, SessionParts DEF SessionRecords
<1>4. se.st = "started"
  BY <1>1, SessionParts DEF ClientInv, SessionInv, NoWriter
<1> HIDE DEF new
<1>5. session'[c] = new
  BY <1>1 DEF ChatInv, ChatTypes
<1>6. ChatTypes'
  BY <1>1, <1>3 DEF ChatInv, ChatTypes
<1>7. PostedInv(c)' /\ LinesRun(c)' = LinesRun(c)
  BY <1>1, PostedStays
<1>8. SessionInv(c)'
  BY <1>1, <1>2, <1>3, <1>4, <1>5 DEF ClientInv, SessionInv
<1>9. DownInv(c)'
  BY <1>1, <1>2, <1>3, <1>5 DEF ClientInv, DownInv
<1>10. Said(c)' = Said(c)
  BY <1>1 DEF Said, SaidBy
<1>11. UpInv(c)'
  BY <1>1, <1>3, <1>5, <1>7, <1>10 DEF ClientInv, UpInv, Typed
<1>12. ClientInv(c)'
  BY <1>1, <1>2, <1>3, <1>5, <1>7, <1>8, <1>9, <1>11 DEF ClientInv
<1>13. \A d \in Clients : d # c => AsBefore(d)
  BY <1>1 DEF AsBefore, ChatInv, ChatTypes
<1> QED
  BY <1>1, <1>6, <1>12, <1>13, OneConnection

LEMMA SReadHeaderKeeps ==
    ASSUME ChatInv, NEW c \in Clients, SReadHeader(c)
    PROVE  ChatInv'
<1> DEFINE se == session[c]
           wire == toServer[c]
           n == Said(c)
           new == [se EXCEPT !.reads = "body"]
<1>1. /\ se \in SessionRecords /\ ClientInv(c) /\ wire \in Seq(Units) /\ wire # <<>>
      /\ se.reads = "header" /\ toServer' = [toServer EXCEPT ![c] = Tail(@)]
      /\ UNCHANGED <<client, recent_msgs, toClient, broken, log, since, got, printed>>
  BY OfOne DEF SReadHeader
<1>2. se.st = "started" /\ n \in Nat /\ HalfRead("header") = 0 /\ HalfRead("body") = 1
  BY <1>1, SaidIsNat, SessionParts DEF ClientInv, SessionInv, HalfRead
<1>3. InStep(wire, Typed(c), n, 0)
  BY <1>1, <1>2 DEF ClientInv, UpInv
<1>4. wire[1][1] = "header" /\ InStep(Tail(wire), Typed(c), n, 1)
  <2> HIDE DEF n
  <2>1. wire[1] = <<"header", Typed(c)[n + 1]>> /\ InStep(Tail(wire), Typed(c), n, 1)
    BY <1>1, <1>2, <1>3, HeaderComes
  <2> QED
    BY <2>1
<1>5. session' = [session EXCEPT ![c] = new] /\ participants' = participants
  BY <1>4 DEF SReadHeader
<1>6. new \in SessionRecords /\ new.st = se.st /\ new.w = se.w /\ new.reads = "body"
  BY <1>1, SessionParts DEF SessionRecords, Reading
<1> HIDE DEF new
<1>7. session'[c] = new
  BY <1>5 DEF ChatInv, ChatTypes
<1>8. /\ Tail(wire) \in Seq(Units) /\ Len(Tail(wire)) = Len(wire) - 1 /\ Len(wire) \in Nat
      /\ toServer'[c] = Tail(wire)
  BY <1>1, OneLess DEF ChatInv, ChatTypes
<1>9. ChatTypes'
  BY <1>1, <1>5, <1>6, <1>8 DEF ChatInv, ChatTypes
<1>10. PostedInv(c)' /\ LinesRun(c)' = LinesRun(c)
  BY <1>1, PostedStays
<1>11. SessionInv(c)'
  BY <1>1, <1>2, <1>5, <1>6, <1>7 DEF ClientInv, SessionInv
<1>12. DownInv(c)'
  BY <1>1, <1>6, <1>7, <1>8 DEF ClientInv, DownInv
<1>13. Said(c)' = Said(c)
  BY <1>1 DEF Said, SaidBy
<1>14. UpInv(c)'
  <2> DEFINE L == Len(wire)
             less == Len(Tail(wire))
             sum == 2 * (LinesRun(c) - Len(client[c].w.q)) + Taken(client[c].w)
  <2>1. /\ client[c].st = "up" /\ c \notin broken => 2 * n + 0 + L = sum
        /\ client[c].st # "connecting"
    BY <1>1, <1>2 DEF ClientInv, UpInv, DownInv
  <2>2. L \in Nat /\ less = L - 1 /\ n \in Nat
    BY <1>2, <1>8
  <2>3. client[c].st = "up" /\ c \notin broken => 2 * n + 1 + less = sum
    <3> HIDE DEF L, less, sum, n
    <3> QED
      BY <2>1, <2>2
  <2> QED
    BY <1>1, <1>2, <1>4, <1>6, <1>7, <1>8, <1>10, <1>13, <2>1, <2>3 DEF ClientInv, UpInv, Typed
<1>15. ClientInv(c)'
  BY <1>1, <1>6, <1>7, <1>10, <1>11, <1>12, <1>14 DEF ClientInv
<1>16. \A d \in Clients : d # c => AsBefore(d)
  BY <1>1, <1>5 DEF AsBefore, ChatInv, ChatTypes
<1> QED
  BY <1>1, <1>2, <1>6, <1>7, <1>9, <1>15, <1>16, OneConnection

LEMMA SWrittenKeeps ==
    ASSUME ChatInv, NEW c \in Clients, SWritten(c)
    PROVE  ChatInv'
<1> DEFINE se == session[c]
           w == se.w
           q == w.q
           rest == Tail(q)
           out == Append(got[c], q[1])
           s == since[c] - 1
           new == [se EXCEPT !.w = Popped(@)]
<1>1. /\ se \in SessionRecords /\ ClientInv(c) /\ w \in Writer /\ OneWrite(w) /\ Done(w)
      /\ q \in Seq(Messages) /\ got[c] \in Seq(Messages) /\ printed[c] \in Seq(Messages)
      /\ session' = [session EXCEPT ![c] = new] /\ got' = [got EXCEPT ![c] = out]
      /\ UNCHANGED <<client, participants, recent_msgs, toServer, toClient, broken, log, since,
                     printed>>
  BY OfOne DEF SWritten, wireVars, roomVars, ClientInv
<1>2. /\ Popped(w) \in Writer /\ OneWrite(Popped(w)) /\ Popped(w).q = rest
      /\ Taken(Popped(w)) = 0 /\ Taken(w) = 2 /\ q # <<>>
  BY <1>1, PopKeeps, TakenInRange
<1>3. new \in SessionRecords /\ new.st = se.st /\ new.w = Popped(w) /\ new.reads = se.reads
  BY <1>1, <1>2, SessionParts DEF SessionRecords
<1>4. se.st = "started" /\ s \in Nat
  <2>1. NoWriter.q = <<>>
    BY DEF NoWriter
  <2> QED
    BY <1>1, <1>2, <2>1, SessionParts DEF ClientInv, SessionInv
<1>5. /\ Len(rest) = Len(q) - 1 /\ Len(q) \in Nat \ {0} /\ q[1] \in Messages
      /\ \A i \in 1..Len(rest) : rest[i] = q[i + 1]
  BY <1>1, <1>2, OneLess
<1>6. /\ out \in Seq(Messages) /\ Len(out) = Len(got[c]) + 1 /\ out[Len(got[c]) + 1] = q[1]
      /\ \A i \in 1..Len(got[c]) : out[i] = got[c][i]
  BY <1>1, <1>5, OneMore
<1> HIDE DEF new, out, rest
<1>7. session'[c] = new /\ got'[c] = out
  BY <1>1 DEF ChatInv, ChatTypes
<1>8. ChatTypes'
  BY <1>1, <1>3, <1>6 DEF ChatInv, ChatTypes
<1>9. PostedInv(c)' /\ LinesRun(c)' = LinesRun(c)
  BY <1>1, PostedStays
<1> DEFINE G == Len(got[c])
           Q == Len(q)
           P == Len(printed[c])
           N == Len(log)
<1>10. /\ G \in Nat /\ P \in Nat /\ N \in Nat /\ Q \in Nat \ {0} /\ s \in Nat
       /\ Len(out) = G + 1 /\ Len(rest) = Q - 1
  BY <1>1, <1>4, <1>5, <1>6, OfOne
<1>11. SessionInv(c)'
  <2>1. /\ \A i \in 1..G : got[c][i] = log[s + i]
        /\ \A i \in 1..Q : q[i] = log[s + G + i]
        /\ s + G + Q <= N
        /\ c \in participants => s + G + Q = N
    BY <1>1, <1>4 DEF ClientInv, SessionInv
  <2> HIDE DEF s, G, Q, N
  <2>2. ASSUME NEW i \in 1..(G + 1)
        PROVE  out[i] = log[s + i]
    <3>1. CASE i \in 1..G
      BY <1>6, <2>1, <3>1 DEF G
    <3>2. CASE i = G + 1
      <4>1. out[i] = q[1]
        BY <1>6, <3>2 DEF G
      <4>2. q[1] = log[s + G + 1] /\ s + G + 1 = s + (G + 1)
        BY <1>10, <2>1
      <4> QED
        BY <3>2, <4>1, <4>2
    <3> QED
      BY <1>10, <3>1, <3>2
  <2>3. ASSUME NEW i \in 1..(Q - 1)
        PROVE  rest[i] = log[s + (G + 1) + i]
    <3>1. rest[i] = q[i + 1]
      BY <1>5, <1>10
    <3>2. i + 1 \in 1..Q /\ s + G + (i + 1) = s + (G + 1) + i
      BY <1>10
    <3> QED
      BY <2>1, <3>1, <3>2
  <2>4. s + (G + 1) + (Q - 1) = s + G + Q
    BY <1>10
  <2>5. /\ session'[c].st = "started" /\ session'[c].w.q = rest /\ Len(rest) = Q - 1
        /\ got'[c] = out /\ Len(out) = G + 1 /\ log' = log /\ participants' = participants
    BY <1>1, <1>2, <1>3, <1>4, <1>7, <1>10
  <2>6. s' = s /\ s \in Nat
    BY <1>1, <1>10 DEF s
  <2>7. \A i \in DOMAIN got'[c] : got'[c][i] = log'[s' + i]
    BY <1>6, <2>2, <2>5, <2>6
  <2>8. \A i \in DOMAIN session'[c].w.q : session'[c].w.q[i] = log'[s' + Len(got'[c]) + i]
    <3>1. DOMAIN rest = 1..(Q - 1)
      BY <1>1, <1>2, <1>10, OneLess DEF rest
    <3> QED
      BY <2>3, <2>5, <2>6, <3>1
  <2>9. /\ s' + Len(got'[c]) + Len(session'[c].w.q) <= Len(log')
        /\ c \in participants' => s' + Len(got'[c]) + Len(session'[c].w.q) = Len(log')
    BY <2>1, <2>4, <2>5, <2>6 DEF N
  <2> QED
    BY <2>5, <2>6, <2>7, <2>8, <2>9 DEF SessionInv, s
<1>12. DownInv(c)'
  <2> DEFINE e == HalfRead(client[c].reads)
             L == Len(toClient[c])
  <2>1. /\ P <= G + Q
        /\ client[c].st = "up" /\ c \notin broken => 2 * P + e + L = 2 * G + 2
    BY <1>1, <1>2, <1>4 DEF ClientInv, DownInv
  <2>2. P <= (G + 1) + (Q - 1) /\ 2 * G + 2 = 2 * (G + 1) + 0
    <3> HIDE DEF P, G, Q
    <3> QED
      BY <1>10, <2>1
  <2>3. /\ Len(got'[c]) = G + 1 /\ Len(session'[c].w.q) = Q - 1 /\ Taken(session'[c].w) = 0
        /\ session'[c].st = "started"
    BY <1>2, <1>3, <1>4, <1>7, <1>10
  <2>4. /\ Len(printed'[c]) <= Len(got'[c]) + Len(session'[c].w.q)
        /\ client[c].st = "up" /\ c \notin broken
             => 2 * P + e + L = 2 * Len(got'[c]) + Taken(session'[c].w)
    BY <1>1, <2>1, <2>2, <2>3
  <2> QED
    BY <1>1, <1>4, <2>3, <2>4 DEF ClientInv, DownInv
<1>13. Said(c)' = Said(c)
  BY <1>1 DEF Said, SaidBy
<1>14. UpInv(c)'
  BY <1>1, <1>3, <1>7, <1>9, <1>13 DEF ClientInv, UpInv, Typed
<1>15. ClientInv(c)'
  BY <1>1, <1>2, <1>3, <1>7, <1>9, <1>11, <1>12, <1>14 DEF ClientInv
<1>16. \A d \in Clients : d # c => AsBefore(d)
  BY <1>1 DEF AsBefore, ChatInv, ChatTypes
<1>17. session'[c].st = "started"
  BY <1>3, <1>4, <1>7
<1> QED
  BY <1>1, <1>8, <1>15, <1>16, <1>17, OneConnection

LEMMA AcceptKeeps ==
    ASSUME ChatInv, NEW c \in Clients, HandleAccept(c)
    PROVE  ChatInv'
<1> DEFINE w == Filled(recent_msgs)
           new == [st |-> "started", reads |-> "header", w |-> w]
           s == Len(log) - Len(recent_msgs)
<1>1. /\ ClientInv(c) /\ recent_msgs \in Seq(Messages) /\ log \in Seq(Messages)
      /\ client[c].st # "connecting" /\ session[c].st = "none"
      /\ session' = [session EXCEPT ![c] = new] /\ participants' = participants \cup {c}
      /\ since' = [since EXCEPT ![c] = s + 1]
      /\ UNCHANGED <<client, recent_msgs, toServer, toClient, broken, log, got, printed>>
  BY OfOne DEF HandleAccept, Start, wireVars
<1>2. w \in Writer /\ OneWrite(w) /\ w.q = recent_msgs /\ Taken(w) = 0
  BY <1>1, FillKeeps
<1> HIDE DEF w
<1>3. new \in SessionRecords /\ new.st = "started" /\ new.reads = "header" /\ new.w = w
  BY <1>2 DEF SessionRecords, Reading
<1>4. s \in Nat /\ s + 1 \in Nat /\ (s + 1) - 1 = s /\ s + 0 + Len(recent_msgs) = Len(log)
  <2> DEFINE a == Len(log)
             b == Len(recent_msgs)
  <2>1. a \in Nat /\ b \in Nat /\ b <= a
    BY <1>1 DEF ChatInv, RoomInv
  <2> HIDE DEF a, b
  <2>2. a - b \in Nat /\ a - b + 1 \in Nat /\ (a - b + 1) - 1 = a - b /\ a - b + 0 + b = a
    BY <2>1
  <2> QED
    BY <2>2 DEF a, b
<1>5. /\ got[c] = <<>> /\ printed[c] = <<>> /\ toClient[c] = <<>> /\ session[c].reads = "no"
      /\ client[c].st = "up" => client[c].reads = "header"
  BY <1>1 DEF ClientInv, SessionInv, DownInv
<1>6. \A i \in DOMAIN recent_msgs : recent_msgs[i] = log[s + 0 + i]
  <2>1. \A i \in DOMAIN recent_msgs : recent_msgs[i] = log[s + i]
    BY DEF ChatInv, RoomInv
  <2>2. s + 0 = s
    BY <1>4
  <2> QED
    BY <2>1, <2>2
<1> HIDE DEF new, s
<1>7. session'[c] = new /\ since'[c] = s + 1
  BY <1>1 DEF ChatInv, ChatTypes
<1>8. ChatTypes'
  BY <1>1, <1>3, <1>4 DEF ChatInv, ChatTypes
<1>9. PostedInv(c)' /\ LinesRun(c)' = LinesRun(c)
  BY <1>1, PostedStays
<1>10. Len(got[c]) = 0 /\ Len(printed[c]) = 0 /\ Len(toClient[c]) = 0
  BY <1>5
<1>11. SessionInv(c)'
  <2>1. /\ session'[c].st = "started" /\ session'[c].w.q = recent_msgs /\ since'[c] - 1 = s
        /\ got'[c] = <<>> /\ log' = log /\ DOMAIN <<>> = {} /\ Len(<<>>) = 0
    BY <1>1, <1>2, <1>3, <1>4, <1>5, <1>7
  <2> QED
    BY <1>4, <1>6, <2>1 DEF SessionInv
<1>12. DownInv(c)'
  <2>1. HalfRead("header") = 0 /\ DOMAIN <<>> = {}
    BY DEF HalfRead
  <2>2. InStep(toClient[c], log, s + 0, 0)
    BY <1>5, NothingGoes
  <2>3. /\ session'[c].st = "started" /\ since'[c] - 1 = s /\ Taken(session'[c].w) = 0
        /\ session'[c].w.q \in Seq(Messages) /\ Len(session'[c].w.q) \in Nat
    BY <1>1, <1>2, <1>3, <1>4, <1>7
  <2>4. /\ \A i \in DOMAIN printed'[c] : printed'[c][i] = log'[s + i]
        /\ Len(printed'[c]) <= Len(got'[c]) + Len(session'[c].w.q)
    BY <1>1, <1>5, <1>10, <2>1, <2>3
  <2>5. client[c].st = "up" =>
            /\ HalfRead(client'[c].reads) = 0
            /\ InStep(toClient'[c], log', s + Len(printed'[c]), 0)
            /\ 2 * Len(printed'[c]) + 0 + Len(toClient'[c])
                 = 2 * Len(got'[c]) + Taken(session'[c].w)
    BY <1>1, <1>5, <1>10, <2>1, <2>2, <2>3
  <2> QED
    BY <1>1, <2>3, <2>4, <2>5 DEF ClientInv, DownInv
<1>13. Said(c)' = Said(c)
  BY <1>1 DEF Said, SaidBy
<1>14. UpInv(c)'
  <2>1. HalfRead(session'[c].reads) = HalfRead(session[c].reads)
    BY <1>3, <1>5, <1>7 DEF HalfRead
  <2> QED
    BY <1>1, <1>9, <1>13, <2>1 DEF ClientInv, UpInv, Typed
<1>15. ClientInv(c)'
  BY <1>1, <1>2, <1>3, <1>7, <1>9, <1>11, <1>12, <1>14 DEF ClientInv
<1>16. \A d \in Clients : d # c => AsBefore(d)
  BY <1>1 DEF AsBefore, ChatInv, ChatTypes
<1>17. session'[c].st = "started"
  BY <1>3, <1>7
<1> QED
  BY <1>1, <1>8, <1>15, <1>16, <1>17, OneConnection

(* What the room remembers is the end of what it has delivered.            *)
LEMMA RecentIsTheEnd ==
    ASSUME NEW r \in Seq(Messages), NEW l \in Seq(Messages), Len(r) <= Len(l),
           \A i \in DOMAIN r : r[i] = l[Len(l) - Len(r) + i]
    PROVE  /\ Recent(r) \in Seq(Messages) /\ Len(Recent(r)) <= Len(l)
           /\ \A i \in DOMAIN Recent(r) : Recent(r)[i] = l[Len(l) - Len(Recent(r)) + i]
<1>1. CASE ~(Len(r) > max_recent_msgs)
  BY <1>1 DEF Recent
<1>2. CASE Len(r) > max_recent_msgs
  <2> DEFINE t == SubSeq(r, 2, Len(r))
             a == Len(r)
             b == Len(l)
  <2>1. Recent(r) = t
    BY <1>2 DEF Recent
  <2>2. a \in Nat \ {0} /\ b \in Nat /\ a <= b
    BY <1>2, ChatAssumption
  <2>3. /\ t \in Seq(Messages) /\ Len(t) = a - 1 /\ DOMAIN t = 1..(a - 1)
        /\ \A i \in 1..(a - 1) : t[i] = r[i + 1]
    <3>1. 2 \in 1..(a + 1) /\ a \in 1..a
      BY <2>2
    <3>2. /\ t \in Seq(Messages) /\ Len(t) = IF 2 <= a THEN a - 2 + 1 ELSE 0
          /\ \A i \in 1..(a - 2 + 1) : t[i] = r[2 + i - 1]
      BY <2>2, <3>1, SubSeqProperties
    <3>3. a - 2 + 1 = a - 1 /\ (2 <= a \/ a - 1 = 0)
      <4> HIDE DEF a
      <4> QED
        BY <2>2
    <3>4. \A i \in 1..(a - 1) : 2 + i - 1 = i + 1
      OBVIOUS
    <3>5. Len(t) = a - 1
      BY <2>2, <3>2, <3>3
    <3>6. \A i \in 1..(a - 1) : t[i] = r[i + 1]
      BY <3>2, <3>3, <3>4
    <3>7. DOMAIN t = 1..(a - 1)
      BY <3>2, <3>5
    <3> QED
      BY <3>2, <3>5, <3>6, <3>7
  <2>4. \A i \in 1..a : r[i] = l[b - a + i]
    OBVIOUS
  <2> HIDE DEF t, a, b
  <2>5. ASSUME NEW i \in 1..(a - 1)
        PROVE  t[i] = l[b - (a - 1) + i]
    <3>1. i + 1 \in 1..a /\ b - a + (i + 1) = b - (a - 1) + i
      BY <2>2
    <3> QED
      BY <2>3, <2>4, <3>1
  <2>6. a - 1 <= b
    BY <2>2
  <2> QED
    BY <2>1, <2>3, <2>5, <2>6 DEF b
<1> QED
  BY <1>1, <1>2

(* A message said to the room by c.                                        *)
LEMMA OneMoreSaid ==
    ASSUME ChatInv, NEW c \in Clients, NEW m \in Messages, m[1] = c, log' = Append(log, m),
           NEW N, N = Len(log)
    PROVE  /\ Said(c)' = Said(c) + 1
           /\ \A d \in Clients : d # c => Said(d)' = Said(d)
           /\ \A d \in Clients : \A i \in 1..N : SaidBy(d, i)' = SaidBy(d, i)
           /\ Said(c)' = Cardinality(SaidBy(c, N + 1)')
<1>1. /\ N \in Nat /\ Len(log') = N + 1 /\ log'[N + 1] = m
      /\ \A i \in 1..N : log'[i] = log[i]
  BY OneMore DEF ChatInv, ChatTypes
<1>2. /\ \A d \in Clients : Said(d) = Cardinality(SaidBy(d, N))
      /\ \A d \in Clients : Said(d)' = Cardinality(SaidBy(d, N + 1)')
  BY <1>1 DEF Said, SaidBy
<1>3. ASSUME NEW d \in Clients, NEW i \in 1..N
      PROVE  SaidBy(d, i)' = SaidBy(d, i)
  <2>1. \A j \in 1..i : log'[j] = log[j]
    BY <1>1
  <2> QED
    BY <2>1 DEF SaidBy
<1>4. 1..(N + 1) = (1..N) \cup {N + 1} /\ N + 1 \notin 1..N
  BY <1>1
<1>5. ASSUME NEW d \in Clients
      PROVE  SaidBy(d, N + 1)' = {j \in 1..N : log[j][1] = d} \cup {j \in {N + 1} : m[1] = d}
  <2>1. SaidBy(d, N + 1)' = {j \in 1..(N + 1) : log'[j][1] = d}
    BY DEF SaidBy
  <2>2. \A j \in 1..(N + 1) :
            (log'[j][1] = d) <=> (j \in 1..N /\ log[j][1] = d) \/ (j = N + 1 /\ m[1] = d)
    BY <1>1, <1>4
  <2> DEFINE before == {j \in 1..N : log[j][1] = d}
             now == {j \in {N + 1} : m[1] = d}
             all == {j \in 1..(N + 1) : log'[j][1] = d}
  <2>3. all \subseteq before \cup now
    BY <1>4, <2>2
  <2>4. before \subseteq all /\ now \subseteq all
    BY <1>4, <2>2
  <2>5. SaidBy(d, N + 1)' = all
    BY <2>1
  <2> HIDE DEF SaidBy, before, now, all
  <2>6. SaidBy(d, N + 1)' = before \cup now
    BY <2>3, <2>4, <2>5
  <2> QED
    BY <2>6 DEF before, now
<1>6. Cardinality(SaidBy(c, N + 1)') = Cardinality(SaidBy(c, N)) + 1
  <2>1. IsFiniteSet(SaidBy(c, N)) /\ N + 1 \notin SaidBy(c, N)
    <3>1. IsFiniteSet(1..N)
      <4>1. N \in Int /\ 1 \in Int
        BY <1>1
      <4> QED
        BY <4>1, FS_Interval
    <3>2. SaidBy(c, N) \subseteq 1..N
      BY DEF SaidBy
    <3> QED
      BY <1>4, <3>1, <3>2, FS_Subset
  <2>2. SaidBy(c, N + 1)' = SaidBy(c, N) \cup {N + 1}
    BY <1>5 DEF SaidBy
  <2> QED
    BY <2>1, <2>2, FS_AddElement
<1>7. ASSUME NEW d \in Clients, d # c
      PROVE  SaidBy(d, N + 1)' = SaidBy(d, N)
  BY <1>5, <1>7 DEF SaidBy
<1> QED
  BY <1>2, <1>3, <1>6, <1>7

(* What the delivery of m does to the session of d.                        *)
Heard(d, m) ==
    /\ session'[d].st = session[d].st
    /\ session'[d].w = IF d \in participants THEN Pushed(session[d].w, m) ELSE session[d].w

LEMMA HearsIt ==
    ASSUME ChatInv, NEW d \in Clients, NEW m \in Messages, Heard(d, m),
           session[d].st = "none" => session'[d].reads = session[d].reads,
           log' = Append(log, m),
           UNCHANGED <<client, participants, toClient, broken, since, got, printed>>,
           d \in broken => toServer'[d] = toServer[d]
    PROVE  OneWrite(session'[d].w) /\ session'[d].w \in Writer /\ SessionInv(d)' /\ DownInv(d)'
<1> DEFINE w == session[d].w
           v == session'[d].w
           q == w.q
           s == since[d] - 1
           G == Len(got[d])
           Q == Len(q)
           P == Len(printed[d])
           N == Len(log)
<1>1. /\ ClientInv(d) /\ w \in Writer /\ OneWrite(w) /\ q \in Seq(Messages)
      /\ got[d] \in Seq(Messages) /\ printed[d] \in Seq(Messages) /\ log \in Seq(Messages)
      /\ session[d] \in SessionRecords /\ client[d] \in ClientRecords
      /\ toClient[d] \in Seq(Units)
  BY OfOne DEF ClientInv
<1>2. /\ Pushed(w, m) \in Writer /\ OneWrite(Pushed(w, m)) /\ Pushed(w, m).q = Append(q, m)
      /\ Taken(Pushed(w, m)) = Taken(w)
  BY <1>1, PushKeeps
<1>3. /\ Append(q, m) \in Seq(Messages) /\ Len(Append(q, m)) = Q + 1 /\ Append(q, m)[Q + 1] = m
      /\ \A i \in 1..Q : Append(q, m)[i] = q[i]
  BY <1>1, OneMore
<1>4. /\ Len(log') = N + 1 /\ log'[N + 1] = m /\ \A i \in 1..N : log'[i] = log[i]
  BY <1>1, OneMore
<1>5. /\ v \in Writer /\ OneWrite(v) /\ Taken(v) = Taken(w) /\ v.q \in Seq(Messages)
      /\ v.q = IF d \in participants THEN Append(q, m) ELSE q
  BY <1>1, <1>2, <1>3 DEF Heard
<1>6. G \in Nat /\ Q \in Nat /\ P \in Nat /\ N \in Nat
  BY <1>1
<1>7. CASE session[d].st = "none"
  <2>1. d \notin participants /\ session'[d].st = "none" /\ v = w
    BY <1>7 DEF ChatInv, RoomInv, Heard
  <2>2. SessionInv(d)'
    BY <1>1, <1>7, <2>1 DEF ClientInv, SessionInv
  <2>3. DownInv(d)'
    BY <1>1, <1>7, <2>1 DEF ClientInv, DownInv
  <2> QED
    BY <1>5, <2>2, <2>3
<1>8. CASE session[d].st = "started"
  <2>1. session'[d].st = "started"
    BY <1>8 DEF Heard
  <2>2. /\ s \in Nat
        /\ \A i \in 1..G : got[d][i] = log[s + i]
        /\ \A i \in 1..Q : q[i] = log[s + G + i]
        /\ s + G + Q <= N
        /\ d \in participants => s + G + Q = N
    <3>1. SessionInv(d) /\ DOMAIN got[d] = 1..G /\ DOMAIN q = 1..Q
      BY <1>1 DEF ClientInv
    <3>2. s \in Nat /\ \A i \in 1..G : got[d][i] = log[s + i]
      BY <1>8, <3>1 DEF SessionInv
    <3>3. \A i \in 1..Q : q[i] = log[s + G + i]
      BY <1>8, <3>1 DEF SessionInv
    <3>4. s + G + Q <= N /\ (d \in participants => s + G + Q = N)
      BY <1>8, <3>1 DEF SessionInv
    <3> QED
      BY <3>2, <3>3, <3>4
  <2>3. /\ \A i \in 1..P : printed[d][i] = log[s + i]
        /\ P <= G + Q
    <3>1. \A i \in DOMAIN printed[d] : printed[d][i] = log[s + i]
      BY <1>1, <1>8 DEF ClientInv, DownInv
    <3>2. P <= G + Q
      BY <1>1, <1>8 DEF ClientInv, DownInv
    <3>3. DOMAIN printed[d] = 1..P
      BY <1>1
    <3> QED
      BY <3>1, <3>2, <3>3
  <2> HIDE DEF s, G, Q, P, N
  <2>4. /\ \A i \in 1..G : s + i \in 1..N
        /\ \A i \in 1..Q : s + G + i \in 1..N
        /\ \A i \in 1..P : s + i \in 1..N
    BY <1>6, <2>2, <2>3
  <2>5. /\ \A i \in 1..G : got[d][i] = log'[s + i]
        /\ \A i \in 1..Q : q[i] = log'[s + G + i]
        /\ \A i \in 1..P : printed[d][i] = log'[s + i]
    BY <1>4, <2>2, <2>3, <2>4
  <2>6. /\ \A i \in 1..Len(v.q) : v.q[i] = log'[s + G + i]
        /\ s + G + Len(v.q) <= N + 1
        /\ d \in participants => s + G + Len(v.q) = N + 1
        /\ Len(v.q) \in Nat /\ Q <= Len(v.q)
    <3>1. CASE d \in participants
      <4>1. v.q = Append(q, m) /\ Len(v.q) = Q + 1 /\ s + G + Q = N /\ s + G + (Q + 1) = N + 1
        <5>1. v.q = Append(q, m)
          BY <1>5, <3>1
        <5>2. s + G + Q = N
          BY <2>2, <3>1
        <5>3. s + G + (Q + 1) = N + 1
          BY <1>6, <2>2, <5>2
        <5> QED
          BY <1>3, <5>1, <5>2, <5>3
      <4>2. ASSUME NEW i \in 1..(Q + 1)
            PROVE  Append(q, m)[i] = log'[s + G + i]
        <5>1. CASE i \in 1..Q
          BY <1>3, <2>5, <5>1
        <5>2. CASE i = Q + 1
          BY <1>3, <1>4, <4>1, <5>2
        <5>3. i \in 1..Q \/ i = Q + 1
          BY <1>6
        <5> QED
          BY <5>1, <5>2, <5>3
      <4>3. N + 1 <= N + 1 /\ Q + 1 \in Nat /\ Q <= Q + 1
        BY <1>6
      <4>4. \A i \in 1..Len(v.q) : v.q[i] = log'[s + G + i]
        BY <4>1, <4>2
      <4> HIDE DEF v
      <4> QED
        BY <4>1, <4>3, <4>4
    <3>2. CASE d \notin participants
      <4>1. v.q = q /\ Len(v.q) = Q
        BY <1>5, <3>2 DEF Q
      <4>2. s + G + Q <= N + 1 /\ Q <= Q
        BY <1>6, <2>2
      <4>3. \A i \in 1..Len(v.q) : v.q[i] = log'[s + G + i]
        BY <2>5, <4>1
      <4> HIDE DEF v
      <4> QED
        BY <1>6, <3>2, <4>1, <4>2, <4>3
    <3> QED
      BY <3>1, <3>2
  <2>7. SessionInv(d)'
    <3>1. s' = s /\ Len(got'[d]) = G /\ DOMAIN got[d] = 1..G /\ DOMAIN v.q = 1..Len(v.q)
      BY <1>1, <1>5 DEF s, G
    <3> QED
      BY <1>4, <2>1, <2>2, <2>5, <2>6, <3>1 DEF SessionInv, s
  <2>8. DownInv(d)'
    <3> DEFINE live == client[d].st = "up" /\ d \notin broken
               e == HalfRead(client[d].reads)
               L == Len(toClient[d])
               T == Taken(w)
    <3>1. P <= G + Len(v.q)
      BY <1>6, <2>3, <2>6
    <3>2. live => InStep(toClient[d], log, s + P, e) /\ 2 * P + e + L = 2 * G + T
      BY <1>1, <1>8 DEF ClientInv, DownInv, s, P, G
    <3>3. T \in 0..2 /\ (T > 0 => Q > 0) /\ L \in Nat /\ e \in {0, 1} /\ s + P \in Nat
      <4>1. T \in 0..2 /\ (T > 0 => q # <<>>)
        BY <1>1, TakenInRange
      <4>2. q # <<>> => Q > 0
        BY <1>1 DEF Q
      <4>3. L \in Nat /\ e \in {0, 1}
        BY <1>1 DEF HalfRead
      <4>4. s + P \in Nat
        BY <1>6, <2>2
      <4> HIDE DEF T, L, e
      <4> QED
        BY <4>1, <4>2, <4>3, <4>4
    <3>4. live => 2 * (s + P) + e + L <= 2 * N
      <4> HIDE DEF live, e, L, T
      <4> QED
        BY <1>6, <2>2, <3>2, <3>3
    <3>5. live => InStep(toClient[d], log', s + P, e)
      <4> HIDE DEF live, e
      <4>1. live => Within(toClient[d], s + P, e, N)
        BY <3>4 DEF Within
      <4> QED
        BY ZenonT(40), <1>1, <1>4, <1>6, <3>2, <3>3, <4>1, MoreIsSaid
    <3>6. /\ s' = s /\ Len(printed'[d]) = P /\ DOMAIN printed[d] = 1..P /\ Len(got'[d]) = G
          /\ Taken(v) = T
      BY <1>1, <1>5 DEF s, G, P
    <3>7. /\ \A i \in DOMAIN printed'[d] : printed'[d][i] = log'[s' + i]
          /\ Len(printed'[d]) <= Len(got'[d]) + Len(v.q)
          /\ client'[d].st = "up" /\ d \notin broken' =>
               /\ InStep(toClient'[d], log', s' + Len(printed'[d]), HalfRead(client'[d].reads))
               /\ 2 * Len(printed'[d]) + HalfRead(client'[d].reads) + Len(toClient'[d])
                    = 2 * Len(got'[d]) + Taken(v)
      BY <2>5, <3>1, <3>2, <3>5, <3>6
    <3> QED
      BY <1>1, <1>8, <2>1, <3>7 DEF ClientInv, DownInv, s
  <2> QED
    BY <1>5, <2>7, <2>8
<1> QED
  BY <1>1, <1>7, <1>8, SessionParts

LEMMA SReadBodyKeeps ==
    ASSUME ChatInv, NEW c \in Clients, SReadBody(c)
    PROVE  ChatInv'
<1> DEFINE wire == toServer[c]
           m == wire[1][2]
           n == Said(c)
           r == Append(recent_msgs, m)
           ses == [session EXCEPT ![c].reads = "header"]
<1>1. /\ ClientInv(c) /\ session[c] \in SessionRecords /\ wire \in Seq(Units) /\ wire # <<>>
      /\ session[c].reads = "body" /\ toServer' = [toServer EXCEPT ![c] = Tail(@)]
      /\ session' = Deliver(ses, m) /\ recent_msgs' = Recent(r) /\ log' = Append(log, m)
      /\ UNCHANGED <<client, participants, toClient, broken, since, got, printed>>
      /\ recent_msgs \in Seq(Messages) /\ log \in Seq(Messages)
  BY OfOne DEF SReadBody
<1>2. session[c].st = "started" /\ n \in Nat /\ HalfRead("header") = 0 /\ HalfRead("body") = 1
  BY <1>1, SaidIsNat, SessionParts DEF ClientInv, SessionInv, HalfRead
<1>3. InStep(wire, Typed(c), n, 1)
  BY <1>1, <1>2 DEF ClientInv, UpInv
<1>4. m = <<c, n + 1>> /\ m \in Messages /\ InStep(Tail(wire), Typed(c), n + 1, 0)
  <2> HIDE DEF n
  <2>1. wire[1] = <<"body", Typed(c)[n + 1]>> /\ InStep(Tail(wire), Typed(c), n + 1, 0)
    BY <1>1, <1>2, <1>3, BodyComes
  <2>2. Typed(c)[n + 1] = <<c, n + 1>>
    BY <1>2 DEF Typed
  <2>3. wire[1] \in Units
    BY <1>1, OneLess
  <2> QED
    BY <2>1, <2>2, <2>3, UnitParts
<1>5. m[1] = c /\ m[2] = n + 1
  BY <1>4
<1> HIDE DEF m, n
<1>6. ASSUME NEW d \in Clients
      PROVE  /\ session'[d] \in SessionRecords /\ Heard(d, m)
             /\ session'[d].reads = IF d = c THEN "header" ELSE session[d].reads
             /\ OneWrite(session'[d].w)
  <2>1. session[d] \in SessionRecords /\ session[d].w \in Writer /\ OneWrite(session[d].w)
    BY OfOne DEF ClientInv
  <2>2. /\ ses[d] \in SessionRecords /\ ses[d].st = session[d].st /\ ses[d].w = session[d].w
        /\ ses[d].reads = IF d = c THEN "header" ELSE session[d].reads
    BY <2>1, SessionParts DEF ChatInv, ChatTypes, SessionRecords, Reading
  <2> HIDE DEF ses
  <2>3. session'[d] = IF d \in participants THEN [ses[d] EXCEPT !.w = Pushed(@, m)] ELSE ses[d]
    BY <1>1 DEF Deliver
  <2>4. Pushed(session[d].w, m) \in Writer /\ OneWrite(Pushed(session[d].w, m))
    BY <1>4, <2>1, PushKeeps
  <2>5. CASE d \in participants
    <3>1. /\ session'[d] = [ses[d] EXCEPT !.w = Pushed(session[d].w, m)]
          /\ ses[d] \in SessionRecords
      BY <2>2, <2>3, <2>5
    <3>2. /\ session'[d] \in SessionRecords /\ session'[d].st = ses[d].st
          /\ session'[d].reads = ses[d].reads /\ session'[d].w = Pushed(session[d].w, m)
      BY <2>4, <3>1 DEF SessionRecords
    <3> QED
      BY <2>2, <2>4, <2>5, <3>2 DEF Heard
  <2>6. CASE d \notin participants
    BY <2>1, <2>2, <2>3, <2>6 DEF Heard
  <2> QED
    BY <2>5, <2>6
<1>7. PICK N \in Nat : N = Len(log)
  <2>1. Len(log) \in Nat
    BY <1>1, LenProperties
  <2> QED
    BY <2>1
<1>8. /\ Len(log') = N + 1 /\ log'[N + 1] = m /\ log' \in Seq(Messages)
      /\ \A i \in 1..N : log'[i] = log[i]
  BY <1>1, <1>4, <1>7, OneMore
<1>9. /\ Said(c)' = n + 1
      /\ \A d \in Clients : d # c => Said(d)' = Said(d)
      /\ \A d \in Clients : \A i \in 1..N : SaidBy(d, i)' = SaidBy(d, i)
      /\ Said(c)' = Cardinality(SaidBy(c, N + 1)')
  BY <1>1, <1>4, <1>5, <1>7, OneMoreSaid DEF n
<1>10. /\ r \in Seq(Messages) /\ Len(r) = Len(recent_msgs) + 1 /\ r[Len(recent_msgs) + 1] = m
       /\ \A i \in 1..Len(recent_msgs) : r[i] = recent_msgs[i]
  BY <1>1, <1>4, OneMore
<1> HIDE DEF r, ses
<1>11. /\ Len(r) <= Len(log') /\ \A i \in DOMAIN r : r[i] = log'[Len(log') - Len(r) + i]
  <2> DEFINE k == Len(recent_msgs)
  <2>1. k \in Nat /\ k <= N /\ \A i \in 1..k : recent_msgs[i] = log[N - k + i]
    <3>1. RoomInv /\ k \in Nat /\ DOMAIN recent_msgs = 1..k
      BY <1>1 DEF ChatInv
    <3>2. k <= N
      BY <1>7, <3>1 DEF RoomInv
    <3>3. \A i \in 1..k : recent_msgs[i] = log[N - k + i]
      BY <1>7, <3>1 DEF RoomInv
    <3> QED
      BY <3>1, <3>2, <3>3
  <2>2. Len(r) = k + 1 /\ DOMAIN r = 1..(k + 1)
    BY <1>10
  <2> HIDE DEF k
  <2>3. k + 1 <= N + 1 /\ (N + 1) - (k + 1) = N - k
    BY <2>1
  <2>4. ASSUME NEW i \in 1..(k + 1)
        PROVE  r[i] = log'[N - k + i]
    <3>1. CASE i \in 1..k
      <4>1. N - k + i \in 1..N
        BY <2>1, <3>1
      <4> QED
        BY <1>8, <1>10, <2>1, <3>1, <4>1 DEF k
    <3>2. CASE i = k + 1
      <4>1. N - k + i = N + 1
        BY <2>1, <3>2
      <4> QED
        BY <1>8, <1>10, <3>2, <4>1 DEF k
    <3>3. i \in 1..k \/ i = k + 1
      BY <2>1
    <3> QED
      BY <3>1, <3>2, <3>3
  <2> QED
    BY <1>8, <2>2, <2>3, <2>4
<1>12. /\ recent_msgs' \in Seq(Messages) /\ Len(recent_msgs') <= Len(log')
       /\ \A i \in DOMAIN recent_msgs' :
             recent_msgs'[i] = log'[Len(log') - Len(recent_msgs') + i]
  <2>1. r \in Seq(Messages) /\ log' \in Seq(Messages)
    BY <1>8, <1>10
  <2>2. /\ Recent(r) \in Seq(Messages) /\ Len(Recent(r)) <= Len(log')
        /\ \A i \in DOMAIN Recent(r) : Recent(r)[i] = log'[Len(log') - Len(Recent(r)) + i]
    BY <1>11, <2>1, RecentIsTheEnd
  <2>3. recent_msgs' = Recent(r)
    BY <1>1
  <2> QED
    BY <2>2, <2>3
<1>13. ChatTypes'
  <2>1. session' \in [Clients -> SessionRecords]
    <3>1. session' = [d \in Clients |-> session'[d]]
      BY <1>1 DEF Deliver
    <3> QED
      BY <1>6, <3>1
  <2>2. toServer' \in [Clients -> Seq(Units)]
    <3>1. Tail(wire) \in Seq(Units)
      BY <1>1, OneLess
    <3> QED
      BY <1>1, <3>1 DEF ChatInv, ChatTypes
  <2> QED
    BY <1>1, <1>8, <1>12, <2>1, <2>2 DEF ChatInv, ChatTypes
<1>14. RoomInv'
  <2>1. \A d \in participants : d \in Clients /\ session[d].st = "started"
    BY DEF ChatInv, ChatTypes, RoomInv
  <2>2. \A d \in participants' : session'[d].st = "started"
    BY <1>1, <1>6, <2>1 DEF Heard
  <2> QED
    BY <1>12, <2>2 DEF RoomInv
<1>15. InOrderInv'
  <2>1. ASSUME NEW d \in Clients, NEW i \in 1..(N + 1), log'[i][1] = d
        PROVE  log'[i][2] = Cardinality(SaidBy(d, i)')
    <3>1. CASE i \in 1..N
      <4>1. log[i][1] = d => log[i][2] = Cardinality(SaidBy(d, i))
        <5>1. DOMAIN log = 1..N
          BY <1>1, <1>7
        <5>2. InOrderInv
          BY DEF ChatInv
        <5> QED
          BY <3>1, <5>1, <5>2 DEF InOrderInv
      <4> QED
        BY <1>8, <1>9, <2>1, <3>1, <4>1
    <3>2. CASE i = N + 1
      <4>1. d = c /\ log'[i][2] = n + 1
        BY <1>5, <1>8, <2>1, <3>2
      <4> QED
        BY <1>9, <3>2, <4>1
    <3>3. i \in 1..N \/ i = N + 1
      OBVIOUS
    <3> QED
      BY <3>1, <3>2, <3>3
  <2>2. DOMAIN log' = 1..(N + 1)
    BY <1>8
  <2> QED
    BY <2>1, <2>2 DEF InOrderInv
<1>16. ASSUME NEW d \in Clients
       PROVE  ClientInv(d)'
  <2>1. ClientInv(d) /\ PostedInv(d)' /\ LinesRun(d)' = LinesRun(d)
    BY <1>1, OfOne, PostedStays
  <2>2. toServer'[d] = (IF d = c THEN Tail(wire) ELSE toServer[d]) /\ (c \notin broken)
    <3>1. c \notin broken
      BY <1>1, <1>2 DEF ClientInv, DownInv
    <3> QED
      BY <1>1, <3>1 DEF ChatInv, ChatTypes
  <2>3. SessionInv(d)' /\ DownInv(d)'
    <3>1. session[d].st = "none" => session'[d].reads = session[d].reads
      BY <1>2, <1>6
    <3>2. d \in broken => toServer'[d] = toServer[d]
      BY <2>2
    <3> QED
      BY <1>1, <1>4, <1>6, <3>1, <3>2, HearsIt
  <2>4. UpInv(d)'
    <3>1. CASE d = c
      <4> DEFINE L == Len(wire)
                 less == Len(Tail(wire))
                 sum == 2 * (LinesRun(c) - Len(client[c].w.q)) + Taken(client[c].w)
      <4>1. /\ client[c].st = "up" /\ c \notin broken => 2 * n + 1 + L = sum
            /\ client[c].st # "connecting"
        BY <1>1, <1>2 DEF ClientInv, UpInv, DownInv, n
      <4>2. L \in Nat /\ less = L - 1
        BY <1>1, OneLess
      <4>3. client[c].st = "up" /\ c \notin broken => 2 * (n + 1) + 0 + less = sum
        <5> HIDE DEF L, less, sum
        <5> QED
          BY <1>2, <4>1, <4>2
      <4>4. session'[c].reads = "header"
        BY <1>6
      <4> QED
        BY ZenonT(40), <1>1, <1>2, <1>4, <1>9, <2>1, <2>2, <3>1, <4>1, <4>3, <4>4
           DEF ClientInv, UpInv, Typed
    <3>2. CASE d # c
      <4>1. /\ Said(d)' = Said(d) /\ session'[d].reads = session[d].reads
            /\ session'[d].st = session[d].st
        BY <1>6, <1>9, <3>2 DEF Heard
      <4> QED
        BY <1>1, <2>1, <2>2, <3>2, <4>1 DEF ClientInv, UpInv, Typed
    <3> QED
      BY <3>1, <3>2
  <2> QED
    BY <1>1, <1>6, <2>1, <2>3, <2>4 DEF ClientInv
<1> QED
  BY <1>13, <1>14, <1>15, <1>16 DEF ChatInv

LEMMA ChatStarts == ChatInit => ChatInv
<1> SUFFICES ASSUME ChatInit PROVE ChatInv
  OBVIOUS
<1> DEFINE se == [st |-> "none", reads |-> "no", w |-> NoWriter]
           cl == [st |-> "connecting", reads |-> "no", w |-> NoWriter, posted |-> <<>>,
                  typed |-> 0, input |-> TRUE, runs |-> TRUE]
<1>1. /\ client = [c \in Clients |-> cl] /\ session = [c \in Clients |-> se]
      /\ participants = {} /\ recent_msgs = <<>> /\ broken = {} /\ log = <<>>
      /\ toServer = [c \in Clients |-> <<>>] /\ toClient = [c \in Clients |-> <<>>]
      /\ since = [c \in Clients |-> 0]
      /\ got = [c \in Clients |-> <<>>] /\ printed = [c \in Clients |-> <<>>]
  BY DEF ChatInit, ForEach
<1>2. /\ NoWriter \in Writer /\ OneWrite(NoWriter) /\ NoWriter.q = <<>> /\ Taken(NoWriter) = 0
      /\ Len(<<>>) = 0 /\ DOMAIN <<>> = {}
  BY DEF NoWriter, Writer, OneWrite, Taken
<1>3. /\ se \in SessionRecords /\ se.st = "none" /\ se.reads = "no" /\ se.w = NoWriter
      /\ cl \in ClientRecords /\ cl.st = "connecting" /\ cl.reads = "no" /\ cl.w = NoWriter
      /\ cl.posted = <<>> /\ cl.typed = 0
  BY <1>2 DEF SessionRecords, ClientRecords, Reading
<1> HIDE DEF se, cl
<1>4. ChatTypes
  BY <1>1, <1>3, ChatAssumption DEF ChatTypes
<1>5. RoomInv /\ InOrderInv
  BY <1>1, <1>2 DEF RoomInv, InOrderInv
<1>6. ASSUME NEW c \in Clients
      PROVE  ClientInv(c)
  <2>1. OneWrite(client[c].w) /\ OneWrite(session[c].w) /\ SessionInv(c)
    BY <1>1, <1>2, <1>3 DEF SessionInv
  <2>2. DownInv(c)
    BY <1>1, <1>2, <1>3 DEF DownInv
  <2>3. LinesPosted(c) = 0 /\ LinesRun(c) = 0
    BY <1>1, <1>2, <1>3 DEF LinesPosted, LinesRun
  <2>4. PostedInv(c)
    BY <1>1, <1>2, <1>3, <2>3 DEF PostedInv
  <2>5. Said(c) = 0
    <3>1. SaidBy(c, 0) = {}
      BY DEF SaidBy
    <3> QED
      BY <1>1, <1>2, <3>1, FS_EmptySet DEF Said
  <2>6. UpInv(c)
    <3>1. InStep(<<>>, Typed(c), Said(c), HalfRead(session[c].reads))
      BY NothingGoes
    <3> QED
      BY <1>1, <1>2, <1>3, <2>3, <2>5, <3>1 DEF UpInv
  <2> QED
    BY <2>1, <2>2, <2>4, <2>6 DEF ClientInv
<1> QED
  BY <1>4, <1>5, <1>6 DEF ChatInv

LEMMA NothingHappens == ASSUME ChatInv, UNCHANGED chatVars PROVE ChatInv'
<1>1. UNCHANGED <<client, session, participants, recent_msgs, log, since, toServer, toClient,
                  broken, got, printed>>
  BY DEF chatVars, roomVars, wireVars
<1>2. ChatTypes' /\ RoomInv'
  BY <1>1 DEF ChatInv, ChatTypes, RoomInv
<1>3. InOrderInv'
  BY <1>1 DEF ChatInv, InOrderInv, SaidBy
<1>4. ASSUME NEW c \in Clients
      PROVE  ClientInv(c)'
  BY <1>1, OthersStay DEF AsBefore, ChatInv
<1> QED
  BY <1>2, <1>3, <1>4 DEF ChatInv

LEMMA ChatSteps == ASSUME ChatInv, [ChatNext]_chatVars PROVE ChatInv'
<1>1. CASE UNCHANGED chatVars
  BY <1>1, NothingHappens
<1>2. ASSUME NEW c \in Clients, ServerStep(c)
      PROVE  ChatInv'
  BY <1>2, AcceptKeeps, SReadErrorKeeps, SReadHeaderKeeps, SReadBodyKeeps, SWrittenKeeps,
     SWriteErrorKeeps DEF ServerStep
<1>3. ASSUME NEW c \in Clients, IoStep(c)
      PROVE  ChatInv'
  BY <1>3, ConnectKeeps, RunKeeps, ReadErrorKeeps, HeaderKeeps, BodyKeeps, CWrittenKeeps,
     CWriteErrorKeeps, ReturnKeeps DEF IoStep
<1>4. ASSUME NEW c \in Clients,
             \/ Type(c) \/ EndOfInput(c) \/ SendUp(c) \/ SendDown(c) \/ Break(c)
      PROVE  ChatInv'
  BY <1>4, TypeKeeps, EndKeeps, SendUpKeeps, SendDownKeeps, BreakKeeps
<1> QED
  BY <1>1, <1>2, <1>3, <1>4 DEF ChatNext

LEMMA ChatHolds == ChatSpec => []ChatInv
<1>1. ChatInv /\ [ChatNext]_chatVars => ChatInv'
  BY ChatSteps
<1> QED
  BY <1>1, ChatStarts, PTL DEF ChatSpec

-----------------------------------------------------------------------------
(* Segments.                                                               *)

LEMMA ASegment ==
    ASSUME NEW S, NEW h \in Seq(S), NEW l \in Seq(S), NEW a \in Nat, a + Len(h) <= Len(l),
           \A i \in 1..Len(h) : h[i] = l[a + i]
    PROVE  h = SubSeq(l, a + 1, a + Len(h))
<1> DEFINE k == Len(h)
           n == Len(l)
           b == a + 1
           d == a + k
           t == SubSeq(l, b, d)
<1>1. k \in Nat /\ n \in Nat /\ a + k <= n
  OBVIOUS
<1> HIDE DEF k, n
<1>2. /\ b \in Int /\ d \in Int /\ (b <= d \/ k = 0) /\ d - b + 1 = k
      /\ \A i \in b..d : i \in 1..n
      /\ \A i \in 1..k : b + i - 1 = a + i
      /\ b <= d <=> k # 0
  BY <1>1
<1> HIDE DEF b, d
<1>3. \A i \in b..d : l[i] \in S
  BY <1>2 DEF n
<1>4. /\ t \in Seq(S) /\ Len(t) = (IF b <= d THEN d - b + 1 ELSE 0)
      /\ \A i \in 1..(d - b + 1) : t[i] = l[b + i - 1]
  BY <1>2, <1>3, SubSeqProperties
<1>5. Len(t) = k
  BY <1>1, <1>2, <1>4
<1>6. \A i \in 1..k : t[i] = h[i]
  BY <1>2, <1>4 DEF k
<1> HIDE DEF t
<1>7. h = t
  BY <1>4, <1>5, <1>6, SeqEqual DEF k
<1> QED
  BY <1>7 DEF t, b, d, k

LEMMA APrefix ==
    ASSUME NEW S, NEW p \in Seq(S), NEW h \in Seq(S), Len(p) <= Len(h),
           \A i \in 1..Len(p) : p[i] = h[i]
    PROVE  IsPrefix(p, h)
<1>1. Len(p) \in Nat /\ 0 + Len(p) = Len(p) /\ 0 + 1 = 1 /\ \A i \in 1..Len(p) : 0 + i = i
  OBVIOUS
<1>2. p = SubSeq(h, 0 + 1, 0 + Len(p))
  BY <1>1, ASegment
<1>3. p = SubSeq(p, 0 + 1, 0 + Len(p))
  BY <1>1, ASegment
<1> QED
  BY <1>1, <1>2, <1>3 DEF IsPrefix

(* What a session has written and has still to write.                      *)
LEMMA HeardIsASegment ==
    ASSUME ChatInv, NEW c \in Clients, session[c].st = "started"
    PROVE  LET heard == got[c] \o session[c].w.q
               s == since[c] - 1
           IN /\ heard \in Seq(Messages) /\ Len(heard) = Len(got[c]) + Len(session[c].w.q)
              /\ s \in Nat /\ s + Len(heard) <= Len(log)
              /\ \A i \in 1..Len(heard) : heard[i] = log[s + i]
              /\ c \in participants => s + Len(heard) = Len(log)
<1> DEFINE q == session[c].w.q
           heard == got[c] \o q
           s == since[c] - 1
           G == Len(got[c])
           Q == Len(q)
           N == Len(log)
<1>1. got[c] \in Seq(Messages) /\ q \in Seq(Messages) /\ log \in Seq(Messages) /\ ClientInv(c)
  BY OfOne
<1>2. /\ s \in Nat
      /\ \A i \in 1..G : got[c][i] = log[s + i]
      /\ \A i \in 1..Q : q[i] = log[s + G + i]
      /\ s + G + Q <= N
      /\ c \in participants => s + G + Q = N
  BY <1>1 DEF ClientInv, SessionInv
<1>3. G \in Nat /\ Q \in Nat /\ N \in Nat
  BY <1>1
<1>4. /\ heard \in Seq(Messages) /\ Len(heard) = G + Q
      /\ \A i \in 1..(G + Q) : heard[i] = IF i <= G THEN got[c][i] ELSE q[i - G]
  BY <1>1, ConcatProperties
<1> HIDE DEF heard, s, G, Q, N, q
<1>5. ASSUME NEW i \in 1..(G + Q)
      PROVE  heard[i] = log[s + i]
  <2>1. CASE i <= G
    <3>1. i \in 1..G
      BY <1>3, <2>1
    <3> QED
      BY <1>2, <1>4, <2>1, <3>1
  <2>2. CASE ~(i <= G)
    <3>1. i - G \in 1..Q /\ s + G + (i - G) = s + i
      BY <1>2, <1>3, <2>2
    <3>2. heard[i] = q[i - G] /\ q[i - G] = log[s + G + (i - G)]
      BY <1>2, <1>4, <2>2, <3>1
    <3> QED
      BY <3>1, <3>2
  <2> QED
    BY <2>1, <2>2
<1>6. s + (G + Q) = s + G + Q
  BY <1>2, <1>3
<1> QED
  BY <1>2, <1>4, <1>5, <1>6 DEF heard, s, G, Q, N, q

(* Every participant of the room is given every message it delivers, once, *)
(* in order and without a gap, from the history it heard when it joined    *)
(* on; whoever has left was given a segment up to that moment.             *)
THEOREM NobodyMissesOne == ChatSpec => []NoGaps
<1>1. ASSUME ChatInv
      PROVE  NoGaps
  <2>1. ASSUME NEW c \in Clients, session[c].st = "started"
        PROVE  LET heard == got[c] \o session[c].w.q
               IN /\ heard = SubSeq(log, since[c], since[c] + Len(heard) - 1)
                  /\ since[c] + Len(heard) - 1 <= Len(log)
                  /\ c \in participants => since[c] + Len(heard) - 1 = Len(log)
    <3> DEFINE heard == got[c] \o session[c].w.q
               s == since[c] - 1
               h == Len(heard)
    <3> HIDE DEF heard
    <3>1. /\ heard \in Seq(Messages) /\ s \in Nat /\ s + h <= Len(log)
          /\ \A i \in 1..h : heard[i] = log[s + i]
          /\ c \in participants => s + h = Len(log)
      BY <1>1, <2>1, HeardIsASegment DEF heard
    <3>2. log \in Seq(Messages) /\ since[c] \in Nat /\ h \in Nat
      BY <1>1, <3>1, OfOne
    <3>3. heard = SubSeq(log, s + 1, s + h)
      <4> HIDE DEF s
      <4> QED
        BY <3>1, <3>2, ASegment
    <3>4. s + 1 = since[c] /\ s + h = since[c] + h - 1
      <4> HIDE DEF h
      <4> QED
        BY <3>2
    <3>5. /\ heard = SubSeq(log, since[c], since[c] + h - 1)
          /\ since[c] + h - 1 <= Len(log)
          /\ c \in participants => since[c] + h - 1 = Len(log)
      <4> HIDE DEF s, h
      <4> QED
        BY <3>1, <3>3, <3>4
    <3> QED
      BY <3>5 DEF heard
  <2> QED
    BY <2>1 DEF NoGaps
<1> QED
  BY <1>1, ChatHolds, PTL

(* The writes of a connection never mix, in either direction, though a     *)
(* message is two units and a queue of them may wait: a client prints the  *)
(* messages its session wrote, and the room hears a user's lines as typed. *)
THEOREM WritesNeverMix == ChatSpec => []NothingMixes
<1>1. ASSUME ChatInv
      PROVE  NothingMixes
  <2>1. ASSUME NEW c \in Clients
        PROVE  IsPrefix(printed[c], got[c] \o session[c].w.q)
    <3>1. /\ printed[c] \in Seq(Messages) /\ got[c] \in Seq(Messages) /\ ClientInv(c)
          /\ session[c].w.q \in Seq(Messages) /\ session[c] \in SessionRecords
      BY <1>1, OfOne
    <3> DEFINE heard == got[c] \o session[c].w.q
    <3>2. heard \in Seq(Messages) /\ Len(heard) = Len(got[c]) + Len(session[c].w.q)
      BY <3>1, ConcatProperties
    <3> HIDE DEF heard
    <3> DEFINE p == Len(printed[c])
               h == Len(heard)
    <3>a. p \in Nat /\ h \in Nat
      BY <3>1, <3>2, LenProperties
    <3>3. CASE session[c].st = "none"
      <4>1. p = 0
        BY <3>1, <3>3 DEF ClientInv, SessionInv
      <4>2. p <= h /\ \A i \in 1..p : printed[c][i] = heard[i]
        <5> HIDE DEF p, h
        <5> QED
          BY <3>a, <4>1
      <4> QED
        BY <3>1, <3>2, <4>2, APrefix DEF heard
    <3>4. CASE session[c].st = "started"
      <4>1. \A i \in 1..Len(heard) : heard[i] = log[since[c] - 1 + i]
        BY <1>1, <3>4, HeardIsASegment DEF heard
      <4>2. /\ \A i \in 1..Len(printed[c]) : printed[c][i] = log[since[c] - 1 + i]
            /\ Len(printed[c]) <= Len(heard)
        <5>1. \A i \in DOMAIN printed[c] : printed[c][i] = log[since[c] - 1 + i]
          BY <3>1, <3>4 DEF ClientInv, DownInv
        <5>2. Len(printed[c]) <= Len(heard)
          BY <3>1, <3>2, <3>4 DEF ClientInv, DownInv
        <5>3. DOMAIN printed[c] = 1..Len(printed[c])
          BY <3>1
        <5> QED
          BY <5>1, <5>2, <5>3
      <4>3. \A i \in 1..p : i \in 1..h
        <5>1. p <= h
          BY <4>2
        <5> HIDE DEF p, h
        <5> QED
          BY <3>a, <5>1
      <4> QED
        BY <3>1, <3>2, <4>1, <4>2, <4>3, APrefix DEF heard
    <3> QED
      BY <3>1, <3>3, <3>4, SessionParts
  <2>2. ASSUME NEW c \in Clients, NEW i \in DOMAIN log, log[i][1] = c
        PROVE  log[i][2] = Cardinality({j \in 1..i : log[j][1] = c})
    BY <1>1, <2>2 DEF ChatInv, InOrderInv, SaidBy
  <2> QED
    BY <2>1, <2>2 DEF NothingMixes
<1> QED
  BY <1>1, ChatHolds, PTL

-----------------------------------------------------------------------------
(* UnstablePool.                                                           *)

USE UnstableAssumption

(* The pool is alive only while main adds; what has started and what is *)
(* queued are the jobs 1, 2, ... in this order.                            *)
InSequence ==
    /\ keepalive => mpc = "add"
    /\ Len(started) + Len(jobqueue) <= added
    /\ mpc = "add" => Len(started) + Len(jobqueue) = added
    /\ \A i \in 1..Len(started) : started[i] = i
    /\ \A i \in 1..Len(jobqueue) : jobqueue[i] = Len(started) + i

Tokens == keepalive => queueSem + Cardinality(Holding) = Len(jobqueue) + 1

PoolInv == UnstableTypeOK /\ InSequence /\ Tokens

LEMMA HoldingIsFinite == IsFiniteSet(Holding) /\ Cardinality(Holding) \in Nat
<1>1. Holding \subseteq Threads
  BY DEF Holding
<1>2. IsFiniteSet(Holding)
  BY <1>1, FS_Subset
<1> QED
  BY <1>2, FS_CardinalityType

LEMMA PoolStarts == UnstableInit => PoolInv
<1> SUFFICES ASSUME UnstableInit PROVE PoolInv
  OBVIOUS
<1>1. UnstableTypeOK
  <2>1. keepalive \in BOOLEAN /\ crashed \in BOOLEAN
    BY Zenon DEF UnstableInit
  <2>2. /\ queueSem \in Nat /\ jobqueue \in Seq(1..JobN) /\ started \in Seq(1..JobN)
        /\ wpc \in [Threads -> {"while", "wait", "test", "take", "run", "returned"}]
        /\ mpc \in {"add", "destroy", "join", "done"} /\ added \in 0..JobN
    BY DEF UnstableInit
  <2> QED
    BY <2>1, <2>2 DEF UnstableTypeOK
<1>0. InSequence
  BY DEF UnstableInit, InSequence
<1>2. Holding = {}
  BY DEF UnstableInit, Holding
<1>3. Tokens
  BY <1>2, FS_EmptySet DEF UnstableInit, Tokens
<1> QED
  BY <1>0, <1>1, <1>3 DEF PoolInv

(* A worker moves without a token changing hands.                          *)
LEMMA SameHolders ==
    ASSUME UnstableTypeOK, NEW t \in Threads, NEW from, NEW to, Goes(t, from, to),
           from \in {"test", "take"} <=> to \in {"test", "take"}
    PROVE  Holding' = Holding
BY DEF UnstableTypeOK, Goes, Holding

LEMMA GoesIsTyped ==
    ASSUME UnstableTypeOK, NEW t \in Threads, NEW from,
           NEW to \in {"while", "wait", "test", "take", "run", "returned"}, Goes(t, from, to)
    PROVE  wpc' \in [Threads -> {"while", "wait", "test", "take", "run", "returned"}]
BY DEF UnstableTypeOK, Goes

LEMMA PoolStep == PoolInv /\ [UnstableNext]_unstableVars => PoolInv'
<1> SUFFICES ASSUME PoolInv, [UnstableNext]_unstableVars PROVE PoolInv'
  OBVIOUS
<1>0. UnstableTypeOK /\ InSequence /\ Tokens
  BY DEF PoolInv
<1>1. ASSUME NEW t \in Threads, WhileKeepalive(t) PROVE PoolInv'
  <2>1. Holding' = Holding
    BY <1>0, <1>1, SameHolders DEF WhileKeepalive
  <2>2. wpc' \in [Threads -> {"while", "wait", "test", "take", "run", "returned"}]
    BY <1>0, <1>1, GoesIsTyped DEF WhileKeepalive
  <2> QED
    BY <1>0, <1>1, <2>1, <2>2
       DEF PoolInv, UnstableTypeOK, InSequence, Tokens, WhileKeepalive
<1>2. ASSUME NEW t \in Threads, SemWait(t) PROVE PoolInv'
  <2>1. wpc' \in [Threads -> {"while", "wait", "test", "take", "run", "returned"}]
    BY <1>0, <1>2, GoesIsTyped DEF SemWait
  <2>2. Holding' = Holding \cup {t} /\ t \notin Holding
    BY <1>0, <1>2 DEF SemWait, Goes, Holding, UnstableTypeOK
  <2>3. Cardinality(Holding') = Cardinality(Holding) + 1
    BY <2>2, HoldingIsFinite, FS_AddElement
  <2>4. queueSem' = queueSem - 1 /\ queueSem' \in Nat
    BY <1>0, <1>2 DEF SemWait, UnstableTypeOK
  <2>5. Tokens'
    BY <1>0, <1>2, <2>3, <2>4, HoldingIsFinite DEF Tokens, SemWait, UnstableTypeOK
  <2> QED
    BY <1>0, <1>2, <2>1, <2>4, <2>5 DEF PoolInv, UnstableTypeOK, InSequence, SemWait
<1>3. ASSUME NEW t \in Threads, TestKeepalive(t) PROVE PoolInv'
  <2>1. wpc' \in [Threads -> {"while", "wait", "test", "take", "run", "returned"}]
    BY <1>0, <1>3, GoesIsTyped DEF TestKeepalive
  <2>2. keepalive => Holding' = Holding
    BY <1>0, <1>3, SameHolders DEF TestKeepalive
  <2> QED
    BY <1>0, <1>3, <2>1, <2>2
       DEF PoolInv, UnstableTypeOK, InSequence, Tokens, TestKeepalive
<1>4. ASSUME NEW t \in Threads, TakeLast(t) PROVE PoolInv'
  <2>1. wpc' \in [Threads -> {"while", "wait", "test", "take", "run", "returned"}]
    BY <1>0, <1>4, GoesIsTyped DEF TakeLast
  <2>2. /\ Len(jobqueue) \in Nat \ {0}
        /\ jobqueue[1] = Len(started) + 1 /\ jobqueue[1] \in 1..JobN
    BY <1>0, <1>4 DEF TakeLast, UnstableTypeOK, InSequence
  <2>3. /\ jobqueue' \in Seq(1..JobN) /\ Len(jobqueue') = Len(jobqueue) - 1
        /\ \A i \in 1..Len(jobqueue') : jobqueue'[i] = jobqueue[i + 1]
    BY <1>0, <1>4, <2>2 DEF TakeLast, UnstableTypeOK
  <2>4. /\ started' \in Seq(1..JobN) /\ Len(started') = Len(started) + 1
        /\ \A i \in 1..Len(started') : started'[i] = i
    BY <1>0, <1>4, <2>2 DEF TakeLast, UnstableTypeOK, InSequence
  <2>5. InSequence'
    <3>1. \A i \in 1..Len(jobqueue') : jobqueue'[i] = Len(started') + i
      BY <1>0, <2>2, <2>3, <2>4 DEF InSequence, UnstableTypeOK
    <3>2. keepalive' => mpc' = "add"
      BY <1>0, <1>4, Zenon DEF InSequence, TakeLast
    <3>3. /\ Len(started') + Len(jobqueue') <= added'
          /\ mpc' = "add" => Len(started') + Len(jobqueue') = added'
      <4>1. /\ Len(started) \in Nat /\ added \in Nat
            /\ Len(started) + Len(jobqueue) <= added
            /\ mpc = "add" => Len(started) + Len(jobqueue) = added
        BY <1>0 DEF InSequence, UnstableTypeOK
      <4>2. added' = added /\ mpc' = mpc
        BY <1>4 DEF TakeLast
      <4>3. Len(jobqueue') = Len(jobqueue) - 1 /\ Len(started') = Len(started) + 1
        BY <2>3, <2>4
      <4>4. Len(started') + Len(jobqueue') = Len(started) + Len(jobqueue)
        BY <2>2, <4>1, <4>3
      <4> QED
        BY <4>1, <4>2, <4>4
    <3> QED
      BY <2>4, <3>1, <3>2, <3>3 DEF InSequence
  <2>6. Holding' = Holding \ {t} /\ t \in Holding
    BY <1>0, <1>4 DEF TakeLast, Goes, Holding, UnstableTypeOK
  <2>7. Cardinality(Holding') = Cardinality(Holding) - 1
    BY <2>6, HoldingIsFinite, FS_RemoveElement
  <2>8. Tokens'
    BY <1>0, <1>4, <2>2, <2>3, <2>7, HoldingIsFinite DEF Tokens, TakeLast, UnstableTypeOK
  <2> QED
    BY <1>0, <1>4, <2>1, <2>3, <2>4, <2>5, <2>8 DEF PoolInv, UnstableTypeOK, TakeLast
<1>5. ASSUME NEW t \in Threads, TakeNothing(t) PROVE PoolInv'
  <2>1. Holding' = Holding
    BY <1>0, <1>5, SameHolders DEF TakeNothing
  <2>2. wpc' \in [Threads -> {"while", "wait", "test", "take", "run", "returned"}]
    BY <1>0, <1>5, GoesIsTyped DEF TakeNothing
  <2> QED
    BY <1>0, <1>5, <2>1, <2>2
       DEF PoolInv, UnstableTypeOK, InSequence, Tokens, TakeNothing
<1>6. ASSUME NEW t \in Threads, RunJob(t) PROVE PoolInv'
  <2>1. Holding' = Holding
    BY <1>0, <1>6, SameHolders DEF RunJob
  <2>2. wpc' \in [Threads -> {"while", "wait", "test", "take", "run", "returned"}]
    BY <1>0, <1>6, GoesIsTyped DEF RunJob
  <2> QED
    BY <1>0, <1>6, <2>1, <2>2 DEF PoolInv, UnstableTypeOK, InSequence, Tokens, RunJob
<1>7. CASE AddWork
  <2>1. Holding' = Holding
    BY <1>7 DEF AddWork, Holding
  <2>2. /\ added + 1 \in 1..JobN /\ Len(jobqueue) \in Nat /\ Len(started) \in Nat
        /\ Len(started) + Len(jobqueue) = added
    BY <1>0, <1>7 DEF AddWork, UnstableTypeOK, InSequence
  <2>3. /\ jobqueue' \in Seq(1..JobN) /\ Len(jobqueue') = Len(jobqueue) + 1
        /\ \A i \in 1..Len(jobqueue') : jobqueue'[i] = Len(started) + i
    BY <1>0, <1>7, <2>2 DEF AddWork, UnstableTypeOK, InSequence
  <2>4. Tokens'
    <3>1. queueSem' = queueSem + 1 /\ keepalive' = keepalive
      BY <1>7 DEF AddWork, PostsJob
    <3>2. /\ Cardinality(Holding) \in Nat /\ queueSem \in Nat /\ Len(jobqueue) \in Nat
          /\ Holding' = Holding /\ Len(jobqueue') = Len(jobqueue) + 1
      BY <1>0, <2>1, <2>2, <2>3, HoldingIsFinite DEF UnstableTypeOK
    <3>3. queueSem + Cardinality(Holding) = Len(jobqueue) + 1
            => queueSem' + Cardinality(Holding') = Len(jobqueue') + 1
      BY <3>1, <3>2
    <3> QED
      BY <1>0, <3>1, <3>3, Zenon DEF Tokens
  <2>5. InSequence'
    BY <1>0, <1>7, <2>2, <2>3 DEF AddWork, InSequence, UnstableTypeOK
  <2>6. UnstableTypeOK'
    BY <1>0, <1>7, <2>2, <2>3 DEF AddWork, PostsJob, UnstableTypeOK
  <2> QED
    BY <2>4, <2>5, <2>6 DEF PoolInv
<1>8. CASE EndKeepalive
  BY <1>0, <1>8 DEF PoolInv, EndKeepalive, UnstableTypeOK, InSequence, Tokens
<1>9. CASE WakeAll
  <2>1. queueSem' \in Nat
    BY <1>0, <1>9, FS_CardinalityType DEF WakeAll, Posts, UnstableTypeOK
  <2> QED
    BY <1>0, <1>9, <2>1 DEF PoolInv, WakeAll, UnstableTypeOK, InSequence, Tokens
<1>10. CASE Joined
  BY <1>0, <1>10 DEF PoolInv, Joined, UnstableTypeOK, InSequence, Tokens
<1>11. CASE UNCHANGED unstableVars
  BY <1>0, <1>11 DEF PoolInv, unstableVars, UnstableTypeOK, InSequence, Tokens, Holding
<1> QED
  BY <1>1, <1>2, <1>3, <1>4, <1>5, <1>6, <1>7, <1>8, <1>9, <1>10, <1>11
     DEF UnstableNext, UnstableMain, Worker

LEMMA PoolInvariance == UnstableSpec => []PoolInv
BY PoolStarts, PoolStep, PTL DEF UnstableSpec

(* Tokens and jobs stay in step, and jobs start in order, none twice.      *)
THEOREM TokensAlwaysMatch == UnstableSpec => []TokensMatchJobs
<1>1. PoolInv => TokensMatchJobs
  <2> SUFFICES ASSUME PoolInv PROVE TokensMatchJobs
    OBVIOUS
  <2>1. started \in Seq(1..JobN) /\ \A i \in 1..Len(started) : started[i] = i
    BY DEF PoolInv, UnstableTypeOK, InSequence
  <2>2. started = [i \in 1..Len(started) |-> i]
    BY <2>1
  <2> QED
    BY <2>2 DEF PoolInv, Tokens, TokensMatchJobs
<1> QED
  BY <1>1, PoolInvariance, PTL

-----------------------------------------------------------------------------
(* HalfAsync.                                                              *)

USE HalfAssumption

HostStates == {"new", "up", "closed", "killed", "exited"}
HostRecords == [st : HostStates, wire : Nat, edge : BOOLEAN, full : BOOLEAN,
                eof : BOOLEAN, sent : Nat]

Types ==
    /\ hmode \in {"send", "recv"}
    /\ hqueue \in Seq(Hosts) /\ hcur \in Hosts \cup {"none"}
    /\ hhost \in [Hosts -> HostRecords]
    /\ hbytes \in Nat /\ hreport \in [Hosts -> Int]

(* send_server.cc and the demo: what is left unread and unannounced was    *)
(* left by a read that filled the buffer.                                  *)
SendInv ==
    hmode = "send" =>
        \A h \in Hosts :
            /\ hreport[h] = -1
            /\ hhost[h].wire > 0 => hhost[h].edge \/ hhost[h].full

(* A connection nobody has read from yet still holds all that was sent.    *)
Untouched == \A h \in Hosts : h # hcur /\ hreport[h] = -1 => hhost[h].wire = hhost[h].sent

(* Of the connection in hand nothing is lost between kernel and counter.   *)
Counted ==
    hcur \in Hosts => /\ hreport[hcur] = -1
                      /\ hbytes + hhost[hcur].wire = hhost[hcur].sent

(* A report is of a connection that was closed, and complete.              *)
Reported ==
    \A h \in Hosts : hreport[h] # -1 => hhost[h].st = "closed" /\ hreport[h] = hhost[h].sent

(* Who waits to be accepted has connected once and was never served.       *)
Pending ==
    /\ \A i \in 1..Len(hqueue) : /\ hqueue[i] # hcur /\ hreport[hqueue[i]] = -1
                                 /\ hhost[hqueue[i]].st # "new"
    /\ \A i, j \in 1..Len(hqueue) : hqueue[i] = hqueue[j] => i = j
    /\ hcur \in Hosts => hhost[hcur].st # "new"

RecvInv == hmode = "recv" => Untouched /\ Counted /\ Reported /\ Pending

HalfInv == Types /\ SendInv /\ RecvInv

LEMMA HalfStarts == HalfInit => HalfInv
<1> SUFFICES ASSUME HalfInit PROVE HalfInv
  OBVIOUS
<1>1. Types
  BY DEF HalfInit, Types, HostRecords, HostStates
<1>2. SendInv
  BY DEF HalfInit, SendInv
<1>3. RecvInv
  BY DEF HalfInit, RecvInv, Untouched, Counted, Reported, Pending
<1> QED
  BY <1>1, <1>2, <1>3 DEF HalfInv

LEMMA HalfConnects ==
    ASSUME HalfInv, NEW h \in Hosts, HostConnects(h) PROVE HalfInv'
<1>0. Types /\ SendInv /\ RecvInv
  BY DEF HalfInv
<1>1. /\ hhost[h].st = "new" /\ hhost' = [hhost EXCEPT ![h].st = "up"]
      /\ hqueue' = Append(hqueue, h)
      /\ hmode' = hmode /\ hcur' = hcur /\ hbytes' = hbytes /\ hreport' = hreport
  BY DEF HostConnects
<1>2. /\ hhost' \in [Hosts -> HostRecords] /\ hhost'[h].st = "up"
      /\ \A g \in Hosts : /\ hhost'[g].wire = hhost[g].wire /\ hhost'[g].sent = hhost[g].sent
                          /\ hhost'[g].edge = hhost[g].edge /\ hhost'[g].full = hhost[g].full
                          /\ g # h => hhost'[g].st = hhost[g].st
  BY <1>0, <1>1 DEF Types, HostRecords, HostStates
<1>3. /\ hqueue' \in Seq(Hosts) /\ Len(hqueue') = Len(hqueue) + 1 /\ Len(hqueue) \in Nat
      /\ hqueue'[Len(hqueue) + 1] = h /\ \A i \in 1..Len(hqueue) : hqueue'[i] = hqueue[i]
  BY <1>0, <1>1 DEF Types
<1>4. Types'
  BY <1>0, <1>1, <1>2, <1>3 DEF Types
<1>5. SendInv'
  BY <1>0, <1>1, <1>2 DEF SendInv
<1>6. ASSUME hmode = "recv" PROVE Untouched' /\ Counted' /\ Reported' /\ Pending'
  <2>1. Untouched /\ Counted /\ Reported /\ Pending
    BY <1>0, <1>6 DEF RecvInv
  <2>2. hreport[h] = -1 /\ h # hcur /\ \A i \in 1..Len(hqueue) : hqueue[i] # h
    BY <1>0, <1>1, <2>1 DEF Types, Reported, Pending
  <2>3. Untouched' /\ Counted' /\ Reported'
    BY <1>1, <1>2, <2>1, <2>2 DEF Untouched, Counted, Reported
  <2>4. Pending'
    <3>1. \A i \in 1..Len(hqueue) : hqueue[i] \in Hosts
      BY <1>0 DEF Types
    <3>2. \A i \in 1..Len(hqueue') : /\ hqueue'[i] # hcur /\ hreport[hqueue'[i]] = -1
                                     /\ hhost'[hqueue'[i]].st # "new"
      BY <1>2, <1>3, <2>1, <2>2, <3>1 DEF Pending
    <3>3. \A i, j \in 1..Len(hqueue') : hqueue'[i] = hqueue'[j] => i = j
      BY <1>3, <2>1, <2>2 DEF Pending
    <3> QED
      BY <1>1, <1>2, <2>1, <2>2, <3>2, <3>3 DEF Pending
  <2> QED
    BY <2>3, <2>4
<1> QED
  BY <1>1, <1>4, <1>5, <1>6 DEF HalfInv, RecvInv

LEMMA HalfAccepts == ASSUME HalfInv, HalfAccept PROVE HalfInv'
<1>0. Types /\ SendInv /\ RecvInv
  BY DEF HalfInv
<1>1. /\ hcur = "none" /\ hqueue # <<>> /\ hcur' = hqueue[1] /\ hqueue' = Tail(hqueue)
      /\ hbytes' = 0 /\ hmode' = hmode /\ hhost' = hhost /\ hreport' = hreport
  BY DEF HalfAccept
<1>2. /\ hqueue' \in Seq(Hosts) /\ hqueue[1] \in Hosts /\ Len(hqueue) \in Nat \ {0}
      /\ Len(hqueue') = Len(hqueue) - 1
      /\ \A i \in 1..Len(hqueue') : hqueue'[i] = hqueue[i + 1]
  BY <1>0, <1>1 DEF Types
<1>3. Types' /\ SendInv'
  BY <1>0, <1>1, <1>2 DEF Types, SendInv
<1>4. ASSUME hmode = "recv" PROVE Untouched' /\ Counted' /\ Reported' /\ Pending'
  <2>1. Untouched /\ Counted /\ Reported /\ Pending
    BY <1>0, <1>4 DEF RecvInv
  <2>2. hreport[hqueue[1]] = -1 /\ hqueue[1] # hcur /\ hhost[hqueue[1]].st # "new"
    BY <1>2, <2>1 DEF Pending
  <2>3. Untouched' /\ Reported'
    BY <1>0, <1>1, <2>1 DEF Untouched, Reported, Types
  <2>4. Counted'
    <3>1. hhost[hqueue[1]].wire = hhost[hqueue[1]].sent /\ hhost[hqueue[1]].wire \in Nat
      BY <1>0, <1>2, <2>1, <2>2 DEF Untouched, Types, HostRecords
    <3> QED
      BY <1>1, <1>2, <2>2, <3>1 DEF Counted
  <2>5. Pending'
    <3>1. \A i \in 1..Len(hqueue') : i + 1 \in 1..Len(hqueue) /\ i + 1 # 1
      BY <1>2
    <3>2. 1 \in 1..Len(hqueue)
      BY <1>2
    <3> QED
      BY <1>1, <1>2, <2>1, <2>2, <3>1, <3>2 DEF Pending
  <2> QED
    BY <2>3, <2>4, <2>5
<1> QED
  BY <1>1, <1>3, <1>4 DEF HalfInv, RecvInv

(* Steps of the first mode: the reports and the other mode's facts are not *)
(* concerned.                                                              *)
LEMMA HalfSending ==
    ASSUME HalfInv, hmode = "send", hmode' = hmode, Types', hreport' = hreport,
           \A h \in Hosts : hhost'[h].wire > 0 => hhost'[h].edge \/ hhost'[h].full
    PROVE  HalfInv'
BY DEF HalfInv, SendInv, RecvInv

LEMMA HalfServes ==
    ASSUME HalfInv, SendLoop \/ SendFails PROVE HalfInv'
<1>0. Types /\ SendInv /\ hmode = "send"
  BY DEF HalfInv, SendLoop, SendFails
<1>1. CASE SendLoop
  <2>1. hcur \in Hosts
    BY <1>0, <1>1 DEF Types, SendLoop
  <2>2. hhost' = [hhost EXCEPT ![hcur] = [hhost[hcur] EXCEPT !.wire = @ + 1, !.edge = TRUE]]
    BY <1>1 DEF SendLoop, Arrives
  <2>3. /\ hhost' \in [Hosts -> HostRecords] /\ hhost'[hcur].edge
        /\ \A g \in Hosts : g # hcur => hhost'[g] = hhost[g]
    <3> DEFINE r == [hhost[hcur] EXCEPT !.wire = @ + 1, !.edge = TRUE]
    <3>0. hhost[hcur] \in HostRecords /\ hhost[hcur].wire + 1 \in Nat
      BY <1>0, <2>1 DEF Types, HostRecords
    <3>1. r \in HostRecords /\ r.edge
      BY <3>0 DEF HostRecords
    <3> HIDE DEF r
    <3> QED
      BY <1>0, <2>1, <2>2, <3>1 DEF Types, r
  <2>4. Types' /\ hmode' = hmode /\ hreport' = hreport
    BY <1>0, <1>1, <2>3 DEF Types, SendLoop
  <2> QED
    BY <1>0, <2>3, <2>4, HalfSending DEF SendInv
<1>2. CASE SendFails
  BY <1>0, <1>2, HalfSending DEF Types, SendInv, SendFails
<1> QED
  BY <1>1, <1>2

LEMMA HalfDemo ==
    ASSUME HalfInv, NEW h \in Hosts, HandleEvent(h) \/ ServerGone(h) \/ Kill(h)
    PROVE  HalfInv'
<1>0. Types /\ SendInv /\ hmode = "send" /\ hhost[h] \in HostRecords
  BY DEF HalfInv, HandleEvent, ServerGone, Kill, Types
<1>1. /\ hmode' = hmode /\ hqueue' = hqueue /\ hcur' = hcur /\ hbytes' = hbytes
      /\ hreport' = hreport
  BY DEF HandleEvent, ServerGone, Kill
<1>2. SUFFICES /\ hhost' \in [Hosts -> HostRecords]
               /\ hhost'[h].wire > 0 => hhost'[h].edge \/ hhost'[h].full
               /\ \A g \in Hosts : g # h => hhost'[g] = hhost[g]
  <2>1. Types'
    BY <1>0, <1>1, <1>2 DEF Types
  <2>2. \A g \in Hosts : hhost'[g].wire > 0 => hhost'[g].edge \/ hhost'[g].full
    BY <1>0, <1>2 DEF SendInv
  <2> QED
    BY <1>0, <1>1, <2>1, <2>2, HalfSending
<1>3. CASE HandleEvent(h)
  <2> DEFINE n == Least(hhost[h].wire, ReadMax)
  <2>1. /\ n \in Nat /\ hhost[h].wire - n \in Nat
        /\ hhost[h].wire - n > 0 => n = ReadMax
    BY <1>0 DEF Least, HostRecords
  <2>2. hhost' = [hhost EXCEPT ![h].edge = FALSE, ![h].wire = @ - n, ![h].full = (n = ReadMax)]
    BY <1>3 DEF HandleEvent
  <2> HIDE DEF n
  <2>3. (n = ReadMax) \in BOOLEAN
    OBVIOUS
  <2>4. /\ hhost' \in [Hosts -> HostRecords]
        /\ \A g \in Hosts : g # h => hhost'[g] = hhost[g]
        /\ hhost'[h].wire = hhost[h].wire - n /\ hhost'[h].full = (n = ReadMax)
    BY <1>0, <2>1, <2>2, <2>3 DEF Types, HostRecords
  <2> QED
    BY <2>1, <2>4
<1>4. CASE ServerGone(h)
  <2>1. CASE hhost' = [hhost EXCEPT ![h].eof = TRUE, ![h].edge = TRUE]
    BY <1>0, <2>1 DEF Types, HostRecords
  <2>2. CASE hhost' = [hhost EXCEPT ![h].eof = TRUE, ![h].st = "exited"]
    <3>1. hhost[h].wire > 0 => hhost[h].edge \/ hhost[h].full
      BY <1>0 DEF SendInv
    <3>2. /\ hhost' \in [Hosts -> HostRecords]
          /\ \A g \in Hosts : g # h => hhost'[g] = hhost[g]
      BY <1>0, <2>2 DEF Types, HostRecords, HostStates
    <3>3. /\ hhost'[h].wire = hhost[h].wire /\ hhost'[h].edge = hhost[h].edge
          /\ hhost'[h].full = hhost[h].full
      BY <1>0, <2>2 DEF Types, HostRecords, HostStates
    <3> QED
      BY <3>1, <3>2, <3>3
  <2> QED
    BY <1>4, <2>1, <2>2 DEF ServerGone
<1>5. CASE Kill(h)
  <2>1. hhost' = [hhost EXCEPT ![h].st = "killed", ![h].wire = 0]
    BY <1>5 DEF Kill
  <2>2. /\ hhost' \in [Hosts -> HostRecords]
        /\ \A g \in Hosts : g # h => hhost'[g] = hhost[g]
    BY <1>0, <2>1 DEF Types, HostRecords, HostStates
  <2>3. hhost'[h].wire = 0
    BY <1>0, <2>1 DEF Types, HostRecords
  <2> QED
    BY <2>2, <2>3
<1> QED
  BY <1>3, <1>4, <1>5

LEMMA HalfReceives == ASSUME HalfInv, RecvLoop PROVE HalfInv'
<1>0. /\ Types /\ Untouched /\ Counted /\ Reported /\ Pending
      /\ hmode = "recv" /\ hcur \in Hosts /\ hhost[hcur] \in HostRecords
  BY DEF HalfInv, RecvInv, RecvLoop, Types
<1>1. PICK n \in 1..hhost[hcur].wire : /\ hbytes' = hbytes + n
                                       /\ hhost' = [hhost EXCEPT ![hcur].wire = @ - n]
  BY DEF RecvLoop
<1>2. hmode' = hmode /\ hqueue' = hqueue /\ hcur' = hcur /\ hreport' = hreport
  BY DEF RecvLoop
<1>3. n \in Nat /\ hhost[hcur].wire - n \in Nat /\ hhost[hcur].wire \in Nat
  BY <1>0 DEF HostRecords
<1>4. /\ hhost' \in [Hosts -> HostRecords] /\ hhost'[hcur].wire = hhost[hcur].wire - n
      /\ \A g \in Hosts : /\ g # hcur => hhost'[g] = hhost[g]
                          /\ hhost'[g].st = hhost[g].st /\ hhost'[g].sent = hhost[g].sent
  BY <1>0, <1>1, <1>3 DEF Types, HostRecords
<1>5. Types'
  BY <1>0, <1>1, <1>2, <1>3, <1>4 DEF Types
<1>6. Untouched' /\ Reported'
  BY <1>0, <1>2, <1>4 DEF Untouched, Reported
<1>7. Counted'
  <2>1. hbytes \in Nat /\ hbytes + hhost[hcur].wire = hhost[hcur].sent /\ hreport[hcur] = -1
    BY <1>0 DEF Types, Counted
  <2>2. hbytes' + hhost'[hcur].wire = hhost'[hcur].sent
    BY <1>0, <1>1, <1>3, <1>4, <2>1
  <2> QED
    BY <1>2, <2>1, <2>2 DEF Counted
<1>8. Pending'
  <2>1. \A i \in 1..Len(hqueue) : hqueue[i] \in Hosts
    BY <1>0 DEF Types
  <2> QED
    BY <1>0, <1>2, <1>4, <2>1 DEF Pending
<1> QED
  BY <1>0, <1>2, <1>5, <1>6, <1>7, <1>8 DEF HalfInv, SendInv, RecvInv

LEMMA HalfReports == ASSUME HalfInv, Reports PROVE HalfInv'
<1>0. /\ Types /\ Untouched /\ Counted /\ Reported /\ Pending
      /\ hmode = "recv" /\ hcur \in Hosts /\ hhost[hcur] \in HostRecords
  BY DEF HalfInv, RecvInv, Reports, RecvEnds, Types
<1>1. /\ hhost[hcur].st = "closed" /\ hhost[hcur].wire = 0
      /\ hreport' = [hreport EXCEPT ![hcur] = hbytes] /\ hcur' = "none"
      /\ hmode' = hmode /\ hqueue' = hqueue /\ hhost' = hhost /\ hbytes' = hbytes
  BY DEF Reports, RecvEnds
<1>2. hbytes \in Nat /\ hbytes = hhost[hcur].sent
  BY <1>0, <1>1 DEF Types, Counted
<1>3. /\ hreport' \in [Hosts -> Int] /\ hreport'[hcur] = hbytes
      /\ \A g \in Hosts : g # hcur => hreport'[g] = hreport[g]
  BY <1>0, <1>1, <1>2 DEF Types
<1>4. Types' /\ Counted'
  BY <1>0, <1>1, <1>3 DEF Types, Counted
<1>5. Untouched' /\ Reported'
  BY <1>0, <1>1, <1>2, <1>3 DEF Untouched, Reported
<1>6. Pending'
  <2>1. \A i \in 1..Len(hqueue) : hqueue[i] \in Hosts
    BY <1>0 DEF Types
  <2> QED
    BY <1>0, <1>1, <1>3, <2>1 DEF Pending
<1> QED
  BY <1>0, <1>1, <1>4, <1>5, <1>6 DEF HalfInv, SendInv, RecvInv

LEMMA HalfHostSends == ASSUME HalfInv, NEW h \in Hosts, HostSends(h) PROVE HalfInv'
<1>0. /\ Types /\ Untouched /\ Counted /\ Reported /\ Pending
      /\ hmode = "recv" /\ hhost[h].st = "up" /\ hhost[h] \in HostRecords
  BY DEF HalfInv, RecvInv, HostSends, Types
<1>1. /\ hmode' = hmode /\ hqueue' = hqueue /\ hcur' = hcur /\ hbytes' = hbytes
      /\ hreport' = hreport
  BY DEF HostSends
<1>2. hreport[h] = -1
  BY <1>0 DEF Reported
<1>3. PICK k \in {0, 1} :
        /\ hhost' \in [Hosts -> HostRecords]
        /\ hhost'[h].wire = hhost[h].wire + k /\ hhost'[h].sent = hhost[h].sent + k
        /\ hhost'[h].st # "new"
        /\ \A g \in Hosts : g # h => hhost'[g] = hhost[g]
  <2>1. CASE hhost' = [hhost EXCEPT ![h].wire = @ + 1, ![h].sent = @ + 1]
    <3>1. /\ hhost' \in [Hosts -> HostRecords]
          /\ hhost'[h].wire = hhost[h].wire + 1 /\ hhost'[h].sent = hhost[h].sent + 1
          /\ hhost'[h].st # "new"
          /\ \A g \in Hosts : g # h => hhost'[g] = hhost[g]
      <4> DEFINE r == [hhost[h] EXCEPT !.wire = @ + 1, !.sent = @ + 1]
      <4>0. hhost[h].wire + 1 \in Nat /\ hhost[h].sent + 1 \in Nat
        BY <1>0 DEF HostRecords
      <4>1. /\ r \in HostRecords /\ r.st = "up"
            /\ r.wire = hhost[h].wire + 1 /\ r.sent = hhost[h].sent + 1
        BY <1>0, <4>0 DEF HostRecords
      <4>2. hhost' = [hhost EXCEPT ![h] = r]
        BY <2>1
      <4> HIDE DEF r
      <4> QED
        BY <1>0, <4>1, <4>2 DEF Types
    <3> QED
      BY <3>1
  <2>2. CASE hhost' = [hhost EXCEPT ![h].st = "closed"]
    <3>1. /\ hhost' \in [Hosts -> HostRecords]
          /\ hhost'[h].wire = hhost[h].wire + 0 /\ hhost'[h].sent = hhost[h].sent + 0
          /\ hhost'[h].st # "new"
          /\ \A g \in Hosts : g # h => hhost'[g] = hhost[g]
      <4> DEFINE r == [hhost[h] EXCEPT !.st = "closed"]
      <4>1. /\ r \in HostRecords /\ r.st = "closed"
            /\ r.wire = hhost[h].wire + 0 /\ r.sent = hhost[h].sent + 0
        BY <1>0 DEF HostRecords, HostStates
      <4>2. hhost' = [hhost EXCEPT ![h] = r]
        BY <2>2
      <4> HIDE DEF r
      <4> QED
        BY <1>0, <4>1, <4>2 DEF Types
    <3> QED
      BY <3>1
  <2> QED
    BY <2>1, <2>2 DEF HostSends
<1>4. Types'
  BY <1>0, <1>1, <1>3 DEF Types
<1>5. Untouched' /\ Reported'
  BY <1>0, <1>1, <1>2, <1>3 DEF Untouched, Reported
<1>6. Counted'
  <2>1. hhost[h].wire \in Nat /\ hhost[h].sent \in Nat /\ hbytes \in Nat
    BY <1>0 DEF HostRecords, Types
  <2>2. CASE hcur = h
    BY <1>0, <1>1, <1>2, <1>3, <2>1, <2>2 DEF Counted
  <2>3. CASE hcur # h
    BY <1>0, <1>1, <1>3, <2>3 DEF Counted
  <2> QED
    BY <2>2, <2>3
<1>7. Pending'
  <2>1. \A i \in 1..Len(hqueue) : hqueue[i] \in Hosts
    BY <1>0 DEF Types
  <2> QED
    BY <1>0, <1>1, <1>3, <2>1 DEF Pending
<1> QED
  BY <1>0, <1>1, <1>4, <1>5, <1>6, <1>7 DEF HalfInv, SendInv, RecvInv

LEMMA HalfStep == HalfInv /\ [HalfNext]_halfVars => HalfInv'
<1> SUFFICES ASSUME HalfInv, [HalfNext]_halfVars PROVE HalfInv'
  OBVIOUS
<1>1. CASE UNCHANGED halfVars
  BY <1>1 DEF HalfInv, Types, SendInv, RecvInv, Untouched, Counted, Reported, Pending,
              halfVars
<1>2. CASE HalfNext
  BY <1>2, HalfConnects, HalfAccepts, HalfServes, HalfDemo, HalfReceives, HalfReports,
     HalfHostSends DEF HalfNext
<1> QED
  BY <1>1, <1>2

(* What the demo leaves unread without an event it left by a read that     *)
(* filled its buffer, and server.c reports exactly what a host has sent.   *)
THEOREM NothingIsEverMissed == HalfSpec => []NothingIsMissed
<1>1. HalfInv => NothingIsMissed
  <2> SUFFICES ASSUME HalfInv, NEW h \in Hosts
               PROVE  /\ hmode = "send" /\ hhost[h].st = "up" /\ hhost[h].wire > 0
                           /\ ~hhost[h].edge => hhost[h].full
                      /\ hreport[h] # -1 => hreport[h] = hhost[h].sent
    BY DEF NothingIsMissed
  <2>1. hmode \in {"send", "recv"}
    BY DEF HalfInv, Types
  <2>2. CASE hmode = "send"
    BY <2>2 DEF HalfInv, SendInv
  <2>3. CASE hmode = "recv"
    BY <2>3 DEF HalfInv, RecvInv, Reported
  <2> QED
    BY <2>1, <2>2, <2>3
<1> QED
  BY <1>1, HalfStarts, HalfStep, PTL DEF HalfSpec

-----------------------------------------------------------------------------
(* EpollEcho.                                                              *)

EchoRecords == [peer : Peer, watch : {"none", "in", "out", "closed"}, sent : Nat,
                in : Seq(Chars), read : Seq(Chars), due : Seq(Chars),
                wrote : Seq(Chars \cup {Junk})]

ServerTypes ==
    /\ esock \in [Socks -> EchoRecords]
    /\ ebuf \in Seq(Chars)
    /\ emixed \subseteq Socks

(* A connection that has the buffer for itself is the only one that is     *)
(* owed an answer, and the answer ends in the buffer.                      *)
HasTheBuffer ==
    /\ Owed = {} => ebuf = <<>>
    /\ \A s \in Owed \ emixed : Owed = {s} /\ Len(ebuf) < MAXSIZE

Exact(r, buf) ==
    /\ r.watch = "out" => r.due = r.wrote \o String(buf)
    /\ r.watch \in {"none", "in"} => r.wrote = r.due

Answered == \A s \in Socks \ emixed : Exact(esock[s], ebuf)

WholeIsDue(r) == Nul \notin ToSet(r.read) => r.due = r.read

EchoServerInv ==
    ServerTypes /\ HasTheBuffer /\ Answered /\ \A s \in Socks : WholeIsDue(esock[s])

(* What is to be printed: the answer of the server, and typed lines.       *)
IsDue(due, buf) ==
    /\ due = SubSeq(String(buf), 1, Len(due))
    /\ \A i \in Len(due) + 1..StrLen(buf) : buf[i] = Keyed

(* Until the client has something to print its buffer holds typed lines    *)
(* only; and it waits for its server again only after another line.        *)
EchoClientInv ==
    /\ kin \in Seq({Net, Nul}) /\ kbuf \in Seq({Net, Nul, Keyed})
    /\ "stdout" \notin kwatch => \A i \in DOMAIN kbuf : kbuf[i] = Keyed
    /\ "stdout" \in kwatch /\ ~kmixed => "sock" \notin kwatch /\ IsDue(kdue, kbuf)

(* A part of a sequence.                                                   *)
LEMMA PartOf ==
    ASSUME NEW S, NEW q \in Seq(S), NEW a \in Nat \ {0}, NEW b \in 0..Len(q)
    PROVE  SubSeq(q, a, b) \in Seq(S)
  OBVIOUS

(* What read() makes of an empty buffer, and of any.                       *)
LEMMA ReadIntoEmpty ==
    ASSUME NEW S, NEW data \in Seq(S)
    PROVE  Overlaid(<<>>, data) = data
<1>1. SubSeq(<<>>, Len(data) + 1, Len(<<>>)) = <<>>
  OBVIOUS
<1>2. data \o <<>> = data
  OBVIOUS
<1> QED
  BY <1>1, <1>2 DEF Overlaid

LEMMA ReadInto ==
    ASSUME NEW S, NEW data \in Seq(S), NEW buf \in Seq(S)
    PROVE  /\ Overlaid(buf, data) \in Seq(S)
           /\ \A i \in 1..Len(data) : Overlaid(buf, data)[i] = data[i]
           /\ \A i \in DOMAIN Overlaid(buf, data) :
                 i \notin 1..Len(data) =>
                    i \in DOMAIN buf /\ Overlaid(buf, data)[i] = buf[i]
<1> DEFINE rest == SubSeq(buf, Len(data) + 1, Len(buf))
<1>1. /\ rest \in Seq(S) /\ Len(data) \in Nat /\ Len(rest) \in Nat
      /\ \A i \in 1..Len(rest) : rest[i] = buf[Len(data) + i] /\ Len(data) + i \in 1..Len(buf)
  OBVIOUS
<1>2. Overlaid(buf, data) = data \o rest
  BY DEF Overlaid
<1> HIDE DEF rest
<1>3. /\ data \o rest \in Seq(S) /\ Len(data \o rest) = Len(data) + Len(rest)
      /\ \A i \in 1..Len(data) : (data \o rest)[i] = data[i]
  BY <1>1
<1>4. \A i \in 1..Len(rest) : (data \o rest)[Len(data) + i] = rest[i]
  BY <1>1
<1>5. ASSUME NEW i \in DOMAIN (data \o rest), i \notin 1..Len(data)
      PROVE  i \in DOMAIN buf /\ (data \o rest)[i] = buf[i]
  <2>1. i - Len(data) \in 1..Len(rest) /\ i = Len(data) + (i - Len(data))
    BY <1>1, <1>3, <1>5
  <2>2. (data \o rest)[i] = rest[i - Len(data)]
    BY <1>4, <2>1
  <2> QED
    BY <1>1, <2>1, <2>2
<1> QED
  BY <1>2, <1>3, <1>5

(* A nonempty set of numbers has a least one.                              *)
LEMMA LeastOf ==
    ASSUME NEW T, T \subseteq Nat, T # {}
    PROVE  \E m \in T : \A n \in T : m <= n
<1>1. PICK m \in T : \A n \in T : <<n, m>> \notin OpToRel(<, Nat)
  BY NatLessThanWellFounded, WFMin
<1>2. \A n \in T : ~(n < m)
  BY <1>1 DEF OpToRel
<1> QED
  BY <1>2

(* strlen finds the first NUL, or the end.                                 *)
IsStrLen(buf, n) ==
    /\ n \in 0..Len(buf)
    /\ \A i \in 1..n : buf[i] # Nul
    /\ n < Len(buf) => buf[n + 1] = Nul

LEMMA StrLenStops ==
    ASSUME NEW S, NEW buf \in Seq(S)
    PROVE  IsStrLen(buf, StrLen(buf))
<1> DEFINE stops == {n \in 0..Len(buf) : n < Len(buf) => buf[n + 1] = Nul}
<1>1. stops \subseteq Nat /\ Len(buf) \in stops
  OBVIOUS
<1>2. PICK m \in stops : \A n \in stops : m <= n
  BY <1>1, LeastOf
<1>3. ASSUME NEW i \in 1..m, buf[i] = Nul PROVE FALSE
  <2>1. i - 1 \in 0..Len(buf) /\ (i - 1) + 1 = i /\ i - 1 < m
    BY <1>2
  <2>2. i - 1 \in stops
    BY <1>3, <2>1
  <2> QED
    BY <1>2, <2>1, <2>2
<1>4. \E n \in 0..Len(buf) : (\A i \in 1..n : buf[i] # Nul) /\ (n < Len(buf) => buf[n + 1] = Nul)
  BY <1>2, <1>3
<1> QED
  BY <1>4 DEF StrLen, IsStrLen

LEMMA StrLenIs ==
    ASSUME NEW S, NEW buf \in Seq(S), NEW n, IsStrLen(buf, n)
    PROVE  StrLen(buf) = n
<1> DEFINE m == StrLen(buf)
<1>1. IsStrLen(buf, m)
  BY StrLenStops
<1> HIDE DEF m
<1>2. m \in 0..Len(buf) /\ n \in 0..Len(buf) /\ Len(buf) \in Nat
  BY <1>1 DEF IsStrLen
<1>3. ~(m < n)
  <2> SUFFICES ASSUME m < n PROVE FALSE
    OBVIOUS
  <2>1. m + 1 \in 1..n /\ m < Len(buf)
    BY <1>2
  <2> QED
    BY <1>1, <2>1 DEF IsStrLen
<1>4. ~(n < m)
  <2> SUFFICES ASSUME n < m PROVE FALSE
    OBVIOUS
  <2>1. n + 1 \in 1..m /\ n < Len(buf)
    BY <1>2
  <2> QED
    BY <1>1, <2>1 DEF IsStrLen
<1>5. m = n
  BY <1>2, <1>3, <1>4
<1> QED
  BY <1>5 DEF m

LEMMA StringType ==
    ASSUME NEW S, NEW buf \in Seq(S)
    PROVE  String(buf) \in Seq(S) /\ StrLen(buf) \in 0..Len(buf)
<1>1. StrLen(buf) \in 0..Len(buf)
  BY StrLenStops DEF IsStrLen
<1> QED
  BY <1>1, PartOf DEF String

(* Without a NUL the string is everything.                                 *)
LEMMA StringIsAll ==
    ASSUME NEW S, NEW buf \in Seq(S), Nul \notin ToSet(buf)
    PROVE  String(buf) = buf
<1>1. \A i \in 1..Len(buf) : buf[i] # Nul
  BY DEF ToSet
<1>2. Len(buf) \in 0..Len(buf) /\ ~(Len(buf) < Len(buf))
  OBVIOUS
<1>3. StrLen(buf) = Len(buf)
  BY <1>1, <1>2, StrLenIs DEF IsStrLen
<1>4. SubSeq(buf, 1, Len(buf)) = buf
  OBVIOUS
<1> QED
  BY <1>3, <1>4 DEF String

LEMMA EchoStarts == EchoInit => EchoServerInv /\ EchoClientInv
<1> SUFFICES ASSUME EchoInit PROVE EchoServerInv /\ EchoClientInv
  OBVIOUS
<1>1. ServerTypes
  BY EchoAssumption DEF EchoInit, ServerTypes, EchoRecords, Peer
<1>2. HasTheBuffer /\ Answered /\ \A s \in Socks : WholeIsDue(esock[s])
  BY DEF EchoInit, HasTheBuffer, Answered, Exact, WholeIsDue, Owed
<1>3. EchoClientInv
  BY DEF EchoInit, EchoClientInv
<1> QED
  BY <1>1, <1>2, <1>3 DEF EchoServerInv

(* The connection is not of those that shared the buffer, and reads.       *)
LEMMA ReadsAlone ==
    ASSUME EchoServerInv, NEW s \in Socks, EchoRead(s)
    PROVE  EchoServerInv'
<1>0. /\ esock \in [Socks -> EchoRecords] /\ ebuf \in Seq(Chars) /\ emixed \subseteq Socks
      /\ esock[s] \in EchoRecords /\ esock[s].watch = "in"
  BY DEF EchoServerInv, ServerTypes, EchoRead
<1>1. CASE /\ esock' = [esock EXCEPT ![s].watch = "closed"]
           /\ UNCHANGED <<ebuf, emixed>>
  <2>1. esock' \in [Socks -> EchoRecords]
    BY <1>0, <1>1 DEF EchoRecords
  <2>2. Owed' = Owed
    BY <1>0, <1>1 DEF Owed, EchoRecords
  <2>3. \A t \in Socks : t # s => esock'[t] = esock[t]
    BY <1>0, <1>1
  <2>4. /\ esock'[s].watch = "closed" /\ esock'[s].read = esock[s].read
        /\ esock'[s].due = esock[s].due
    BY <1>0, <1>1 DEF EchoRecords
  <2>5. Answered' /\ \A t \in Socks : WholeIsDue(esock'[t])
    BY <1>1, <2>3, <2>4 DEF EchoServerInv, Answered, Exact, WholeIsDue
  <2> QED
    BY <1>0, <1>1, <2>1, <2>2, <2>5 DEF EchoServerInv, ServerTypes, HasTheBuffer
<1>2. ASSUME NEW n \in 1..MAXSIZE, NEW data,
             data = SubSeq(esock[s].in, 1, n),
             n = Len(esock[s].in) \/ (n = MAXSIZE /\ n < Len(esock[s].in)),
             ebuf' = Overlaid(ebuf, data),
             esock' = [esock EXCEPT ![s].watch = "out", ![s].read = @ \o data,
                                    ![s].due = @ \o String(data),
                                    ![s].in = SubSeq(@, n + 1, Len(@))],
             emixed' = emixed \cup (IF Owed # {} THEN Owed \cup {s} ELSE {})
                              \cup (IF n = MAXSIZE THEN {s} ELSE {})
      PROVE  EchoServerInv'
  <2>1. /\ esock[s].in \in Seq(Chars) /\ esock[s].read \in Seq(Chars)
        /\ esock[s].due \in Seq(Chars) /\ esock[s].wrote \in Seq(Chars \cup {Junk})
    BY <1>0 DEF EchoRecords
  <2>2. data \in Seq(Chars) /\ Len(data) = n
    <3>1. n \in Nat /\ 1 <= n /\ n <= Len(esock[s].in) /\ Len(esock[s].in) \in Nat
      <4>1. n \in 1..MAXSIZE /\ MAXSIZE \in Nat /\ Len(esock[s].in) \in Nat
        BY <2>1, EchoAssumption
      <4>2. n = Len(esock[s].in) \/ n < Len(esock[s].in)
        BY <1>2
      <4> QED
        BY <4>1, <4>2
    <3>2. SubSeq(esock[s].in, 1, n) \in Seq(Chars) /\ Len(SubSeq(esock[s].in, 1, n)) = n
      BY <2>1, <3>1
    <3> QED
      BY <1>2, <3>2
  <2>3. /\ SubSeq(esock[s].in, n + 1, Len(esock[s].in)) \in Seq(Chars)
        /\ esock[s].read \o data \in Seq(Chars)
        /\ esock[s].due \o String(data) \in Seq(Chars)
    <3>1. n + 1 \in Nat \ {0} /\ Len(esock[s].in) \in 0..Len(esock[s].in)
      BY <2>1, EchoAssumption
    <3>2. SubSeq(esock[s].in, n + 1, Len(esock[s].in)) \in Seq(Chars)
      BY <2>1, <3>1, PartOf
    <3>3. esock[s].read \o data \in Seq(Chars)
      BY <2>1, <2>2
    <3>4. esock[s].due \o String(data) \in Seq(Chars)
      BY <2>1, <2>2, StringType
    <3> QED
      BY <3>2, <3>3, <3>4
  <2>4. esock'[s] = [esock[s] EXCEPT !.watch = "out", !.read = @ \o data,
                                     !.due = @ \o String(data),
                                     !.in = SubSeq(@, n + 1, Len(@))]
    BY <1>0, <1>2
  <2>5. \A t \in Socks : t # s => esock'[t] = esock[t]
    BY <1>0, <1>2
  <2>6. esock'[s] \in EchoRecords /\ esock'[s].watch = "out"
        /\ esock'[s].read = esock[s].read \o data /\ esock'[s].wrote = esock[s].wrote
        /\ esock'[s].due = esock[s].due \o String(data)
    BY <1>0, <2>3, <2>4 DEF EchoRecords
  <2>7. esock' \in [Socks -> EchoRecords]
    <3>1. esock' = [t \in Socks |-> esock'[t]]
      BY <1>0, <1>2
    <3> QED
      BY <1>0, <2>5, <2>6, <3>1
  <2>8. ebuf' \in Seq(Chars) /\ emixed' \subseteq Socks
    BY <1>0, <1>2, <2>2, ReadInto DEF Owed
  <2>9. Owed' = Owed \cup {s}
    BY <2>5, <2>6 DEF Owed
  <2>10. ASSUME s \notin emixed' PROVE Owed = {} /\ ebuf' = data /\ n < MAXSIZE /\ s \notin emixed
    <3>1. Owed = {} /\ n < MAXSIZE /\ s \notin emixed
      BY <1>2, <2>10, EchoAssumption
    <3>2. ebuf = <<>>
      BY <3>1 DEF EchoServerInv, HasTheBuffer
    <3> QED
      BY <1>2, <2>2, <3>1, <3>2, ReadIntoEmpty
  <2>11. HasTheBuffer'
    <3>1. \A t \in Owed' \ emixed' : t = s
      BY <1>2, <2>9
    <3>2. \A t \in Owed' \ emixed' : Owed' = {t} /\ Len(ebuf') < MAXSIZE
      BY <2>2, <2>9, <2>10, <3>1
    <3> QED
      BY <2>9, <3>2 DEF HasTheBuffer
  <2>12. Answered'
    <3>1. ASSUME s \notin emixed' PROVE Exact(esock'[s], ebuf')
      <4>1. esock[s].wrote = esock[s].due
        BY <1>0, <2>10, <3>1 DEF EchoServerInv, Answered, Exact
      <4> QED
        BY <2>6, <2>10, <3>1, <4>1 DEF Exact
    <3>2. ASSUME NEW t \in Socks \ emixed', t # s PROVE Exact(esock'[t], ebuf')
      <4>1. t \notin emixed /\ esock[t].watch # "out" /\ esock'[t] = esock[t]
        BY <1>2, <2>5, <3>2 DEF Owed
      <4> QED
        BY <4>1 DEF EchoServerInv, Answered, Exact
    <3> QED
      BY <3>1, <3>2 DEF Answered
  <2>13. \A t \in Socks : WholeIsDue(esock'[t])
    <3>1. ASSUME Nul \notin ToSet(esock'[s].read) PROVE esock'[s].due = esock'[s].read
      <4>1. /\ Nul \notin ToSet(esock[s].read) /\ Nul \notin ToSet(data)
        <5> DEFINE old == esock[s].read
        <5>1. old \in Seq(Chars) /\ data \in Seq(Chars)
          BY <2>1, <2>2
        <5>2. \A i \in DOMAIN (old \o data) : (old \o data)[i] # Nul
          BY <2>6, <3>1 DEF ToSet
        <5> HIDE DEF old
        <5>3. \A i \in DOMAIN old : i \in DOMAIN (old \o data) /\ (old \o data)[i] = old[i]
          BY <5>1
        <5>4. \A i \in DOMAIN data : /\ Len(old) + i \in DOMAIN (old \o data)
                                     /\ (old \o data)[Len(old) + i] = data[i]
          BY <5>1
        <5>5. (\A i \in DOMAIN old : old[i] # Nul) /\ \A i \in DOMAIN data : data[i] # Nul
          BY <5>2, <5>3, <5>4
        <5> QED
          BY <5>5 DEF ToSet, old
      <4>2. esock[s].due = esock[s].read
        BY <4>1 DEF EchoServerInv, WholeIsDue
      <4>3. String(data) = data
        BY <2>2, <4>1, StringIsAll
      <4> QED
        BY <2>6, <4>2, <4>3
    <3> QED
      BY <2>5, <3>1 DEF EchoServerInv, WholeIsDue
  <2> QED
    BY <2>7, <2>8, <2>11, <2>12, <2>13 DEF EchoServerInv, ServerTypes
<1> QED
  BY <1>1, <1>2 DEF EchoRead

(* An answer is the string in the buffer, and leaves the buffer empty.     *)
LEMMA AnswersWhole ==
    ASSUME EchoServerInv, NEW s \in Socks, EchoWrite(s)
    PROVE  EchoServerInv'
<1>0. /\ esock \in [Socks -> EchoRecords] /\ ebuf \in Seq(Chars) /\ emixed \subseteq Socks
      /\ esock[s] \in EchoRecords /\ s \in Owed /\ emixed' = emixed
  BY DEF EchoServerInv, ServerTypes, EchoWrite
<1>1. ASSUME NEW new \in EchoRecords, new.watch \in {"in", "closed"},
             esock' = [esock EXCEPT ![s] = new], ebuf' = <<>>,
             new.read = esock[s].read, new.due = esock[s].due,
             s \notin emixed /\ new.watch = "in" => new.wrote = new.due
      PROVE  EchoServerInv'
  <2>1. esock' \in [Socks -> EchoRecords] /\ esock'[s] = new
    BY <1>0, <1>1
  <2>2. Owed' = Owed \ {s} /\ \A t \in Socks : t # s => esock'[t] = esock[t]
    BY <1>0, <1>1 DEF Owed
  <2>3. \A t \in Owed \ emixed : Owed = {t}
    BY DEF EchoServerInv, HasTheBuffer
  <2>4. \A t \in Owed' : t \in emixed'
    BY <1>0, <2>2, <2>3
  <2>5. HasTheBuffer'
    BY <1>1, <2>4 DEF HasTheBuffer
  <2>6. Answered'
    <3>1. ASSUME NEW t \in Socks \ emixed' PROVE Exact(esock'[t], ebuf')
      <4>1. CASE t = s
        BY <1>0, <1>1, <2>1, <3>1, <4>1 DEF Exact
      <4>2. CASE t # s
        <5>1. esock'[t] = esock[t] /\ esock[t].watch # "out" /\ t \notin emixed
          BY <1>0, <2>2, <2>4, <3>1, <4>2 DEF Owed
        <5> QED
          BY <3>1, <5>1 DEF EchoServerInv, Answered, Exact
      <4> QED
        BY <4>1, <4>2
    <3> QED
      BY <3>1 DEF Answered
  <2>7. \A t \in Socks : WholeIsDue(esock'[t])
    BY <1>1, <2>1, <2>2 DEF EchoServerInv, WholeIsDue
  <2> QED
    BY <1>0, <1>1, <2>1, <2>5, <2>6, <2>7 DEF EchoServerInv, ServerTypes
<1>2. ASSUME NEW string \in Strings(ebuf), NEW peer \in Peer,
             esock' = [esock EXCEPT ![s].wrote = @ \o string, ![s].peer = peer,
                                    ![s].watch = "in"],
             ebuf' = Memset(ebuf)
      PROVE  EchoServerInv'
  <2> DEFINE new == [esock[s] EXCEPT !.wrote = @ \o string, !.peer = peer, !.watch = "in"]
  <2>1. string \in Seq(Chars \cup {Junk})
    <3>1. ebuf \in Seq(Chars \cup {Junk}) /\ String(ebuf) \in Seq(Chars \cup {Junk})
      <4>1. ebuf \in Seq(Chars \cup {Junk})
        BY <1>0
      <4> QED
        BY <4>1, StringType
    <3>2. Append(ebuf, Junk) \in Seq(Chars \cup {Junk})
      BY <3>1
    <3>3. string = String(ebuf) \/ string = Append(ebuf, Junk)
      BY <1>2 DEF Strings
    <3> QED
      BY <3>1, <3>2, <3>3
  <2>2. esock[s].wrote \o string \in Seq(Chars \cup {Junk})
    BY <1>0, <2>1 DEF EchoRecords
  <2>3. /\ new \in EchoRecords /\ new.watch = "in"
        /\ new.wrote = esock[s].wrote \o string /\ new.read = esock[s].read
        /\ new.due = esock[s].due
    BY <1>0, <1>2, <2>2 DEF EchoRecords
  <2>4. esock' = [esock EXCEPT ![s] = new]
    BY <1>0, <1>2
  <2>5. ASSUME s \notin emixed PROVE esock[s].due = esock[s].wrote \o string
    <3>1. Len(ebuf) < MAXSIZE
      BY <1>0, <2>5 DEF EchoServerInv, HasTheBuffer
    <3>2. StrLen(ebuf) # MAXSIZE
      <4> DEFINE n == StrLen(ebuf)
      <4>2. ebuf \in Seq(Chars) /\ Len(ebuf) \in Nat
        BY <1>0
      <4>1. n \in 0..Len(ebuf)
        BY <4>2, StringType
      <4> HIDE DEF n
      <4> QED
        BY <3>1, <4>1, <4>2, EchoAssumption DEF n
    <3>3. string = String(ebuf)
      BY <1>2, <3>2 DEF Strings
    <3> QED
      BY <1>0, <2>5, <3>3 DEF EchoServerInv, Answered, Exact, Owed
  <2> HIDE DEF new
  <2> QED
    BY <1>1, <1>2, <2>3, <2>4, <2>5 DEF Memset
<1>3. ASSUME esock' = [esock EXCEPT ![s].watch = "closed"], ebuf' = Memset(ebuf)
      PROVE  EchoServerInv'
  <2> DEFINE new == [esock[s] EXCEPT !.watch = "closed"]
  <2>1. /\ new \in EchoRecords /\ new.watch = "closed" /\ esock' = [esock EXCEPT ![s] = new]
        /\ new.read = esock[s].read /\ new.due = esock[s].due
    BY <1>0, <1>3 DEF EchoRecords
  <2> HIDE DEF new
  <2> QED
    BY <1>1, <1>3, <2>1 DEF Memset
<1>4. ASSUME UNCHANGED <<esock, ebuf>> PROVE EchoServerInv'
  BY <1>0, <1>4 DEF EchoServerInv, ServerTypes, HasTheBuffer, Answered, Owed
<1>5. PICK string, peer :
         \/ /\ string \in Strings(ebuf) /\ peer \in Peer
            /\ esock' = [esock EXCEPT ![s].wrote = @ \o string, ![s].peer = peer,
                                      ![s].watch = "in"]
            /\ ebuf' = Memset(ebuf)
         \/ esock' = [esock EXCEPT ![s].watch = "closed"] /\ ebuf' = Memset(ebuf)
         \/ UNCHANGED <<esock, ebuf>>
  BY DEF EchoWrite
<1> QED
  BY <1>2, <1>3, <1>4, <1>5

LEMMA EchoServerSteps ==
    ASSUME EchoServerInv, NEW s \in Socks,
           HandleEchoAccept(s) \/ EchoRead(s) \/ EchoWrite(s) \/ PeerActs(s)
    PROVE  EchoServerInv'
<1>0. /\ esock \in [Socks -> EchoRecords] /\ ebuf \in Seq(Chars) /\ emixed \subseteq Socks
      /\ esock[s] \in EchoRecords
  BY DEF EchoServerInv, ServerTypes
<1>1. ASSUME NEW new \in EchoRecords, esock' = [esock EXCEPT ![s] = new],
             UNCHANGED <<ebuf, emixed>>,
             new.wrote = esock[s].wrote, new.read = esock[s].read, new.due = esock[s].due,
             new.watch = esock[s].watch \/ (new.watch = "in" /\ esock[s].watch = "none")
      PROVE  EchoServerInv'
  <2>1. esock' \in [Socks -> EchoRecords]
    BY <1>0, <1>1
  <2>2. /\ \A t \in Socks : t # s => esock'[t] = esock[t]
        /\ esock'[s] = new
    BY <1>0, <1>1
  <2>3. Owed' = Owed
    BY <1>1, <2>2 DEF Owed
  <2>4. ASSUME NEW t \in Socks \ emixed'
        PROVE  Exact(esock'[t], ebuf')
    <3>1. /\ esock'[t].wrote = esock[t].wrote /\ esock'[t].due = esock[t].due
          /\ ebuf' = ebuf /\ t \notin emixed
          /\ esock'[t].watch = "out" => esock[t].watch = "out"
          /\ esock'[t].watch \in {"none", "in"} => esock[t].watch \in {"none", "in"}
      BY <1>1, <2>2, <2>4
    <3>2. Exact(esock[t], ebuf)
      BY <2>4, <3>1 DEF EchoServerInv, Answered
    <3> QED
      BY <3>1, <3>2 DEF Exact
  <2>5. Answered' /\ \A t \in Socks : WholeIsDue(esock'[t])
    BY <1>1, <2>2, <2>4 DEF EchoServerInv, Answered, WholeIsDue
  <2> QED
    BY <1>0, <1>1, <2>1, <2>3, <2>5 DEF EchoServerInv, ServerTypes, HasTheBuffer
<1>2. ASSUME HandleEchoAccept(s) PROVE EchoServerInv'
  <2> DEFINE new == [esock[s] EXCEPT !.watch = "in"]
  <2>1. /\ new \in EchoRecords /\ new.watch = "in" /\ new.wrote = esock[s].wrote
        /\ new.read = esock[s].read /\ new.due = esock[s].due
        /\ esock' = [esock EXCEPT ![s] = new]
    BY <1>0, <1>2 DEF HandleEchoAccept, EchoRecords
  <2> HIDE DEF new
  <2> QED
    BY <1>1, <1>2, <2>1 DEF HandleEchoAccept
<1>3. ASSUME PeerActs(s) PROVE EchoServerInv'
  <2>1. ASSUME NEW p \in Peer, esock' = [esock EXCEPT ![s].peer = p], UNCHANGED <<ebuf, emixed>>
        PROVE  EchoServerInv'
    <3> DEFINE new == [esock[s] EXCEPT !.peer = p]
    <3>1. /\ new \in EchoRecords /\ new.watch = esock[s].watch /\ new.wrote = esock[s].wrote
          /\ new.read = esock[s].read /\ new.due = esock[s].due
          /\ esock' = [esock EXCEPT ![s] = new]
      BY <1>0, <2>1 DEF EchoRecords
    <3> HIDE DEF new
    <3> QED
      BY <1>1, <2>1, <3>1
  <2>2. ASSUME NEW char \in {<<s, esock[s].sent + 1>>, Nul}, UNCHANGED <<ebuf, emixed>>,
               esock' = [esock EXCEPT ![s].sent = @ + 1, ![s].in = Append(@, char)]
        PROVE  EchoServerInv'
    <3> DEFINE new == [esock[s] EXCEPT !.sent = @ + 1, !.in = Append(@, char)]
    <3>1. esock[s].sent + 1 \in Nat
      BY <1>0 DEF EchoRecords
    <3>2. char \in Chars
      BY <3>1 DEF Chars
    <3>3. Append(esock[s].in, char) \in Seq(Chars)
      BY <1>0, <3>2 DEF EchoRecords
    <3>4. /\ new \in EchoRecords /\ new.watch = esock[s].watch /\ new.wrote = esock[s].wrote
          /\ new.read = esock[s].read /\ new.due = esock[s].due
          /\ esock' = [esock EXCEPT ![s] = new]
      BY <1>0, <2>2, <3>1, <3>3 DEF EchoRecords
    <3> HIDE DEF new
    <3> QED
      BY <1>1, <2>2, <3>4
  <2> QED
    BY <1>3, <2>1, <2>2 DEF PeerActs, Peer
<1> QED
  BY <1>2, <1>3, ReadsAlone, AnswersWhole

(* What is to be printed of an answer that was read over typed lines.      *)
LEMMA AnswerIsDue ==
    ASSUME NEW data \in Seq({Net, Nul}), NEW buf \in Seq({Net, Nul, Keyed}),
           \A i \in DOMAIN buf : buf[i] = Keyed
    PROVE  IsDue(String(data), Overlaid(buf, data))
<1> DEFINE over == Overlaid(buf, data)
           n == StrLen(data)
<1>1. Keyed # Nul
  <2>1. Keyed[1] = "keyed" /\ Nul[1] = "nul"
    BY DEF Nul, Keyed
  <2> QED
    BY <2>1
<1>2. /\ data \in Seq({Net, Nul, Keyed}) /\ Len(data) \in Nat
      /\ n \in 0..Len(data) /\ \A i \in 1..n : data[i] # Nul
      /\ n < Len(data) => data[n + 1] = Nul
  <2>1. data \in Seq({Net, Nul, Keyed}) /\ Len(data) \in Nat
    OBVIOUS
  <2> QED
    BY <2>1, StrLenStops DEF IsStrLen
<1>3. /\ over \in Seq({Net, Nul, Keyed}) /\ Len(over) \in Nat /\ Len(data) <= Len(over)
      /\ \A i \in 1..Len(data) : over[i] = data[i]
      /\ \A i \in 1..Len(over) : i \notin 1..Len(data) => over[i] = Keyed
  <2>1. SubSeq(buf, Len(data) + 1, Len(buf)) \in Seq({Net, Nul, Keyed})
    OBVIOUS
  <2>2. Len(data) <= Len(over)
    BY <1>2, <2>1 DEF Overlaid
  <2>3. /\ over \in Seq({Net, Nul, Keyed})
        /\ \A i \in 1..Len(data) : over[i] = data[i]
        /\ \A i \in DOMAIN over : i \notin 1..Len(data) => over[i] = Keyed
    BY <1>2, ReadInto
  <2> QED
    BY <2>2, <2>3
<1> HIDE DEF over, n
<1>4. \A i \in n + 1..StrLen(over) : over[i] = Keyed
  <2>1. CASE n < Len(data)
    <3>1. IsStrLen(over, n)
      <4>1. n \in 0..Len(over) /\ n + 1 \in 1..Len(data)
        BY <1>2, <1>3, <2>1, SMTT(30)
      <4>2. \A i \in 1..n : i \in 1..Len(data)
        BY <1>2, SMTT(30)
      <4>3. over[n + 1] = Nul /\ \A i \in 1..n : over[i] # Nul
        BY <1>2, <1>3, <2>1, <4>1, <4>2, Zenon
      <4> QED
        BY <4>1, <4>3, Zenon DEF IsStrLen
    <3>2. StrLen(over) = n
      BY <1>3, <3>1, StrLenIs
    <3> QED
      BY <1>2, <3>2
  <2>2. CASE n = Len(data)
    <3>1. StrLen(over) \in 0..Len(over)
      BY <1>3, StringType
    <3> QED
      BY <1>2, <1>3, <2>2, <3>1
  <2> QED
    BY <1>2, <2>1, <2>2
<1>5. StrLen(over) \in 0..Len(over) /\ n <= StrLen(over)
  <2>1. IsStrLen(over, StrLen(over))
    BY <1>3, StrLenStops
  <2>2. ASSUME StrLen(over) < n PROVE FALSE
    <3>1. StrLen(over) + 1 \in 1..n /\ StrLen(over) < Len(over)
      BY <1>2, <1>3, <2>1, <2>2 DEF IsStrLen
    <3>2. over[StrLen(over) + 1] = Nul
      BY <2>1, <3>1 DEF IsStrLen
    <3> QED
      BY <1>2, <1>3, <3>1, <3>2
  <2> QED
    BY <1>2, <2>1, <2>2 DEF IsStrLen
<1>6. /\ String(data) = SubSeq(data, 1, n) /\ Len(SubSeq(data, 1, n)) = n
      /\ String(over) = SubSeq(over, 1, StrLen(over))
  BY <1>2 DEF String, n
<1>7. SubSeq(String(over), 1, n) = SubSeq(data, 1, n)
  <2>1. SubSeq(SubSeq(over, 1, StrLen(over)), 1, n) = [i \in 1..n |-> over[i]]
    BY <1>2, <1>3, <1>5
  <2>2. SubSeq(data, 1, n) = [i \in 1..n |-> data[i]]
    BY <1>2
  <2>3. \A i \in 1..n : over[i] = data[i]
    BY <1>2, <1>3
  <2> QED
    BY <1>6, <2>1, <2>2, <2>3
<1> QED
  BY <1>4, <1>6, <1>7 DEF IsDue, over

LEMMA EchoClientSteps == ASSUME EchoClientInv, EchoClient PROVE EchoClientInv'
<1>0. /\ kin \in Seq({Net, Nul}) /\ kbuf \in Seq({Net, Nul, Keyed})
      /\ "stdout" \notin kwatch => \A i \in DOMAIN kbuf : kbuf[i] = Keyed
      /\ "stdout" \in kwatch /\ ~kmixed => "sock" \notin kwatch /\ IsDue(kdue, kbuf)
  BY DEF EchoClientInv
<1>1. CASE ClientReadsInput
  <2>1. ASSUME NEW n \in 1..MAXSIZE,
               kwatch' = kwatch \cup {"sock"}, kbuf' = Overlaid(kbuf, [i \in 1..n |-> Keyed]),
               kmixed' = (kmixed \/ "stdout" \in kwatch), kin' = kin
        PROVE  EchoClientInv'
    <3> DEFINE line == [i \in 1..n |-> Keyed]
    <3>1. line \in Seq({Net, Nul, Keyed}) /\ \A i \in 1..Len(line) : line[i] = Keyed
      BY EchoAssumption
    <3>2. kbuf' = Overlaid(kbuf, line)
      BY <2>1
    <3> HIDE DEF line
    <3>3. /\ kbuf' \in Seq({Net, Nul, Keyed})
          /\ \A i \in 1..Len(line) : kbuf'[i] = Keyed
          /\ \A i \in DOMAIN kbuf' :
                i \notin 1..Len(line) => i \in DOMAIN kbuf /\ kbuf'[i] = kbuf[i]
      BY <1>0, <3>1, <3>2, ReadInto
    <3>4. "stdout" \notin kwatch => \A i \in DOMAIN kbuf' : kbuf'[i] = Keyed
      BY <1>0, <3>3
    <3>5. "stdout" \in kwatch => kmixed'
      BY <2>1, Zenon
    <3>6. "stdout" \in kwatch' <=> "stdout" \in kwatch
      BY <2>1
    <3>7. ("stdout" \in kwatch' /\ ~kmixed') => FALSE
      BY <3>5, <3>6, Zenon
    <3>8. kin' \in Seq({Net, Nul})
      BY <1>0, <2>1
    <3> QED
      BY <3>3, <3>4, <3>6, <3>7, <3>8, Zenon DEF EchoClientInv
  <2>2. CASE kwatch' = kwatch \ {"stdin"} /\ UNCHANGED <<kbuf, kmixed, kin, kdue>>
    BY <1>0, <2>2 DEF EchoClientInv
  <2> QED
    BY <1>1, <2>1, <2>2 DEF ClientReadsInput
<1>2. CASE ClientReadsSocket
  <2>1. /\ "sock" \in kwatch /\ kbuf' = Overlaid(kbuf, kin) /\ kin' = <<>>
        /\ kwatch' = (kwatch \ {"sock"}) \cup {"stdout"} /\ kdue' = String(kin)
        /\ kmixed' = kmixed
    BY <1>2 DEF ClientReadsSocket
  <2>2. kbuf' \in Seq({Net, Nul, Keyed})
    <3>1. kin \in Seq({Net, Nul, Keyed})
      BY <1>0
    <3> QED
      BY <1>0, <2>1, <3>1, ReadInto
  <2>3. ASSUME ~kmixed' PROVE IsDue(kdue', kbuf')
    <3>1. ~kmixed
      BY <2>1, <2>3, Zenon
    <3>2. "stdout" \notin kwatch
      BY <1>0, <2>1, <3>1
    <3> QED
      BY <1>0, <2>1, <3>2, AnswerIsDue
  <2>4. "stdout" \in kwatch' /\ "sock" \notin kwatch' /\ kin' \in Seq({Net, Nul})
    BY <2>1
  <2> QED
    BY <2>2, <2>3, <2>4 DEF EchoClientInv
<1>3. CASE ClientPrints
  <2>1. /\ kwatch' = kwatch \ {"stdout"} /\ kbuf' = <<>> /\ kin' = kin
    BY <1>3 DEF ClientPrints, Memset
  <2> QED
    BY <1>0, <2>1 DEF EchoClientInv
<1>4. CASE ServerSends
  <2>1. /\ kin' \in Seq({Net, Nul}) /\ UNCHANGED <<kwatch, kbuf, kdue>> /\ kmixed' = kmixed
    BY <1>0, <1>4 DEF ServerSends
  <2> QED
    BY <1>0, <2>1 DEF EchoClientInv
<1> QED
  BY <1>1, <1>2, <1>3, <1>4 DEF EchoClient

(* A connection that shared the buffer with no other, and did not fill it, *)
(* gets back what it sent, up to the first NUL of every read; and the      *)
(* client prints what its server sent.                                     *)
THEOREM EchoIsExact == EchoSpec => []EchoesItself
<1> DEFINE Inv == EchoServerInv /\ EchoClientInv
<1>1. Inv /\ [EchoServer \/ EchoClient]_echoVars => Inv'
  <2> SUFFICES ASSUME Inv, [EchoServer \/ EchoClient]_echoVars PROVE Inv'
    OBVIOUS
  <2>1. ASSUME UNCHANGED echoServerVars PROVE EchoServerInv'
    BY <2>1 DEF echoServerVars, EchoServerInv, ServerTypes, HasTheBuffer, Answered, Owed
  <2>2. ASSUME UNCHANGED echoClientVars PROVE EchoClientInv'
    <3>1. UNCHANGED <<kwatch, kin, kbuf, kdue>> /\ (kmixed <=> kmixed')
      BY <2>2 DEF echoClientVars
    <3> QED
      BY <3>1 DEF EchoClientInv
  <2>3. CASE EchoServer
    <3>1. UNCHANGED echoClientVars
      BY <2>3 DEF EchoServer, HandleEchoAccept, EchoRead, EchoWrite, PeerActs
    <3> QED
      BY <2>2, <2>3, <3>1, EchoServerSteps DEF EchoServer
  <2>4. CASE EchoClient
    <3>1. UNCHANGED echoServerVars
      BY <2>4 DEF EchoClient, ClientReadsInput, ClientReadsSocket, ClientPrints, ServerSends
    <3> QED
      BY <2>1, <2>4, <3>1, EchoClientSteps
  <2>5. CASE UNCHANGED echoVars
    BY <2>1, <2>2, <2>5 DEF echoVars
  <2> QED
    BY <2>3, <2>4, <2>5
<1>2. Inv => EchoesItself
  <2> SUFFICES ASSUME Inv PROVE EchoesItself
    OBVIOUS
  <2>1. ASSUME NEW s \in Socks \ emixed
        PROVE  /\ IF s \in Owed THEN esock[s].due = esock[s].wrote \o String(ebuf)
                  ELSE esock[s].watch = "in" => esock[s].wrote = esock[s].due
               /\ Nul \notin ToSet(esock[s].read) => esock[s].due = esock[s].read
    <3>1. Exact(esock[s], ebuf) /\ WholeIsDue(esock[s])
      BY <2>1 DEF EchoServerInv, Answered
    <3> QED
      BY <3>1 DEF Exact, WholeIsDue, Owed
  <2>2. ("stdout" \in kwatch /\ ~kmixed) => IsDue(kdue, kbuf)
    BY DEF EchoClientInv
  <2> QED
    BY <2>1, <2>2 DEF EchoesItself, IsDue
<1> QED
  BY <1>1, <1>2, EchoStarts, PTL DEF EchoSpec

=============================================================================
