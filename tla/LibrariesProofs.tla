-------------------------- MODULE LibrariesProofs --------------------------
(***************************************************************************)
(* The three back ends of IOMultiplexing, for any descriptors and any      *)
(* order of calls, and the theorems about dlmalloc's tree bins.            *)
(***************************************************************************)
EXTENDS Libraries, TreeBinProofs

(* The kernel says of a socket only what Conditions has.                   *)
CondInv == cond \in [Fd -> Events!Conditions]

(* epoll has a descriptor once, and READ only before the first modifyEvent *)
(* or call for another type.                                               *)
InterestInv ==
    /\ epoll \subseteq Fd \X Events!EventType
    /\ \A d, e \in epoll : d[1] = e[1] => d = e
    /\ plain => \A e \in epoll : e[2] = "READ"

EventInv == CondInv /\ InterestInv

LEMMA EventInit == Events!Init => EventInv
  BY DEF Events!Init, EventInv, CondInv, InterestInv, Events!Conditions

(* The entries of a descriptor, taken out and put in.                      *)
LEMMA RemovedEntries ==
    ASSUME InterestInv, NEW fd, NEW type, <<fd, type>> \in epoll
    PROVE  {e \in epoll : e[1] # fd} = epoll \ {<<fd, type>>}
  BY DEF InterestInv

LEMMA AddedEntry ==
    ASSUME InterestInv, NEW fd \in Fd, NEW type \in Events!EventType,
           epoll' = {e \in epoll : e[1] # fd} \cup {<<fd, type>>},
           plain' => plain /\ type = "READ"
    PROVE  InterestInv'
  <1>1. epoll' \subseteq Fd \X Events!EventType
    BY DEF InterestInv
  <1>2. \A d, e \in epoll' : d[1] = e[1] => d = e
    BY DEF InterestInv
  <1>3. plain' => \A e \in epoll' : e[2] = "READ"
    BY DEF InterestInv
  <1> QED
    BY <1>1, <1>2, <1>3 DEF InterestInv

LEMMA EventStep == EventInv /\ [Events!Next]_(Events!vars) => EventInv'
  <1> SUFFICES ASSUME EventInv, [Events!Next]_(Events!vars) PROVE EventInv'
    OBVIOUS
  <1>1. ASSUME NEW fd \in Fd, Events!OpenSocket(fd) PROVE EventInv'
    BY <1>1 DEF Events!OpenSocket, EventInv, CondInv, InterestInv
  <1>2. ASSUME NEW fd \in Fd, Events!SocketChanges(fd) PROVE EventInv'
    BY <1>2 DEF Events!SocketChanges, EventInv, CondInv, InterestInv
  <1>3. ASSUME NEW fd \in Fd, Events!CloseSocket(fd) PROVE EventInv'
    BY <1>3 DEF Events!CloseSocket, Events!Conditions, EventInv, CondInv, InterestInv
  <1>4. ASSUME NEW fd \in Fd, NEW type \in Events!EventType, Events!AddEvent(fd, type) PROVE EventInv'
    <2>1. InterestInv'
      BY <1>4, AddedEntry DEF Events!AddEvent, Events!EpollSet, EventInv
    <2> QED
      BY <1>4, <2>1 DEF Events!AddEvent, EventInv, CondInv
  <1>5. ASSUME NEW fd \in Fd, NEW type \in Events!EventType, Events!RemoveEvent(fd, type) PROVE EventInv'
    <2>1. epoll' \subseteq epoll /\ UNCHANGED <<cond, plain>>
      BY <1>5, RemovedEntries DEF Events!RemoveEvent, Events!EpollRemoved, EventInv, InterestInv
    <2> QED
      BY <2>1 DEF EventInv, CondInv, InterestInv
  <1>6. ASSUME NEW fd \in Fd, NEW type \in Events!EventType, Events!ModifyEvent(fd, type) PROVE EventInv'
    <2>1. InterestInv'
      BY <1>6, AddedEntry DEF Events!ModifyEvent, Events!EpollSet, EventInv
    <2> QED
      BY <1>6, <2>1 DEF Events!ModifyEvent, EventInv, CondInv
  <1>7. CASE UNCHANGED Events!vars
    BY <1>7 DEF Events!vars, EventInv, CondInv, InterestInv
  <1> QED
    BY <1>1, <1>2, <1>3, <1>4, <1>5, <1>6, <1>7 DEF Events!Next

(* What the kernel returns for READ is an event exactly when the socket is *)
(* readable, and then EpollIO calls it READ.                               *)
LEMMA ReadEvents ==
    ASSUME CondInv, NEW fd \in Fd
    PROVE  /\ Events!Returned(fd, "READ") # {} <=> cond[fd] \cap {"in", "err", "hup"} # {}
           /\ Events!Returned(fd, "READ") # {} => Events!TypeOf(Events!Returned(fd, "READ")) = "READ"
  <1>1. Events!Returned(fd, "READ") = cond[fd] \cap {"in", "err", "hup"}
    BY DEF Events!Returned
  <1>2. cond[fd] \in Events!Conditions
    BY DEF CondInv
  <1>3. Events!Returned(fd, "READ") # {} => "in" \in Events!Returned(fd, "READ")
    BY <1>1, <1>2 DEF Events!Conditions
  <1>4. "in" \in Events!Returned(fd, "READ") => Events!TypeOf(Events!Returned(fd, "READ")) = "READ"
    BY DEF Events!TypeOf
  <1> QED
    BY <1>1, <1>3, <1>4

(* Used for READ, EpollIO reports exactly the readable sockets of its list.*)
LEMMA ReportsAdded ==
    ASSUME EventInv, plain
    PROVE  Events!EpollWait = {<<fd, "READ">> : fd \in
               {x \in Fd : Events!Registered(x) /\ cond[x] \cap {"in", "err", "hup"} # {}}}
  <1>1. \A e \in epoll : e[1] \in Fd /\ e = <<e[1], "READ">>
    BY DEF EventInv, InterestInv
  <1>2. \A x \in Fd : Events!Registered(x) <=> <<x, "READ">> \in epoll
    BY DEF EventInv, InterestInv, Events!Registered, Events!EventType
  <1>3. \A e \in epoll : Events!Returned(e[1], e[2]) # {} <=> cond[e[1]] \cap {"in", "err", "hup"} # {}
    BY <1>1, ReadEvents DEF EventInv
  <1>4. \A e \in epoll : Events!Returned(e[1], e[2]) # {} =>
            <<e[1], Events!TypeOf(Events!Returned(e[1], e[2]))>> = <<e[1], "READ">>
    BY <1>1, ReadEvents DEF EventInv
  <1> DEFINE R == {x \in Fd : Events!Registered(x) /\ cond[x] \cap {"in", "err", "hup"} # {}}
             E == {x \in epoll : Events!Returned(x[1], x[2]) # {}}
  <1>5. Events!EpollWait = {<<e[1], "READ">> : e \in E}
    BY <1>4 DEF Events!EpollWait
  <1>6. {<<e[1], "READ">> : e \in E} = {<<fd, "READ">> : fd \in R}
    <2>1. ASSUME NEW e \in E PROVE e[1] \in R
      BY <1>1, <1>2, <1>3
    <2>2. ASSUME NEW fd \in R PROVE <<fd, "READ">> \in E
      BY <1>2, <1>3
    <2> QED
      BY <2>1, <2>2
  <1> QED
    BY <1>5, <1>6

-----------------------------------------------------------------------------
(* PollIO.  What removeEvent leaves in the vector is what its loop over    *)
(* the entries keeps.                                                      *)
Entry == [fd : Fd, type : Events!EventType]

Keeps(list, fd, k, f) ==
    f = [i \in 0..k |->
            IF i = 0 THEN << >>
            ELSE f[i - 1] \o (IF list[i].fd = fd THEN << >> ELSE <<list[i]>>)]

(* The loop has a result after every entry. *)
LEMMA KeptExists ==
    ASSUME NEW list \in Seq(Entry), NEW fd
    PROVE  \E f : Keeps(list, fd, Len(list), f)
  <1> DEFINE T == {k \in 0..Len(list) : ~ \E f : Keeps(list, fd, k, f)}
  <1> SUFFICES ASSUME T # {} PROVE FALSE
    OBVIOUS
  <1>1. T \in SUBSET Nat
    OBVIOUS
  <1>2. PICK k \in T : \A u \in T : k <= u
    BY <1>1, LeastExists
  <1>3. CASE k = 0
    <2> DEFINE f == [i \in 0..0 |-> << >>]
    <2>1. Keeps(list, fd, 0, f)
      BY DEF Keeps
    <2> QED
      BY <1>2, <1>3, <2>1
  <1>4. CASE k > 0
    <2>1. k - 1 \in 0..Len(list) /\ k - 1 \notin T /\ k \in Nat
      BY <1>2, <1>4
    <2>2. PICK f : Keeps(list, fd, k - 1, f)
      BY <2>1
    <2> DEFINE body(i) == IF list[i].fd = fd THEN << >> ELSE <<list[i]>>
               g == [i \in 0..k |-> IF i < k THEN f[i] ELSE f[k - 1] \o body(k)]
    <2> HIDE DEF body
    <2>3. \A i \in 0..(k - 1) : f[i] = IF i = 0 THEN << >> ELSE f[i - 1] \o body(i)
      BY <2>1, <2>2 DEF Keeps, body
    <2>4. \A i \in 0..k : g[i] = IF i = 0 THEN << >> ELSE g[i - 1] \o body(i)
      BY <1>4, <2>1, <2>3
    <2>5. g = [i \in 0..k |-> IF i = 0 THEN << >> ELSE g[i - 1] \o body(i)]
      <3> HIDE DEF g
      <3>1. g = [i \in 0..k |-> g[i]]
        BY DEF g
      <3> QED
        BY <2>4, <3>1
    <2>6. Keeps(list, fd, k, g)
      <3> HIDE DEF g
      <3> QED
        BY <2>5 DEF Keeps, body
    <2> QED
      BY <1>2, <2>6
  <1> QED
    BY <1>1, <1>2, <1>3, <1>4

LEMMA RemovedFromPoll ==
    ASSUME NEW list \in Seq(Entry), NEW fd
    PROVE  /\ Events!PollRemoved(list, fd) \in Seq(Entry)
           /\ \A p \in Entry : (\E i \in DOMAIN Events!PollRemoved(list, fd) :
                                    Events!PollRemoved(list, fd)[i] = p)
                               <=> p.fd # fd /\ \E i \in DOMAIN list : list[i] = p
  <1> DEFINE f == CHOOSE g : Keeps(list, fd, Len(list), g)
             Has(s, p) == \E i \in DOMAIN s : s[i] = p
             body(i) == IF list[i].fd = fd THEN << >> ELSE <<list[i]>>
             Good(k) == /\ f[k] \in Seq(Entry)
                        /\ \A p \in Entry : Has(f[k], p) <=> p.fd # fd /\ \E i \in 1..k : list[i] = p
             T == {k \in 0..Len(list) : ~Good(k)}
  <1>1. Events!PollRemoved(list, fd) = f[Len(list)]
    BY DEF Events!PollRemoved, Keeps
  <1>2. Keeps(list, fd, Len(list), f)
    BY KeptExists
  <1>3. \A i \in 0..Len(list) : f[i] = IF i = 0 THEN << >> ELSE f[i - 1] \o body(i)
    <2> HIDE DEF f
    <2> QED
      BY <1>2 DEF Keeps
  <1> HIDE DEF f
  <1>4. T = {}
    <2> SUFFICES ASSUME T # {} PROVE FALSE
      OBVIOUS
    <2>1. T \in SUBSET Nat
      OBVIOUS
    <2> HIDE DEF T
    <2>2. PICK k \in T : \A u \in T : k <= u
      BY <2>1, LeastExists
    <2>3. k \in 0..Len(list) /\ ~Good(k) /\ k \in Nat /\ Len(list) \in Nat
      BY <2>2 DEF T
    <2>4. CASE k = 0
      <3>1. f[0] = << >>
        BY <1>3, <2>3, <2>4
      <3> QED
        BY <2>3, <2>4, <3>1, EmptySeq
    <2>5. CASE k > 0
      <3>1. k - 1 \in 0..Len(list) /\ k - 1 \notin T
        BY <2>2, <2>3, <2>5
      <3>2. Good(k - 1)
        BY <3>1 DEF T
      <3>3. f[k] = f[k - 1] \o body(k) /\ list[k] \in Entry
        <4> HIDE DEF body
        <4>1. k \in 0..Len(list) /\ k # 0 /\ k \in 1..Len(list)
          BY <2>3, <2>5
        <4>2. list[k] \in Entry
          BY <4>1
        <4>3. f[k] = f[k - 1] \o body(k)
          BY <1>3, <4>1
        <4> QED
          BY <4>2, <4>3
      <3>4. body(k) \in Seq(Entry)
        BY <3>3
      <3>5. f[k] \in Seq(Entry)
        BY <3>2, <3>3, <3>4, ConcatProperties
      <3>6. ASSUME NEW p \in Entry PROVE Has(f[k], p) <=> Has(f[k - 1], p) \/ Has(body(k), p)
        <4> DEFINE a == f[k - 1]
                   b == body(k)
        <4>1. a \in Seq(Entry) /\ b \in Seq(Entry)
          BY <3>2, <3>4
        <4>2. f[k] = a \o b
          BY <3>3
        <4> HIDE DEF a, b
        <4>3. /\ Len(a \o b) = Len(a) + Len(b) /\ Len(a) \in Nat /\ Len(b) \in Nat
              /\ DOMAIN (a \o b) = 1..(Len(a) + Len(b)) /\ DOMAIN a = 1..Len(a) /\ DOMAIN b = 1..Len(b)
              /\ \A i \in 1..(Len(a) + Len(b)) : (a \o b)[i] = IF i <= Len(a) THEN a[i] ELSE b[i - Len(a)]
          BY <4>1, ConcatProperties
        <4>4. ASSUME Has(a \o b, p) PROVE Has(a, p) \/ Has(b, p)
          <5>1. PICK i \in 1..(Len(a) + Len(b)) : (a \o b)[i] = p
            BY <4>3, <4>4
          <5>2. CASE i <= Len(a)
            BY <4>3, <5>1, <5>2
          <5>3. CASE i > Len(a)
            <6>1. i - Len(a) \in 1..Len(b) /\ b[i - Len(a)] = p
              BY <4>3, <5>1, <5>3
            <6> QED
              BY <4>3, <6>1
          <5> QED
            BY <4>3, <5>2, <5>3
        <4>5. ASSUME Has(a, p) PROVE Has(a \o b, p)
          BY <4>3, <4>5
        <4>6. ASSUME Has(b, p) PROVE Has(a \o b, p)
          <5>1. PICK i \in 1..Len(b) : b[i] = p
            BY <4>3, <4>6
          <5>2. i + Len(a) \in 1..(Len(a) + Len(b)) /\ (a \o b)[i + Len(a)] = p
            BY <4>3, <5>1
          <5> QED
            BY <4>3, <5>2
        <4>7. (Has(f[k], p) <=> Has(a \o b, p))
          BY <4>2
        <4> HIDE DEF Has
        <4>8. Has(f[k], p) <=> Has(a, p) \/ Has(b, p)
          BY <4>4, <4>5, <4>6, <4>7
        <4> QED
          BY <4>8 DEF a, b
      <3>7. ASSUME NEW p \in Entry PROVE Has(body(k), p) <=> list[k] = p /\ p.fd # fd
        OBVIOUS
      <3>8. 1..k = 1..(k - 1) \cup {k}
        BY <2>3, <2>5
      <3>9. \A p \in Entry : Has(f[k], p) <=> p.fd # fd /\ \E i \in 1..k : list[i] = p
        BY <3>2, <3>6, <3>7, <3>8
      <3> QED
        BY <2>3, <3>5, <3>9
    <2> QED
      BY <2>3, <2>4, <2>5
  <1>5. Good(Len(list))
    BY <1>4
  <1> QED
    BY <1>1, <1>5

-----------------------------------------------------------------------------
(* As long as every socket was removed before it was closed, the vector of *)
(* PollIO has what the calls asked for, and when they asked for READ only  *)
(* the fd_sets of SelectIO have it too.                                    *)
InVector(fd, type) == \E i \in DOMAIN pollfds_ : pollfds_[i] = [fd |-> fd, type |-> type]

PollInv ==
    /\ pollfds_ \in Seq(Entry)
    /\ \A e \in epoll : e[1] \in open
    /\ tidy => \A fd \in Fd, type \in Events!EventType : InVector(fd, type) <=> <<fd, type>> \in epoll

SelectInv ==
    /\ readfds_ \subseteq Fd /\ maxfd_ \in Int /\ \A fd \in readfds_ : fd <= maxfd_
    /\ plain => writefds_ = {} /\ errorfds_ = {}
    /\ plain /\ tidy => \A fd \in Fd : fd \in readfds_ <=> <<fd, "READ">> \in epoll

LEMMA AddedToPoll ==
    ASSUME NEW list \in Seq(Entry), NEW fd \in Fd, NEW type \in Events!EventType
    PROVE  /\ Events!PollAdded(list, fd, type) \in Seq(Entry)
           /\ \A p \in Entry : (\E i \in DOMAIN Events!PollAdded(list, fd, type) :
                                    Events!PollAdded(list, fd, type)[i] = p)
                               <=> p = [fd |-> fd, type |-> type] \/ \E i \in DOMAIN list : list[i] = p
  <1> DEFINE e == [fd |-> fd, type |-> type]
             new == Append(list, e)
  <1>1. e \in Entry
    BY DEF Entry
  <1> HIDE DEF e
  <1>2. /\ new \in Seq(Entry) /\ Len(new) = Len(list) + 1 /\ Len(list) \in Nat
        /\ DOMAIN new = 1..(Len(list) + 1) /\ DOMAIN list = 1..Len(list)
        /\ new[Len(list) + 1] = e /\ \A i \in 1..Len(list) : new[i] = list[i]
    BY <1>1, AppendProperties
  <1> HIDE DEF new
  <1>3. \A p \in Entry : (\E i \in DOMAIN new : new[i] = p) <=> p = e \/ \E i \in DOMAIN list : list[i] = p
    BY <1>2
  <1> QED
    BY <1>2, <1>3 DEF e, new, Events!PollAdded

LEMMA LargerFd == ASSUME NEW a \in Int, NEW b \in Int PROVE Events!Max({a, b}) = IF a >= b THEN a ELSE b
  BY DEF Events!Max

LEMMA BackEndsInit == Events!Init => PollInv /\ SelectInv
  BY EmptySeq DEF Events!Init, PollInv, SelectInv, InVector

(* The vector after removeEvent, addEvent and modifyEvent. *)
LEMMA VectorStep ==
    ASSUME EventInv, PollInv, NEW fd \in Fd, NEW type \in Events!EventType
    PROVE  /\ pollfds_' = Events!PollRemoved(pollfds_, fd) =>
                 /\ pollfds_' \in Seq(Entry)
                 /\ \A d \in Fd, t \in Events!EventType :
                       InVector(d, t)' <=> InVector(d, t) /\ d # fd
           /\ pollfds_' = Events!PollAdded(pollfds_, fd, type) =>
                 /\ pollfds_' \in Seq(Entry)
                 /\ \A d \in Fd, t \in Events!EventType :
                       InVector(d, t)' <=> InVector(d, t) \/ (d = fd /\ t = type)
           /\ pollfds_' = Events!PollAdded(Events!PollRemoved(pollfds_, fd), fd, type) =>
                 /\ pollfds_' \in Seq(Entry)
                 /\ \A d \in Fd, t \in Events!EventType :
                       InVector(d, t)' <=> (InVector(d, t) /\ d # fd) \/ (d = fd /\ t = type)
  <1> DEFINE entry(d, t) == [fd |-> d, type |-> t]
             Has(l, p) == \E i \in DOMAIN l : l[i] = p
             gone == Events!PollRemoved(pollfds_, fd)
  <1>1. \A d \in Fd, t \in Events!EventType :
            entry(d, t) \in Entry /\ entry(d, t).fd = d /\ (entry(d, t) = entry(fd, type) <=> d = fd /\ t = type)
    BY DEF Entry
  <1>2. pollfds_ \in Seq(Entry)
    BY DEF PollInv
  <1>3. gone \in Seq(Entry) /\ \A p \in Entry : Has(gone, p) <=> p.fd # fd /\ Has(pollfds_, p)
    BY <1>2, RemovedFromPoll
  <1> HIDE DEF gone
  <1>4. ASSUME NEW l \in Seq(Entry)
        PROVE  /\ Events!PollAdded(l, fd, type) \in Seq(Entry)
               /\ \A p \in Entry : Has(Events!PollAdded(l, fd, type), p) <=> p = entry(fd, type) \/ Has(l, p)
    BY AddedToPoll
  <1>5. \A d \in Fd, t \in Events!EventType :
            (InVector(d, t) <=> Has(pollfds_, entry(d, t))) /\ (InVector(d, t)' <=> Has(pollfds_', entry(d, t)))
    BY DEF InVector
  <1> HIDE DEF entry, Has
  <1>6. pollfds_' = gone =>
                 /\ pollfds_' \in Seq(Entry)
                 /\ \A d \in Fd, t \in Events!EventType :
                       InVector(d, t)' <=> InVector(d, t) /\ d # fd
    BY <1>1, <1>3, <1>5
  <1>7. pollfds_' = Events!PollAdded(pollfds_, fd, type) =>
                 /\ pollfds_' \in Seq(Entry)
                 /\ \A d \in Fd, t \in Events!EventType :
                       InVector(d, t)' <=> InVector(d, t) \/ (d = fd /\ t = type)
    BY <1>1, <1>2, <1>4, <1>5
  <1>8. pollfds_' = Events!PollAdded(gone, fd, type) =>
                 /\ pollfds_' \in Seq(Entry)
                 /\ \A d \in Fd, t \in Events!EventType :
                       InVector(d, t)' <=> (InVector(d, t) /\ d # fd) \/ (d = fd /\ t = type)
    BY <1>1, <1>3, <1>4, <1>5
  <1> QED
    BY <1>6, <1>7, <1>8 DEF gone

LEMMA UnregisteredEntries ==
    ASSUME InterestInv, NEW fd, ~Events!Registered(fd)
    PROVE  {e \in epoll : e[1] # fd} = epoll
  <1>1. ASSUME NEW e \in epoll PROVE e[1] # fd
    <2>1. e = <<e[1], e[2]>> /\ e[2] \in Events!EventType
      BY DEF InterestInv
    <2> QED
      BY <2>1 DEF Events!Registered
  <1> QED
    BY <1>1

LEMMA PollStep ==
    ASSUME EventInv, PollInv, [Events!Next]_(Events!vars)
    PROVE  PollInv'
  <1>1. /\ epoll \subseteq Fd \X Events!EventType
        /\ \A d, e \in epoll : d[1] = e[1] => d = e
    BY DEF EventInv, InterestInv
  <1>2. ASSUME NEW fd \in Fd, Events!OpenSocket(fd) \/ Events!SocketChanges(fd) PROVE PollInv'
    BY <1>2 DEF Events!OpenSocket, Events!SocketChanges, PollInv, InVector
  <1>3. ASSUME NEW fd \in Fd, Events!CloseSocket(fd) PROVE PollInv'
    <2>1. /\ pollfds_' = pollfds_ /\ open' = open \ {fd} /\ epoll' = {e \in epoll : e[1] # fd}
          /\ tidy' = (tidy /\ ~Events!Registered(fd))
      BY <1>3 DEF Events!CloseSocket
    <2>2. \A e \in epoll' : e[1] \in open'
      BY <2>1 DEF PollInv
    <2>3. tidy' => tidy /\ epoll' = epoll
      BY <2>1, UnregisteredEntries DEF EventInv
    <2> QED
      BY <2>1, <2>2, <2>3 DEF PollInv, InVector
  <1>4. ASSUME NEW fd \in Fd, NEW type \in Events!EventType, Events!AddEvent(fd, type) PROVE PollInv'
    <2>1. /\ fd \in open /\ pollfds_' = Events!PollAdded(pollfds_, fd, type)
          /\ epoll' = epoll \cup {<<fd, type>>} /\ open' = open /\ tidy' = tidy
      BY <1>4, UnregisteredEntries DEF Events!AddEvent, Events!EpollSet, EventInv
    <2> QED
      BY <2>1, VectorStep DEF PollInv
  <1>5. ASSUME NEW fd \in Fd, NEW type \in Events!EventType, Events!RemoveEvent(fd, type) PROVE PollInv'
    <2>1. /\ <<fd, type>> \in epoll /\ pollfds_' = Events!PollRemoved(pollfds_, fd)
          /\ epoll' = epoll \ {<<fd, type>>} /\ open' = open /\ tidy' = tidy
      BY <1>5, RemovedEntries DEF Events!RemoveEvent, Events!EpollRemoved, EventInv
    <2>2. \A d \in Fd, t \in Events!EventType : <<d, t>> \in epoll' <=> <<d, t>> \in epoll /\ d # fd
      BY <1>1, <2>1
    <2> QED
      BY <2>1, <2>2, VectorStep DEF PollInv
  <1>6. ASSUME NEW fd \in Fd, NEW type \in Events!EventType, Events!ModifyEvent(fd, type) PROVE PollInv'
    <2>1. /\ pollfds_' = Events!PollAdded(Events!PollRemoved(pollfds_, fd), fd, type)
          /\ epoll' = {e \in epoll : e[1] # fd} \cup {<<fd, type>>} /\ open' = open /\ tidy' = tidy
      BY <1>6 DEF Events!ModifyEvent, Events!EpollSet
    <2>2. PICK t \in Events!EventType : <<fd, t>> \in epoll
      BY <1>6 DEF Events!ModifyEvent, Events!Registered
    <2>3. fd \in open
      BY <2>2 DEF PollInv
    <2> QED
      BY <2>1, <2>3, VectorStep DEF PollInv
  <1>7. CASE UNCHANGED Events!vars
    BY <1>7 DEF Events!vars, PollInv, InVector
  <1> QED
    BY <1>2, <1>3, <1>4, <1>5, <1>6, <1>7 DEF Events!Next

LEMMA SelectStep ==
    ASSUME Fd \subseteq Int, EventInv, SelectInv, [Events!Next]_(Events!vars)
    PROVE  SelectInv'
  <1>1. /\ epoll \subseteq Fd \X Events!EventType
        /\ \A d, e \in epoll : d[1] = e[1] => d = e
        /\ plain => \A e \in epoll : e[2] = "READ"
    BY DEF EventInv, InterestInv
  <1>2. ASSUME NEW fd \in Fd, Events!OpenSocket(fd) \/ Events!SocketChanges(fd) PROVE SelectInv'
    <2>1. UNCHANGED <<Events!selectVars, epoll, plain, tidy>>
      BY <1>2 DEF Events!OpenSocket, Events!SocketChanges
    <2> QED
      BY <2>1 DEF Events!selectVars, SelectInv
  <1>3. ASSUME NEW fd \in Fd, Events!CloseSocket(fd) PROVE SelectInv'
    <2>1. /\ UNCHANGED Events!selectVars /\ plain' = plain /\ epoll' = {e \in epoll : e[1] # fd}
          /\ tidy' = (tidy /\ ~Events!Registered(fd))
      BY <1>3 DEF Events!CloseSocket
    <2>2. tidy' => tidy /\ epoll' = epoll
      BY <2>1, UnregisteredEntries DEF EventInv
    <2> QED
      BY <2>1, <2>2 DEF SelectInv, Events!selectVars
  <1>4. ASSUME NEW fd \in Fd, NEW type \in Events!EventType, Events!SelectAdd(fd, type)
        PROVE  /\ readfds_' \subseteq Fd /\ maxfd_' \in Int /\ \A d \in readfds_' : d <= maxfd_'
    <2>1. maxfd_' \in Int /\ maxfd_' >= maxfd_ /\ maxfd_' >= fd
      BY <1>4, LargerFd DEF Events!SelectAdd, SelectInv
    <2>2. readfds_' \subseteq readfds_ \cup {fd}
      BY <1>4 DEF Events!SelectAdd
    <2> QED
      BY <2>1, <2>2 DEF SelectInv
  <1>5. ASSUME NEW fd \in Fd, NEW type \in Events!EventType, Events!AddEvent(fd, type) PROVE SelectInv'
    <2>1. /\ Events!SelectAdd(fd, type) /\ epoll' = epoll \cup {<<fd, type>>}
          /\ plain' = (plain /\ type = "READ") /\ tidy' = tidy
      BY <1>5, UnregisteredEntries DEF Events!AddEvent, Events!EpollSet, EventInv
    <2>2. plain' => readfds_' = readfds_ \cup {fd} /\ writefds_' = {} /\ errorfds_' = {}
      BY <2>1 DEF Events!SelectAdd, SelectInv
    <2> QED
      BY <1>4, <2>1, <2>2 DEF SelectInv
  <1>6. ASSUME NEW fd \in Fd, NEW type \in Events!EventType, Events!RemoveEvent(fd, type) PROVE SelectInv'
    <2>1. /\ <<fd, type>> \in epoll /\ epoll' = epoll \ {<<fd, type>>}
          /\ readfds_' = (IF type = "READ" THEN readfds_ \ {fd} ELSE readfds_)
          /\ writefds_' \subseteq writefds_ /\ errorfds_' \subseteq errorfds_
          /\ UNCHANGED <<maxfd_, plain, tidy>>
      BY <1>6, RemovedEntries DEF Events!RemoveEvent, Events!SelectRemove, Events!EpollRemoved, EventInv
    <2>2. plain => type = "READ"
      BY <1>1, <2>1
    <2>3. \A d \in Fd : <<d, "READ">> \in epoll' <=> <<d, "READ">> \in epoll /\ (type = "READ" => d # fd)
      BY <1>1, <2>1
    <2> QED
      BY <2>1, <2>2, <2>3 DEF SelectInv
  <1>7. ASSUME NEW fd \in Fd, NEW type \in Events!EventType, Events!ModifyEvent(fd, type) PROVE SelectInv'
    <2>1. Events!SelectAdd(fd, type) /\ plain' = FALSE
      BY <1>7 DEF Events!ModifyEvent, Events!SelectModify
    <2> QED
      BY <1>4, <2>1 DEF SelectInv
  <1>8. CASE UNCHANGED Events!vars
    BY <1>8 DEF Events!vars, Events!selectVars, SelectInv
  <1> QED
    BY <1>2, <1>3, <1>5, <1>6, <1>7, <1>8 DEF Events!Next

(* PollIO drops an event exactly when hup is all there is to say.          *)
LEMMA PollIsLikeEpoll == EventInv /\ PollInv => Events!PollLikeEpoll
  <1> SUFFICES ASSUME EventInv, PollInv, tidy
               PROVE  /\ Events!PollWait \subseteq Events!EpollWait
                      /\ \A e \in Events!EpollWait \ Events!PollWait :
                            \A type \in Events!EventType : <<e[1], type>> \in epoll =>
                                Events!Returned(e[1], type) = {"hup"}
    BY DEF Events!PollLikeEpoll
  <1> DEFINE R(e) == Events!Returned(e[1], e[2])
             report(e) == <<e[1], Events!TypeOf(R(e))>>
             Polled == {e \in epoll : R(e) \cap {"in", "out", "err"} # {}}
             Epolled == {e \in epoll : R(e) # {}}
  <1>1. /\ epoll \subseteq Fd \X Events!EventType
        /\ \A d, e \in epoll : d[1] = e[1] => d = e
        /\ \A e \in epoll : e[1] \in open
    BY DEF EventInv, InterestInv, PollInv
  <1>2. \A e \in epoll : R(e) \subseteq {"in", "out", "err", "hup"}
    BY DEF Events!Returned
  <1>3. Events!EpollWait = {report(e) : e \in Epolled}
    BY <1>1 DEF Events!EpollWait
  <1>4. Events!PollWait = {report(e) : e \in Polled}
    <2> DEFINE P == {p \in Events!ToSet(pollfds_) :
                        p.fd \in open /\ Events!Returned(p.fd, p.type) \cap {"in", "out", "err"} # {}}
    <2>1. ASSUME NEW p \in Events!ToSet(pollfds_)
          PROVE  <<p.fd, p.type>> \in epoll
      <3>1. PICK i \in DOMAIN pollfds_ : p = pollfds_[i]
        BY DEF Events!ToSet
      <3>2. p \in Entry
        BY <3>1 DEF PollInv
      <3>3. p = [fd |-> p.fd, type |-> p.type] /\ p.fd \in Fd /\ p.type \in Events!EventType
        BY <3>2 DEF Entry
      <3>4. InVector(p.fd, p.type)
        BY <3>1, <3>3 DEF InVector
      <3> QED
        BY <3>3, <3>4 DEF PollInv
    <2>2. ASSUME NEW e \in epoll
          PROVE  [fd |-> e[1], type |-> e[2]] \in Events!ToSet(pollfds_) /\ e = <<e[1], e[2]>>
      BY <1>1 DEF PollInv, InVector, Events!ToSet
    <2>3. ASSUME NEW p \in P PROVE <<p.fd, p.type>> \in Polled
      BY <2>1
    <2>4. ASSUME NEW e \in Polled PROVE [fd |-> e[1], type |-> e[2]] \in P
      BY <1>1, <2>2
    <2>5. Events!PollWait = {<<p.fd, Events!TypeOf(Events!Returned(p.fd, p.type))>> : p \in P}
      BY DEF Events!PollWait
    <2> HIDE DEF P, Polled
    <2>6. ASSUME NEW p \in P
          PROVE  <<p.fd, Events!TypeOf(Events!Returned(p.fd, p.type))>> \in {report(e) : e \in Polled}
      <3>1. <<p.fd, Events!TypeOf(Events!Returned(p.fd, p.type))>> = report(<<p.fd, p.type>>)
        OBVIOUS
      <3> HIDE DEF report
      <3> QED
        BY <2>3, <3>1
    <2>7. ASSUME NEW e \in Polled
          PROVE  report(e) \in {<<p.fd, Events!TypeOf(Events!Returned(p.fd, p.type))>> : p \in P}
      <3> DEFINE polled(p) == <<p.fd, Events!TypeOf(Events!Returned(p.fd, p.type))>>
      <3>1. report(e) = polled([fd |-> e[1], type |-> e[2]])
        OBVIOUS
      <3>2. \A p \in P : polled(p) \in {polled(q) : q \in P}
        OBVIOUS
      <3>3. report(e) \in {polled(q) : q \in P}
        BY <2>4, <3>1, <3>2
      <3> QED
        BY <3>3
    <2> QED
      BY <2>5, <2>6, <2>7
  <1>5. Polled \subseteq Epolled
    OBVIOUS
  <1>6. ASSUME NEW x \in Events!EpollWait \ Events!PollWait, NEW type \in Events!EventType,
               <<x[1], type>> \in epoll
        PROVE  Events!Returned(x[1], type) = {"hup"}
    <2>1. PICK e \in Epolled : x = report(e)
      BY <1>3, <1>6
    <2>2. e \notin Polled
      BY <1>4, <1>6, <2>1
    <2>3. R(e) = {"hup"}
      BY <1>2, <2>1, <2>2
    <2>4. <<x[1], type>> = e
      BY <1>1, <1>6, <2>1
    <2> QED
      BY <2>3, <2>4
  <1> QED
    BY <1>3, <1>4, <1>5, <1>6

(* Used for READ the three report the sockets that are readable, because a *)
(* TCP socket that was hung up or has an error is.                         *)
LEMMA ReadsAreSame == EventInv /\ PollInv /\ SelectInv => Events!SameReads
  <1> SUFFICES ASSUME EventInv, PollInv, SelectInv, plain, tidy
               PROVE  Events!SelectWait = Events!PollWait /\ Events!PollWait = Events!EpollWait
    BY DEF Events!SameReads
  <1> DEFINE Readable == {x \in Fd : Events!Registered(x) /\ cond[x] \cap {"in", "err", "hup"} # {}}
  <1>1. Events!EpollWait = {<<fd, "READ">> : fd \in Readable}
    BY ReportsAdded
  <1>2. /\ epoll \subseteq Fd \X Events!EventType /\ \A e \in epoll : e[2] = "READ" /\ e[1] \in open
    BY DEF EventInv, InterestInv, PollInv
  <1>3. \A x \in Fd : Events!Registered(x) <=> <<x, "READ">> \in epoll
    BY <1>2 DEF Events!Registered, Events!EventType
  <1>4. /\ writefds_ = {} /\ errorfds_ = {} /\ Events!InSet(readfds_) = readfds_ /\ Events!InSet({}) = {}
        /\ Events!InSet(readfds_ \cup writefds_ \cup errorfds_) = readfds_
    BY DEF SelectInv, Events!InSet
  <1>5. \A x \in Fd : x \in readfds_ <=> Events!Registered(x)
    BY <1>3 DEF SelectInv
  <1>6. readfds_ \subseteq open /\ readfds_ \subseteq Fd
    BY <1>2, <1>3, <1>5 DEF SelectInv
  <1>7. Events!SelectWait = {<<fd, "READ">> : fd \in {x \in readfds_ : cond[x] \cap {"in", "hup", "err"} # {}}}
    BY <1>4, <1>6 DEF Events!SelectWait
  <1>8. {x \in readfds_ : cond[x] \cap {"in", "hup", "err"} # {}} = Readable
    BY <1>5, <1>6
  <1>9. Events!PollWait \subseteq Events!EpollWait
    BY PollIsLikeEpoll DEF Events!PollLikeEpoll
  <1>10. ASSUME NEW e \in Events!EpollWait \ Events!PollWait PROVE FALSE
    <2>1. PICK x \in Readable : e = <<x, "READ">>
      BY <1>1, <1>10
    <2>2. Events!Returned(x, "READ") = {"hup"}
      BY <1>3, <1>10, <2>1, PollIsLikeEpoll DEF Events!PollLikeEpoll, Events!EventType
    <2>3. Events!Returned(x, "READ") = cond[x] \cap {"in", "err", "hup"} /\ cond[x] \in Events!Conditions
      BY DEF Events!Returned, EventInv, CondInv
    <2> QED
      BY <2>2, <2>3 DEF Events!Conditions
  <1> QED
    BY <1>1, <1>7, <1>8, <1>9, <1>10

-----------------------------------------------------------------------------
(* A step of Libraries is a step of the part that is used. *)
LEMMA PartStep ==
    ASSUME [Next]_<<part, heapVars, treeVars, eventVars>>
    PROVE  /\ part' = part
           /\ part = "events" => [Events!Next]_(Events!vars)
           /\ part = "trees" => [TreeNext]_treeVars
  BY DEF Next, eventVars, treeVars, Events!vars, Events!selectVars

(* Used for READ, with every socket removed before it is closed, the three *)
(* classes are interchangeable, and PollIO and EpollIO are for the other   *)
(* types, but for a hang-up that comes alone (wait of the three classes).  *)
THEOREM BackEndsAgree ==
    ASSUME Fd \subseteq Int
    PROVE  (Events!Spec => [](Events!SameReads /\ Events!PollLikeEpoll)) /\ (Spec => []BackendsAgree)
  <1> DEFINE All == EventInv /\ PollInv /\ SelectInv
             Inv == part = "events" => All
  <1>1. Events!Init => All
    BY EventInit, BackEndsInit
  <1>2. All /\ [Events!Next]_(Events!vars) => All'
    BY EventStep, PollStep, SelectStep
  <1>3. All => Events!SameReads /\ Events!PollLikeEpoll
    BY ReadsAreSame, PollIsLikeEpoll
  <1> HIDE DEF All
  <1>4. Events!Spec => [](Events!SameReads /\ Events!PollLikeEpoll)
    BY <1>1, <1>2, <1>3, PTL DEF Events!Spec
  <1>5. Init => Inv
    BY <1>1 DEF Init
  <1>6. Inv /\ [Next]_<<part, heapVars, treeVars, eventVars>> => Inv'
    BY <1>2, PartStep
  <1>7. Inv => BackendsAgree
    BY <1>3 DEF BackendsAgree
  <1> HIDE DEF Inv
  <1>8. Spec => []BackendsAgree
    BY <1>5, <1>6, <1>7, PTL DEF Spec
  <1> QED
    BY <1>4, <1>8

(* However chunks of large sizes are put in and taken out, the tries have  *)
(* the shape that do_check_tree asserts: every chunk is in one ring, in    *)
(* the bin of its size and on the way of its size, rings are of one size   *)
(* and no two of the same, and no node hangs on a place that is empty.     *)
THEOREM TreesAreSound == TreeSpec => []TreesSound
  BY TreeInvAlways, InvIsSound, PTL

(* tmalloc_large and tmalloc_small, which look at one path only, find the  *)
(* smallest chunk of all bins that is large enough, and of those of this   *)
(* size the oldest; tmalloc_large finds nothing only if nothing is there.  *)
THEOREM BestFit == TreeSpec => []BestFitFound
  BY TreeInvAlways, InvFindsBest, PTL

(* Both, of the tree bins as Libraries has them.                           *)
THEOREM TreeBinsAreSound == Spec => []TreeBinsSound
  <1> DEFINE Inv == part = "trees" => TreeInv
  <1>1. Init => Inv
    BY TreeInvInit DEF Init
  <1>2. Inv /\ [Next]_<<part, heapVars, treeVars, eventVars>> => Inv'
    BY TreeInvStep, PartStep
  <1>3. Inv => TreeBinsSound
    BY InvIsSound, InvFindsBest DEF TreeBinsSound
  <1> HIDE DEF Inv
  <1> QED
    BY <1>1, <1>2, <1>3, PTL DEF Spec
=============================================================================
