------------------------- MODULE ConnectionsProofs -------------------------
(***************************************************************************)
(* For any number of connections, descriptors, workers and stale events:   *)
(* no handler closes a descriptor on a client that waits for its answer,   *)
(* unless accept reused the number under it; no part of a request is read  *)
(* by two handlers and no request is executed twice; and with one worker a *)
(* client only gets answers to what it sent.                               *)
(***************************************************************************)
EXTENDS Connections, SequenceTheorems, FiniteSetTheorems, WellFoundedInduction, TLAPS

(* accept gives a descriptor that is free. *)
LEMMA MinExists ==
    ASSUME NEW S \in SUBSET Nat, S # {}
    PROVE  Min(S) \in S
  <1>1. PICK x \in S : \A y \in S : ~(<<y, x>> \in OpToRel(<, Nat))
    BY NatLessThanWellFounded, WFMin
  <1>2. OpToRel(<, Nat) = {ss \in Nat \X Nat : ss[1] < ss[2]}
    BY DEF OpToRel
  <1>3. ASSUME NEW y \in S PROVE x <= y
    <2> SUFFICES ASSUME y < x PROVE FALSE
      OBVIOUS
    <2>1. <<y, x>> \in OpToRel(<, Nat)
      BY <1>2
    <2> QED
      BY <1>1, <2>1
  <1> QED
    BY <1>3 DEF Min

LEMMA FdTypes == Idle \in Fd /\ (FreeFd # {} => Min(FreeFd) \in FreeFd)
  BY MinExists, ConnectionsAssumption DEF Idle, FreeFd

LEMMA Popped ==
    ASSUME NEW S, NEW s \in Seq(S), s # << >>
    PROVE  /\ Head(s) \in S /\ Head(s) = s[1] /\ Tail(s) \in Seq(S)
           /\ Len(s) \in Nat /\ Len(s) > 0 /\ Len(Tail(s)) = Len(s) - 1
           /\ \A i \in 1..(Len(s) - 1) : Tail(s)[i] = s[i + 1]
  BY HeadTailProperties

-----------------------------------------------------------------------------
(* The parts of TypeOK that the proofs need. *)
TypeInv ==
    /\ client \in [Conn -> {"new", "open", "closed"}]
    /\ unsent \in [Conn -> Nat] /\ inbuf \in [Conn -> Nat]
    /\ backlog \in Seq(Conn) /\ served \subseteq Conn
    /\ file \in [Fd -> Conn \cup {NoConn}] /\ queue \in Seq(Fd)
    /\ hpc \in [Worker -> {"idle", "recv", "send", "close"}]
    /\ hfd \in [Worker -> Fd] /\ data \in [Worker -> Seq(Conn)]

LEMMA GotoType ==
    ASSUME TypeInv, NEW w \in Worker, NEW from, NEW to \in {"idle", "recv", "send", "close"},
           Goto(w, from, to)
    PROVE  /\ hpc' \in [Worker -> {"idle", "recv", "send", "close"}]
           /\ hfd' \in [Worker -> Fd]
           /\ UNCHANGED <<client, unsent, backlog, queue>>
  BY FdTypes DEF Goto, TypeInv, clientVars, loopVars

LEMMA Read ==
    ASSUME TypeInv, NEW w \in Worker, RecvData(w)
    PROVE  /\ Here(w) \in Conn
           /\ \E n \in Nat : data' = [data EXCEPT ![w] = @ \o [i \in 1 .. n |-> Here(w)]]
  BY DEF RecvData, Here, TypeInv

LEMMA TypeStep == TypeInv /\ [Next]_vars => TypeInv'
  <1> SUFFICES ASSUME TypeInv, [Next]_vars PROVE TypeInv'
    OBVIOUS
  <1>1. ASSUME NEW c \in Conn, ClientStep(c) PROVE TypeInv'
    <2>1. CASE Connect(c)
      <3>1. Append(backlog, c) \in Seq(Conn)
        BY AppendProperties DEF TypeInv
      <3> QED
        BY <2>1, <3>1 DEF Connect, handlerVars, TypeInv
    <2>2. CASE SendPart(c)
      <3>1. unsent[c] \in Nat /\ unsent[c] > 0 /\ inbuf[c] \in Nat
        BY <2>2 DEF SendPart, TypeInv
      <3>2. unsent' \in [Conn -> Nat] /\ inbuf' \in [Conn -> Nat]
        BY <2>2, <3>1 DEF SendPart, TypeInv
      <3> QED
        BY <2>2, <3>2 DEF SendPart, handlerVars, loopVars, TypeInv
    <2>3. CASE ClientClose(c)
      BY <2>3 DEF ClientClose, handlerVars, loopVars, TypeInv
    <2> QED
      BY <1>1, <2>1, <2>2, <2>3 DEF ClientStep
  <1>2. ASSUME NEW f \in Fd, Dispatch(f) PROVE TypeInv'
    BY <1>2, AppendProperties DEF Dispatch, handlerVars, clientVars, TypeInv
  <1>3. CASE Wait \/ Dispatched \/ WaitTimesOut \/ UNCHANGED vars
    BY <1>3 DEF Wait, Dispatched, WaitTimesOut, vars, handlerVars, clientVars, TypeInv
  <1>4. CASE Accept
    <2>1. CASE UNCHANGED <<backlog, file, served>>
      BY <1>4, <2>1 DEF Accept, handlerVars, clientVars, TypeInv
    <2>2. CASE ~(FreeFd = {} \/ backlog = << >>)
      <3>1. Head(backlog) \in Conn /\ Tail(backlog) \in Seq(Conn)
        BY <2>2, Popped DEF TypeInv
      <3> QED
        BY <1>4, <2>2, <3>1 DEF Accept, handlerVars, clientVars, TypeInv
    <2> QED
      BY <1>4, <2>1, <2>2 DEF Accept
  <1>5. ASSUME NEW w \in Worker, Take(w) PROVE TypeInv'
    <2>1. Head(queue) \in Fd /\ Tail(queue) \in Seq(Fd)
      BY <1>5, Popped DEF Take, TypeInv
    <2> QED
      BY <1>5, <2>1 DEF Take, clientVars, loopVars, TypeInv
  <1>6. ASSUME NEW w \in Worker, RecvData(w) PROVE TypeInv'
    <2>1. data' \in [Worker -> Seq(Conn)]
      <3>1. PICK n \in Nat : data' = [data EXCEPT ![w] = @ \o [i \in 1 .. n |-> Here(w)]]
        BY <1>6, Read
      <3>2. [i \in 1 .. n |-> Here(w)] \in Seq(Conn)
        BY <1>6, Read
      <3>3. data[w] \o [i \in 1 .. n |-> Here(w)] \in Seq(Conn)
        BY <3>2, ConcatProperties DEF TypeInv
      <3> QED
        BY <3>1, <3>3 DEF TypeInv
    <2> QED
      BY <1>6, <2>1, GotoType DEF RecvData, TypeInv
  <1>7. ASSUME NEW w \in Worker, RecvEnd(w) \/ RecvNothing(w) \/ Process(w) \/ Send(w) PROVE TypeInv'
    BY <1>7, GotoType DEF RecvEnd, RecvNothing, Process, Send, TypeInv
  <1>8. ASSUME NEW w \in Worker, Close(w) \/ AnswerThrows(w) PROVE TypeInv'
    <2>1. << >> \in Seq(Conn)
      BY EmptySeq
    <2>2. CASE Close(w)
      BY <2>1, <2>2, GotoType DEF Close, Here, TypeInv
    <2>3. CASE AnswerThrows(w)
      BY <2>1, <2>3, GotoType DEF AnswerThrows, TypeInv
    <2> QED
      BY <1>8, <2>2, <2>3
  <1> QED
    BY <1>1, <1>2, <1>3, <1>4, <1>5, <1>6, <1>7, <1>8 DEF Next, RunStep, WorkerStep

LEMMA TypeInit == Init => TypeInv
  BY FdTypes, EmptySeq, ConnectionsAssumption DEF Init, TypeInv

-----------------------------------------------------------------------------
(* Nobody is dropped.  A handler is about to close only after the stream   *)
(* ended, or after it has sent an answer on the connection its descriptor  *)
(* still refers to, as long as accept has not reused the number under it.  *)
Done(c) == client[c] = "closed" \/ answers[c] # {}

DropInv ==
    /\ answers \in [Conn -> SUBSET Seq(Conn)]
    /\ \A f \in Fd \ reused : \A w \in Worker :
          hpc[w] = "close" /\ hfd[w] = f /\ file[f] # NoConn => Done(file[f])

LEMMA DoneStays ==
    ASSUME TypeInv, DropInv, [Next]_vars, NEW c \in Conn, Done(c)
    PROVE  Done(c)'
  <1>1. ASSUME NEW d \in Conn, ClientStep(d) PROVE Done(c)'
    BY <1>1 DEF ClientStep, Connect, SendPart, ClientClose, Done, TypeInv
  <1>2. CASE RunStep \/ WaitTimesOut \/ UNCHANGED vars
    BY <1>2 DEF RunStep, Wait, Dispatched, Dispatch, Accept, WaitTimesOut, vars, clientVars, Done
  <1>3. ASSUME NEW w \in Worker,
               Take(w) \/ RecvData(w) \/ RecvEnd(w) \/ RecvNothing(w) \/ Process(w)
                 \/ AnswerThrows(w) \/ Close(w)
        PROVE  Done(c)'
    BY <1>3 DEF Take, RecvData, RecvEnd, RecvNothing, Process, AnswerThrows, Close, Goto, clientVars,
       Done
  <1>4. ASSUME NEW w \in Worker, Send(w) PROVE Done(c)'
    <2>1. client' = client /\ answers[c] \subseteq answers'[c]
      BY <1>4 DEF Send, Goto, clientVars, DropInv
    <2> QED
      BY <2>1 DEF Done
  <1> QED
    BY <1>1, <1>2, <1>3, <1>4 DEF Next, WorkerStep

(* A step that starts no close and gives out no descriptor. *)
LEMMA DropFrame ==
    ASSUME TypeInv, DropInv, [Next]_vars, UNCHANGED <<file, reused, answers>>,
           \A w \in Worker : hpc'[w] = "close" => hpc[w] = "close" /\ hfd'[w] = hfd[w]
    PROVE  DropInv'
  <1>1. ASSUME NEW f \in Fd \ reused, NEW w \in Worker, hpc[w] = "close", hfd[w] = f, file[f] # NoConn
        PROVE  Done(file[f])'
    BY <1>1, DoneStays DEF DropInv, TypeInv
  <1> QED
    BY <1>1 DEF DropInv, Done

LEMMA DropStep == TypeInv /\ DropInv /\ [Next]_vars => DropInv'
  <1> SUFFICES ASSUME TypeInv, DropInv, [Next]_vars PROVE DropInv'
    OBVIOUS
  <1>1. ASSUME NEW c \in Conn, ClientStep(c) PROVE DropInv'
    BY <1>1, DropFrame DEF ClientStep, Connect, SendPart, ClientClose, handlerVars, loopVars
  <1>2. ASSUME NEW f \in Fd, Dispatch(f) PROVE DropInv'
    BY <1>2, DropFrame DEF Dispatch, handlerVars
  <1>3. CASE Wait \/ Dispatched \/ WaitTimesOut \/ UNCHANGED vars
    BY <1>3, DropFrame DEF Wait, Dispatched, WaitTimesOut, vars, handlerVars
  <1>4. CASE Accept
    <2>1. CASE UNCHANGED <<file, reused>>
      BY <1>4, <2>1, DropFrame DEF Accept, handlerVars
    <2>2. CASE ~UNCHANGED <<file, reused>>
      <3> DEFINE g == Min(FreeFd)
      <3>1. /\ FreeFd # {} /\ file' = [file EXCEPT ![g] = Head(backlog)]
            /\ reused' = IF AtWork(g) THEN reused \cup {g} ELSE reused \ {g}
            /\ UNCHANGED <<hpc, hfd, client, answers>>
        BY <1>4, <2>2 DEF Accept, handlerVars, clientVars
      <3>2. g \in Fd
        BY <3>1, FdTypes DEF FreeFd
      <3> HIDE DEF g
      <3>3. ASSUME NEW f \in Fd \ reused', NEW w \in Worker,
                   hpc[w] = "close", hfd[w] = f, file'[f] # NoConn
            PROVE  Done(file[f])'
        <4>1. f # g
          BY <3>1, <3>3 DEF AtWork
        <4>2. f \in Fd \ reused /\ file'[f] = file[f]
          BY <3>1, <3>3, <4>1 DEF TypeInv
        <4> QED
          BY <3>1, <3>3, <4>2 DEF DropInv, Done
      <3> QED
        BY <3>1, <3>3 DEF DropInv, Done
    <2> QED
      BY <2>1, <2>2
  <1>5. ASSUME NEW w \in Worker,
               Take(w) \/ RecvData(w) \/ RecvNothing(w) \/ Process(w) \/ AnswerThrows(w)
        PROVE  DropInv'
    <2>1. UNCHANGED <<file, reused, answers>>
      BY <1>5 DEF Take, RecvData, RecvNothing, Process, AnswerThrows, Goto, loopVars
    <2>2. \A v \in Worker : hpc'[v] = "close" => v # w /\ hpc[v] = "close" /\ hfd'[v] = hfd[v]
      BY <1>5 DEF Take, RecvData, RecvNothing, Process, AnswerThrows, Goto, TypeInv
    <2> QED
      BY <2>1, <2>2, DropFrame
  <1>6. ASSUME NEW w \in Worker, RecvEnd(w) \/ Send(w) PROVE DropInv'
    <2>1. /\ UNCHANGED <<file, reused, hfd, client>> /\ hpc' = [hpc EXCEPT ![w] = "close"]
      BY <1>6 DEF RecvEnd, Send, Goto, clientVars, loopVars
    <2>2. ASSUME Here(w) # NoConn PROVE Done(Here(w))'
      <3>1. Here(w) \in Conn /\ UNCHANGED Here(w)
        BY <2>1, <2>2 DEF Here, TypeInv
      <3>2. CASE RecvEnd(w)
        BY <2>1, <2>2, <3>1, <3>2 DEF RecvEnd, Done
      <3>3. CASE Send(w)
        BY <2>1, <2>2, <3>1, <3>3 DEF Send, Done, DropInv
      <3> QED
        BY <1>6, <3>2, <3>3
    <2>3. answers' \in [Conn -> SUBSET Seq(Conn)]
      <3>1. data[w] \in Seq(Conn) /\ answers \in [Conn -> SUBSET Seq(Conn)]
        BY DEF DropInv, TypeInv
      <3>2. \A c \in Conn : answers[c] \cup {data[w]} \in SUBSET Seq(Conn)
        BY <3>1
      <3>3. Here(w) # NoConn => Here(w) \in Conn
        BY DEF Here, TypeInv
      <3> QED
        BY <1>6, <3>1, <3>2, <3>3 DEF RecvEnd, Send
    <2>4. ASSUME NEW f \in Fd \ reused, NEW v \in Worker, hpc'[v] = "close", hfd[v] = f,
                 file[f] # NoConn
          PROVE  Done(file[f])'
      <3>1. CASE v = w
        BY <2>1, <2>2, <2>4, <3>1 DEF Here, Done
      <3>2. CASE v # w
        <4>1. hpc[v] = "close"
          BY <2>1, <2>4, <3>2 DEF TypeInv
        <4>2. file[f] \in Conn /\ Done(file[f])
          BY <2>4, <4>1 DEF DropInv, TypeInv
        <4>3. \A c \in Conn : Done(c) => Done(c)'
          BY DoneStays
        <4> QED
          BY <2>1, <4>2, <4>3 DEF Done
      <3> QED
        BY <3>1, <3>2
    <2> QED
      BY <2>1, <2>3, <2>4 DEF DropInv, Done
  <1>7. ASSUME NEW w \in Worker, Close(w) PROVE DropInv'
    <2>1. /\ UNCHANGED <<reused, client, answers>>
          /\ \A f \in Fd : file'[f] # NoConn => file'[f] = file[f]
          /\ \A v \in Worker : hpc'[v] = "close" => hpc[v] = "close" /\ hfd'[v] = hfd[v]
      BY <1>7 DEF Close, Goto, clientVars, loopVars, TypeInv
    <2> QED
      BY <2>1 DEF DropInv, Done
  <1> QED
    BY <1>1, <1>2, <1>3, <1>4, <1>5, <1>6, <1>7 DEF Next, RunStep, WorkerStep

(* Only close frees a descriptor, and only for a client that is done. *)
LEMMA NotDropped ==
    ASSUME TypeInv, DropInv, [Next]_vars, NEW f \in Fd, file[f] # NoConn, file'[f] = NoConn
    PROVE  Unanswered(file[f]) => f \in reused
  <1>1. ASSUME file' = file PROVE FALSE
    BY <1>1
  <1>2. CASE Accept
    <2>1. CASE file' # file
      <3>1. FreeFd # {} /\ backlog # << >> /\ file' = [file EXCEPT ![Min(FreeFd)] = Head(backlog)]
        BY <1>2, <2>1 DEF Accept
      <3>2. Head(backlog) \in Conn
        BY <3>1, Popped DEF TypeInv
      <3> QED
        BY <3>1, <3>2, ConnectionsAssumption DEF TypeInv
    <2> QED
      BY <1>1, <2>1
  <1>3. ASSUME NEW w \in Worker, Close(w) PROVE Unanswered(file[f]) => f \in reused
    <2>1. hpc[w] = "close" /\ hfd[w] = f
      BY <1>3 DEF Close, Goto, TypeInv
    <2> QED
      BY <2>1 DEF DropInv, Done, Unanswered
  <1>4. ASSUME NEW w \in Worker, WorkerStep(w), ~Close(w) PROVE file' = file
    BY <1>4 DEF WorkerStep, Take, RecvData, RecvEnd, RecvNothing, Process, AnswerThrows, Send
  <1>5. ASSUME NEW c \in Conn, ClientStep(c) PROVE file' = file
    BY <1>5 DEF ClientStep, Connect, SendPart, ClientClose
  <1>6. CASE Wait \/ Dispatched \/ WaitTimesOut \/ UNCHANGED vars
    BY <1>1, <1>6 DEF Wait, Dispatched, WaitTimesOut, vars
  <1>7. ASSUME NEW g \in Fd, Dispatch(g) PROVE file' = file
    BY <1>7 DEF Dispatch
  <1> QED
    BY <1>1, <1>2, <1>3, <1>4, <1>5, <1>6, <1>7 DEF Next, RunStep

(* However many handlers a descriptor has, queued or at work, none closes  *)
(* it on a client that is still there and has no answer, unless accept     *)
(* reused the number under a handler (run, handleNewConnection and         *)
(* handleClient).                                                          *)
THEOREM NobodyIsDropped == Spec => NoneDropped
  <1>1. Init => DropInv
    BY DEF Init, DropInv
  <1>2. TypeInv /\ DropInv /\ [Next]_vars
          => [\A f \in Fd : file[f] # NoConn /\ file'[f] = NoConn /\ Unanswered(file[f])
                              => f \in reused]_vars
    BY NotDropped
  <1> QED
    BY <1>1, <1>2, TypeInit, TypeStep, DropStep, PTL DEF Spec, NoneDropped

-----------------------------------------------------------------------------
(* One worker.  It is the only one that closes descriptors, so what it has *)
(* read came from the connection its descriptor still refers to.           *)
OwnData(w) == \A i \in DOMAIN data[w] : data[w][i] = Here(w) /\ Here(w) # NoConn
OwnAnswers == \A c \in Conn : \A s \in answers[c] : \A i \in DOMAIN s : s[i] = c

OwnInv ==
    /\ answers \in [Conn -> SUBSET Seq(Conn)]
    /\ \A w \in Worker : hpc[w] # "idle" => w \in pool
    /\ \A w \in Worker : hpc[w] = "idle" => data[w] = << >>
    /\ \A w \in Worker : OwnData(w)
    /\ OwnAnswers /\ thrown \subseteq Wide

(* A step that touches no handler. *)
LEMMA OwnFrame ==
    ASSUME OwnInv, UNCHANGED <<pool, hpc, hfd, data, answers, file, thrown>>
    PROVE  OwnInv'
  BY DEF OwnInv, OwnData, OwnAnswers, Here

(* A step of worker w's handler. *)
LEMMA OwnHandler ==
    ASSUME TypeInv, OwnInv, NEW w \in Worker, hpc[w] # "idle" \/ w \in pool, OwnData(w)',
           UNCHANGED <<pool, file>>, hpc'[w] = "idle" => data'[w] = << >>,
           \A v \in Worker \ {w} : hpc'[v] = hpc[v] /\ hfd'[v] = hfd[v] /\ data'[v] = data[v],
           answers' \in [Conn -> SUBSET Seq(Conn)], OwnAnswers', thrown' \subseteq Wide
    PROVE  OwnInv'
  <1>1. ASSUME NEW v \in Worker, v # w PROVE OwnData(v)'
    BY <1>1 DEF OwnInv, OwnData, Here
  <1> QED
    BY <1>1 DEF OwnInv

LEMMA OneInPool ==
    ASSUME IsFiniteSet(pool), Cardinality(pool) = 1, NEW v \in pool, NEW w \in pool
    PROVE  v = w
  BY FS_Singleton

LEMMA OwnStep ==
    ASSUME TypeInv, OwnInv, IsFiniteSet(pool), Cardinality(pool) = 1, [Next]_vars
    PROVE  OwnInv'
  <1>1. ASSUME NEW c \in Conn, ClientStep(c) PROVE OwnInv'
    BY <1>1, OwnFrame DEF ClientStep, Connect, SendPart, ClientClose, handlerVars
  <1>2. ASSUME NEW f \in Fd, Dispatch(f) PROVE OwnInv'
    BY <1>2, OwnFrame DEF Dispatch, handlerVars
  <1>3. CASE Wait \/ Dispatched \/ WaitTimesOut \/ UNCHANGED vars
    BY <1>3, OwnFrame DEF Wait, Dispatched, WaitTimesOut, vars, handlerVars
  <1>4. CASE Accept
    <2>1. CASE file' = file
      BY <1>4, <2>1, OwnFrame DEF Accept, handlerVars
    <2>2. CASE file' # file
      <3>1. /\ FreeFd # {} /\ file' = [file EXCEPT ![Min(FreeFd)] = Head(backlog)]
            /\ UNCHANGED <<pool, hpc, hfd, data, answers, thrown>>
        BY <1>4, <2>2 DEF Accept, handlerVars
      <3>2. Min(FreeFd) \in Fd /\ file[Min(FreeFd)] = NoConn
        BY <3>1, FdTypes DEF FreeFd
      <3>3. ASSUME NEW w \in Worker PROVE OwnData(w)'
        <4>1. CASE Here(w) = NoConn
          BY <3>1, <4>1 DEF OwnInv, OwnData
        <4>2. CASE Here(w) # NoConn
          <5>1. Here(w)' = Here(w)
            BY <3>1, <3>2, <4>2 DEF Here, TypeInv
          <5> QED
            BY <3>1, <5>1 DEF OwnInv, OwnData
        <4> QED
          BY <4>1, <4>2
      <3> QED
        BY <3>1, <3>3 DEF OwnInv, OwnAnswers
    <2> QED
      BY <2>1, <2>2
  <1>5. ASSUME NEW w \in Worker, Take(w) PROVE OwnInv'
    <2>1. data[w] = << >> /\ UNCHANGED <<pool, file, data, answers, thrown>> /\ w \in pool /\ hpc'[w] = "recv"
      BY <1>5 DEF Take, OwnInv, TypeInv
    <2>2. OwnData(w)'
      BY <2>1 DEF OwnData
    <2>3. \A v \in Worker \ {w} : hpc'[v] = hpc[v] /\ hfd'[v] = hfd[v] /\ data'[v] = data[v]
      BY <1>5, <2>1 DEF Take, TypeInv
    <2>4. answers' \in [Conn -> SUBSET Seq(Conn)] /\ OwnAnswers'
      BY <2>1 DEF OwnInv, OwnAnswers
    <2> QED
      BY <2>1, <2>2, <2>3, <2>4, OwnHandler DEF OwnInv
  <1>6. ASSUME NEW w \in Worker, RecvData(w) PROVE OwnInv'
    <2>1. /\ hpc[w] = "recv" /\ hpc' = [hpc EXCEPT ![w] = "recv"]
          /\ UNCHANGED <<pool, hfd, file, answers, thrown>>
      BY <1>6 DEF RecvData, Goto
    <2>2. PICK n \in Nat : data' = [data EXCEPT ![w] = @ \o [i \in 1 .. n |-> Here(w)]]
      BY <1>6, Read
    <2>3. OwnData(w)'
      <3> DEFINE more == [i \in 1 .. n |-> Here(w)]
      <3>1. Here(w)' = Here(w) /\ Here(w) \in Conn /\ Here(w) # NoConn
        BY <1>6, <2>1, Read, ConnectionsAssumption DEF Here
      <3>2. more \in Seq(Conn) /\ Len(more) = n
        BY <3>1
      <3>3. /\ data[w] \in Seq(Conn) /\ data'[w] = data[w] \o more
        BY <2>2 DEF TypeInv
      <3>4. \A i \in 1..Len(data[w]) : data[w][i] = Here(w)
        BY <3>3 DEF OwnInv, OwnData
      <3>5. \A i \in 1..n : more[i] = Here(w)
        OBVIOUS
      <3> HIDE DEF more
      <3>6. \A i \in DOMAIN (data[w] \o more) : (data[w] \o more)[i] = Here(w)
        BY <3>2, <3>3, <3>4, <3>5, ConcatProperties
      <3> QED
        BY <3>1, <3>3, <3>6 DEF OwnData
    <2> QED
      BY <2>1, <2>2, <2>3, OwnHandler DEF OwnInv, OwnAnswers, TypeInv
  <1>7. ASSUME NEW w \in Worker, RecvEnd(w) \/ Process(w) PROVE OwnInv'
    <2>1. /\ hpc[w] = "recv" /\ hpc'[w] # "idle" /\ \A v \in Worker \ {w} : hpc'[v] = hpc[v]
          /\ UNCHANGED <<pool, hfd, file, data, answers, thrown>>
      BY <1>7 DEF RecvEnd, Process, Goto, TypeInv
    <2>2. OwnData(w)'
      BY <2>1 DEF OwnInv, OwnData, Here
    <2> QED
      BY <2>1, <2>2, OwnHandler DEF OwnInv, OwnAnswers
  <1>8. ASSUME NEW w \in Worker, RecvNothing(w) PROVE OwnInv'
    <2>1. /\ hpc[w] = "recv" /\ data[w] = << >> /\ \A v \in Worker \ {w} : hpc'[v] = hpc[v] /\ hfd'[v] = hfd[v]
          /\ UNCHANGED <<pool, file, data, answers, thrown>>
      BY <1>8 DEF RecvNothing, Goto, TypeInv
    <2>2. OwnData(w)'
      BY <2>1 DEF OwnData
    <2> QED
      BY <2>1, <2>2, OwnHandler DEF OwnInv, OwnAnswers
  <1>9. ASSUME NEW w \in Worker, Send(w) PROVE OwnInv'
    <2>1. /\ hpc[w] = "send" /\ hpc'[w] = "close" /\ \A v \in Worker \ {w} : hpc'[v] = hpc[v]
          /\ UNCHANGED <<pool, hfd, file, data, thrown>>
          /\ \/ answers' = answers
             \/ Here(w) # NoConn /\ answers' = [answers EXCEPT ![Here(w)] = @ \cup {data[w]}]
      BY <1>9 DEF Send, Goto, TypeInv
    <2>2. OwnData(w)'
      BY <2>1 DEF OwnInv, OwnData, Here
    <2>3. answers' \in [Conn -> SUBSET Seq(Conn)]
      <3>1. data[w] \in Seq(Conn) /\ answers \in [Conn -> SUBSET Seq(Conn)]
        BY DEF OwnInv, TypeInv
      <3>2. \A c \in Conn : answers[c] \cup {data[w]} \in SUBSET Seq(Conn)
        BY <3>1
      <3>3. Here(w) # NoConn => Here(w) \in Conn
        BY DEF Here, TypeInv
      <3> QED
        BY <2>1, <3>1, <3>2, <3>3
    <2>4. OwnAnswers'
      BY <2>1 DEF OwnInv, OwnAnswers, OwnData
    <2> QED
      BY <2>1, <2>2, <2>3, <2>4, OwnHandler DEF OwnInv
  <1>10. ASSUME NEW w \in Worker, Close(w) PROVE OwnInv'
    <2>1. /\ hpc[w] = "close" /\ hpc' = [hpc EXCEPT ![w] = "idle"] /\ data' = [data EXCEPT ![w] = << >>]
          /\ UNCHANGED <<pool, answers, thrown>>
      BY <1>10 DEF Close, Goto
    <2>2. \A v \in Worker : v # w => data[v] = << >>
      BY <2>1, OneInPool DEF OwnInv
    <2>3. \A v \in Worker : data'[v] = << >>
      BY <2>1, <2>2 DEF TypeInv
    <2> QED
      BY <2>1, <2>3 DEF OwnInv, OwnData, OwnAnswers, TypeInv
  <1>11. ASSUME NEW w \in Worker, AnswerThrows(w) PROVE OwnInv'
    <2>1. /\ hpc[w] = "recv" /\ data'[w] = << >> /\ thrown' = thrown \cup {Here(w)}
          /\ \A v \in Worker \ {w} : hpc'[v] = hpc[v] /\ hfd'[v] = hfd[v] /\ data'[v] = data[v]
          /\ UNCHANGED <<pool, file, answers>>
      BY <1>11 DEF AnswerThrows, Goto, TypeInv
    <2>2. PICK i \in DOMAIN data[w] : data[w][i] \in Wide
      BY <1>11 DEF AnswerThrows, Unprintable
    <2>3. thrown' \subseteq Wide
      BY <2>1, <2>2 DEF OwnInv, OwnData
    <2>4. OwnData(w)'
      BY <2>1 DEF OwnData
    <2> QED
      BY <2>1, <2>3, <2>4, OwnHandler DEF OwnInv, OwnAnswers
  <1> QED
    BY <1>1, <1>2, <1>3, <1>4, <1>5, <1>6, <1>7, <1>8, <1>9, <1>10, <1>11 DEF Next, RunStep, WorkerStep

LEMMA PoolFixed == TypeInv /\ pool \in Pools /\ [Next]_vars => pool' = pool
  BY DEF Next, RunStep, ClientStep, WorkerStep, Connect, SendPart, ClientClose, Wait,
     WaitTimesOut,
     Dispatched, Dispatch, Accept, Take, RecvData, RecvEnd, RecvNothing, Process, AnswerThrows, Send,
     Close, Goto, handlerVars, vars

(* With one worker a client only gets answers to what it sent itself, and  *)
(* only through its own bytes misses one to an exception, in whatever      *)
(* order connections, closes and stale events come (handleClient).         *)
THEOREM AnswersAreOwn ==
    ASSUME \A p \in Pools : IsFiniteSet(p)
    PROVE  Spec => []OwnAnswer
  <1>1. Init => OwnInv /\ pool \in Pools
    BY DEF Init, OwnInv, OwnData, OwnAnswers
  <1>2. TypeInv /\ pool \in Pools /\ (Cardinality(pool) = 1 => OwnInv) /\ [Next]_vars
          => (pool \in Pools /\ (Cardinality(pool) = 1 => OwnInv))'
    BY OwnStep, PoolFixed
  <1>3. (Cardinality(pool) = 1 => OwnInv) => OwnAnswer
    BY DEF OwnInv, OwnAnswers, OwnAnswer
  <1> QED
    BY <1>1, <1>2, <1>3, TypeInit, TypeStep, PTL DEF Spec

-----------------------------------------------------------------------------
(* Executed once.  The parts of a request are with its client, in its      *)
(* receive buffer or with one handler each; a handler that holds all of    *)
(* them leaves none for another.                                           *)
ReadInv == ReadOnce /\ \A c \in Conn : IsFiniteSet(PartsRead(c))

Holds(w, c) == \E i \in DOMAIN data[w] : data[w][i] = c

Spent(c) ==
    /\ unsent[c] = 0 /\ inbuf[c] = 0
    /\ \A w \in Worker : hpc[w] = "recv" => ~Holds(w, c)

ExecInv ==
    /\ executed \in [Conn -> {0, 1}] /\ answers \in [Conn -> SUBSET Seq(Conn)]
    /\ \A w \in Worker : hpc[w] = "idle" => data[w] = << >>
    /\ \A c \in Conn : executed[c] = 1 => Spent(c)
    /\ \A w \in Worker : hpc[w] = "send" /\ IsRequest(data[w]) => executed[Head(data[w])] = 1
    /\ \A c \in Conn : \A s \in answers[c] : IsRequest(s) => executed[Head(s)] = 1

LEMMA PartRead ==
    ASSUME NEW c, NEW x
    PROVE  x \in PartsRead(c)
             <=> \E w \in Worker : \E i \in DOMAIN data[w] : x = <<w, i>> /\ data[w][i] = c
  BY DEF PartsRead

LEMMA RequestOf ==
    ASSUME NEW s, IsRequest(s)
    PROVE  /\ Head(s) \in Conn
           /\ DOMAIN s = 1 .. Parts[Head(s)]
           /\ \A i \in DOMAIN s : s[i] = Head(s)
  <1>1. PICK c \in Conn \ Garbled : s = [i \in 1 .. Parts[c] |-> c]
    BY DEF IsRequest
  <1>2. Parts[c] \in Nat \ {0}
    BY ConnectionsAssumption
  <1>3. s \in Seq(Conn) /\ Len(s) = Parts[c] /\ 1 \in 1 .. Parts[c]
    BY <1>1, <1>2
  <1>4. s # << >>
    BY <1>2, <1>3, EmptySeq
  <1>5. Head(s) = c
    BY <1>1, <1>3, <1>4, Popped
  <1> QED
    BY <1>1, <1>5

(* A handler reads n parts of d. *)
LEMMA PartsAdded ==
    ASSUME TypeInv, ReadInv, NEW w \in Worker, NEW d \in Conn, NEW n \in Nat,
           NEW more \in Seq(Conn), Len(more) = n, \A i \in 1 .. n : more[i] = d,
           data' = [data EXCEPT ![w] = @ \o more]
    PROVE  /\ \A c \in Conn \ {d} : PartsRead(c)' = PartsRead(c) /\ (Holds(w, c)' <=> Holds(w, c))
           /\ IsFiniteSet(PartsRead(d)')
           /\ Cardinality(PartsRead(d)') = Cardinality(PartsRead(d)) + n
  <1> DEFINE k == Len(data[w])
             first == k + 1
             last == k + n
             new == {w} \X (first .. last)
  <1>1. /\ data[w] \in Seq(Conn) /\ k \in Nat
        /\ DOMAIN data[w] = 1 .. k
    BY DEF TypeInv
  <1>2. /\ data'[w] = data[w] \o more
        /\ \A v \in Worker \ {w} : data'[v] = data[v]
    BY DEF TypeInv
  <1>3. DOMAIN data'[w] = 1 .. last
    BY <1>1, <1>2, ConcatProperties
  <1>4. \A i \in 1 .. last : data'[w][i] = IF i <= k THEN data[w][i] ELSE d
    BY <1>1, <1>2, ConcatProperties
  <1>5. \A i : i \in 1 .. last <=> i \in 1 .. k \/ i \in first .. last
    BY <1>1
  <1>6. \A i \in 1 .. k : data'[w][i] = data[w][i]
    BY <1>1, <1>4
  <1>7. \A i \in first .. last : data'[w][i] = d
    BY <1>1, <1>4
  <1> HIDE DEF k
  <1>20. first \in Int /\ last \in Int /\ last = first + n - 1
    BY <1>1
  <1>8. ASSUME NEW c \in Conn, c # d
        PROVE  PartsRead(c)' = PartsRead(c) /\ (Holds(w, c)' <=> Holds(w, c))
    <2>1. \A i : i \in DOMAIN data'[w] /\ data'[w][i] = c <=> i \in DOMAIN data[w] /\ data[w][i] = c
      BY <1>1, <1>3, <1>5, <1>6, <1>7, <1>8
    <2>2. \A v \in Worker : {i \in DOMAIN data'[v] : data'[v][i] = c} = {i \in DOMAIN data[v] : data[v][i] = c}
      BY <1>2, <2>1
    <2> QED
      BY <2>1, <2>2 DEF PartsRead, Holds
  <1>9. PartsRead(d)' = PartsRead(d) \cup new
    <2>1. {i \in DOMAIN data'[w] : data'[w][i] = d}
             = {i \in DOMAIN data[w] : data[w][i] = d} \cup (first .. last)
      BY <1>1, <1>3, <1>5, <1>6, <1>7
    <2>2. \A v \in Worker \ {w} :
             {i \in DOMAIN data'[v] : data'[v][i] = d} = {i \in DOMAIN data[v] : data[v][i] = d}
      BY <1>2
    <2> QED
      BY <2>1, <2>2 DEF PartsRead
  <1>10. PartsRead(d) \cap new = {}
    <2> SUFFICES ASSUME NEW x \in new, x \in PartsRead(d) PROVE FALSE
      OBVIOUS
    <2>1. PICK i \in first .. last : x = <<w, i>>
      OBVIOUS
    <2>2. i \in DOMAIN data[w]
      BY <2>1, PartRead
    <2> QED
      BY <1>1, <2>2
  <1>11. IsFiniteSet(new) /\ Cardinality(new) = n
    <2> HIDE DEF first, last
    <2>1. (IF first > last THEN 0 ELSE last - first + 1) = n
      BY <1>20
    <2>2. IsFiniteSet(first .. last) /\ Cardinality(first .. last) = n
      BY <1>20, <2>1, FS_Interval
    <2>3. IsFiniteSet({w}) /\ Cardinality({w}) = 1
      BY FS_Singleton
    <2>4. IsFiniteSet({w} \X (first .. last)) /\ Cardinality({w} \X (first .. last)) = 1 * n
      BY <2>2, <2>3, FS_Product, ZenonT(40)
    <2> QED
      BY <2>4
  <1>12. IsFiniteSet(PartsRead(d)) /\ Cardinality(PartsRead(d)) \in Nat
    BY FS_CardinalityType DEF ReadInv
  <1> HIDE DEF new
  <1>13. Cardinality(PartsRead(d) \cap new) = 0
    BY <1>10, FS_EmptySet
  <1>14. IsFiniteSet(PartsRead(d) \cup new)
         /\ Cardinality(PartsRead(d) \cup new) = Cardinality(PartsRead(d)) + n - 0
    BY <1>11, <1>12, <1>13, FS_Union
  <1> QED
    BY <1>8, <1>9, <1>12, <1>14

(* A step that reads nothing and does not send. *)
LEMMA ReadFrame ==
    ASSUME TypeInv, ReadInv, UNCHANGED <<unsent, inbuf>>,
           \A c \in Conn : PartsRead(c)' \subseteq PartsRead(c)
    PROVE  ReadInv'
  <1> SUFFICES ASSUME NEW c \in Conn
               PROVE  /\ Cardinality(PartsRead(c)') + inbuf[c] + unsent[c] <= Parts[c]
                      /\ IsFiniteSet(PartsRead(c)')
    BY DEF ReadInv, ReadOnce
  <1>1. /\ IsFiniteSet(PartsRead(c)') /\ Cardinality(PartsRead(c)') <= Cardinality(PartsRead(c))
        /\ Cardinality(PartsRead(c)') \in Nat /\ Cardinality(PartsRead(c)) \in Nat
    BY FS_Subset, FS_CardinalityType DEF ReadInv
  <1>2. inbuf[c] \in Nat /\ unsent[c] \in Nat /\ Parts[c] \in Nat
    BY ConnectionsAssumption DEF TypeInv
  <1> QED
    BY <1>1, <1>2 DEF ReadInv, ReadOnce

LEMMA ReadStep == TypeInv /\ ReadInv /\ [Next]_vars => ReadInv'
  <1> SUFFICES ASSUME TypeInv, ReadInv, [Next]_vars PROVE ReadInv'
    OBVIOUS
  <1>1. ASSUME UNCHANGED <<unsent, inbuf, data>> PROVE ReadInv'
    BY <1>1, ReadFrame DEF PartsRead
  <1>2. ASSUME NEW c \in Conn, Connect(c) \/ ClientClose(c) PROVE ReadInv'
    BY <1>1, <1>2 DEF Connect, ClientClose, handlerVars
  <1>3. ASSUME NEW c \in Conn, SendPart(c) PROVE ReadInv'
    <2>1. unsent[c] \in Nat /\ unsent[c] > 0 /\ inbuf[c] \in Nat
      BY <1>3 DEF SendPart, TypeInv
    <2>2. \A d \in Conn : PartsRead(d)' = PartsRead(d)
      BY <1>3 DEF SendPart, handlerVars, PartsRead
    <2>3. ASSUME NEW d \in Conn PROVE inbuf'[d] + unsent'[d] = inbuf[d] + unsent[d]
      BY <1>3, <2>1 DEF SendPart, TypeInv
    <2>4. ASSUME NEW d \in Conn
          PROVE  Cardinality(PartsRead(d)') + inbuf'[d] + unsent'[d] <= Parts[d]
      <3>1. Cardinality(PartsRead(d)) \in Nat
        BY FS_CardinalityType DEF ReadInv
      <3>2. inbuf[d] \in Nat /\ unsent[d] \in Nat /\ inbuf'[d] \in Nat /\ unsent'[d] \in Nat
        BY <1>3, <2>1 DEF SendPart, TypeInv
      <3>3. Cardinality(PartsRead(d)) + inbuf[d] + unsent[d] <= Parts[d] /\ Parts[d] \in Nat
        BY ConnectionsAssumption DEF ReadInv, ReadOnce
      <3> QED
        BY <2>2, <2>3, <3>1, <3>2, <3>3
    <2> QED
      BY <2>2, <2>4 DEF ReadInv, ReadOnce
  <1>4. CASE RunStep \/ WaitTimesOut \/ UNCHANGED vars
    BY <1>1, <1>4 DEF RunStep, Wait, Dispatched, Dispatch, Accept, WaitTimesOut, vars,
       clientVars, handlerVars
  <1>5. ASSUME NEW w \in Worker, Take(w) \/ RecvEnd(w) \/ RecvNothing(w) \/ Process(w) \/ Send(w)
        PROVE  ReadInv'
    BY <1>1, <1>5 DEF Take, RecvEnd, RecvNothing, Process, Send, Goto, clientVars
  <1>6. ASSUME NEW w \in Worker, RecvData(w) PROVE ReadInv'
    <2>1. PICK d \in Conn, n \in Nat : d = Here(w) /\ n = inbuf[d]
      BY <1>6, Read DEF TypeInv
    <2> DEFINE more == [i \in 1 .. n |-> d]
    <2>2. more \in Seq(Conn) /\ Len(more) = n
      OBVIOUS
    <2>3. \A i \in 1 .. n : more[i] = d
      OBVIOUS
    <2>4. /\ data' = [data EXCEPT ![w] = @ \o more]
          /\ inbuf' = [inbuf EXCEPT ![d] = 0] /\ unsent' = unsent
      BY <1>6, <2>1 DEF RecvData, Goto, clientVars
    <2> HIDE DEF more
    <2>5. /\ \A c \in Conn \ {d} : PartsRead(c)' = PartsRead(c)
          /\ IsFiniteSet(PartsRead(d)')
          /\ Cardinality(PartsRead(d)') = Cardinality(PartsRead(d)) + n
      BY <2>2, <2>3, <2>4, PartsAdded
    <2>6. ASSUME NEW c \in Conn
          PROVE  /\ Cardinality(PartsRead(c)') + inbuf'[c] + unsent'[c] <= Parts[c]
                 /\ IsFiniteSet(PartsRead(c)')
      <3>1. CASE c = d
        <4>1. /\ Cardinality(PartsRead(c)) \in Nat /\ unsent[c] \in Nat /\ inbuf'[c] = 0
              /\ Parts[c] \in Nat
          BY <2>4, <3>1, FS_CardinalityType, ConnectionsAssumption DEF ReadInv, TypeInv
        <4>2. Cardinality(PartsRead(c)) + n + unsent[c] <= Parts[c]
          BY <2>1, <3>1 DEF ReadInv, ReadOnce
        <4> QED
          BY <2>4, <2>5, <3>1, <4>1, <4>2
      <3>2. CASE c # d
        BY <2>4, <2>5, <3>2 DEF ReadInv, ReadOnce, TypeInv
      <3> QED
        BY <3>1, <3>2
    <2> QED
      BY <2>6 DEF ReadInv, ReadOnce
  <1>7. ASSUME NEW w \in Worker, Close(w) \/ AnswerThrows(w) PROVE ReadInv'
    <2>1. data' = [data EXCEPT ![w] = << >>] /\ UNCHANGED <<unsent, inbuf>>
      BY <1>7 DEF Close, AnswerThrows, Goto, clientVars
    <2>2. \A v \in Worker : data'[v] = data[v] \/ data'[v] = << >>
      BY <2>1 DEF TypeInv
    <2>3. ASSUME NEW c \in Conn PROVE PartsRead(c)' \subseteq PartsRead(c)
      <3>1. \A v \in Worker : {i \in DOMAIN data'[v] : data'[v][i] = c}
                                 \subseteq {i \in DOMAIN data[v] : data[v][i] = c}
        BY <2>2
      <3> QED
        BY <3>1 DEF PartsRead
    <2> QED
      BY <2>1, <2>3, ReadFrame
  <1> QED
    BY <1>2, <1>3, <1>4, <1>5, <1>6, <1>7 DEF Next, ClientStep, WorkerStep

(* Who holds a whole request has left nothing of it to anybody. *)
LEMMA WholeRequest ==
    ASSUME TypeInv, ReadInv, NEW w \in Worker, IsRequest(data[w]),
           NEW c \in Conn, c = Head(data[w])
    PROVE  /\ unsent[c] = 0 /\ inbuf[c] = 0
           /\ \A v \in Worker \ {w} : ~Holds(v, c)
  <1> DEFINE mine == {w} \X (1 .. Parts[c])
  <1>1. /\ Parts[c] \in Nat /\ inbuf[c] \in Nat /\ unsent[c] \in Nat
        /\ IsFiniteSet(PartsRead(c)) /\ Cardinality(PartsRead(c)) \in Nat
        /\ Cardinality(PartsRead(c)) + inbuf[c] + unsent[c] <= Parts[c]
    BY ConnectionsAssumption, FS_CardinalityType DEF TypeInv, ReadInv, ReadOnce
  <1>2. IsFiniteSet(mine) /\ Cardinality(mine) = Parts[c]
    <2> DEFINE p == Parts[c]
    <2>1. 1 \in Int /\ p \in Int /\ (IF 1 > p THEN 0 ELSE p - 1 + 1) = p /\ 1 * p = p
      BY <1>1
    <2> HIDE DEF p
    <2>2. IsFiniteSet(1 .. p) /\ Cardinality(1 .. p) = p
      BY <2>1, FS_Interval
    <2>3. IsFiniteSet({w}) /\ Cardinality({w}) = 1
      BY FS_Singleton
    <2>4. IsFiniteSet({w} \X (1 .. p)) /\ Cardinality({w} \X (1 .. p)) = p
      BY <2>1, <2>2, <2>3, FS_Product
    <2> QED
      BY <2>4 DEF p
  <1>3. mine \subseteq PartsRead(c)
    <2> SUFFICES ASSUME NEW i \in 1 .. Parts[c] PROVE <<w, i>> \in PartsRead(c)
      OBVIOUS
    <2>1. i \in DOMAIN data[w] /\ data[w][i] = c
      BY RequestOf
    <2> QED
      BY <2>1, PartRead
  <1>4. Cardinality(mine) <= Cardinality(PartsRead(c))
        /\ (Cardinality(mine) = Cardinality(PartsRead(c)) => mine = PartsRead(c))
    BY <1>1, <1>3, FS_Subset
  <1>5. inbuf[c] = 0 /\ unsent[c] = 0 /\ mine = PartsRead(c)
    <2> HIDE DEF mine
    <2> QED
      BY <1>1, <1>2, <1>4
  <1>6. ASSUME NEW v \in Worker, v # w, Holds(v, c) PROVE FALSE
    <2>1. PICK i \in DOMAIN data[v] : data[v][i] = c
      BY <1>6 DEF Holds
    <2>2. <<v, i>> \in PartsRead(c)
      BY <2>1, PartRead
    <2> QED
      BY <1>5, <1>6, <2>2
  <1> QED
    BY <1>5, <1>6

(* A step that takes no handler out of a place where it was right. *)
LEMMA ExecFrame ==
    ASSUME TypeInv, ExecInv, UNCHANGED <<hpc, data, answers, executed>>,
           \A c \in Conn : unsent[c] = 0 /\ inbuf[c] = 0 => unsent'[c] = 0 /\ inbuf'[c] = 0
    PROVE  ExecInv'
  <1>1. ASSUME NEW c \in Conn, Spent(c) PROVE Spent(c)'
    BY <1>1 DEF Spent, Holds
  <1> QED
    BY <1>1 DEF ExecInv

(* A handler that moves on, or drops its data. *)
LEMMA ExecHandler ==
    ASSUME TypeInv, ExecInv, NEW w \in Worker, UNCHANGED <<unsent, inbuf, answers, executed>>,
           \A v \in Worker \ {w} : hpc'[v] = hpc[v] /\ data'[v] = data[v],
           \/ data'[w] = << >>
           \/ hpc'[w] = "close" /\ data'[w] = data[w]
    PROVE  ExecInv'
  <1>1. ~IsRequest(<< >>)
    BY RequestOf, ConnectionsAssumption DEF IsRequest
  <1>2. ASSUME NEW c \in Conn, Spent(c) PROVE Spent(c)'
    BY <1>2 DEF Spent, Holds
  <1>3. ASSUME hpc'[w] = "idle" PROVE data'[w] = << >>
    BY <1>3
  <1>4. ASSUME hpc'[w] = "send", IsRequest(data'[w]) PROVE FALSE
    BY <1>1, <1>4
  <1> QED
    BY <1>2, <1>3, <1>4 DEF ExecInv

LEMMA ExecStep == TypeInv /\ ReadInv /\ ExecInv /\ [Next]_vars => ExecInv'
  <1> SUFFICES ASSUME TypeInv, ReadInv, ExecInv, [Next]_vars PROVE ExecInv'
    OBVIOUS
  <1>1. ASSUME NEW c \in Conn, ClientStep(c) PROVE ExecInv'
    <2>1. UNCHANGED <<hpc, data, answers, executed>>
      BY <1>1 DEF ClientStep, Connect, SendPart, ClientClose, handlerVars
    <2>2. \A d \in Conn : unsent[d] = 0 /\ inbuf[d] = 0 => unsent'[d] = 0 /\ inbuf'[d] = 0
      BY <1>1 DEF ClientStep, Connect, SendPart, ClientClose, handlerVars, TypeInv
    <2> QED
      BY <2>1, <2>2, ExecFrame
  <1>2. CASE RunStep \/ WaitTimesOut \/ UNCHANGED vars
    BY <1>2, ExecFrame DEF RunStep, Wait, Dispatched, Dispatch, Accept, WaitTimesOut, vars,
                           clientVars, handlerVars
  <1>3. ASSUME NEW w \in Worker,
               Take(w) \/ RecvEnd(w) \/ RecvNothing(w) \/ AnswerThrows(w) \/ Close(w)
        PROVE  ExecInv'
    <2>1. /\ UNCHANGED <<unsent, inbuf, answers, executed>>
          /\ \A v \in Worker \ {w} : hpc'[v] = hpc[v] /\ data'[v] = data[v]
      BY <1>3 DEF Take, RecvEnd, RecvNothing, AnswerThrows, Close, Goto, clientVars, TypeInv
    <2>2. \/ data'[w] = << >>
          \/ hpc'[w] = "close" /\ data'[w] = data[w]
      BY <1>3 DEF Take, RecvEnd, RecvNothing, AnswerThrows, Close, Goto, ExecInv, TypeInv
    <2> QED
      BY <2>1, <2>2, ExecHandler
  <1>4. ASSUME NEW w \in Worker, RecvData(w) PROVE ExecInv'
    <2>1. PICK d \in Conn, n \in Nat : d = Here(w) /\ n = inbuf[d]
      BY <1>4, Read DEF TypeInv
    <2> DEFINE more == [i \in 1 .. n |-> d]
    <2>2. more \in Seq(Conn) /\ Len(more) = n
      OBVIOUS
    <2>3. \A i \in 1 .. n : more[i] = d
      OBVIOUS
    <2>4. /\ data' = [data EXCEPT ![w] = @ \o more] /\ inbuf' = [inbuf EXCEPT ![d] = 0]
          /\ hpc[w] = "recv" /\ hpc' = [hpc EXCEPT ![w] = "recv"] /\ inbuf[d] # 0
          /\ UNCHANGED <<unsent, answers, executed>>
      BY <1>4, <2>1 DEF RecvData, Goto, clientVars
    <2> HIDE DEF more
    <2>5. \A c \in Conn \ {d} : Holds(w, c)' <=> Holds(w, c)
      BY <2>2, <2>3, <2>4, PartsAdded
    <2>6. \A v \in Worker \ {w} : data'[v] = data[v]
      BY <2>4 DEF TypeInv
    <2>7. hpc' = hpc
      BY <2>4 DEF TypeInv
    <2>8. ASSUME NEW c \in Conn, executed[c] = 1 PROVE Spent(c)'
      <3>1. Spent(c) /\ c # d
        BY <2>4, <2>8 DEF ExecInv, Spent
      <3>2. \A v \in Worker : Holds(v, c)' <=> Holds(v, c)
        BY <2>5, <2>6, <3>1 DEF Holds
      <3> QED
        BY <2>4, <2>7, <3>1, <3>2 DEF Spent, TypeInv
    <2>9. \A v \in Worker : hpc[v] # "recv" => data'[v] = data[v]
      BY <2>4, <2>6
    <2> QED
      BY <2>4, <2>7, <2>8, <2>9 DEF ExecInv
  <1>5. ASSUME NEW w \in Worker, Process(w) PROVE ExecInv'
    <2>1. /\ hpc[w] = "recv" /\ hpc' = [hpc EXCEPT ![w] = "send"]
          /\ UNCHANGED <<unsent, inbuf, data, answers>>
      BY <1>5 DEF Process, Goto, clientVars
    <2>2. CASE ~IsRequest(data[w])
      <3>1. executed' = executed
        BY <1>5, <2>2 DEF Process
      <3>2. \A c \in Conn : Spent(c) => Spent(c)'
        BY <2>1 DEF Spent, Holds, TypeInv
      <3> QED
        BY <2>1, <2>2, <3>1, <3>2 DEF ExecInv, TypeInv
    <2>3. CASE IsRequest(data[w])
      <3>1. PICK c \in Conn : c = Head(data[w])
        BY <2>3, RequestOf
      <3>2. executed' = [executed EXCEPT ![c] = @ + 1]
        BY <1>5, <2>3, <3>1 DEF Process
      <3>3. Holds(w, c)
        <4>1. Parts[c] \in Nat \ {0} /\ DOMAIN data[w] = 1 .. Parts[c]
          BY <2>3, <3>1, RequestOf, ConnectionsAssumption
        <4> QED
          BY <2>3, <3>1, <4>1, RequestOf DEF Holds
      <3>4. executed[c] = 0
        BY <2>1, <3>3 DEF ExecInv, Spent
      <3>5. unsent[c] = 0 /\ inbuf[c] = 0 /\ \A v \in Worker \ {w} : ~Holds(v, c)
        BY <2>3, <3>1, WholeRequest
      <3>6. Spent(c)'
        BY <2>1, <3>5 DEF Spent, Holds, TypeInv
      <3>7. \A d \in Conn : Spent(d) => Spent(d)'
        BY <2>1 DEF Spent, Holds, TypeInv
      <3>8. executed' \in [Conn -> {0, 1}] /\ executed'[c] = 1
            /\ \A d \in Conn : executed'[d] = 1 <=> executed[d] = 1 \/ d = c
        BY <3>2, <3>4 DEF ExecInv
      <3>9. \A s : IsRequest(s) => Head(s) \in Conn
        BY RequestOf
      <3> QED
        BY <2>1, <3>1, <3>6, <3>7, <3>8, <3>9 DEF ExecInv, TypeInv
    <2> QED
      BY <2>2, <2>3
  <1>6. ASSUME NEW w \in Worker, Send(w) PROVE ExecInv'
    <2>1. /\ hpc[w] = "send" /\ hpc' = [hpc EXCEPT ![w] = "close"]
          /\ UNCHANGED <<unsent, inbuf, data, executed>>
          /\ \/ answers' = answers
             \/ Here(w) # NoConn /\ answers' = [answers EXCEPT ![Here(w)] = @ \cup {data[w]}]
      BY <1>6 DEF Send, Goto, clientVars
    <2>2. \A c \in Conn : Spent(c) => Spent(c)'
      BY <2>1 DEF Spent, Holds, TypeInv
    <2>3. answers' \in [Conn -> SUBSET Seq(Conn)]
      <3>1. data[w] \in Seq(Conn) /\ answers \in [Conn -> SUBSET Seq(Conn)]
        BY DEF ExecInv, TypeInv
      <3>2. \A c \in Conn : answers[c] \cup {data[w]} \in SUBSET Seq(Conn)
        BY <3>1
      <3>3. Here(w) # NoConn => Here(w) \in Conn
        BY DEF Here, TypeInv
      <3> QED
        BY <2>1, <3>1, <3>2, <3>3
    <2>4. \A c \in Conn : \A s \in answers'[c] : s \in answers[c] \/ s = data[w]
      BY <2>1 DEF ExecInv
    <2>5. IsRequest(data[w]) => executed[Head(data[w])] = 1
      BY <2>1 DEF ExecInv
    <2> QED
      BY <2>1, <2>2, <2>3, <2>4, <2>5 DEF ExecInv, TypeInv
  <1> QED
    BY <1>1, <1>2, <1>3, <1>4, <1>5, <1>6 DEF Next, WorkerStep

(* However many handlers the readiness of a descriptor starts, no byte of  *)
(* a request is read twice, the request is executed at most once, and an   *)
(* answer made from it follows its execution (run, handleClient).          *)
THEOREM RequestsRunOnce == Spec => []ExecutedOnce
  <1>1. Init => ReadInv /\ ExecInv
    <2> SUFFICES ASSUME Init PROVE ReadInv /\ ExecInv
      OBVIOUS
    <2>1. \A c \in Conn : PartsRead(c) = {}
      BY DEF Init, PartsRead
    <2>2. \A c \in Conn : Parts[c] \in Nat /\ inbuf[c] = 0 /\ unsent[c] = Parts[c]
      BY ConnectionsAssumption DEF Init
    <2>3. ReadInv
      BY <2>1, <2>2, FS_EmptySet DEF ReadInv, ReadOnce
    <2> QED
      BY <2>3 DEF Init, ExecInv
  <1>2. ReadInv /\ ExecInv => ExecutedOnce
    BY DEF ReadInv, ExecInv, ExecutedOnce
  <1> QED
    BY <1>1, <1>2, TypeInit, TypeStep, ReadStep, ExecStep, PTL DEF Spec
=============================================================================
