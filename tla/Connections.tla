---------------------------- MODULE Connections ----------------------------
(***************************************************************************)
(* The connections of ioserver_demo: the loop of Server::run, the handlers *)
(* it puts in the pool, and the clients (src/client/client.cpp and others).*)
(*                                                                         *)
(* epoll is level-triggered and a descriptor stays registered from accept  *)
(* to close, so a readable descriptor is handed out again until it has     *)
(* been read, and a handler knows a descriptor's number, not its           *)
(* connection.  accept gives the lowest free number.  The pool hands       *)
(* handlers out in the order of their events (ThreadPoolProofs,            *)
(* PoolImplementsQueue).                                                   *)
(*                                                                         *)
(* A request is a number of parts that arrive one by one; the data a       *)
(* handler has read is the sequence of the connections its parts came      *)
(* from.  A response fits one send.  epoll_ctl on a fresh descriptor       *)
(* succeeds.  No client here sends a batch whose items lack their key or   *)
(* value: that ends the process (WritePath, ServerLifecycle).              *)
(***************************************************************************)
EXTENDS Naturals, Sequences, FiniteSets, FiniteSetsExt

CONSTANTS Conn,       \* the connections clients make, one request each
          NoConn,     \* what a closed descriptor refers to
          Fd,         \* the descriptors accept can give out
          Pools,      \* the sets of threads the pool may have (num_threads)
          Parts,      \* [Conn -> Nat], the parts a client's request is sent in
          Impatient,  \* the clients that may close before they have their answer
          Wide,       \* the clients whose requests have bytes beyond ASCII
          Garbled,    \* those of them whose bytes are not UTF-8
          MaxQueue    \* bound on the handlers that wait in the pool

ASSUME ConnectionsAssumption ==
    /\ NoConn \notin Conn
    /\ Fd \subseteq Nat \ {0} /\ Fd # {}
    /\ Parts \in [Conn -> Nat \ {0}]
    /\ Impatient \subseteq Conn
    /\ Wide \subseteq Conn /\ Garbled \subseteq Wide

Worker == UNION Pools

VARIABLES pool,     \* the threads the pool has
          client,   \* what each client is doing
          unsent,   \* the parts of its request it has still to send
          inbuf,    \* the parts that arrived and are unread
          backlog,  \* the connections to be accepted
          file,     \* the connection behind each descriptor
          rpc,      \* where Server::run is: wait or dispatch
          events,   \* the events of the last epoll_wait still to dispatch
          queue,    \* the descriptors of the handlers queued in the pool
          hpc,      \* where each worker's handler is
          hfd,      \* its clientfd
          data,     \* its data
          answers,  \* the data each client's answers were made from
          executed, \* history: how often each request was processed
          served,   \* history: the connections the server has closed
          thrown,   \* history: those whose handler an exception has ended
          reused    \* history: the descriptors accept gave out under a handler

clientVars == <<client, unsent>>
loopVars == <<backlog, rpc, events, reused>>
handlerVars == <<pool, hpc, hfd, data, thrown>>
vars == <<pool, client, unsent, inbuf, backlog, file, rpc, events, queue,
          hpc, hfd, data, answers, executed, served, thrown, reused>>

Listen == 0  \* the event of serverfd_

Idle == Min(Fd)  \* what hfd holds between two handlers

Init ==
    /\ pool \in Pools
    /\ client = [c \in Conn |-> "new"] /\ unsent = Parts
    /\ inbuf = [c \in Conn |-> 0]
    /\ backlog = << >> /\ file = [f \in Fd |-> NoConn]
    /\ rpc = "wait" /\ events = {} /\ queue = << >>
    /\ hpc = [w \in Worker |-> "idle"] /\ hfd = [w \in Worker |-> Idle]
    /\ data = [w \in Worker |-> << >>]
    /\ answers = [c \in Conn |-> {}]
    /\ executed = [c \in Conn |-> 0]
    /\ served = {} /\ thrown = {} /\ reused = {}

-----------------------------------------------------------------------------
(* The clients: connect, send, wait for the end of the stream, close. *)

Connect(c) ==
    /\ client[c] = "new"
    /\ client' = [client EXCEPT ![c] = "open"]
    /\ backlog' = Append(backlog, c)
    /\ UNCHANGED <<unsent, inbuf, file, rpc, events, queue, answers, executed, served, reused>>
    /\ UNCHANGED handlerVars

(* Broken SendPart: the loop sends once more after the last part. *)
SendPartPastEnd(c) ==
    /\ client[c] = "open" /\ c \notin served
    /\ unsent[c] > 0 \/ inbuf[c] > 0
    /\ unsent' = [unsent EXCEPT ![c] = @ - 1]
    /\ inbuf' = [inbuf EXCEPT ![c] = @ + 1]
    /\ UNCHANGED <<client, file, queue, answers, executed, served>>
    /\ UNCHANGED loopVars /\ UNCHANGED handlerVars

SendPart(c) ==
    /\ client[c] = "open" /\ unsent[c] > 0
    /\ c \notin served
    /\ unsent' = [unsent EXCEPT ![c] = @ - 1]
    /\ inbuf' = [inbuf EXCEPT ![c] = @ + 1]
    /\ UNCHANGED <<client, file, queue, answers, executed, served>>
    /\ UNCHANGED loopVars /\ UNCHANGED handlerVars

(* The end of the stream or an error; or the client does not wait for it. *)
ClientClose(c) ==
    /\ client[c] = "open"
    /\ c \in served \/ c \in Impatient
    /\ client' = [client EXCEPT ![c] = "closed"]
    /\ UNCHANGED <<unsent, inbuf, file, queue, answers, executed, served>>
    /\ UNCHANGED loopVars /\ UNCHANGED handlerVars

ClientStep(c) == Connect(c) \/ SendPart(c) \/ ClientClose(c)

-----------------------------------------------------------------------------
(* Server::run. *)

Readable(f) == file[f] # NoConn /\ (inbuf[file[f]] > 0 \/ client[file[f]] = "closed")

Ready == {f \in Fd : Readable(f)} \cup (IF backlog = << >> THEN {} ELSE {Listen})

Wait ==
    /\ rpc = "wait"
    /\ Ready # {}
    /\ events' = Ready /\ rpc' = "dispatch"
    /\ UNCHANGED <<inbuf, backlog, file, queue, answers, executed, served, reused>>
    /\ UNCHANGED clientVars /\ UNCHANGED handlerVars

WaitTimesOut == rpc = "wait" /\ Ready = {} /\ UNCHANGED vars

Dispatched ==
    /\ rpc = "dispatch" /\ events = {}
    /\ rpc' = "wait"
    /\ UNCHANGED <<inbuf, backlog, file, events, queue, answers, executed, served, reused>>
    /\ UNCHANGED clientVars /\ UNCHANGED handlerVars

Dispatch(f) ==
    /\ f \in events \cap Fd
    /\ Len(queue) < MaxQueue
    /\ queue' = Append(queue, f)
    /\ events' = events \ {f}
    /\ UNCHANGED <<inbuf, backlog, file, rpc, answers, executed, served, reused>>
    /\ UNCHANGED clientVars /\ UNCHANGED handlerVars

FreeFd == {f \in Fd : file[f] = NoConn}

AtWork(f) == \E w \in Worker : hpc[w] # "idle" /\ hfd[w] = f

(* handleNewConnection; setNonBlocking may fail, and accept does when no   *)
(* descriptor is free: the connection then stays in the backlog.           *)
Accept ==
    /\ Listen \in events
    /\ events' = events \ {Listen}
    /\ IF FreeFd = {} \/ backlog = << >> THEN UNCHANGED <<backlog, file, served, reused>>
       ELSE LET f == Min(FreeFd) IN
            /\ backlog' = Tail(backlog)
            /\ \/ /\ file' = [file EXCEPT ![f] = Head(backlog)]
                  /\ reused' = IF AtWork(f) THEN reused \cup {f} ELSE reused \ {f}
                  /\ UNCHANGED served
               \/ served' = served \cup {Head(backlog)} /\ UNCHANGED <<file, reused>>
    /\ UNCHANGED <<inbuf, rpc, queue, answers, executed>>
    /\ UNCHANGED clientVars /\ UNCHANGED handlerVars

RunStep == Wait \/ Dispatched \/ (\E f \in Fd : Dispatch(f)) \/ Accept

-----------------------------------------------------------------------------
(* handleClient. *)

Take(w) ==
    /\ w \in pool
    /\ hpc[w] = "idle" /\ queue # << >>
    /\ queue' = Tail(queue)
    /\ hpc' = [hpc EXCEPT ![w] = "recv"]
    /\ hfd' = [hfd EXCEPT ![w] = Head(queue)]
    /\ UNCHANGED <<pool, inbuf, file, data, answers, executed, served, thrown>>
    /\ UNCHANGED clientVars /\ UNCHANGED loopVars

Goto(w, from, to) ==
    /\ hpc[w] = from /\ hpc' = [hpc EXCEPT ![w] = to]
    /\ hfd' = IF to = "idle" THEN [hfd EXCEPT ![w] = Idle] ELSE hfd
    /\ UNCHANGED <<pool, queue>> /\ UNCHANGED clientVars /\ UNCHANGED loopVars

(* The connection the handler's descriptor refers to now. *)
Here(w) == file[hfd[w]]

(* Broken RecvData: the bytes are left in the receive buffer. *)
RecvDataPeek(w) ==
    /\ Goto(w, "recv", "recv")
    /\ Here(w) # NoConn /\ inbuf[Here(w)] > 0 /\ data[w] = << >>
    /\ data' = [data EXCEPT ![w] = @ \o [i \in 1 .. inbuf[Here(w)] |-> Here(w)]]
    /\ UNCHANGED <<file, inbuf, answers, executed, served, thrown>>

RecvData(w) ==
    /\ Goto(w, "recv", "recv")
    /\ Here(w) # NoConn /\ inbuf[Here(w)] > 0
    /\ data' = [data EXCEPT ![w] = @ \o [i \in 1 .. inbuf[Here(w)] |-> Here(w)]]
    /\ inbuf' = [inbuf EXCEPT ![Here(w)] = 0]
    /\ UNCHANGED <<file, answers, executed, served, thrown>>

(* The peer has closed, or the descriptor is no longer open. *)
RecvEnd(w) ==
    /\ Goto(w, "recv", "close")
    /\ Here(w) # NoConn => inbuf[Here(w)] = 0 /\ client[Here(w)] = "closed"
    /\ UNCHANGED <<inbuf, file, data, answers, executed, served, thrown>>

(* EAGAIN *)
Drained(w) == Here(w) # NoConn /\ inbuf[Here(w)] = 0 /\ client[Here(w)] # "closed"

(* Broken RecvNothing: the descriptor is closed on the way out. *)
RecvNothingCloses(w) ==
    /\ Goto(w, "recv", "close")
    /\ Drained(w) /\ data[w] = << >>
    /\ UNCHANGED <<inbuf, file, data, answers, executed, served, thrown>>

RecvNothing(w) ==
    /\ Goto(w, "recv", "idle")
    /\ Drained(w) /\ data[w] = << >>
    /\ UNCHANGED <<inbuf, file, data, answers, executed, served, thrown>>

(* The parts are a request when they are one client's, all of them. *)
IsRequest(s) == \E c \in Conn \ Garbled : s = [i \in 1 .. Parts[c] |-> c]

(* The data is parsed and, if it is a request, its items are written. *)
Process(w) ==
    /\ Goto(w, "recv", "send")
    /\ Drained(w) /\ data[w] # << >>
    /\ executed' = IF IsRequest(data[w]) THEN [executed EXCEPT ![Head(data[w])] = @ + 1]
                   ELSE executed
    /\ UNCHANGED <<inbuf, file, data, answers, served, thrown>>

(* The parser's message repeats what it could not read.  Where that is not *)
(* UTF-8, or ends inside a character, the dump of the error answer throws  *)
(* in its turn: the handler ends, the pool drops the exception, and the    *)
(* descriptor stays open.                                                  *)
Unprintable(s) == ~IsRequest(s) /\ \E i \in DOMAIN s : s[i] \in Wide

AnswerThrows(w) ==
    /\ Goto(w, "recv", "idle")
    /\ Drained(w) /\ Unprintable(data[w])
    /\ data' = [data EXCEPT ![w] = << >>]
    /\ thrown' = thrown \cup {Here(w)}
    /\ UNCHANGED <<inbuf, file, answers, executed, served>>

(* Broken Send: the response goes out on the next descriptor. *)
SendElsewhere(w) ==
    /\ Goto(w, "send", "close")
    /\ \E f \in Fd \ {hfd[w]} :
          answers' = IF file[f] = NoConn THEN answers
                     ELSE [answers EXCEPT ![file[f]] = @ \cup {data[w]}]
    /\ UNCHANGED <<inbuf, file, data, executed, served, thrown>>

(* A send to a closed descriptor or a closed peer fails. *)
Send(w) ==
    /\ Goto(w, "send", "close")
    /\ answers' = IF Here(w) = NoConn \/ client[Here(w)] = "closed" THEN answers
                  ELSE [answers EXCEPT ![Here(w)] = @ \cup {data[w]}]
    /\ UNCHANGED <<inbuf, file, data, executed, served, thrown>>

(* Broken Close: the descriptor stays open after an error or an end. *)
CloseAnswered(w) ==
    /\ Goto(w, "close", "idle")
    /\ IF data[w] = << >> THEN UNCHANGED <<file, served>>
       ELSE /\ file' = [file EXCEPT ![hfd[w]] = NoConn]
            /\ served' = served \cup ({Here(w)} \ {NoConn})
    /\ data' = [data EXCEPT ![w] = << >>]
    /\ UNCHANGED <<inbuf, answers, executed, thrown>>

(* Broken Close: the worker's next handler finds the data of this one. *)
CloseKeepsData(w) ==
    /\ Goto(w, "close", "idle")
    /\ file' = [file EXCEPT ![hfd[w]] = NoConn]
    /\ served' = served \cup ({Here(w)} \ {NoConn})
    /\ UNCHANGED <<inbuf, data, answers, executed, thrown>>

(* Whatever the descriptor refers to now is closed. *)
Close(w) ==
    /\ Goto(w, "close", "idle")
    /\ file' = [file EXCEPT ![hfd[w]] = NoConn]
    /\ served' = served \cup ({Here(w)} \ {NoConn})
    /\ data' = [data EXCEPT ![w] = << >>]
    /\ UNCHANGED <<inbuf, answers, executed, thrown>>

WorkerStep(w) ==
    \/ Take(w) \/ RecvData(w) \/ RecvEnd(w) \/ RecvNothing(w)
    \/ Process(w) \/ AnswerThrows(w) \/ Send(w) \/ Close(w)

Next ==
    \/ \E c \in Conn : ClientStep(c)
    \/ RunStep \/ WaitTimesOut
    \/ \E w \in Worker : WorkerStep(w)

Spec == Init /\ [][Next]_vars

(* The server's threads run, and a client that waits sees its stream end.  *)
(* No client has to connect, to send or to close before.                   *)
Fairness ==
    /\ WF_vars(RunStep)
    /\ \A w \in Worker : WF_vars(WorkerStep(w))
    /\ \A c \in Conn : WF_vars(c \in served /\ ClientClose(c))

FairSpec == Spec /\ Fairness

-----------------------------------------------------------------------------
(* The domains of the variables; the queue keeps within its bound. *)
TypeOK ==
    /\ pool \in Pools
    /\ client \in [Conn -> {"new", "open", "closed"}]
    /\ unsent \in [Conn -> Nat] /\ inbuf \in [Conn -> Nat]
    /\ backlog \in Seq(Conn) /\ file \in [Fd -> Conn \cup {NoConn}]
    /\ rpc \in {"wait", "dispatch"} /\ events \subseteq Fd \cup {Listen}
    /\ queue \in Seq(Fd) /\ Len(queue) <= MaxQueue
    /\ hpc \in [Worker -> {"idle", "recv", "send", "close"}]
    /\ hfd \in [Worker -> Fd] /\ data \in [Worker -> Seq(Conn)]
    /\ answers \in [Conn -> SUBSET Seq(Conn)]
    /\ executed \in [Conn -> Nat] /\ served \subseteq Conn
    /\ thrown \subseteq Conn /\ reused \subseteq Fd

(* However many handlers a descriptor has, queued since its last use or at *)
(* work on it, none of them closes it on a client that is still there and  *)
(* has no answer, unless accept gave the number out while a handler of its *)
(* last use was at work.                                                   *)
Unanswered(c) == client[c] = "open" /\ answers[c] = {}
NoneDropped ==
    [][\A f \in Fd : file[f] # NoConn /\ file'[f] = NoConn /\ Unanswered(file[f])
                      => f \in reused]_vars

(* The bytes of a request reach one handler each.                          *)
PartsRead(c) == UNION {{w} \X {i \in DOMAIN data[w] : data[w][i] = c} : w \in Worker}
ReadOnce == \A c \in Conn : Cardinality(PartsRead(c)) + inbuf[c] + unsent[c] <= Parts[c]

(* However many handlers its readiness started, no byte of a request is    *)
(* read twice, the request is executed at most once, and whoever gets an   *)
(* answer made from it gets it after that.                                 *)
ExecutedOnce ==
    /\ ReadOnce
    /\ \A c \in Conn : executed[c] <= 1
    /\ \A c \in Conn : \A s \in answers[c] : IsRequest(s) => executed[Head(s)] = 1

(* With one worker a client only gets answers to what it sent itself, and  *)
(* only through its own bytes does it miss its answer to an exception.     *)
(* With two, a handler of an old event may close a descriptor that another *)
(* handler works on; the next accept reuses it under that handler.         *)
OwnAnswer ==
    Cardinality(pool) = 1 =>
        /\ \A c \in Conn : \A s \in answers[c] : \A i \in DOMAIN s : s[i] = c
        /\ thrown \subseteq Wide

(* An accepted connection that has sent something, or whose client has     *)
(* closed, is closed by the server; or an exception has ended its handler, *)
(* and then it is read and waits for its client to send more or to close.  *)
Unread(c) == \E f \in Fd : file[f] = c /\ Readable(f)
ConnectionsEnd ==
    \A c \in Conn : Unread(c) ~> (c \in served \/ (c \in thrown /\ ~Unread(c)))

(* A handler that meets EAGAIN has read a whole request.  False: EAGAIN    *)
(* only means that the rest has not arrived.                               *)
ReadToTheEnd == \A w \in Worker : hpc[w] = "send" => IsRequest(data[w])
=============================================================================
