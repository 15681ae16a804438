----------------------------- MODULE WritePath -----------------------------
(***************************************************************************)
(* What handleClient does with a request it has parsed: processKeyValue    *)
(* for one item after the other, each a SET in Redis and then an INSERT in *)
(* MySQL (src/server/server.cpp, src/server/db_manager.cpp).               *)
(*                                                                         *)
(* DBManager has one redisContext and one MYSQL handle for all workers and *)
(* no lock.  Commands go down such a connection in the order of their      *)
(* sends, replies come back in that order, and a worker takes the next     *)
(* reply, whoever asked for it.  Two workers inside one handle may also    *)
(* corrupt it and end the process.                                         *)
(*                                                                         *)
(* An item of a batch is const: where its key or value is missing, json's  *)
(* operator[] asserts, and the Makefile builds with assertions.            *)
(*                                                                         *)
(* A request that is not an array is a request of one item.  The handles   *)
(* exist while requests are served: init fails otherwise, and cleanup      *)
(* disconnects after the pool is drained (ServerLifecycle).                *)
(***************************************************************************)
EXTENDS Naturals, Sequences, FiniteSets, Functions, FiniteSetsExt

CONSTANTS Request,    \* the requests
          Item,       \* their key-value pairs
          Items,      \* [Request -> Seq(Item)], the items of each, in order
          Key,        \* the keys, as a function of the items
          Malformed,  \* the items whose key or value is not a string
          Incomplete, \* the items of a batch that lack the key or the value
          Pools,      \* the sets of threads the pool may have
          NoRequest,  \* what a worker has between two requests
          NoItem      \* what a store holds under a key never written

ASSUME ItemsAssumption ==
    /\ Items \in [Request -> Seq(Item)]
    /\ \A r, s \in Request : \A i \in DOMAIN Items[r] : \A j \in DOMAIN Items[s] :
          Items[r][i] = Items[s][j] => r = s /\ i = j
    /\ DOMAIN Key = Item
    /\ Malformed \subseteq Item /\ Incomplete \subseteq Item

ASSUME PoolsAssumption == \A p \in Pools : IsFiniteSet(p)

ASSUME NamesAssumption == NoRequest \notin Request /\ NoItem \notin Item

Worker == UNION Pools
Store == {"redis", "mysql"}

VARIABLES pool,      \* the threads the pool has
          todo,      \* the requests no worker has taken
          wpc,       \* where each worker is: idle, call or wait
          wreq,      \* its request
          wpos,      \* the index of its item
          wstore,    \* the store it is writing to
          up,        \* whether the connection to each store is usable
          sent,      \* the items in the commands a store has not executed
          replies,   \* the replies nobody has read: TRUE for success
          log,       \* history: the items each store has written, in order
          refused,   \* history: the commands a store answered with an error
          answer,    \* what each client was told
          crashed    \* the process has ended

workerVars == <<todo, wpc, wreq, wpos, wstore, answer>>
storeVars == <<sent, log, refused>>
vars == <<pool, todo, wpc, wreq, wpos, wstore, up, sent, replies, log, refused,
          answer, crashed>>

Init ==
    /\ pool \in Pools
    /\ todo = Request
    /\ wpc = [w \in Worker |-> "idle"]
    /\ wreq = [w \in Worker |-> NoRequest]
    /\ wpos = [w \in Worker |-> 1]
    /\ wstore = [w \in Worker |-> "redis"]
    /\ up = [s \in Store |-> TRUE]
    /\ sent = [s \in Store |-> << >>]
    /\ replies = [s \in Store |-> << >>]
    /\ log = [s \in Store |-> << >>]
    /\ refused = [s \in Store |-> {}]
    /\ answer = [r \in Request |-> "none"]
    /\ crashed = FALSE

-----------------------------------------------------------------------------
(* The worker. *)

Take(w) ==
    /\ w \in pool /\ wpc[w] = "idle"
    /\ \E r \in todo :
          /\ todo' = todo \ {r}
          /\ wreq' = [wreq EXCEPT ![w] = r]
    /\ wpc' = [wpc EXCEPT ![w] = "call"]
    /\ UNCHANGED <<wpos, wstore, answer, up, replies>> /\ UNCHANGED storeVars

(* Broken HasItem: the loop ends one item early. *)
HasItemButOne(w) == wpos[w] < Len(Items[wreq[w]])

HasItem(w) == wpos[w] <= Len(Items[wreq[w]])
Current(w) == Items[wreq[w]][wpos[w]]

(* Broken Answer: the worker does not let go of its request. *)
AnswerKeeps(w, status) ==
    /\ answer' = [answer EXCEPT ![wreq[w]] = status]
    /\ wpc' = [wpc EXCEPT ![w] = "idle"]
    /\ wpos' = [wpos EXCEPT ![w] = 1]
    /\ wstore' = [wstore EXCEPT ![w] = "redis"]
    /\ UNCHANGED <<todo, wreq>>

(* The response goes to the client and the worker is free. *)
Answer(w, status) ==
    /\ answer' = [answer EXCEPT ![wreq[w]] = status]
    /\ wpc' = [wpc EXCEPT ![w] = "idle"]
    /\ wreq' = [wreq EXCEPT ![w] = NoRequest]
    /\ wpos' = [wpos EXCEPT ![w] = 1]
    /\ wstore' = [wstore EXCEPT ![w] = "redis"]
    /\ UNCHANGED todo

Succeed(w) ==
    /\ wpc[w] = "call" /\ ~HasItem(w)
    /\ Answer(w, "success")
    /\ UNCHANGED <<up, replies>> /\ UNCHANGED storeVars

(* The key and the value are looked up, in either order. *)
LooksUp(w) == wpc[w] = "call" /\ HasItem(w) /\ wstore[w] = "redis"

(* json throws before processKeyValue is called. *)
RejectItem(w) ==
    /\ LooksUp(w) /\ Current(w) \in Malformed
    /\ Answer(w, "error")
    /\ UNCHANGED <<up, replies>> /\ UNCHANGED storeVars

(* json asserts that the name is there, and the process ends. *)
AssertFails(w) ==
    /\ LooksUp(w) /\ Current(w) \in Incomplete
    /\ crashed' = TRUE
    /\ UNCHANGED <<pool, up, replies>>
    /\ UNCHANGED workerVars /\ UNCHANGED storeVars

Ready(w) ==
    /\ wpc[w] = "call" /\ HasItem(w)
    /\ wstore[w] = "redis" => Current(w) \notin Malformed \cup Incomplete

(* redisCommand, mysql_query: the command is sent. *)
Command(w) ==
    /\ Ready(w)
    /\ up[wstore[w]]
    /\ sent' = [sent EXCEPT ![wstore[w]] = Append(@, Current(w))]
    /\ wpc' = [wpc EXCEPT ![w] = "wait"]
    /\ UNCHANGED <<todo, wreq, wpos, wstore, answer, up, replies, log, refused>>

(* A handle whose connection broke is not connected again. *)
CommandFails(w) ==
    /\ Ready(w)
    /\ ~up[wstore[w]]
    /\ Answer(w, "error")
    /\ UNCHANGED <<up, replies>> /\ UNCHANGED storeVars

(* After Redis comes MySQL, after MySQL the next item. *)
Advance(w) ==
    /\ wpc' = [wpc EXCEPT ![w] = "call"]
    /\ IF wstore[w] = "redis"
       THEN wstore' = [wstore EXCEPT ![w] = "mysql"] /\ UNCHANGED wpos
       ELSE /\ wstore' = [wstore EXCEPT ![w] = "redis"]
            /\ wpos' = [wpos EXCEPT ![w] = @ + 1]
    /\ UNCHANGED <<todo, wreq, answer>>

(* The next reply on the connection of this worker's store. *)
ReadReply(w, reply) ==
    LET s == wstore[w] IN
    /\ wpc[w] = "wait" /\ replies[s] # << >>
    /\ Head(replies[s]) = reply
    /\ replies' = [replies EXCEPT ![s] = Tail(@)]
    /\ UNCHANGED up /\ UNCHANGED storeVars

ReplyOk(w) == ReadReply(w, TRUE) /\ Advance(w)

(* Broken ReplyError: the type of the reply is not looked at. *)
ReplyErrorIgnored(w) == ReadReply(w, FALSE) /\ Advance(w)

(* Broken ReplyError: a batch goes on with its next item. *)
ReplyErrorSkips(w) ==
    /\ ReadReply(w, FALSE)
    /\ wpc' = [wpc EXCEPT ![w] = "call"]
    /\ wstore' = [wstore EXCEPT ![w] = "redis"]
    /\ wpos' = [wpos EXCEPT ![w] = @ + 1]
    /\ UNCHANGED <<todo, wreq, answer>>

ReplyError(w) == ReadReply(w, FALSE) /\ Answer(w, "error")

(* Broken ReplyLost: the worker asks again and again. *)
ReplyLostWaits(w) == wpc[w] = "wait" /\ ~up[wstore[w]] /\ UNCHANGED vars

(* Broken ReplyLost: a missing reply is taken for a success. *)
ReplyLostAdvances(w) ==
    /\ wpc[w] = "wait" /\ ~up[wstore[w]]
    /\ Advance(w)
    /\ UNCHANGED <<up, replies>> /\ UNCHANGED storeVars

ReplyLost(w) ==
    /\ wpc[w] = "wait" /\ ~up[wstore[w]]
    /\ Answer(w, "error")
    /\ UNCHANGED <<up, replies>> /\ UNCHANGED storeVars

WorkerStep(w) ==
    /\ \/ Take(w) \/ Succeed(w) \/ RejectItem(w)
       \/ Command(w) \/ CommandFails(w)
       \/ ReplyOk(w) \/ ReplyError(w) \/ ReplyLost(w)
    /\ UNCHANGED <<pool, crashed>>

-----------------------------------------------------------------------------
(* The stores and the connections to them. *)

Reply(s, reply) ==
    /\ sent[s] # << >>
    /\ sent' = [sent EXCEPT ![s] = Tail(@)]
    /\ replies' = IF up[s] THEN [replies EXCEPT ![s] = Append(@, reply)] ELSE replies
    /\ UNCHANGED up /\ UNCHANGED workerVars

Execute(s) ==
    /\ Reply(s, TRUE)
    /\ log' = [log EXCEPT ![s] = Append(@, Head(sent[s]))]
    /\ UNCHANGED refused

Refuse(s) ==
    /\ Reply(s, FALSE)
    /\ refused' = [refused EXCEPT ![s] = @ \cup {Head(sent[s])}]
    /\ UNCHANGED log

(* The connection is lost, with the replies and some of the commands on it. *)
Break(s) ==
    /\ up[s]
    /\ up' = [up EXCEPT ![s] = FALSE]
    /\ replies' = [replies EXCEPT ![s] = << >>]
    /\ \E n \in 0 .. Len(sent[s]) : sent' = [sent EXCEPT ![s] = SubSeq(@, 1, n)]
    /\ UNCHANGED <<log, refused>> /\ UNCHANGED workerVars

StoreStep(s) == (Execute(s) \/ Refuse(s)) /\ UNCHANGED <<pool, crashed>>

(* The handles are not thread-safe. *)
Crash ==
    /\ \E v, w \in Worker :
          v # w /\ wpc[v] = "wait" /\ wpc[w] = "wait" /\ wstore[v] = wstore[w]
    /\ crashed' = TRUE
    /\ UNCHANGED <<pool, up, replies>>
    /\ UNCHANGED workerVars /\ UNCHANGED storeVars

Quiet == todo = {} /\ \A w \in Worker : wpc[w] = "idle"

Ended == (crashed \/ Quiet) /\ UNCHANGED vars

Next ==
    \/ ~crashed /\ \E w \in Worker : WorkerStep(w)
    \/ ~crashed /\ \E s \in Store : StoreStep(s)
    \/ ~crashed /\ \E s \in Store : Break(s) /\ UNCHANGED <<pool, crashed>>
    \/ ~crashed /\ (Crash \/ \E w \in Worker : AssertFails(w))
    \/ Ended

Spec == Init /\ [][Next]_vars

(* Workers run and a store answers the commands it was sent.  Nothing has  *)
(* to fail.                                                                *)
Fairness ==
    /\ \A w \in Worker : WF_vars(~crashed /\ (WorkerStep(w) \/ AssertFails(w)))
    /\ \A s \in Store : WF_vars(~crashed /\ StoreStep(s))

FairSpec == Spec /\ Fairness

-----------------------------------------------------------------------------
(* The domains of the variables; no worker is past the end of its batch.   *)
TypeOK ==
    /\ pool \in Pools /\ todo \subseteq Request
    /\ wpc \in [Worker -> {"idle", "call", "wait"}]
    /\ wreq \in [Worker -> Request \cup {NoRequest}]
    /\ \A w \in Worker : wpc[w] = "idle" <=> wreq[w] = NoRequest
    /\ wpos \in [Worker -> Nat \ {0}] /\ wstore \in [Worker -> Store]
    /\ \A w \in Worker : wpc[w] = "wait" => HasItem(w)
    /\ up \in [Store -> BOOLEAN] /\ crashed \in BOOLEAN
    /\ sent \in [Store -> Seq(Item)] /\ replies \in [Store -> Seq(BOOLEAN)]
    /\ log \in [Store -> Seq(Item)] /\ refused \in [Store -> SUBSET Item]
    /\ answer \in [Request -> {"none", "success", "error"}]

Failed == {r \in Request : answer[r] = "error"}
OneWorker == Cardinality(pool) = 1

(* With one worker, a client told of success has every item in both stores.*)
AckedStored ==
    OneWorker => \A r \in Request : answer[r] = "success" =>
        \A s \in Store : Range(Items[r]) \subseteq Range(log[s])

(* With one worker, what a request leaves behind when it stops half-way is *)
(* a prefix of its batch, and Redis is at most one item ahead of MySQL.    *)
Written(r, s) == {i \in DOMAIN Items[r] : Items[r][i] \in Range(log[s])}
BatchPrefix ==
    OneWorker => \A r \in Request :
        LET m == Cardinality(Written(r, "mysql"))
            n == Cardinality(Written(r, "redis"))
        IN  /\ Written(r, "mysql") = 1 .. m /\ Written(r, "redis") = 1 .. n
            /\ m <= n /\ n <= m + 1

(* With one worker, the cache differs from the newest row of a key only by *)
(* an item whose client was told of an error, or has not been told yet.    *)
Newest(s, k) ==
    LET mine == {i \in DOMAIN log[s] : Key[log[s][i]] = k}
    IN  IF mine = {} THEN NoItem ELSE log[s][Max(mine)]
CacheAgrees ==
    OneWorker => \A k \in Range(Key) :
        Newest("redis", k) # Newest("mysql", k) =>
            \E r \in Request : answer[r] # "success" /\ Newest("redis", k) \in Range(Items[r])

(* For any number of workers: replies may reach the wrong client, but each *)
(* command that a store refused makes one request fail.                    *)
Refusals == {c \in Store \X Item : c[2] \in refused[c[1]]}
FailuresTold == Quiet => Cardinality(Refusals) <= Cardinality(Failed)

(* The request whose batch ended the process, which nobody answers. *)
Fatal(r) == r \notin todo /\ answer[r] = "none" /\ Range(Items[r]) \cap Incomplete # {}

RequestsAnswered ==
    \A r \in Request :
        <>(\/ answer[r] # "none"
           \/ crashed /\ (~OneWorker \/ \E q \in Request : Fatal(q)))

AckedStoredLater ==
    \A r \in Request : answer[r] = "success" ~>
        \/ crashed
        \/ \E s \in Store : ~up[s] \/ refused[s] # {}
        \/ \A s \in Store : Range(Items[r]) \subseteq Range(log[s])

(* For any number of workers: every request is answered, though a reply is *)
(* taken by another worker or lost with its connection, unless the process *)
(* dies, of two workers in one handle or of a batch it has begun, one of   *)
(* whose items lacks its key or value; and with connections that hold and  *)
(* no refusals, what a client was told is stored is stored in the end.     *)
Answered == RequestsAnswered /\ AckedStoredLater
=============================================================================
