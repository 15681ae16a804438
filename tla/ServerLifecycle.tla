-------------------------- MODULE ServerLifecycle --------------------------
(***************************************************************************)
(* The life of the ioserver_demo process (src/server/server.cpp): main     *)
(* initialises the Server, starts Server::run on a detached thread, waits  *)
(* for signals, reloads the configuration on SIGHUP and destroys the       *)
(* Server when running is false.  The detached thread hands requests to    *)
(* the pool and cleans up when running is false.  Nothing makes one of the *)
(* two threads wait for the other.                                         *)
(*                                                                         *)
(* The pool is the module ThreadPool: a call of one of its methods is its  *)
(* first step there, taken together with the caller's step here, and the   *)
(* method's other steps interleave.  A task is one call of handleClient,   *)
(* which may end the process (WritePath has its steps).                    *)
(*                                                                         *)
(* Left out: connections and bytes, the failure of epoll_create1, what     *)
(* crashHandler logs.                                                      *)
(***************************************************************************)
EXTENDS ThreadPool

CONSTANTS main, run,    \* the two threads that use the pool
          MaxEvents,    \* bound on the client events of one epoll_wait
          Reloads,      \* whether SIGHUP is ever sent
          Incomplete    \* the requests with a batch item that lacks its key or value

(* Who calls what: main resizes and destroys the pool, the thread of       *)
(* Server::run hands it requests and stops it.                             *)
ASSUME ServerCallers ==
    /\ main # run /\ Caller = {main, run}
    /\ Resizers = {main} /\ Owners = {main}
    /\ Producers = {run} /\ Stoppers = {run}

ASSUME ServerBounds ==
    MaxEvents \in Nat /\ Reloads \in BOOLEAN /\ Incomplete \subseteq Task

VARIABLES mpc,            \* where main is
          rpc,            \* where the thread of Server::run is
          running,        \* std::atomic<bool> running
          reload_config,  \* std::atomic<bool> reload_config
          listening,      \* serverfd_ is open
          io,             \* the EpollIO object exists
          db,             \* the handles of DBManager that are not null
          saw,            \* the handles a thread found in disconnect
          events,         \* client events run has still to dispatch
          reloaded,       \* history: main has entered loadConfig
          fatal           \* history: a request has ended the process

(* vars are the variables of the pool. *)
mainVars == <<mpc, rpc, running, reload_config, listening, io, db, saw, events, reloaded,
              fatal>>
serverVars == <<vars, mainVars>>

notAborted == <<tasks, stop_, nworkers, wpc, wtask, cpc, op, arg, idx, last,
                alive, submitted, started, finished>>

Handle == {"mysql", "redis"}

(* main: the program points of init, of the main loop with loadConfig, and *)
(* of the destruction of server at the return from main.                   *)
InitPoint == {"initConfig", "initResize", "initRest", "socket", "mysql", "redis", "start"}
LoopPoint == {"loop", "loadConfig", "loadResize", "loadRest", "clearflag"}
DtorPoint == {"dtorIo", "dtorDb", "dtorDbClose", "dtorPool", "inDtorPool", "exited"}

(* run: not started, the event loop, cleanup, and its end. *)
RunPoint == {"none", "loop", "wait", "dispatch", "cleanup", "stop", "stopping",
             "dbread", "dbclose", "ioreset", "done"}

ServerInit ==
    /\ Init
    /\ mpc = "initConfig" /\ rpc = "none"
    /\ running = TRUE /\ reload_config = FALSE
    /\ listening = FALSE /\ io = FALSE
    /\ db = {} /\ saw = [c \in Caller |-> {}]
    /\ events = 0 /\ reloaded = FALSE /\ fatal = FALSE

Dead == aborted \/ mpc = "exited"

-----------------------------------------------------------------------------
(* signalHandler. *)

Sigterm ==
    /\ running
    /\ running' = FALSE
    /\ UNCHANGED vars
    /\ UNCHANGED <<mpc, rpc, reload_config, listening, io, db, saw, events, reloaded, fatal>>

Sighup ==
    /\ Reloads /\ ~reload_config
    /\ reload_config' = TRUE
    /\ UNCHANGED vars
    /\ UNCHANGED <<mpc, rpc, running, listening, io, db, saw, events, reloaded, fatal>>

-----------------------------------------------------------------------------
(* initializeFromConfig, called by init and by loadConfig.  The file or    *)
(* its server section may be bad before the pool is resized, its other     *)
(* sections after; an exception makes init fail and sends the main loop    *)
(* round again with reload_config still set.                               *)

Goto(point) ==
    /\ mpc' = point
    /\ UNCHANGED <<rpc, running, reload_config, listening, io, db, saw, events, reloaded>>

AfterThrow == IF mpc \in InitPoint THEN "dtorIo" ELSE "loop"

ConfigBad ==
    /\ mpc \in {"initConfig", "loadConfig", "initRest", "loadRest"}
    /\ Goto(AfterThrow)
    /\ UNCHANGED vars

ConfigResize ==
    \/ /\ mpc = "initConfig" /\ Goto("initResize")
       /\ \E n \in Sizes : Resize(main, n)
    \/ /\ mpc = "loadConfig" /\ Goto("loadResize")
       /\ \E n \in Sizes : Resize(main, n)

ConfigResized ==
    /\ cpc[main] = "idle"
    /\ \/ mpc = "initResize" /\ Goto("initRest")
       \/ mpc = "loadResize" /\ Goto("loadRest")
    /\ UNCHANGED vars

ResizeThrew ==
    /\ mpc \in {"initResize", "loadResize"}
    /\ Caught(main)
    /\ Goto(AfterThrow)

(* Run logs errors of epoll_wait and its cleanup, the workers log nearly   *)
(* every step of a request.                                                *)
MayLog ==
    \/ rpc \in {"wait", "dispatch", "cleanup", "stop", "stopping", "ioreset"}
    \/ \E w \in Worker : wpc[w] = "run"

(* setLogFile replaces the std::shared_ptr of the logger that the other    *)
(* threads use without a lock: a call in the old logger, or a torn read of *)
(* the pointer, may end the process or not.                                *)
ConfigRest ==
    /\ \/ mpc = "initRest" /\ Goto("socket")
       \/ mpc = "loadRest" /\ Goto("clearflag")
    /\ aborted' \in IF MayLog THEN BOOLEAN ELSE {FALSE}
    /\ UNCHANGED notAborted

-----------------------------------------------------------------------------
(* The rest of init; each step may fail, and main then returns 1. *)

InitFails ==
    /\ mpc \in {"socket", "mysql", "redis"}
    /\ Goto("dtorIo")
    /\ UNCHANGED vars

OpenSocket ==
    /\ mpc = "socket"
    /\ mpc' = "mysql"
    /\ listening' = TRUE
    /\ UNCHANGED vars
    /\ UNCHANGED <<rpc, running, reload_config, io, db, saw, events, reloaded>>

Connect(h) ==
    /\ mpc = h
    /\ mpc' = IF h = "mysql" THEN "redis" ELSE "start"
    /\ db' = db \cup {h}
    /\ UNCHANGED vars
    /\ UNCHANGED <<rpc, running, reload_config, listening, io, saw, events, reloaded>>

StartRun ==
    /\ mpc = "start"
    /\ mpc' = "loop" /\ rpc' = "loop"
    /\ io' = TRUE
    /\ UNCHANGED vars
    /\ UNCHANGED <<running, reload_config, listening, db, saw, events, reloaded>>

(* The loop of main; with nothing to do it sleeps and looks again. *)
MainLoop ==
    /\ mpc = "loop"
    /\ \/ ~running /\ Goto("dtorIo")
       \/ /\ running /\ reload_config
          /\ mpc' = "loadConfig" /\ reloaded' = TRUE
          /\ UNCHANGED <<rpc, running, reload_config, listening, io, db, saw, events>>
    /\ UNCHANGED vars

ClearFlag ==
    /\ mpc = "clearflag"
    /\ mpc' = "loop"
    /\ reload_config' = FALSE
    /\ UNCHANGED vars
    /\ UNCHANGED <<rpc, running, listening, io, db, saw, events, reloaded>>

-----------------------------------------------------------------------------
(* DBManager::disconnect: the handles are tested, closed and set to null   *)
(* without a lock.  A second close of a handle that another thread has     *)
(* closed since the test is undefined: it may end the process or not.      *)

DisconnectRead(c) ==
    /\ saw' = [saw EXCEPT ![c] = db]
    /\ UNCHANGED db

DisconnectClose(c) ==
    /\ db' = db \ saw[c]
    /\ aborted' \in IF saw[c] \subseteq db THEN {aborted} ELSE {FALSE, TRUE}
    /\ saw' = [saw EXCEPT ![c] = {}]
    /\ UNCHANGED notAborted

(* main returns: the members of server are destroyed, the last one first. *)
DestroyIo ==
    /\ mpc = "dtorIo"
    /\ mpc' = "dtorDb" /\ io' = FALSE
    /\ UNCHANGED vars
    /\ UNCHANGED <<rpc, running, reload_config, listening, db, saw, events, reloaded>>

DestroyDb ==
    \/ /\ mpc = "dtorDb" /\ mpc' = "dtorDbClose"
       /\ DisconnectRead(main)
       /\ UNCHANGED vars
       /\ UNCHANGED <<rpc, running, reload_config, listening, io, events, reloaded>>
    \/ /\ mpc = "dtorDbClose" /\ mpc' = "dtorPool"
       /\ DisconnectClose(main)
       /\ UNCHANGED <<rpc, running, reload_config, listening, io, events, reloaded>>

DestroyPool ==
    /\ mpc = "dtorPool"
    /\ Destroy(main)
    /\ Goto("inDtorPool")

Exit ==
    /\ mpc = "inDtorPool" /\ cpc[main] = "gone"
    /\ Goto("exited")
    /\ UNCHANGED vars

MainStep ==
    /\ \/ ConfigBad \/ ConfigResize \/ ConfigResized \/ ResizeThrew \/ ConfigRest
       \/ InitFails \/ OpenSocket \/ (\E h \in Handle : Connect(h)) \/ StartRun
       \/ MainLoop \/ ClearFlag
       \/ DestroyIo \/ DestroyDb \/ DestroyPool \/ Exit
    /\ UNCHANGED fatal

-----------------------------------------------------------------------------
(* Server::run. *)

RunGoto(point) ==
    /\ rpc' = point
    /\ UNCHANGED <<mpc, running, reload_config, listening, io, db, saw, reloaded>>

RunLoop ==
    /\ rpc = "loop"
    /\ RunGoto(IF running THEN "wait" ELSE "cleanup")
    /\ UNCHANGED vars /\ UNCHANGED events

RunWait ==
    /\ rpc = "wait" /\ io
    /\ \E k \in 0 .. MaxEvents :
          /\ Len(submitted) + k <= Cardinality(Task)
          /\ events' = k
    /\ RunGoto("dispatch")
    /\ UNCHANGED vars

RunWaitError ==
    /\ rpc = "wait" /\ io
    /\ RunGoto("cleanup")
    /\ UNCHANGED vars /\ UNCHANGED events

(* The EpollIO object was destroyed under it: the process may crash, or    *)
(* the wait may still time out.                                            *)
RunWaitGone ==
    /\ rpc = "wait" /\ ~io
    /\ RunGoto("loop")
    /\ aborted' \in BOOLEAN
    /\ UNCHANGED notAborted /\ UNCHANGED events

(* Broken RunDispatch: one more event than epoll_wait returned. *)
RunDispatchPastEnd ==
    /\ rpc = "dispatch"
    /\ \/ \E t \in Task : EnqueuePush(run, t)
       \/ EnqueueThrow(run)
    /\ events' = events - 1
    /\ RunGoto("dispatch")

RunDispatch ==
    /\ rpc = "dispatch" /\ events > 0
    /\ \/ \E t \in Task : EnqueuePush(run, t)
       \/ EnqueueThrow(run)
    /\ events' = events - 1
    /\ RunGoto("dispatch")

RunDispatched ==
    /\ rpc = "dispatch" /\ events = 0
    /\ cpc[run] = "idle"
    /\ RunGoto("loop")
    /\ UNCHANGED vars /\ UNCHANGED events

(* An exception that leaves the thread's function ends the process. *)
RunUncaught ==
    /\ cpc[run] = "threw"
    /\ aborted' = TRUE
    /\ UNCHANGED mainVars
    /\ UNCHANGED notAborted

CleanupSocket ==
    /\ rpc = "cleanup"
    /\ rpc' = "stop"
    /\ running' = FALSE /\ listening' = FALSE
    /\ UNCHANGED vars
    /\ UNCHANGED <<mpc, reload_config, io, db, saw, events, reloaded>>

(* Broken CleanupStop: the databases are closed without stopping the pool. *)
CleanupStopSkipped ==
    /\ rpc = "stop"
    /\ RunGoto("dbread")
    /\ UNCHANGED vars /\ UNCHANGED events

CleanupStop ==
    /\ rpc = "stop"
    /\ Stop(run)
    /\ RunGoto("stopping") /\ UNCHANGED events

CleanupStopped ==
    /\ rpc = "stopping" /\ cpc[run] = "idle"
    /\ RunGoto("dbread")
    /\ UNCHANGED vars /\ UNCHANGED events

CleanupDb ==
    \/ /\ rpc = "dbread" /\ rpc' = "dbclose"
       /\ DisconnectRead(run)
       /\ UNCHANGED vars
       /\ UNCHANGED <<mpc, running, reload_config, listening, io, events, reloaded>>
    \/ /\ rpc = "dbclose" /\ rpc' = "ioreset"
       /\ DisconnectClose(run)
       /\ UNCHANGED <<mpc, running, reload_config, listening, io, events, reloaded>>

CleanupIo ==
    /\ rpc = "ioreset"
    /\ rpc' = "done" /\ io' = FALSE
    /\ UNCHANGED vars
    /\ UNCHANGED <<mpc, running, reload_config, listening, db, saw, events, reloaded>>

RunStep ==
    /\ \/ RunLoop \/ RunWait \/ RunWaitError \/ RunWaitGone
       \/ RunDispatch \/ RunDispatched \/ RunUncaught
       \/ CleanupSocket \/ CleanupStop \/ CleanupStopped \/ CleanupDb \/ CleanupIo
    /\ UNCHANGED fatal

-----------------------------------------------------------------------------
(* What a request may do besides returning.                                *)

(* An item of its batch lacks the key or the value and json asserts, or    *)
(* another request is inside the same handles, which have no lock.         *)
RequestAborts(w) ==
    /\ wpc[w] = "run"
    /\ wtask[w] \in Incomplete \/ \E v \in Worker \ {w} : wpc[v] = "run"
    /\ aborted' = TRUE /\ fatal' = TRUE
    /\ UNCHANGED notAborted
    /\ UNCHANGED <<mpc, rpc, running, reload_config, listening, io, db, saw, events, reloaded>>

(* The handles were closed under it, by main or by cleanup: the request    *)
(* fails, or it uses a handle that has been freed.                         *)
RequestLosesHandles(w) ==
    /\ wpc[w] = "run" /\ db # Handle
    /\ aborted' = TRUE
    /\ UNCHANGED notAborted /\ UNCHANGED mainVars

RequestDies == \E w \in Worker : RequestAborts(w) \/ RequestLosesHandles(w)

-----------------------------------------------------------------------------
(* Inside the pool. *)

MethodStep(c) ==
    /\ \/ EnqueueNotify(c) \/ Broadcast(c)
       \/ JoinStep(c) \/ ResizeStep(c)
    /\ UNCHANGED mainVars

PoolWorkerStep(w) == WorkerStep(w) /\ UNCHANGED mainVars

Spurious ==
    /\ \/ \E w \in Worker : SpuriousWakeWorker(w)
       \/ SpuriousWakeCaller(main)
    /\ UNCHANGED mainVars

ServerNext ==
    \/ ~Dead /\ (Sigterm \/ Sighup \/ MainStep \/ RunStep \/ Spurious \/ RequestDies)
    \/ ~Dead /\ \E c \in Caller : MethodStep(c)
    \/ ~Dead /\ \E w \in Worker : PoolWorkerStep(w)
    \/ Dead /\ UNCHANGED serverVars

ServerSpec == ServerInit /\ [][ServerNext]_serverVars

(* Threads run, and epoll_wait returns (it has a timeout of one second).   *)
(* No signal has to come.                                                  *)
ServerFairness ==
    /\ WF_serverVars(~Dead /\ MainStep)
    /\ WF_serverVars(~Dead /\ RunStep)
    /\ \A c \in Caller : WF_serverVars(~Dead /\ MethodStep(c))
    /\ \A w \in Worker : WF_serverVars(~Dead /\ PoolWorkerStep(w))

FairServerSpec == ServerSpec /\ ServerFairness

-----------------------------------------------------------------------------
ServerTypeOK ==
    /\ TypeOK
    /\ mpc \in InitPoint \cup LoopPoint \cup DtorPoint
    /\ rpc \in RunPoint
    /\ running \in BOOLEAN /\ reload_config \in BOOLEAN
    /\ listening \in BOOLEAN /\ io \in BOOLEAN
    /\ db \subseteq Handle /\ saw \in [Caller -> SUBSET Handle]
    /\ events \in 0 .. MaxEvents /\ reloaded \in BOOLEAN /\ fatal \in BOOLEAN

(* What may end the process in service: a request, and in a reload enqueue *)
(* that throws, or the logger that is replaced.                            *)
Excused == fatal \/ (reloaded /\ (cpc[run] = "threw" \/ mpc = "clearflag"))

(* The process is not aborted in its service for any other reason, in a    *)
(* reload or out of it, nor in an initialisation that fails, also one that *)
(* SIGTERM interrupts: the pool is resized and destroyed without an abort, *)
(* however many of its threads could be started, and no handle, no poller  *)
(* and no pool is closed under its users.                                  *)
NoAbortInService == aborted /\ (running \/ rpc = "none") => Excused /\ rpc # "none"

(* The process never exits normally with an accepted request unserved,     *)
(* whatever main's destructor and run's cleanup do to the pool in turn and *)
(* wherever a reload failed, unless the pool was left without threads.     *)
ExitedServed == mpc = "exited" /\ nworkers > 0 => Range(submitted) = finished

(* When no reload has happened, cleanup closes the databases only once no  *)
(* accepted request is left to run, even while main destroys the Server.   *)
(* A reload breaks this: cleanup's stop can then find no worker to join,   *)
(* between clear and the new threads, and return with requests queued.  So *)
(* does a configuration with num_threads 0.                                *)
CleanupAfterDrain ==
    ~reloaded /\ nworkers > 0 /\ rpc \in {"dbread", "dbclose"} =>
        tasks = << >> /\ \A w \in Worker : wpc[w] # "run"

(* Once running is false the process ends, in one way or another, unless   *)
(* main stays for ever in the wait of a reload's resize.                   *)
ShutdownEnds == ~running ~> (Dead \/ [](cpc[main] \in {"lock", "wait"}))

(* The request handlers have their databases.  False: main closes them     *)
(* when it destroys server, before the pool has been stopped.              *)
DbOpenWhileServing == \A w \in Worker : wpc[w] = "run" => db = Handle

(* Once cleanup has begun, the process does not abort.  False: main        *)
(* destroys the Server beside it, and both join the same threads.          *)
GracefulShutdown ==
    rpc \in {"stop", "stopping", "dbread", "dbclose", "ioreset", "done"} => ~aborted

(* Every request event is put in the pool.  False: enqueue throws while a  *)
(* reload resizes the pool, and nothing catches it.                        *)
DispatchSucceeds == rpc = "dispatch" => cpc[run] # "threw"
=============================================================================
