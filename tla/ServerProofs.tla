---------------------------- MODULE ServerProofs ----------------------------
(***************************************************************************)
(* What holds of the process of ServerLifecycle for every number of        *)
(* workers, requests, configurations and signals.  Its pool takes PoolSteps*)
(* only, so the invariants of ThreadPoolProofs hold here as well; ServerInv*)
(* adds how far main and the thread of Server::run are with each other.    *)
(***************************************************************************)
EXTENDS ServerLifecycle, ThreadPoolProofs

-----------------------------------------------------------------------------
(* Which calls of the pool main and run are in at which of their points.   *)

MainCall ==
    /\ op[main] \in {"none", "resize", "destroy"}
    /\ op[main] = "none" <=> cpc[main] \in {"idle", "gone"}
    /\ cpc[main] # "notify"
    /\ op[main] = "resize" => mpc \in {"initResize", "loadResize"}
    /\ op[main] = "destroy" => mpc = "inDtorPool"
    /\ cpc[main] = "gone" => mpc \in {"inDtorPool", "exited"}
    /\ mpc = "exited" => cpc[main] = "gone"

RunCall ==
    /\ op[run] \in {"none", "stop"}
    /\ op[run] = "none" => cpc[run] \in {"idle", "notify", "threw"}
    /\ op[run] = "stop" => cpc[run] \in {"bcast", "begin", "join", "joining", "threw"}
    /\ op[run] = "stop" => rpc = "stopping"
    /\ cpc[run] # "idle" => rpc \in {"dispatch", "stopping"}
    /\ rpc = "stopping" => op[run] = "stop" \/ cpc[run] = "idle"

(* How far the two threads are with each other. *)
Phases ==
    /\ rpc = "none" => /\ mpc \in InitPoint \cup DtorPoint
                       /\ ~reloaded /\ submitted = << >>
                       /\ mpc = "dtorDbClose" => saw[main] = db
                       /\ mpc = "redis" => "mysql" \in db
                       /\ mpc = "start" => db = Handle
    /\ rpc # "none" => mpc \notin InitPoint
    /\ rpc # "none" /\ running => /\ mpc \in LoopPoint /\ io /\ db = Handle
                                  /\ rpc \in {"loop", "wait", "dispatch", "cleanup"}
    /\ mpc \in LoopPoint \ {"loop"} => reloaded

(* Before the thread of Server::run exists, main alone stops the pool and  *)
(* joins its threads: it never meets a thread that is joined already.      *)
Quiet == rpc = "none" =>
    /\ ~aborted
    /\ stop_ => \/ op[main] = "destroy" \/ cpc[main] = "gone"
                \/ op[main] = "resize" /\ cpc[main] \in {"begin", "join", "joining", "clear"}
    /\ \A w \in Worker : wpc[w] = "joined" =>
          \/ cpc[main] = "gone"
          \/ cpc[main] \in {"join", "joining"} /\ w < idx[main]

(* In service an abort has its excuse, and before the first reload the     *)
(* pool is open.                                                           *)
Service == rpc # "none" /\ running =>
    /\ aborted => Excused
    /\ ~reloaded => ~stop_ /\ cpc[run] # "threw"

(* The join loop of cleanup's stop, and what it leaves. *)
CleanupJoins == ~reloaded /\ op[run] = "stop" /\ cpc[run] \in {"join", "joining"} =>
    /\ last[run] = nworkers
    /\ \A w \in Worker : w < idx[run] => wpc[w] = "joined"

CleanupPast ==
    \/ rpc \in {"dbread", "dbclose", "ioreset", "done"}
    \/ rpc = "stopping" /\ op[run] = "none"

CleanupJoined == ~reloaded /\ CleanupPast =>
    \A w \in Worker : w <= nworkers => wpc[w] = "joined"

ServerInv ==
    /\ MainCall /\ RunCall /\ Phases /\ Quiet /\ Service
    /\ CleanupJoins /\ CleanupJoined

(* The invariants of the pool that the process relies on. *)
PoolInv == TypeInv /\ PlaceInv /\ RebuildInv /\ DrainInv

-----------------------------------------------------------------------------
(* The pool of the process. *)

LEMMA ServerIsPoolStep ==
    ASSUME TypeInv, [ServerNext]_serverVars PROVE PoolStep
  <1> USE ServerCallers DEF PoolStep, ThreadStep
  <1>1. ASSUME UNCHANGED vars PROVE PoolStep
    BY <1>1 DEF vars, Outside, callVars, histVars, TypeInv, TypeOK
  <1>2. ASSUME aborted' \in BOOLEAN, UNCHANGED notAborted PROVE PoolStep
    BY <1>2 DEF notAborted, Outside, callVars, histVars
  <1>3. CASE Sigterm \/ Sighup \/ UNCHANGED serverVars
    BY <1>1, <1>3 DEF Sigterm, Sighup, serverVars
  <1>4. CASE MainStep
    <2>1. CASE ConfigResize
      BY <2>1 DEF ConfigResize, AnyCall
    <2>2. CASE ResizeThrew
      BY <2>2 DEF ResizeThrew, CallStep
    <2>3. CASE DestroyPool
      BY <2>3 DEF DestroyPool, AnyCall
    <2>4. CASE ConfigRest \/ DestroyDb
      BY <1>1, <1>2, <2>4 DEF ConfigRest, DestroyDb, DisconnectClose, TypeInv, TypeOK
    <2> QED BY <1>1, <1>4, <2>1, <2>2, <2>3, <2>4 DEF MainStep, ConfigBad, ConfigResized,
          InitFails, OpenSocket, Connect, StartRun, MainLoop, ClearFlag, DestroyIo, Exit
  <1>5. CASE RunStep
    <2>1. CASE RunDispatch
      BY <2>1 DEF RunDispatch, AnyCall
    <2>2. CASE CleanupStop
      BY <2>2 DEF CleanupStop, AnyCall
    <2>3. CASE RunWaitGone \/ RunUncaught \/ CleanupDb
      BY <1>1, <1>2, <2>3 DEF RunWaitGone, RunUncaught, CleanupDb, DisconnectClose, TypeInv,
         TypeOK
    <2> QED BY <1>1, <1>5, <2>1, <2>2, <2>3 DEF RunStep, RunLoop, RunWait, RunWaitError,
          RunDispatched, CleanupSocket, CleanupStopped, CleanupIo
  <1>6. CASE Spurious
    BY <1>6 DEF Spurious
  <1>9. CASE RequestDies
    BY <1>2, <1>9 DEF RequestDies, RequestAborts, RequestLosesHandles
  <1>7. ASSUME NEW c \in Caller, MethodStep(c) PROVE PoolStep
    BY <1>7 DEF MethodStep, CallStep
  <1>8. ASSUME NEW w \in Worker, PoolWorkerStep(w) PROVE PoolStep
    BY <1>8 DEF PoolWorkerStep
  <1> QED BY <1>3, <1>4, <1>5, <1>6, <1>7, <1>8, <1>9 DEF ServerNext

LEMMA ServerOneResizer == OneResizer
  BY ServerCallers DEF OneResizer

LEMMA ServerNoResizeBeside == ASSUME RebuildInv, MainCall, RunCall PROVE NoResizeBeside
  BY ServerCallers DEF RebuildInv, InResize, MainCall, RunCall, NoResizeBeside

LEMMA PoolInvInit == ServerInit => PoolInv
  BY TypeInit, PlaceInit, RebuildInit, EndInit DEF ServerInit, PoolInv

LEMMA PoolInvStep ==
    ASSUME PoolInv, MainCall, RunCall, [ServerNext]_serverVars PROVE PoolInv'
  BY ServerIsPoolStep, ServerOneResizer, ServerNoResizeBeside,
     TypeStep, PlaceStep, RebuildStep, DrainStep DEF PoolInv

-----------------------------------------------------------------------------
LEMMA ServerTypeInit == ServerInit => ServerTypeOK
  <1> SUFFICES ASSUME ServerInit PROVE ServerTypeOK
    OBVIOUS
  <1>1. TypeOK
    BY TypeInit DEF ServerInit, TypeInv
  <1>2. mpc \in InitPoint /\ rpc \in RunPoint /\ db \subseteq Handle /\ saw \in [Caller -> SUBSET Handle]
    BY DEF ServerInit, InitPoint, RunPoint
  <1>3. events \in 0 .. MaxEvents
    BY ServerBounds DEF ServerInit
  <1>4. /\ running \in BOOLEAN /\ reload_config \in BOOLEAN
        /\ listening \in BOOLEAN /\ io \in BOOLEAN /\ reloaded \in BOOLEAN /\ fatal \in BOOLEAN
    BY DEF ServerInit
  <1> QED BY <1>1, <1>2, <1>3, <1>4 DEF ServerTypeOK

LEMMA ServerTypeStep ==
    ASSUME TypeInv', ServerTypeOK, [ServerNext]_serverVars PROVE ServerTypeOK'
  <1>0. TypeOK'
    BY DEF TypeInv
  <1> USE <1>0, ServerCallers, ServerBounds DEF ServerTypeOK, mainVars, Goto, RunGoto, AfterThrow,
        InitPoint, LoopPoint, DtorPoint, RunPoint, Handle
  <1>1. CASE Spurious \/ UNCHANGED serverVars
    <2>1. UNCHANGED mainVars
      BY <1>1 DEF Spurious, serverVars
    <2> QED BY <2>1
  <1>1a. CASE Sigterm
    BY <1>1a DEF Sigterm
  <1>1b. CASE Sighup
    BY <1>1b DEF Sighup
  <1>1c. CASE RequestDies
    <2>1. ASSUME NEW w \in Worker, RequestAborts(w) PROVE ServerTypeOK'
      BY <2>1 DEF RequestAborts
    <2>2. ASSUME NEW w \in Worker, RequestLosesHandles(w) PROVE ServerTypeOK'
      BY <2>2 DEF RequestLosesHandles
    <2> QED BY <1>1c, <2>1, <2>2 DEF RequestDies
  <1>2. CASE MainStep
    <2> fatal' = fatal
      BY <1>2 DEF MainStep
    <2>1. CASE ConfigBad \/ ConfigResize \/ ConfigResized \/ ResizeThrew \/ ConfigRest
      BY <2>1, ZenonT(40) DEF ConfigBad, ConfigResize, ConfigResized, ResizeThrew, ConfigRest
    <2>2. CASE InitFails
      BY <2>2 DEF InitFails
    <2>2c. ASSUME NEW h \in Handle, Connect(h) PROVE ServerTypeOK'
      BY <2>2c DEF Connect
    <2>2a. CASE OpenSocket
      BY <2>2a DEF OpenSocket
    <2>2b. CASE StartRun
      BY <2>2b DEF StartRun
    <2>3. CASE MainLoop \/ ClearFlag \/ DestroyIo \/ DestroyPool \/ Exit
      BY <2>3, ZenonT(40) DEF MainLoop, ClearFlag, DestroyIo, DestroyPool, Exit
    <2>4. CASE DestroyDb
      BY <2>4 DEF DestroyDb, DisconnectRead, DisconnectClose
    <2> QED BY <1>2, <2>1, <2>2, <2>2c, <2>2a, <2>2b, <2>3, <2>4 DEF MainStep
  <1>3. CASE RunStep
    <2> fatal' = fatal
      BY <1>3 DEF RunStep
    <2>1. CASE RunLoop \/ RunWait \/ RunWaitError \/ RunWaitGone
      BY <2>1, ZenonT(40) DEF RunLoop, RunWait, RunWaitError, RunWaitGone
    <2>2. CASE RunDispatch
      <3>1. /\ events' = events - 1 /\ events > 0
            /\ UNCHANGED <<mpc, running, reload_config, listening, io, db, saw, reloaded>>
            /\ rpc' = "dispatch"
        BY <2>2 DEF RunDispatch
      <3> QED BY <3>1
    <2>3. CASE RunUncaught
      BY <2>3 DEF RunUncaught
    <2>3b. CASE RunDispatched \/ CleanupStop \/ CleanupStopped
      BY <2>3b, ZenonT(40) DEF RunDispatched, CleanupStop, CleanupStopped
    <2>3a. CASE CleanupSocket
      BY <2>3a DEF CleanupSocket
    <2>4. CASE CleanupDb \/ CleanupIo
      BY <2>4, ZenonT(40) DEF CleanupDb, CleanupIo, DisconnectRead, DisconnectClose
    <2> QED BY <1>3, <2>1, <2>2, <2>3, <2>3a, <2>3b, <2>4 DEF RunStep
  <1>4. ASSUME NEW c \in Caller, MethodStep(c) PROVE ServerTypeOK'
    BY <1>4 DEF MethodStep
  <1>5. ASSUME NEW w \in Worker, PoolWorkerStep(w) PROVE ServerTypeOK'
    BY <1>5 DEF PoolWorkerStep
  <1> QED BY <1>1, <1>1a, <1>1b, <1>1c, <1>2, <1>3, <1>4, <1>5 DEF ServerNext

LEMMA ServerInvInit == ServerInit => ServerInv
  BY ServerCallers DEF ServerInit, Init, ServerInv, MainCall, RunCall, Phases, Quiet, Service,
     CleanupJoins, CleanupJoined, CleanupPast, InitPoint, LoopPoint, DtorPoint, Worker

-----------------------------------------------------------------------------
(* The steps of main and of Server::run outside the pool.  Some may end the *)
(* process, but never before run has started, and in service only a reload *)
(* can make them.                                                          *)

OutsideStep ==
    \/ Sigterm \/ Sighup
    \/ ConfigBad \/ ConfigResized \/ ConfigRest
    \/ InitFails \/ OpenSocket \/ (\E h \in Handle : Connect(h)) \/ StartRun
    \/ MainLoop \/ ClearFlag \/ DestroyIo \/ DestroyDb \/ Exit
    \/ RunLoop \/ RunWait \/ RunWaitError \/ RunWaitGone
    \/ RunDispatched \/ RunUncaught
    \/ CleanupSocket \/ CleanupStopped \/ CleanupDb \/ CleanupIo

(* No worker has a request before run has started.                         *)
LEMMA NoRequestYet ==
    ASSUME TypeInv, PlaceInv, submitted = << >> PROVE \A w \in Worker : wpc[w] # "run"
  <1> SUFFICES ASSUME NEW w \in Worker, wpc[w] = "run" PROVE FALSE
    OBVIOUS
  <1>1. wtask[w] \in Task
    BY DEF TypeInv, TypeOK, Held
  <1>2. wtask[w] \in Range(started)
    BY <1>1 DEF PlaceInv, StartedSplit
  <1>3. Len(started) = 0
    <2>1. started \in Seq(Task) /\ tasks \in Seq(Task) /\ started \o tasks = << >>
      BY DEF PlaceInv, TypeInv, TypeOK
    <2>2. Len(started) + Len(tasks) = 0
      BY <2>1, ConcatProperties, EmptySeq
    <2> QED BY <2>1, <2>2, LenProperties
  <1> QED BY <1>2, <1>3 DEF Range, TypeInv, TypeOK

LEMMA OutsideAborts ==
    ASSUME PoolInv, ServerTypeOK, ServerInv, ~aborted, OutsideStep, aborted'
    PROVE  rpc' # "none" /\ (running' => Excused')
  <1> USE DEF Excused, ServerInv, MainCall, RunCall, Phases, Service, Goto, RunGoto, InitPoint,
          LoopPoint, DtorPoint
  <1>1. ASSUME UNCHANGED aborted PROVE FALSE
    BY <1>1
  <1>2. CASE ConfigRest
    <2>1. MayLog
      BY <1>2 DEF ConfigRest
    <2>2. rpc # "none"
      BY <2>1, NoRequestYet DEF MayLog, PoolInv
    <2>3. mpc' = "clearflag" /\ reloaded' /\ rpc' = rpc
      BY <1>2, <2>2 DEF ConfigRest
    <2> QED BY <2>2, <2>3
  <1>3. CASE DestroyDb
    <2>1. mpc = "dtorDbClose" /\ DisconnectClose(main) /\ UNCHANGED <<rpc, running, reloaded>>
      BY <1>1, <1>3 DEF DestroyDb, vars
    <2>2. ~(saw[main] \subseteq db)
      BY <1>1, <2>1 DEF DisconnectClose
    <2> QED BY <2>1, <2>2
  <1>4. CASE CleanupDb
    <2>1. rpc = "dbclose" /\ rpc' = "ioreset" /\ UNCHANGED <<running, reloaded>>
      BY <1>1, <1>4 DEF CleanupDb, vars
    <2> QED BY <2>1
  <1>5. CASE RunWaitGone
    BY <1>5 DEF RunWaitGone
  <1>6. CASE RunUncaught
    <2>1. cpc[run] = "threw" /\ UNCHANGED <<cpc, mpc, rpc, running, reloaded>>
      BY <1>6 DEF RunUncaught, mainVars, notAborted
    <2>2. rpc # "none"
      BY <2>1
    <2>3. running => reloaded
      BY <2>1, <2>2
    <2> QED BY <2>1, <2>2, <2>3
  <1>7. CASE Sigterm \/ Sighup \/ ConfigBad \/ ConfigResized \/ InitFails \/ OpenSocket
    BY <1>1, <1>7 DEF Sigterm, Sighup, ConfigBad, ConfigResized, InitFails, OpenSocket, vars
  <1>8. CASE (\E h \in Handle : Connect(h)) \/ StartRun \/ MainLoop \/ ClearFlag \/ DestroyIo \/ Exit
    BY <1>1, <1>8 DEF Connect, StartRun, MainLoop, ClearFlag, DestroyIo, Exit, vars
  <1>9. CASE RunLoop \/ RunWait \/ RunWaitError \/ RunDispatched
    BY <1>1, <1>9 DEF RunLoop, RunWait, RunWaitError, RunDispatched, vars
  <1>10. CASE CleanupSocket \/ CleanupStopped \/ CleanupIo
    BY <1>1, <1>10 DEF CleanupSocket, CleanupStopped, CleanupIo, vars
  <1> QED BY <1>2, <1>3, <1>4, <1>5, <1>6, <1>7, <1>8, <1>9, <1>10 DEF OutsideStep

LEMMA OutsideSteps ==
    ASSUME PoolInv, ServerTypeOK, ServerInv, ~aborted, OutsideStep
    PROVE  ServerInv'
  <1>a. UNCHANGED notAborted
    BY DEF OutsideStep, Sigterm, Sighup, ConfigBad, ConfigResized, ConfigRest, InitFails,
           OpenSocket, Connect, StartRun, MainLoop, ClearFlag, DestroyIo, DestroyDb, Exit,
           RunLoop, RunWait, RunWaitError, RunWaitGone, RunDispatched, RunUncaught,
           CleanupSocket, CleanupStopped, CleanupDb, CleanupIo, DisconnectClose, vars, notAborted
  <1>b. aborted' => rpc' # "none" /\ (running' => Excused')
    BY OutsideAborts
  <1> USE <1>a, <1>b, ServerCallers DEF ServerInv, MainCall, RunCall, Phases, Quiet, Service,
          CleanupJoins, CleanupJoined, CleanupPast, Goto, RunGoto, AfterThrow, notAborted,
        InitPoint, LoopPoint, DtorPoint
  <1>0. TypeOK
    BY DEF ServerTypeOK
  <1>1. CASE Sigterm \/ Sighup
    BY <1>1 DEF Sigterm, Sighup
  <1>2. CASE ConfigBad \/ ConfigResized
    BY <1>2 DEF ConfigBad, ConfigResized
  <1>3. CASE ConfigRest
    BY <1>3 DEF ConfigRest
  <1>4. CASE InitFails \/ OpenSocket
    BY <1>4 DEF InitFails, OpenSocket
  <1>4a. ASSUME NEW h \in Handle, Connect(h) PROVE ServerInv'
    <2>1. /\ mpc = h /\ mpc' = IF h = "mysql" THEN "redis" ELSE "start"
          /\ db' = db \cup {h} /\ UNCHANGED <<rpc, running, io, saw, reloaded>> /\ UNCHANGED aborted
      BY <1>4a DEF Connect, vars
    <2>2. h = "mysql" \/ h = "redis"
      BY DEF Handle
    <2>3. h = "redis" /\ rpc = "none" => db' = Handle
      BY <2>1 DEF ServerTypeOK, Handle
    <2> QED BY <2>1, <2>2, <2>3
  <1>5. CASE StartRun
    BY <1>5 DEF StartRun
  <1>6. CASE MainLoop
    BY <1>6 DEF MainLoop
  <1>7. CASE ClearFlag \/ DestroyIo \/ Exit
    BY <1>7 DEF ClearFlag, DestroyIo, Exit
  <1>8. CASE DestroyDb
    <2>1. CASE mpc = "dtorDb"
      BY <1>8, <2>1 DEF DestroyDb, DisconnectRead, ServerTypeOK
    <2>2. CASE mpc = "dtorDbClose"
      BY <1>8, <2>2 DEF DestroyDb, DisconnectClose, ServerTypeOK
    <2> QED BY <1>8, <2>1, <2>2 DEF DestroyDb
  <1>9. CASE RunLoop \/ RunWait \/ RunWaitError \/ RunWaitGone
    BY <1>9 DEF RunLoop, RunWait, RunWaitError, RunWaitGone
  <1>10. CASE RunDispatched \/ CleanupSocket \/ CleanupStopped
    BY <1>10 DEF RunDispatched, CleanupSocket, CleanupStopped
  <1>11. CASE CleanupDb
    <2>1. CASE rpc = "dbread"
      BY <1>11, <2>1 DEF CleanupDb, DisconnectRead
    <2>2. CASE rpc = "dbclose"
      BY <1>11, <2>2 DEF CleanupDb, DisconnectClose
    <2> QED BY <1>11, <2>1, <2>2 DEF CleanupDb
  <1>12. CASE CleanupIo
    BY <1>12 DEF CleanupIo
  <1>13. CASE RunUncaught
    BY <1>13 DEF RunUncaught, mainVars
  <1> HIDE DEF ServerInv
  <1> QED BY <1>1, <1>2, <1>3, <1>4, <1>4a, <1>5, <1>6, <1>7, <1>8, <1>9, <1>10, <1>11, <1>12, <1>13
      DEF OutsideStep

(* A request that ends the process has been accepted, so run has started,  *)
(* and the handles of a request in service are open.                       *)
LEMMA RequestSteps ==
    ASSUME PoolInv, ServerTypeOK, ServerInv, ~aborted, RequestDies
    PROVE  ServerInv'
  <1>1. PICK w \in Worker : RequestAborts(w) \/ RequestLosesHandles(w)
    BY DEF RequestDies
  <1>2. /\ wpc[w] = "run" /\ UNCHANGED notAborted
        /\ UNCHANGED <<mpc, rpc, running, io, db, saw, reloaded>>
        /\ fatal' \/ db # Handle
    BY <1>1 DEF RequestAborts, RequestLosesHandles, mainVars
  <1>3. rpc # "none"
    BY <1>2, NoRequestYet DEF PoolInv, ServerInv, Phases
  <1> QED BY <1>2, <1>3 DEF ServerInv, MainCall, RunCall, Phases, Quiet, Service, Excused,
        CleanupJoins, CleanupJoined, CleanupPast, notAborted

-----------------------------------------------------------------------------
(* The steps inside the pool.                                              *)

LEMMA PoolAborts ==
    ASSUME PoolInv, ServerInv, ~aborted, ThreadStep, aborted' PROVE rpc # "none" /\ ~running
  <1>1. PICK c \in Caller : op[c] = "destroy" /\ (JoinNotJoinable(c) \/ JoinTwice(c))
    BY AbortOrigin, ServerOneResizer DEF PoolInv
  <1>2. c = main /\ mpc = "inDtorPool"
    BY <1>1, ServerCallers DEF ServerInv, MainCall, RunCall
  <1>3. ~running \/ rpc = "none"
    BY <1>2 DEF ServerInv, Phases, LoopPoint
  <1>4. ASSUME rpc = "none" PROVE FALSE
    <2>1. cpc[main] = "join" /\ idx[main] <= last[main] /\ last[main] = nworkers
      BY <1>1, <1>2, ServerCallers DEF JoinNotJoinable, JoinTwice, AtElement, PoolInv, DrainInv,
         DestroyPrefix
    <2>2. idx[main] \in Worker /\ idx[main] <= nworkers
      BY <2>1, SizesAssumption, ServerCallers DEF PoolInv, TypeInv, TypeOK, Worker
    <2>3. wpc[idx[main]] # "none"
      BY <2>2 DEF PoolInv, TypeInv, NoOrphan
    <2>4. wpc[idx[main]] # "joined"
      BY <1>4, <2>1, <2>2 DEF ServerInv, Quiet, Worker
    <2>5. Joinable(idx[main])
      BY <2>2, <2>3, <2>4 DEF Joinable
    <2>6. cpc[run] # "joining"
      BY <1>4 DEF ServerInv, RunCall
    <2>7. ~JoinContended(main)
      BY <2>6, ServerCallers DEF JoinContended
    <2> QED BY <1>1, <1>2, <2>5, <2>7 DEF JoinNotJoinable, JoinTwice
  <1> QED BY <1>3, <1>4

LEMMA WorkerSteps ==
    ASSUME PoolInv, ServerInv, ~aborted, NEW w \in Worker,
           WorkerStep(w) \/ SpuriousWakeWorker(w), UNCHANGED mainVars
    PROVE  ServerInv'
  <1> USE DEF ServerInv, MainCall, RunCall, Phases, Quiet, Service, CleanupJoins, CleanupJoined,
          CleanupPast, mainVars, callVars, histVars, PoolInv, TypeInv, TypeOK
  <1>1. CASE WorkerTake(w)
    BY <1>1 DEF WorkerTake
  <1>2. CASE WorkerExit(w)
    BY <1>2 DEF WorkerExit
  <1>3. CASE WorkerBlock(w)
    BY <1>3 DEF WorkerBlock
  <1>4. CASE WorkerRun(w)
    BY <1>4 DEF WorkerRun
  <1>5. CASE SpuriousWakeWorker(w)
    BY <1>5 DEF SpuriousWakeWorker
  <1> QED BY <1>1, <1>2, <1>3, <1>4, <1>5 DEF WorkerStep

(* The steps with which main and run enter the pool or leave it by an      *)
(* exception.                                                              *)
LEMMA CallSteps ==
    ASSUME PoolInv, ServerTypeOK, ServerInv, ~aborted,
           ConfigResize \/ ResizeThrew \/ DestroyPool \/ RunDispatch \/ CleanupStop
    PROVE  ServerInv'
  <1> USE ServerCallers DEF ServerInv, MainCall, RunCall, Phases, Quiet, Service, CleanupJoins,
          CleanupJoined, CleanupPast, Goto, RunGoto, AfterThrow, poolVars, histVars,
        PoolInv, TypeInv, TypeOK, InitPoint, LoopPoint, DtorPoint
  <1>1. CASE ConfigResize
    <2>1. PICK n \in Sizes : Resize(main, n)
      BY <1>1 DEF ConfigResize
    <2> QED BY <1>1, <2>1 DEF ConfigResize, Resize
  <1>2. CASE ResizeThrew
    BY <1>2 DEF ResizeThrew, Caught, Return
  <1>3. CASE DestroyPool
    BY <1>3 DEF DestroyPool, Destroy
  <1>4. CASE RunDispatch
    <2>1. ASSUME NEW t \in Task, EnqueuePush(run, t) PROVE ServerInv'
      BY <1>4, <2>1 DEF RunDispatch, EnqueuePush
    <2>2. CASE EnqueueThrow(run)
      BY <1>4, <2>2 DEF RunDispatch, EnqueueThrow
    <2> QED BY <1>4, <2>1, <2>2 DEF RunDispatch
  <1>5. CASE CleanupStop
    BY <1>5 DEF CleanupStop, Stop
  <1> QED BY <1>1, <1>2, <1>3, <1>4, <1>5

LEMMA MethodSteps ==
    ASSUME PoolInv, ServerTypeOK, ServerInv, ~aborted, NEW c \in Caller,
           MethodStep(c) \/ (SpuriousWakeCaller(c) /\ UNCHANGED mainVars)
    PROVE  ServerInv'
  <1>a. aborted' => rpc # "none" /\ ~running
    BY PoolAborts DEF MethodStep, ThreadStep, CallStep
  <1>b. c = main \/ c = run
    BY ServerCallers
  <1>c. UNCHANGED mainVars
    BY DEF MethodStep
  <1> USE <1>a, <1>b, <1>c, ServerCallers DEF ServerInv, MainCall, RunCall, Phases, Quiet,
          Service, CleanupJoins, CleanupJoined, CleanupPast, mainVars, poolVars, histVars,
        PoolInv, TypeInv, TypeOK, InitPoint, LoopPoint, DtorPoint, CallerState, Worker
  <1>1. CASE EnqueueNotify(c)
    <2> USE <1>1 DEF EnqueueNotify
    <2>1. CASE UNCHANGED wpc /\ cpc' = [cpc EXCEPT ![c] = "idle"]
      BY <2>1
    <2>2. CASE \E w \in Worker : /\ wpc[w] = "blocked"
                                /\ wpc' = [wpc EXCEPT ![w] = "check"]
                                /\ cpc' = [cpc EXCEPT ![c] = "idle"]
      BY <2>2
    <2>3. CASE \E d \in Caller : /\ cpc[d] = "wait" /\ UNCHANGED wpc
                                /\ cpc' = [cpc EXCEPT ![c] = "idle", ![d] = "lock"]
      BY <2>3
    <2> QED BY <2>1, <2>2, <2>3
  <1>2. CASE Broadcast(c)
    BY <1>2 DEF Broadcast, WokenWorkers, WokenCallers
  <1>3. CASE JoinStart(c)
    BY <1>3 DEF JoinStart
  <1>4. CASE JoinSkip(c)
    BY <1>4 DEF JoinSkip, AtElement, Joinable, NoOrphan
  <1>5. CASE JoinNotJoinable(c)
    BY <1>5 DEF JoinNotJoinable, Throw, AtElement
  <1>6. CASE JoinTwice(c)
    BY <1>6 DEF JoinTwice, Throw, AtElement, JoinContended
  <1>7. CASE JoinBegin(c)
    BY <1>7 DEF JoinBegin, AtElement
  <1>8. CASE JoinEnd(c)
    BY <1>8 DEF JoinEnd
  <1>9. CASE StopReturn(c)
    BY <1>9 DEF StopReturn, AtLoopEnd, Return
  <1>10. CASE DestroyReturn(c)
    BY <1>10 DEF DestroyReturn, AtLoopEnd, Return
  <1>11. CASE ResizeStep(c)
    <2>0. c = main
      BY <1>11 DEF RebuildInv, InResize, ResizeStep, ResizeWait, ResizeStop, ResizeClear,
         ResizeRearm, ResizeSpawn, ResizeSpawnFails, ResizeReturn
    <2>00. cpc[main] \in {"lock", "wait", "clear", "spawn"} => op[main] = "resize"
      BY DEF RebuildInv, InResize
    <2> USE <2>0, <2>00
    <2>1. CASE ResizeWait(c)
      BY <2>1 DEF ResizeWait
    <2>2. CASE ResizeStop(c)
      BY <2>2 DEF ResizeStop, WokenWorkers, WokenCallers
    <2>3. CASE ResizeClear(c)
      <3>1. \A w \in Worker : ~Joinable(w)
        BY <2>3, SizesAssumption DEF ResizeClear, AtLoopEnd, NoOrphan, RebuildInv, JoinedPrefix,
           Joinable
      <3> QED BY <2>3, <3>1 DEF ResizeClear, AtLoopEnd
    <2>4. CASE ResizeRearm(c)
      BY <2>4 DEF ResizeRearm
    <2>5. CASE ResizeSpawn(c)
      BY <2>5 DEF ResizeSpawn
    <2>6. CASE ResizeSpawnFails(c)
      BY <2>6 DEF ResizeSpawnFails, Throw
    <2>7. CASE ResizeReturn(c)
      BY <2>7 DEF ResizeReturn, Return
    <2> QED BY <1>11, <2>1, <2>2, <2>3, <2>4, <2>5, <2>6, <2>7 DEF ResizeStep
  <1>12. CASE SpuriousWakeCaller(c)
    BY <1>12 DEF SpuriousWakeCaller
  <1> HIDE DEF ServerInv
  <1> QED BY <1>1, <1>2, <1>3, <1>4, <1>5, <1>6, <1>7, <1>8, <1>9, <1>10, <1>11, <1>12
      DEF MethodStep, JoinStep

-----------------------------------------------------------------------------
(* The invariant of the process, and what follows from it. *)

IInv == PoolInv /\ ServerTypeOK /\ ServerInv

LEMMA ServerStep == ASSUME IInv, ServerNext PROVE ServerInv'
  <1> USE ServerCallers DEF IInv
  <1>1. ASSUME ~aborted, OutsideStep PROVE ServerInv'
    BY <1>1, OutsideSteps
  <1>2. ASSUME ~aborted, ConfigResize \/ ResizeThrew \/ DestroyPool \/ RunDispatch \/ CleanupStop
        PROVE  ServerInv'
    BY <1>2, CallSteps
  <1>3. ASSUME ~aborted, NEW c \in Caller, MethodStep(c) PROVE ServerInv'
    BY <1>3, MethodSteps
  <1>4. ASSUME ~aborted, Spurious PROVE ServerInv'
    BY <1>4, MethodSteps, WorkerSteps DEF Spurious
  <1>5. ASSUME ~aborted, NEW w \in Worker, PoolWorkerStep(w) PROVE ServerInv'
    BY <1>5, WorkerSteps DEF PoolWorkerStep
  <1>6. ASSUME UNCHANGED serverVars PROVE ServerInv'
    BY <1>6 DEF ServerInv, MainCall, RunCall, Phases, Quiet, Service, Excused, CleanupJoins,
       CleanupJoined, CleanupPast, serverVars, vars, mainVars
  <1>7. ASSUME ~aborted, RequestDies PROVE ServerInv'
    BY <1>7, RequestSteps
  <1> QED BY <1>1, <1>2, <1>3, <1>4, <1>5, <1>6, <1>7
      DEF ServerNext, Dead, MainStep, RunStep, OutsideStep

LEMMA IInvInit == ServerInit => IInv
  BY PoolInvInit, ServerTypeInit, ServerInvInit DEF IInv

LEMMA IInvStep == IInv /\ [ServerNext]_serverVars => IInv'
  <1> SUFFICES ASSUME IInv, [ServerNext]_serverVars PROVE IInv'
    OBVIOUS
  <1>1. PoolInv'
    BY PoolInvStep DEF IInv, ServerInv
  <1>2. ServerTypeOK'
    BY <1>1, ServerTypeStep DEF IInv, PoolInv
  <1>3. ServerInv'
    <2>1. CASE UNCHANGED serverVars
      BY <2>1 DEF IInv, ServerInv, MainCall, RunCall, Phases, Quiet, Service, Excused, CleanupJoins,
         CleanupJoined, CleanupPast, serverVars, vars, mainVars
    <2> QED BY <2>1, ServerStep
  <1> QED BY <1>1, <1>2, <1>3 DEF IInv

LEMMA ServerInvariant == ServerSpec => []IInv
  BY IInvInit, IInvStep, PTL DEF ServerSpec

(* Every variable of the process keeps its type.                           *)
THEOREM ServerTypeCorrect == ServerSpec => []ServerTypeOK
  <1>1. IInv => ServerTypeOK
    BY DEF IInv
  <1> QED BY <1>1, ServerInvariant, PTL

(* Until it is asked to stop, and in an initialisation that fails, nothing *)
(* but a request, an enqueue during a reload and the logger that a reload  *)
(* replaces can end the process: main meets no joined thread in the pool   *)
(* it resized, and no request and no wait loses what it uses.              *)
THEOREM ServiceNeverAborts == ServerSpec => []NoAbortInService
  <1>1. IInv => NoAbortInService
    BY DEF IInv, ServerInv, Quiet, Service, NoAbortInService
  <1> QED BY <1>1, ServerInvariant, PTL

(* A normal exit leaves no accepted request unserved, unless the pool was  *)
(* left without threads.                                                   *)
THEOREM ExitServesAll == ServerSpec => []ExitedServed
  <1>1. IInv => ExitedServed
    BY ServerCallers DEF IInv, ServerInv, MainCall, PoolInv, DrainInv, DestroyedDrained,
       ExitedServed
  <1> QED BY <1>1, ServerInvariant, PTL

(* Without a reload, cleanup closes the databases when the pool is drained,*)
(* even while main destroys the Server beside it.                          *)
THEOREM CleanupDrains == ServerSpec => []CleanupAfterDrain
  <1>1. ASSUME IInv PROVE CleanupAfterDrain
    <2> SUFFICES ASSUME ~reloaded, nworkers > 0, rpc \in {"dbread", "dbclose"}
                 PROVE  tasks = << >> /\ \A w \in Worker : wpc[w] # "run"
      BY DEF CleanupAfterDrain
    <2>1. \A w \in Worker : w <= nworkers => wpc[w] = "joined"
      BY <1>1 DEF IInv, ServerInv, CleanupJoined, CleanupPast
    <2>2. \A w \in Worker : wpc[w] # "run"
      BY <1>1, <2>1 DEF IInv, PoolInv, TypeInv, NoOrphan
    <2>3. 1 \in Worker /\ wpc[1] = "joined"
      BY <1>1, <2>1, SizesAssumption DEF IInv, PoolInv, TypeInv, TypeOK, Worker
    <2>4. tasks = << >>
      BY <1>1, <2>3 DEF IInv, PoolInv, RebuildInv, ExitedDrained
    <2> QED BY <2>2, <2>4
  <1> QED BY <1>1, ServerInvariant, PTL

(* In the process as in the pool alone, every request is in one place at   *)
(* any time and is run once, in the order of the events; whoever destroys, *)
(* stops or resizes the pool, it behaves like the queue of TaskQueue.      *)
THEOREM ServerKeepsRequests ==
    ServerSpec => []NothingLostOrRunTwice /\ ImplementsTaskQueue
  <1>1. IInv => NothingLostOrRunTwice
    BY DEF IInv, PoolInv, TypeInv, PlaceInv, NothingLostOrRunTwice, Distinct, Held, HeldOnce,
           StartedSplit, HeldUnfinished
  <1>2. ServerInit => Queue!Init
    BY QueueInit, TypeInit DEF ServerInit
  <1>3. IInv /\ [ServerNext]_serverVars => [Queue!Next]_(Queue!vars)
    BY ServerIsPoolStep, QueueStep DEF IInv, PoolInv
  <1> QED BY <1>1, <1>2, <1>3, ServerInvariant, PTL DEF ServerSpec, ImplementsTaskQueue, Queue!Spec
=============================================================================
