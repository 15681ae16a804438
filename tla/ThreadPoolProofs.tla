-------------------------- MODULE ThreadPoolProofs --------------------------
(***************************************************************************)
(* What holds of ThreadPool for every number of workers, callers and       *)
(* tasks.  Four inductive invariants, each on top of the one before it:    *)
(*                                                                         *)
(*   TypeInv     the domains of the variables;                             *)
(*   PlaceInv    where each accepted task is;                              *)
(*   RebuildInv  what resize relies on when it resets stop_ and clears the *)
(*               vector of threads;                                        *)
(*   DrainInv    what the destructor relies on when it returns.            *)
(*                                                                         *)
(* RebuildInv needs resize to be called by one thread at most, which is    *)
(* how the server uses the pool (only main reloads the configuration).     *)
(* The four are kept by every PoolStep, whoever calls what and when; so    *)
(* they also hold in the process of ServerLifecycle, whose threads do not  *)
(* wait for one another as Call demands.                                   *)
(*                                                                         *)
(* At the end, the steps of the pool are shown to be those of TaskQueue.   *)
(***************************************************************************)
EXTENDS ThreadPool, SequenceTheorems, FiniteSetTheorems, TLAPS

OneResizer == \A c, d \in Resizers : c = d

(* A step of a worker or of a caller, without the conditions of Call on    *)
(* when a method may be called, or an abort from outside the pool.         *)
Outside ==
    /\ aborted' \in BOOLEAN
    /\ UNCHANGED <<tasks, stop_, nworkers, wpc, wtask, alive>>
    /\ UNCHANGED callVars /\ UNCHANGED histVars

AnyCall(c) ==
    \/ (\E t \in Task : EnqueuePush(c, t)) \/ EnqueueThrow(c)
    \/ c \in Resizers /\ \E n \in Sizes : Resize(c, n)
    \/ Stop(c) \/ Destroy(c)

ThreadStep ==
    \/ \E w \in Worker : WorkerStep(w) \/ SpuriousWakeWorker(w)
    \/ \E c \in Caller : AnyCall(c) \/ CallStep(c) \/ SpuriousWakeCaller(c)

PoolStep == ThreadStep \/ Outside

LEMMA NextIsThreadStep == [Next]_vars => (~aborted /\ ThreadStep) \/ UNCHANGED vars
  BY DEF Next, ThreadStep, AnyCall, Call, Ended

LEMMA NextIsPoolStep == aborted \in BOOLEAN /\ [Next]_vars => PoolStep
  BY NextIsThreadStep DEF PoolStep, Outside, vars, callVars, histVars

-----------------------------------------------------------------------------
(* std::thread::join is only called on an element of the vector, and the   *)
(* local task of a worker holds a closure exactly while it runs.           *)
Held == \A w \in Worker : wpc[w] = "run" <=> wtask[w] # NoTask

(* The vector has a std::thread at each of its positions and nowhere else. *)
NoOrphan == \A w \in Worker : wpc[w] # "none" <=> w <= nworkers

TypeInv ==
    /\ TypeOK
    /\ Held /\ NoOrphan
    /\ \A c \in Caller : cpc[c] = "joining" => idx[c] <= last[c]

LEMMA TypeInit == Init => TypeInv
  <1> SUFFICES ASSUME Init PROVE TypeInv
    OBVIOUS
  <1> USE SizesAssumption DEF Init, Worker
  <1>1. << >> \in Seq(Task)
    BY EmptySeq
  <1>2. nworkers \in 0 .. MaxThreads /\ wpc \in [Worker -> WorkerState]
    BY DEF WorkerState
  <1>3. /\ cpc \in [Caller -> CallerState] /\ op \in [Caller -> Method]
        /\ arg \in [Caller -> 0 .. MaxThreads] /\ last \in [Caller -> 0 .. MaxThreads]
        /\ idx \in [Caller -> 1 .. MaxThreads + 1]
    BY DEF CallerState, Method
  <1>4. wtask \in [Worker -> Task \cup {NoTask}] /\ Held
    BY DEF Held
  <1>5. NoOrphan
    BY DEF NoOrphan
  <1> QED BY <1>1, <1>2, <1>3, <1>4, <1>5 DEF TypeInv, TypeOK

LEMMA TypeStep == TypeInv /\ PoolStep => TypeInv'
  <1> SUFFICES ASSUME TypeInv, PoolStep PROVE TypeInv'
    OBVIOUS
  <1> USE SizesAssumption, TaskAssumption DEF TypeInv, TypeOK, Held, NoOrphan, Worker,
          WorkerState, CallerState, Method,
          poolVars, callVars, histVars
  <1>1. ASSUME NEW w \in Worker, WorkerTake(w) PROVE TypeInv'
    <2> USE <1>1 DEF WorkerTake
    <2>1. Head(tasks) \in Task /\ Tail(tasks) \in Seq(Task)
      BY HeadTailProperties
    <2>2. started' \in Seq(Task)
      BY <2>1, AppendProperties
    <2> QED BY <2>1, <2>2
  <1>2. ASSUME NEW w \in Worker, WorkerExit(w) PROVE TypeInv'
    BY <1>2 DEF WorkerExit
  <1>3. ASSUME NEW w \in Worker, WorkerBlock(w) PROVE TypeInv'
    BY <1>3 DEF WorkerBlock
  <1>4. ASSUME NEW w \in Worker, WorkerRun(w) PROVE TypeInv'
    BY <1>4 DEF WorkerRun
  <1>5. ASSUME NEW w \in Worker, SpuriousWakeWorker(w) PROVE TypeInv'
    BY <1>5 DEF SpuriousWakeWorker
  <1>6. ASSUME NEW c \in Caller, NEW t \in Task, EnqueuePush(c, t) PROVE TypeInv'
    BY <1>6, AppendProperties DEF EnqueuePush
  <1>7. ASSUME NEW c \in Caller, EnqueueThrow(c) PROVE TypeInv'
    BY <1>7 DEF EnqueueThrow
  <1>8. ASSUME NEW c \in Caller, NEW n \in Sizes, Resize(c, n) PROVE TypeInv'
    BY <1>8 DEF Resize
  <1>9. ASSUME NEW c \in Caller, Stop(c) PROVE TypeInv'
    BY <1>9 DEF Stop
  <1>10. ASSUME NEW c \in Caller, Destroy(c) PROVE TypeInv'
    BY <1>10 DEF Destroy
  <1>11. ASSUME NEW c \in Caller, EnqueueNotify(c) PROVE TypeInv'
    <2> USE <1>11 DEF EnqueueNotify
    <2>1. CASE UNCHANGED wpc
      BY <2>1
    <2>2. CASE \E w \in Worker : /\ wpc[w] = "blocked"
                                /\ wpc' = [wpc EXCEPT ![w] = "check"]
                                /\ cpc' = [cpc EXCEPT ![c] = "idle"]
      BY <2>2
    <2> QED BY <2>1, <2>2
  <1>12. ASSUME NEW c \in Caller, Broadcast(c) PROVE TypeInv'
    BY <1>12 DEF Broadcast, WokenWorkers, WokenCallers
  <1>13. ASSUME NEW c \in Caller, JoinStart(c) PROVE TypeInv'
    BY <1>13 DEF JoinStart
  <1>14. ASSUME NEW c \in Caller, JoinSkip(c) PROVE TypeInv'
    BY <1>14 DEF JoinSkip, AtElement
  <1>15. ASSUME NEW c \in Caller, JoinNotJoinable(c) PROVE TypeInv'
    BY <1>15 DEF JoinNotJoinable, Throw, AtElement
  <1>16. ASSUME NEW c \in Caller, JoinTwice(c) PROVE TypeInv'
    BY <1>16 DEF JoinTwice, Throw, AtElement
  <1>17. ASSUME NEW c \in Caller, JoinBegin(c) PROVE TypeInv'
    BY <1>17 DEF JoinBegin, AtElement
  <1>18. ASSUME NEW c \in Caller, JoinEnd(c) PROVE TypeInv'
    BY <1>18 DEF JoinEnd
  <1>19. ASSUME NEW c \in Caller, StopReturn(c) PROVE TypeInv'
    BY <1>19 DEF StopReturn, Return, AtLoopEnd
  <1>20. ASSUME NEW c \in Caller, DestroyReturn(c) PROVE TypeInv'
    BY <1>20 DEF DestroyReturn, Return, AtLoopEnd
  <1>21. ASSUME NEW c \in Caller, ResizeWait(c) PROVE TypeInv'
    BY <1>21 DEF ResizeWait
  <1>22. ASSUME NEW c \in Caller, ResizeStop(c) PROVE TypeInv'
    BY <1>22 DEF ResizeStop, WokenWorkers, WokenCallers
  <1>23. ASSUME NEW c \in Caller, ResizeClear(c) PROVE TypeInv'
    <2> USE <1>23 DEF ResizeClear, AtLoopEnd, Joinable
    <2>1. CASE \E v \in Worker : Joinable(v)
      BY <2>1
    <2>2. CASE ~ \E v \in Worker : Joinable(v)
      BY <2>2
    <2> QED BY <2>1, <2>2
  <1>24. ASSUME NEW c \in Caller, ResizeRearm(c) PROVE TypeInv'
    BY <1>24 DEF ResizeRearm
  <1>25. ASSUME NEW c \in Caller, ResizeSpawn(c) PROVE TypeInv'
    BY <1>25 DEF ResizeSpawn
  <1>25a. ASSUME NEW c \in Caller, ResizeSpawnFails(c) PROVE TypeInv'
    BY <1>25a DEF ResizeSpawnFails, Throw
  <1>26. ASSUME NEW c \in Caller, ResizeReturn(c) PROVE TypeInv'
    BY <1>26 DEF ResizeReturn, Return
  <1>27. ASSUME NEW c \in Caller, Caught(c) PROVE TypeInv'
    BY <1>27 DEF Caught, Return
  <1>28. ASSUME NEW c \in Caller, SpuriousWakeCaller(c) PROVE TypeInv'
    BY <1>28 DEF SpuriousWakeCaller
  <1>29. CASE Outside
    BY <1>29 DEF Outside
  <1> QED
    BY <1>1, <1>2, <1>3, <1>4, <1>5, <1>6, <1>7, <1>8, <1>9, <1>10, <1>11, <1>12, <1>13,
       <1>14, <1>15, <1>16, <1>17, <1>18, <1>19, <1>20, <1>21, <1>22, <1>23, <1>24, <1>25,
       <1>25a, <1>26, <1>27, <1>28, <1>29
      DEF PoolStep, ThreadStep, AnyCall, CallStep, JoinStep, ResizeStep, WorkerStep

(* Every variable of the pool keeps its type.                              *)
THEOREM TypeCorrect == Spec => []TypeOK
  <1>1. TypeInv => TypeOK
    BY DEF TypeInv
  <1>2. TypeInv /\ [Next]_vars => TypeInv'
    BY TypeStep, NextIsPoolStep DEF TypeInv, TypeOK
  <1> QED BY TypeInit, <1>1, <1>2, PTL DEF Spec

-----------------------------------------------------------------------------
(* Where the tasks are.  The clauses of NothingLostOrRunTwice, by name.    *)

Distinct(s) == \A i, j \in DOMAIN s : s[i] = s[j] => i = j

HeldOnce == \A v, w \in Worker : v # w /\ wpc[v] = "run" => wtask[v] # wtask[w]

StartedSplit == \A t \in Task :
    t \in Range(started) <=> t \in finished \/ \E w \in Worker : wtask[w] = t

HeldUnfinished == \A w \in Worker : wtask[w] \notin finished

PlaceInv ==
    /\ submitted = started \o tasks
    /\ Distinct(submitted)
    /\ HeldOnce /\ StartedSplit /\ HeldUnfinished

(* What one push or one pop does to the two sequences. *)
LEMMA PushPlaces ==
    ASSUME NEW S, NEW s \in Seq(S), NEW q \in Seq(S), NEW e \in S
    PROVE  s \o Append(q, e) = Append(s \o q, e)
  OBVIOUS

LEMMA PopPlaces ==
    ASSUME NEW S, NEW s \in Seq(S), NEW q \in Seq(S), q # << >>
    PROVE  Append(s, Head(q)) \o Tail(q) = s \o q
  OBVIOUS

LEMMA PushRange ==
    ASSUME NEW S, NEW s \in Seq(S), NEW e \in S
    PROVE  Range(Append(s, e)) = Range(s) \cup {e}
  <1>1. /\ DOMAIN s = 1 .. Len(s) /\ DOMAIN Append(s, e) = 1 .. (Len(s) + 1)
        /\ Len(s) \in Nat
    BY AppendProperties, LenProperties
  <1>2. \A i \in 1 .. Len(s) : Append(s, e)[i] = s[i]
    BY AppendProperties
  <1>3. Append(s, e)[Len(s) + 1] = e
    BY AppendProperties
  <1> QED BY <1>1, <1>2, <1>3 DEF Range

LEMMA PlaceInit == TypeInv /\ Init => PlaceInv
  <1> SUFFICES ASSUME TypeInv, Init PROVE PlaceInv
    OBVIOUS
  <1>1. submitted = started \o tasks
    BY DEF Init
  <1>2. StartedSplit
    BY TaskAssumption DEF Init, StartedSplit, Range, Worker
  <1> QED BY <1>1, <1>2 DEF Init, PlaceInv, Distinct, HeldOnce, HeldUnfinished, Worker

(* Only three actions move a task. *)
LEMMA PlaceFrame ==
    ASSUME PlaceInv,
           UNCHANGED <<tasks, wtask, submitted, started, finished>>,
           \A w \in Worker : wpc[w] = "run" <=> wpc'[w] = "run"
    PROVE  PlaceInv'
  BY DEF PlaceInv, Distinct, HeldOnce, StartedSplit, HeldUnfinished

LEMMA PlacePush ==
    ASSUME TypeInv, PlaceInv, NEW c \in Caller, NEW t \in Task, EnqueuePush(c, t)
    PROVE  PlaceInv'
  <1>a. tasks \in Seq(Task) /\ started \in Seq(Task)
    BY DEF TypeInv, TypeOK
  <1>b. started \o Append(tasks, t) = Append(started \o tasks, t)
    BY <1>a, PushPlaces
  <1> USE DEF TypeInv, TypeOK
  <1> USE DEF EnqueuePush
  <1>1. submitted' = started' \o tasks'
    BY <1>b DEF PlaceInv
  <1>2. Distinct(submitted)'
    <2> SUFFICES ASSUME NEW i \in DOMAIN submitted', NEW j \in DOMAIN submitted',
                        submitted'[i] = submitted'[j]
                 PROVE  i = j
      BY DEF Distinct
    <2>1. \A k \in DOMAIN submitted : submitted'[k] = submitted[k] /\ submitted[k] # t
      BY AppendProperties DEF Range
    <2>2. submitted'[Len(submitted) + 1] = t
      BY AppendProperties
    <2>3. DOMAIN submitted' = DOMAIN submitted \cup {Len(submitted) + 1}
      BY AppendProperties
    <2>4. CASE i \in DOMAIN submitted /\ j \in DOMAIN submitted
      BY <2>1, <2>4 DEF PlaceInv, Distinct
    <2>5. CASE ~(i \in DOMAIN submitted /\ j \in DOMAIN submitted)
      BY <2>1, <2>2, <2>3, <2>5
    <2> QED BY <2>4, <2>5
  <1>3. UNCHANGED <<wpc, wtask, started, finished>>
    OBVIOUS
  <1> QED BY <1>1, <1>2, <1>3 DEF PlaceInv, HeldOnce, StartedSplit, HeldUnfinished

LEMMA PlaceTake ==
    ASSUME TypeInv, PlaceInv, NEW w \in Worker, WorkerTake(w)
    PROVE  PlaceInv'
  <1> USE DEF TypeInv, TypeOK, WorkerTake
  <1> DEFINE t == Head(tasks)
  <1>1. t \in Task
    BY HeadTailProperties
  <1>2. submitted' = started' \o tasks'
    BY PopPlaces DEF PlaceInv
  <1>3. Distinct(submitted)'
    BY DEF PlaceInv
  <1>4. t \notin Range(started)
    <2> SUFFICES ASSUME NEW i \in DOMAIN started, started[i] = t PROVE FALSE
      BY DEF Range
    <2>1. /\ i \in DOMAIN submitted /\ submitted[i] = t
          /\ Len(started) + 1 \in DOMAIN submitted /\ submitted[Len(started) + 1] = t
          /\ i # Len(started) + 1
      BY ConcatProperties DEF PlaceInv
    <2> QED BY <2>1 DEF PlaceInv, Distinct
  <1>5. t \notin finished /\ \A v \in Worker : wtask[v] # t
    BY <1>1, <1>4 DEF PlaceInv, StartedSplit
  <1>6. wtask[w] = NoTask /\ wtask' = [wtask EXCEPT ![w] = t]
    BY DEF Held
  <1>7. StartedSplit'
    <2>1. Range(started') = Range(started) \cup {t}
      BY <1>1, PushRange
    <2> QED BY <2>1, <1>1, <1>5, <1>6, TaskAssumption DEF PlaceInv, StartedSplit
  <1>8. HeldOnce'
    BY <1>5 DEF PlaceInv, HeldOnce, Held
  <1>9. HeldUnfinished'
    BY <1>5 DEF PlaceInv, HeldUnfinished
  <1> QED BY <1>2, <1>3, <1>7, <1>8, <1>9 DEF PlaceInv

LEMMA PlaceRun ==
    ASSUME TypeInv, PlaceInv, NEW w \in Worker, WorkerRun(w)
    PROVE  PlaceInv'
  <1> USE DEF TypeInv, TypeOK, WorkerRun, PlaceInv
  <1>1. submitted' = started' \o tasks' /\ Distinct(submitted)'
    BY DEF Distinct
  <1>2. wtask[w] \in Task /\ \A v \in Worker \ {w} : wtask[v] # wtask[w]
    BY DEF Held, HeldOnce
  <1>3. StartedSplit'
    BY <1>2, TaskAssumption DEF StartedSplit
  <1>4. HeldOnce'
    BY <1>2, TaskAssumption DEF HeldOnce, Held
  <1>5. HeldUnfinished'
    BY <1>2, TaskAssumption DEF HeldUnfinished
  <1> QED
    BY <1>1, <1>3, <1>4, <1>5

LEMMA PlaceStep == TypeInv /\ PlaceInv /\ PoolStep => PlaceInv'
  <1> SUFFICES ASSUME TypeInv, PlaceInv, PoolStep PROVE PlaceInv'
    OBVIOUS
  <1> USE PlaceFrame DEF TypeInv, TypeOK, poolVars, callVars, histVars
  <1>1. ASSUME NEW w \in Worker, WorkerTake(w) PROVE PlaceInv'
    BY <1>1, PlaceTake
  <1>2. ASSUME NEW w \in Worker, WorkerExit(w) PROVE PlaceInv'
    BY <1>2 DEF WorkerExit
  <1>3. ASSUME NEW w \in Worker, WorkerBlock(w) PROVE PlaceInv'
    BY <1>3 DEF WorkerBlock
  <1>4. ASSUME NEW w \in Worker, WorkerRun(w) PROVE PlaceInv'
    BY <1>4, PlaceRun
  <1>5. ASSUME NEW w \in Worker, SpuriousWakeWorker(w) PROVE PlaceInv'
    BY <1>5 DEF SpuriousWakeWorker
  <1>6. ASSUME NEW c \in Caller, NEW t \in Task, EnqueuePush(c, t) PROVE PlaceInv'
    BY <1>6, PlacePush
  <1>7. ASSUME NEW c \in Caller, EnqueueThrow(c) PROVE PlaceInv'
    BY <1>7 DEF EnqueueThrow
  <1>8. ASSUME NEW c \in Caller, NEW n \in Sizes, Resize(c, n) PROVE PlaceInv'
    BY <1>8 DEF Resize
  <1>9. ASSUME NEW c \in Caller, Stop(c) PROVE PlaceInv'
    BY <1>9 DEF Stop
  <1>10. ASSUME NEW c \in Caller, Destroy(c) PROVE PlaceInv'
    BY <1>10 DEF Destroy
  <1>11. ASSUME NEW c \in Caller, EnqueueNotify(c) PROVE PlaceInv'
    BY <1>11 DEF EnqueueNotify
  <1>12. ASSUME NEW c \in Caller, Broadcast(c) PROVE PlaceInv'
    BY <1>12 DEF Broadcast, WokenWorkers, WokenCallers
  <1>13. ASSUME NEW c \in Caller, JoinStart(c) PROVE PlaceInv'
    BY <1>13 DEF JoinStart
  <1>14. ASSUME NEW c \in Caller, JoinSkip(c) PROVE PlaceInv'
    BY <1>14 DEF JoinSkip, AtElement
  <1>15. ASSUME NEW c \in Caller, JoinNotJoinable(c) PROVE PlaceInv'
    BY <1>15 DEF JoinNotJoinable, Throw, AtElement
  <1>16. ASSUME NEW c \in Caller, JoinTwice(c) PROVE PlaceInv'
    BY <1>16 DEF JoinTwice, Throw, AtElement
  <1>17. ASSUME NEW c \in Caller, JoinBegin(c) PROVE PlaceInv'
    BY <1>17 DEF JoinBegin, AtElement
  <1>18. ASSUME NEW c \in Caller, JoinEnd(c) PROVE PlaceInv'
    BY <1>18 DEF JoinEnd
  <1>19. ASSUME NEW c \in Caller, StopReturn(c) PROVE PlaceInv'
    BY <1>19 DEF StopReturn, Return, AtLoopEnd
  <1>20. ASSUME NEW c \in Caller, DestroyReturn(c) PROVE PlaceInv'
    BY <1>20 DEF DestroyReturn, Return, AtLoopEnd
  <1>21. ASSUME NEW c \in Caller, ResizeWait(c) PROVE PlaceInv'
    BY <1>21 DEF ResizeWait
  <1>22. ASSUME NEW c \in Caller, ResizeStop(c) PROVE PlaceInv'
    BY <1>22 DEF ResizeStop, WokenWorkers, WokenCallers
  <1>23. ASSUME NEW c \in Caller, ResizeClear(c) PROVE PlaceInv'
    BY <1>23 DEF ResizeClear, AtLoopEnd, Joinable
  <1>24. ASSUME NEW c \in Caller, ResizeRearm(c) PROVE PlaceInv'
    BY <1>24 DEF ResizeRearm
  <1>25. ASSUME NEW c \in Caller, ResizeSpawn(c) PROVE PlaceInv'
    BY <1>25 DEF ResizeSpawn, NoOrphan, Worker
  <1>25a. ASSUME NEW c \in Caller, ResizeSpawnFails(c) PROVE PlaceInv'
    BY <1>25a DEF ResizeSpawnFails, Throw
  <1>26. ASSUME NEW c \in Caller, ResizeReturn(c) PROVE PlaceInv'
    BY <1>26 DEF ResizeReturn, Return
  <1>27. ASSUME NEW c \in Caller, Caught(c) PROVE PlaceInv'
    BY <1>27 DEF Caught, Return
  <1>28. ASSUME NEW c \in Caller, SpuriousWakeCaller(c) PROVE PlaceInv'
    BY <1>28 DEF SpuriousWakeCaller
  <1>29. CASE Outside
    BY <1>29 DEF Outside
  <1> QED
    BY <1>1, <1>2, <1>3, <1>4, <1>5, <1>6, <1>7, <1>8, <1>9, <1>10, <1>11, <1>12, <1>13,
       <1>14, <1>15, <1>16, <1>17, <1>18, <1>19, <1>20, <1>21, <1>22, <1>23, <1>24, <1>25,
       <1>25a, <1>26, <1>27, <1>28, <1>29
      DEF PoolStep, ThreadStep, AnyCall, CallStep, JoinStep, ResizeStep, WorkerStep

(* Every accepted task is in exactly one place at any time: waiting in the *)
(* queue in the order of acceptance, run by one worker, or finished.       *)
THEOREM TasksAreKept == Spec => []NothingLostOrRunTwice
  <1>1. Init => TypeInv /\ PlaceInv
    BY TypeInit, PlaceInit
  <1>2. TypeInv /\ PlaceInv /\ [Next]_vars => (TypeInv /\ PlaceInv)'
    BY TypeStep, PlaceStep, NextIsPoolStep DEF TypeInv, TypeOK
  <1>3. TypeInv /\ PlaceInv => NothingLostOrRunTwice
    BY DEF TypeInv, PlaceInv, NothingLostOrRunTwice, Distinct, Held, HeldOnce,
           StartedSplit, HeldUnfinished
  <1> QED BY <1>1, <1>2, <1>3, PTL DEF Spec

-----------------------------------------------------------------------------
(* What resize relies on. *)

(* Only a resizer is inside resize. *)
InResize ==
    \A c \in Caller :
        /\ cpc[c] \in {"lock", "wait", "clear", "spawn"} => op[c] = "resize"
        /\ op[c] = "resize" => c \in Resizers
        /\ cpc[c] \in {"idle", "notify", "gone"} => op[c] = "none"

(* Its join loop has left no joinable thread behind it, and the vector has *)
(* kept the length the loop started with.                                  *)
JoinedPrefix ==
    \A c \in Caller : op[c] = "resize" /\ cpc[c] \in {"join", "joining"} =>
        /\ last[c] = nworkers
        /\ \A w \in Worker : w < idx[c] => ~Joinable(w)

(* No thread is left when stop_ is reset. *)
Cleared == \A c \in Caller : cpc[c] = "clear" => \A w \in Worker : wpc[w] = "none"

RebuildInv == InResize /\ JoinedPrefix /\ Cleared /\ ExitedDrained

LEMMA RebuildInit == Init => RebuildInv
  BY DEF Init, RebuildInv, InResize, JoinedPrefix, Cleared, ExitedDrained, Worker

LEMMA RebuildStep ==
    ASSUME OneResizer, TypeInv, RebuildInv, PoolStep PROVE RebuildInv'
  <1>0. \A c, d \in Caller : op[c] = "resize" /\ op[d] = "resize" => c = d
    BY DEF OneResizer, RebuildInv, InResize
  <1> USE <1>0 DEF TypeInv, TypeOK, RebuildInv, InResize, JoinedPrefix, Cleared,
          ExitedDrained, Joinable, poolVars, callVars, histVars
  <1>1. ASSUME NEW w \in Worker, WorkerTake(w)
        PROVE  RebuildInv'
    BY <1>1 DEF WorkerTake
  <1>2. ASSUME NEW w \in Worker, WorkerExit(w)
        PROVE  RebuildInv'
    BY <1>2 DEF WorkerExit
  <1>3. ASSUME NEW w \in Worker, WorkerBlock(w)
        PROVE  RebuildInv'
    BY <1>3 DEF WorkerBlock
  <1>4. ASSUME NEW w \in Worker, WorkerRun(w)
        PROVE  RebuildInv'
    BY <1>4 DEF WorkerRun
  <1>5. ASSUME NEW w \in Worker, SpuriousWakeWorker(w)
        PROVE  RebuildInv'
    BY <1>5 DEF SpuriousWakeWorker
  <1>6. ASSUME NEW c \in Caller, NEW t \in Task, EnqueuePush(c, t)
        PROVE  RebuildInv'
    BY <1>6 DEF EnqueuePush
  <1>7. ASSUME NEW c \in Caller, EnqueueThrow(c)
        PROVE  RebuildInv'
    BY <1>7 DEF EnqueueThrow
  <1>8. ASSUME NEW c \in Caller, NEW n \in Sizes, Resize(c, n), c \in Resizers
        PROVE  RebuildInv'
    BY <1>8 DEF Resize
  <1>9. ASSUME NEW c \in Caller, Stop(c)
        PROVE  RebuildInv'
    BY <1>9 DEF Stop
  <1>10. ASSUME NEW c \in Caller, Destroy(c)
        PROVE  RebuildInv'
    BY <1>10 DEF Destroy
  <1>11. ASSUME NEW c \in Caller, EnqueueNotify(c)
        PROVE  RebuildInv'
    <2> USE <1>11 DEF EnqueueNotify
    <2>1. CASE UNCHANGED wpc /\ cpc' = [cpc EXCEPT ![c] = "idle"]
      BY <2>1
    <2>3. CASE \E d \in Caller : /\ cpc[d] = "wait" /\ UNCHANGED wpc
                                /\ cpc' = [cpc EXCEPT ![c] = "idle", ![d] = "lock"]
      BY <2>3
    <2>2. CASE \E w \in Worker : /\ wpc[w] = "blocked"
                                /\ wpc' = [wpc EXCEPT ![w] = "check"]
                                /\ cpc' = [cpc EXCEPT ![c] = "idle"]
      BY <2>2
    <2> QED BY <2>1, <2>2, <2>3
  <1>12. ASSUME NEW c \in Caller, Broadcast(c)
        PROVE  RebuildInv'
    BY <1>12 DEF Broadcast, WokenWorkers, WokenCallers
  <1>13. ASSUME NEW c \in Caller, JoinStart(c)
        PROVE  RebuildInv'
    <2> USE <1>13 DEF JoinStart, Worker
    <2>1. JoinedPrefix'
      OBVIOUS
    <2> QED BY <2>1
  <1>14. ASSUME NEW c \in Caller, JoinSkip(c)
        PROVE  RebuildInv'
    <2> USE <1>14 DEF JoinSkip, AtElement, Worker
    <2>1. JoinedPrefix'
      OBVIOUS
    <2> QED BY <2>1
  <1>15. ASSUME NEW c \in Caller, JoinNotJoinable(c)
        PROVE  RebuildInv'
    BY <1>15 DEF JoinNotJoinable, Throw, AtElement
  <1>16. ASSUME NEW c \in Caller, JoinTwice(c)
        PROVE  RebuildInv'
    BY <1>16 DEF JoinTwice, Throw, AtElement
  <1>17. ASSUME NEW c \in Caller, JoinBegin(c)
        PROVE  RebuildInv'
    BY <1>17 DEF JoinBegin, AtElement
  <1>18. ASSUME NEW c \in Caller, JoinEnd(c)
        PROVE  RebuildInv'
    <2> USE <1>18 DEF JoinEnd, Worker
    <2>1. JoinedPrefix'
      OBVIOUS
    <2> QED BY <2>1
  <1>19. ASSUME NEW c \in Caller, StopReturn(c)
        PROVE  RebuildInv'
    BY <1>19 DEF StopReturn, Return, AtLoopEnd
  <1>20. ASSUME NEW c \in Caller, DestroyReturn(c)
        PROVE  RebuildInv'
    BY <1>20 DEF DestroyReturn, Return, AtLoopEnd
  <1>21. ASSUME NEW c \in Caller, ResizeWait(c)
        PROVE  RebuildInv'
    BY <1>21 DEF ResizeWait
  <1>22. ASSUME NEW c \in Caller, ResizeStop(c)
        PROVE  RebuildInv'
    BY <1>22 DEF ResizeStop, WokenWorkers, WokenCallers
  <1>23. ASSUME NEW c \in Caller, ResizeClear(c)
        PROVE  RebuildInv'
    <2> USE <1>23 DEF ResizeClear, AtLoopEnd, NoOrphan, Worker
    <2>1. \A v \in Worker : ~Joinable(v)
      OBVIOUS
    <2>2. /\ wpc' = [v \in Worker |-> "none"] /\ UNCHANGED <<aborted, op, tasks, stop_>>
          /\ cpc' = [cpc EXCEPT ![c] = "clear"]
      BY <2>1
    <2> QED BY <2>2
  <1>24. ASSUME NEW c \in Caller, ResizeRearm(c)
        PROVE  RebuildInv'
    BY <1>24 DEF ResizeRearm
  <1>25. ASSUME NEW c \in Caller, ResizeSpawn(c)
        PROVE  RebuildInv'
    BY <1>25 DEF ResizeSpawn, NoOrphan, Worker
  <1>25a. ASSUME NEW c \in Caller, ResizeSpawnFails(c)
        PROVE  RebuildInv'
    BY <1>25a DEF ResizeSpawnFails, Throw
  <1>26. ASSUME NEW c \in Caller, ResizeReturn(c)
        PROVE  RebuildInv'
    BY <1>26 DEF ResizeReturn, Return
  <1>27. ASSUME NEW c \in Caller, Caught(c)
        PROVE  RebuildInv'
    BY <1>27 DEF Caught, Return
  <1>28. ASSUME NEW c \in Caller, SpuriousWakeCaller(c)
        PROVE  RebuildInv'
    BY <1>28 DEF SpuriousWakeCaller
  <1>29. CASE Outside
    BY <1>29 DEF Outside
  <1> HIDE DEF RebuildInv
  <1> QED
    BY <1>1, <1>2, <1>3, <1>4, <1>5, <1>6, <1>7, <1>8, <1>9, <1>10, <1>11, <1>12, <1>13,
       <1>14, <1>15, <1>16, <1>17, <1>18, <1>19, <1>20, <1>21, <1>22, <1>23, <1>24, <1>25,
       <1>25a, <1>26, <1>27, <1>28, <1>29
      DEF PoolStep, ThreadStep, AnyCall, CallStep, JoinStep, ResizeStep, WorkerStep

(* A worker gives up its loop only with nothing queued, and nothing is     *)
(* accepted until resize has cleared such a worker away.                   *)
THEOREM ExitIsFinal == ASSUME OneResizer PROVE Spec => []ExitedDrained
  <1>1. Init => TypeInv /\ RebuildInv
    BY TypeInit, RebuildInit
  <1>2. TypeInv /\ RebuildInv /\ [Next]_vars => (TypeInv /\ RebuildInv)'
    BY TypeStep, RebuildStep, NextIsPoolStep DEF TypeInv, TypeOK
  <1>3. RebuildInv => ExitedDrained
    BY DEF RebuildInv
  <1> QED BY <1>1, <1>2, <1>3, PTL DEF Spec

(* The only calls of std::terminate are those of a destructor that joins a *)
(* thread which is not joinable, or which another thread is joining.       *)
LEMMA AbortOrigin ==
    ASSUME OneResizer, TypeInv, RebuildInv, ~aborted, ThreadStep, aborted'
    PROVE  \E c \in Caller : op[c] = "destroy" /\ (JoinNotJoinable(c) \/ JoinTwice(c))
  <1> USE DEF poolVars, callVars, histVars
  <1>1. ASSUME NEW w \in Worker, WorkerStep(w) \/ SpuriousWakeWorker(w) PROVE FALSE
    BY <1>1 DEF WorkerStep, WorkerTake, WorkerExit, WorkerBlock, WorkerRun, SpuriousWakeWorker
  <1>2. ASSUME NEW c \in Caller, AnyCall(c) PROVE FALSE
    BY <1>2 DEF AnyCall, EnqueuePush, EnqueueThrow, Resize, Stop, Destroy
  <1>3. ASSUME NEW c \in Caller,
               EnqueueNotify(c) \/ Broadcast(c) \/ Caught(c) \/ SpuriousWakeCaller(c)
        PROVE  FALSE
    BY <1>3 DEF EnqueueNotify, Broadcast, Caught, SpuriousWakeCaller
  <1>4. ASSUME NEW c \in Caller,
               \/ JoinStart(c) \/ JoinSkip(c) \/ JoinBegin(c) \/ JoinEnd(c)
               \/ StopReturn(c) \/ DestroyReturn(c)
        PROVE  FALSE
    BY <1>4 DEF JoinStart, JoinSkip, JoinBegin, JoinEnd, StopReturn, DestroyReturn
  <1>5. ASSUME NEW c \in Caller, JoinNotJoinable(c) \/ JoinTwice(c) PROVE op[c] = "destroy"
    BY <1>5 DEF JoinNotJoinable, JoinTwice, Throw
  <1>6. ASSUME NEW c \in Caller,
               \/ ResizeWait(c) \/ ResizeStop(c) \/ ResizeRearm(c)
               \/ ResizeSpawn(c) \/ ResizeReturn(c)
        PROVE  FALSE
    BY <1>6 DEF ResizeWait, ResizeStop, ResizeRearm, ResizeSpawn, ResizeReturn
  <1>7. ASSUME NEW c \in Caller, ResizeSpawnFails(c) PROVE FALSE
    BY <1>7 DEF ResizeSpawnFails, Throw, RebuildInv, InResize
  <1>8. ASSUME NEW c \in Caller, ResizeClear(c) PROVE FALSE
    <2>1. \A w \in Worker : ~Joinable(w)
      BY <1>8, SizesAssumption DEF ResizeClear, AtLoopEnd, TypeInv, TypeOK, NoOrphan, Worker,
         RebuildInv, JoinedPrefix, Joinable
    <2> QED BY <1>8, <2>1 DEF ResizeClear
  <1> QED
    BY <1>1, <1>2, <1>3, <1>4, <1>5, <1>6, <1>7, <1>8
      DEF ThreadStep, CallStep, JoinStep, ResizeStep

(* resize never destroys a joinable std::thread: if std::terminate is      *)
(* called at all, the destructor is the one that caused it.                *)
THEOREM ResizeNeverAborts == ASSUME OneResizer PROVE Spec => []OnlyDestructorAborts
  <1> DEFINE Inv == TypeInv /\ RebuildInv /\ OnlyDestructorAborts
  <1>1. Init => Inv
    BY TypeInit, RebuildInit DEF Init, OnlyDestructorAborts
  <1>2. ASSUME Inv, [Next]_vars PROVE Inv'
    <2>1. TypeInv' /\ RebuildInv'
      BY <1>2, TypeStep, RebuildStep, NextIsPoolStep DEF TypeInv, TypeOK
    <2>2. CASE UNCHANGED vars
      BY <1>2, <2>1, <2>2 DEF OnlyDestructorAborts, vars
    <2>3. CASE ~aborted /\ ThreadStep
      <3>1. SUFFICES ASSUME aborted' PROVE OnlyDestructorAborts'
        BY <2>1 DEF OnlyDestructorAborts
      <3>2. \E c \in Caller : op[c] = "destroy" /\ (JoinNotJoinable(c) \/ JoinTwice(c))
        BY <1>2, <2>3, <3>1, AbortOrigin
      <3> QED BY <3>2 DEF OnlyDestructorAborts, JoinNotJoinable, JoinTwice, Throw
    <2> QED BY <1>2, <2>2, <2>3, NextIsThreadStep
  <1>3. Inv => OnlyDestructorAborts
    OBVIOUS
  <1> QED BY <1>1, <1>2, <1>3, PTL DEF Spec

-----------------------------------------------------------------------------
(* The destructor.  It runs alone, and a worker that it finds has drained  *)
(* the queue by the time it is joined.                                     *)

Alone ==
    \A c \in Caller : op[c] = "destroy" \/ cpc[c] = "gone" =>
        /\ ~alive
        /\ \A d \in Caller \ {c} : cpc[d] = "idle"

DestroyPrefix ==
    \A c \in Caller : op[c] = "destroy" /\ cpc[c] \in {"join", "joining"} =>
        /\ last[c] = nworkers
        /\ \A w \in Worker : w < idx[c] => wpc[w] = "joined"

DrainInv == DestroyPrefix /\ DestroyedDrained

(* What they need: nobody resizes the pool beside the destructor or after. *)
NoResizeBeside ==
    \A c, d \in Caller : op[c] = "destroy" \/ cpc[c] = "gone" => op[d] # "resize"

LEMMA EndInit == ASSUME Init PROVE Alone /\ DrainInv
  BY SizesAssumption DEF Init, DrainInv, Alone, DestroyPrefix, DestroyedDrained, Worker

(* When the destructor leaves its loop, everything is done. *)
LEMMA EndReturn ==
    ASSUME TypeInv, PlaceInv, RebuildInv, DrainInv, NEW c \in Caller, DestroyReturn(c)
    PROVE  /\ nworkers > 0 => Range(submitted) = finished
           /\ \A w \in Worker : wpc[w] \in {"none", "joined"}
  <1> USE SizesAssumption DEF TypeInv, TypeOK, DestroyReturn, AtLoopEnd
  <1>3. \A w \in Worker : wpc[w] \in {"none", "joined"}
    BY DEF DrainInv, DestroyPrefix, NoOrphan, Worker
  <1>2. SUFFICES ASSUME nworkers > 0 PROVE Range(submitted) = finished
    BY <1>3
  <1>4. wpc[1] = "joined" /\ 1 \in Worker
    BY <1>2, <1>3 DEF NoOrphan, Worker
  <1>5. tasks = << >>
    BY <1>4 DEF RebuildInv, ExitedDrained
  <1>6. submitted = started
    BY <1>5, ConcatEmptySeq DEF PlaceInv
  <1>7. \A w \in Worker : wtask[w] = NoTask
    BY <1>3 DEF Held
  <1>8. \A t \in Task : t \in Range(started) <=> t \in finished
    BY <1>7, TaskAssumption DEF PlaceInv, StartedSplit
  <1>9. Range(started) \subseteq Task
    BY RangeOfSeq
  <1> QED
    BY <1>6, <1>8, <1>9

LEMMA DrainStep ==
    ASSUME TypeInv, PlaceInv, RebuildInv, DrainInv, NoResizeBeside, PoolStep
    PROVE  DrainInv'
  <1>a. InResize /\ ExitedDrained
    BY DEF RebuildInv
  <1> USE <1>a, SizesAssumption DEF TypeInv, TypeOK, InResize, DrainInv, NoResizeBeside,
          DestroyPrefix, DestroyedDrained, poolVars, callVars, histVars
  <1>1. ASSUME NEW w \in Worker, WorkerTake(w)
        PROVE  DrainInv'
    BY <1>1 DEF WorkerTake
  <1>2. ASSUME NEW w \in Worker, WorkerExit(w)
        PROVE  DrainInv'
    BY <1>2 DEF WorkerExit
  <1>3. ASSUME NEW w \in Worker, WorkerBlock(w)
        PROVE  DrainInv'
    BY <1>3 DEF WorkerBlock
  <1>4. ASSUME NEW w \in Worker, WorkerRun(w)
        PROVE  DrainInv'
    <2>1. UNCHANGED <<nworkers, cpc, op, idx, last>> /\ wpc[w] = "run"
      BY <1>4 DEF WorkerRun
    <2>2. \A v \in Worker : v # w => wpc'[v] = wpc[v]
      BY <1>4 DEF WorkerRun
    <2>3. \A c \in Caller : cpc[c] # "gone"
      BY <2>1
    <2>4. DestroyPrefix'
      BY <2>1, <2>2
    <2> QED BY <2>1, <2>3, <2>4
  <1>5. ASSUME NEW w \in Worker, SpuriousWakeWorker(w)
        PROVE  DrainInv'
    BY <1>5 DEF SpuriousWakeWorker
  <1>6. ASSUME NEW c \in Caller, NEW t \in Task, EnqueuePush(c, t)
        PROVE  DrainInv'
    <2>1. \A d \in Caller : cpc[d] = "gone" => nworkers = 0
      <3>1. SUFFICES ASSUME NEW d \in Caller, cpc[d] = "gone", nworkers > 0 PROVE FALSE
        OBVIOUS
      <3>2. 1 \in Worker /\ wpc[1] = "joined"
        BY <3>1 DEF NoOrphan, Worker
      <3> QED BY <3>2, <1>6 DEF EnqueuePush, ExitedDrained
    <2> QED BY <1>6, <2>1 DEF EnqueuePush
  <1>7. ASSUME NEW c \in Caller, EnqueueThrow(c)
        PROVE  DrainInv'
    BY <1>7 DEF EnqueueThrow
  <1>8. ASSUME NEW c \in Caller, NEW n \in Sizes, Resize(c, n)
        PROVE  DrainInv'
    BY <1>8 DEF Resize
  <1>9. ASSUME NEW c \in Caller, Stop(c)
        PROVE  DrainInv'
    BY <1>9 DEF Stop
  <1>10. ASSUME NEW c \in Caller, Destroy(c)
        PROVE  DrainInv'
    BY <1>10 DEF Destroy
  <1>11. ASSUME NEW c \in Caller, EnqueueNotify(c)
        PROVE  DrainInv'
    <2> USE <1>11 DEF EnqueueNotify
    <2>1. CASE UNCHANGED wpc /\ cpc' = [cpc EXCEPT ![c] = "idle"]
      BY <2>1
    <2>2. CASE \E w \in Worker : /\ wpc[w] = "blocked"
                                /\ wpc' = [wpc EXCEPT ![w] = "check"]
                                /\ cpc' = [cpc EXCEPT ![c] = "idle"]
      BY <2>2
    <2>3. CASE \E d \in Caller : /\ cpc[d] = "wait" /\ UNCHANGED wpc
                                /\ cpc' = [cpc EXCEPT ![c] = "idle", ![d] = "lock"]
      BY <2>3
    <2> QED BY <2>1, <2>2, <2>3
  <1>12. ASSUME NEW c \in Caller, Broadcast(c)
        PROVE  DrainInv'
    BY <1>12 DEF Broadcast, WokenWorkers, WokenCallers
  <1>13. ASSUME NEW c \in Caller, JoinStart(c)
        PROVE  DrainInv'
    BY <1>13 DEF JoinStart, Worker
  <1>14. ASSUME NEW c \in Caller, JoinSkip(c)
        PROVE  DrainInv'
    BY <1>14 DEF JoinSkip, AtElement, Worker
  <1>15. ASSUME NEW c \in Caller, JoinNotJoinable(c)
        PROVE  DrainInv'
    BY <1>15 DEF JoinNotJoinable, Throw, AtElement
  <1>16. ASSUME NEW c \in Caller, JoinTwice(c)
        PROVE  DrainInv'
    BY <1>16 DEF JoinTwice, Throw, AtElement
  <1>17. ASSUME NEW c \in Caller, JoinBegin(c)
        PROVE  DrainInv'
    BY <1>17 DEF JoinBegin, AtElement
  <1>18. ASSUME NEW c \in Caller, JoinEnd(c)
        PROVE  DrainInv'
    <2>1. /\ cpc[c] = "joining" /\ cpc' = [cpc EXCEPT ![c] = "join"]
          /\ UNCHANGED <<nworkers, op, last, submitted, finished>>
          /\ idx' = [idx EXCEPT ![c] = idx[c] + 1]
          /\ wpc' = [wpc EXCEPT ![idx[c]] = "joined"]
      BY <1>18 DEF JoinEnd
    <2>2. \A w \in Worker : w < idx[c] + 1 => w < idx[c] \/ w = idx[c]
      BY DEF Worker
    <2>3. DestroyPrefix'
      BY <2>1, <2>2
    <2>4. DestroyedDrained'
      BY <2>1
    <2> QED BY <2>3, <2>4
  <1>19. ASSUME NEW c \in Caller, StopReturn(c)
        PROVE  DrainInv'
    BY <1>19 DEF StopReturn, Return, AtLoopEnd
  <1>20. ASSUME NEW c \in Caller, DestroyReturn(c)
        PROVE  DrainInv'
    <2>1. DestroyPrefix'
      BY <1>20 DEF DestroyReturn, Return
    <2>2. DestroyedDrained'
      BY <1>20, EndReturn DEF DestroyReturn, Return
    <2> QED BY <2>1, <2>2
  <1>21. ASSUME NEW c \in Caller, ResizeWait(c)
        PROVE  DrainInv'
    BY <1>21 DEF ResizeWait
  <1>22. ASSUME NEW c \in Caller, ResizeStop(c)
        PROVE  DrainInv'
    BY <1>22 DEF ResizeStop, WokenWorkers, WokenCallers
  <1>23. ASSUME NEW c \in Caller, ResizeClear(c)
        PROVE  DrainInv'
    BY <1>23 DEF ResizeClear, AtLoopEnd
  <1>24. ASSUME NEW c \in Caller, ResizeRearm(c)
        PROVE  DrainInv'
    BY <1>24 DEF ResizeRearm
  <1>25. ASSUME NEW c \in Caller, ResizeSpawn(c)
        PROVE  DrainInv'
    BY <1>25 DEF ResizeSpawn
  <1>25a. ASSUME NEW c \in Caller, ResizeSpawnFails(c)
        PROVE  DrainInv'
    BY <1>25a DEF ResizeSpawnFails, Throw
  <1>26. ASSUME NEW c \in Caller, ResizeReturn(c)
        PROVE  DrainInv'
    BY <1>26 DEF ResizeReturn, Return
  <1>27. ASSUME NEW c \in Caller, Caught(c)
        PROVE  DrainInv'
    BY <1>27 DEF Caught, Return
  <1>28. ASSUME NEW c \in Caller, SpuriousWakeCaller(c)
        PROVE  DrainInv'
    BY <1>28 DEF SpuriousWakeCaller
  <1>29. CASE Outside
    BY <1>29 DEF Outside
  <1> HIDE DEF DrainInv
  <1> QED
    BY <1>1, <1>2, <1>3, <1>4, <1>5, <1>6, <1>7, <1>8, <1>9, <1>10, <1>11, <1>12, <1>13,
       <1>14, <1>15, <1>16, <1>17, <1>18, <1>19, <1>20, <1>21, <1>22, <1>23, <1>24, <1>25,
       <1>25a, <1>26, <1>27, <1>28, <1>29
      DEF PoolStep, ThreadStep, AnyCall, CallStep, JoinStep, ResizeStep, WorkerStep

(* The destructor starts alone, and nobody joins it.                       *)
LEMMA AloneStep ==
    ASSUME TypeInv, RebuildInv, Alone, [Next]_vars
    PROVE  Alone'
  <1> USE DEF TypeInv, TypeOK, RebuildInv, InResize, Alone, poolVars, callVars, histVars
  <1>1. ASSUME NEW w \in Worker, WorkerStep(w) \/ SpuriousWakeWorker(w) PROVE Alone'
    BY <1>1, ZenonT(40)
      DEF WorkerStep, WorkerTake, WorkerExit, WorkerBlock, WorkerRun, SpuriousWakeWorker
  <1>2. ASSUME NEW c \in Caller, Call(c) PROVE Alone'
    BY <1>2, ZenonT(40) DEF Call, EnqueuePush, EnqueueThrow, Resize, Stop, Destroy
  <1>3. ASSUME NEW c \in Caller, EnqueueNotify(c) PROVE Alone'
    BY <1>3, ZenonT(40) DEF EnqueueNotify
  <1>4. ASSUME NEW c \in Caller, Broadcast(c) PROVE Alone'
    BY <1>4 DEF Broadcast, WokenCallers
  <1>5. ASSUME NEW c \in Caller,
               \/ JoinStart(c) \/ JoinSkip(c) \/ JoinNotJoinable(c) \/ JoinTwice(c)
               \/ JoinBegin(c) \/ JoinEnd(c)
        PROVE  Alone'
    BY <1>5 DEF JoinStart, JoinSkip, JoinNotJoinable, JoinTwice, JoinBegin, JoinEnd, Throw,
                AtElement
  <1>6. ASSUME NEW c \in Caller, StopReturn(c) \/ DestroyReturn(c) PROVE Alone'
    BY <1>6 DEF StopReturn, DestroyReturn, Return, AtLoopEnd
  <1>7. ASSUME NEW c \in Caller, ResizeStep(c) PROVE Alone'
    BY <1>7, ZenonT(40) DEF ResizeStep, ResizeWait, ResizeStop, ResizeClear, ResizeRearm, ResizeSpawn,
                ResizeSpawnFails, ResizeReturn, Return, Throw, AtLoopEnd, WokenCallers
  <1>8. ASSUME NEW c \in Caller, Caught(c) \/ SpuriousWakeCaller(c) PROVE Alone'
    BY <1>8 DEF Caught, SpuriousWakeCaller, Return
  <1>9. CASE UNCHANGED vars
    BY <1>9 DEF vars
  <1> QED
    BY <1>1, <1>2, <1>3, <1>4, <1>5, <1>6, <1>7, <1>8, <1>9
      DEF Next, CallStep, JoinStep, Ended

LEMMA AloneExcludes == ASSUME RebuildInv, Alone PROVE NoResizeBeside
  BY DEF RebuildInv, InResize, Alone, NoResizeBeside

(* The destructor returns only when every thread of the pool has been      *)
(* joined and, unless the pool has no threads, every accepted task has run.*)
THEOREM DestructorDrains == ASSUME OneResizer PROVE Spec => []DestroyedDrained
  <1> DEFINE Inv == TypeInv /\ PlaceInv /\ RebuildInv /\ Alone /\ DrainInv
  <1>1. Init => Inv
    BY TypeInit, PlaceInit, RebuildInit, EndInit
  <1>2. Inv /\ [Next]_vars => Inv'
    BY TypeStep, PlaceStep, RebuildStep, AloneStep, AloneExcludes, DrainStep, NextIsPoolStep
       DEF TypeInv, TypeOK
  <1>3. Inv => DestroyedDrained
    BY DEF DrainInv
  <1> QED BY <1>1, <1>2, <1>3, PTL DEF Spec

-----------------------------------------------------------------------------
(* The pool implements TaskQueue. *)

Active == {wtask[w] : w \in Worker} \ {NoTask}

(* A worker that is not running leaves room for one more task. *)
LEMMA RoomForOne ==
    ASSUME TypeInv, NEW w \in Worker, wtask[w] = NoTask
    PROVE  Cardinality(Active) < MaxThreads
  <1> DEFINE Others == Worker \ {w}
             Image == {wtask[v] : v \in Others}
  <1>1. IsFiniteSet(Worker) /\ Cardinality(Worker) = MaxThreads
    BY FS_Interval, SizesAssumption DEF Worker
  <1>2. IsFiniteSet(Others) /\ Cardinality(Others) = MaxThreads - 1
    BY <1>1, FS_RemoveElement
  <1>3. IsFiniteSet(Image) /\ Cardinality(Image) <= MaxThreads - 1
    <2> DEFINE f == [v \in Others |-> wtask[v]]
    <2>1. f \in Surjection(Others, Image)
      BY DEF Surjection
    <2> HIDE DEF f, Image, Others
    <2> QED BY <1>2, <2>1, FS_Surjection
  <1>4. Active \subseteq Image
    BY DEF Active
  <1>5. Cardinality(Active) <= Cardinality(Image)
    BY <1>3, <1>4, FS_Subset
  <1> QED BY <1>1, <1>3, <1>4, <1>5, FS_Subset, FS_CardinalityType, SizesAssumption

LEMMA QueueInit == TypeInv /\ Init => Queue!Init
  BY DEF Init, Queue!Init

LEMMA PushIsSubmit ==
    ASSUME TypeInv, PlaceInv, NEW c \in Caller, NEW t \in Task, EnqueuePush(c, t)
    PROVE  Queue!Submit(t)
  <1> USE DEF TypeInv, TypeOK, EnqueuePush
  <1>1. Range(submitted) = Range(started) \cup Range(tasks)
    BY RangeConcatenation DEF PlaceInv
  <1>2. t \notin Range(started) /\ t \notin Range(tasks)
    BY <1>1
  <1>3. t \notin Active /\ t \notin finished
    BY <1>2 DEF PlaceInv, StartedSplit, Active
  <1>4. t \notin Queue!Waiting
    BY <1>2 DEF Queue!Waiting, Range
  <1> QED BY <1>3, <1>4 DEF Queue!Submit, Active

LEMMA TakeIsStart ==
    ASSUME TypeInv, PlaceInv, NEW w \in Worker, WorkerTake(w)
    PROVE  Queue!Start
  <1> USE DEF TypeInv, TypeOK, WorkerTake
  <1>1. wtask[w] = NoTask /\ Head(tasks) \in Task
    BY HeadTailProperties DEF Held
  <1>2. Cardinality(Active) < MaxThreads
    BY <1>1, RoomForOne
  <1>3. Active' = Active \cup {Head(tasks)}
    BY <1>1, TaskAssumption DEF Active
  <1>4. tasks # << >> /\ tasks' = Tail(tasks) /\ UNCHANGED finished
    OBVIOUS
  <1> HIDE DEF TypeInv, TypeOK, WorkerTake
  <1>5. \A S : Queue!Cardinality(S) = Cardinality(S)
    BY Zenon DEF Queue!Cardinality, Cardinality
  <1> QED BY <1>2, <1>3, <1>4, <1>5 DEF Queue!Start, Active

LEMMA RunIsFinish ==
    ASSUME TypeInv, PlaceInv, NEW w \in Worker, WorkerRun(w)
    PROVE  wtask[w] \in Task /\ Queue!Finish(wtask[w])
  <1> USE DEF TypeInv, TypeOK, WorkerRun
  <1>1. wtask[w] \in Task /\ wtask[w] \in Active
    BY TaskAssumption DEF Held, Active
  <1>2. \A v \in Worker \ {w} : wtask[v] # wtask[w]
    BY DEF PlaceInv, HeldOnce
  <1>3. Active' = Active \ {wtask[w]}
    BY <1>1, <1>2, TaskAssumption DEF Active
  <1>4. UNCHANGED tasks /\ finished' = finished \cup {wtask[w]}
    OBVIOUS
  <1> HIDE DEF TypeInv, TypeOK, WorkerRun
  <1>5. Queue!Finish(wtask[w])
    BY <1>1, <1>3, <1>4, Zenon DEF Queue!Finish, Active
  <1> QED
    BY <1>1, <1>5

LEMMA QueueStep ==
    ASSUME TypeInv, PlaceInv, PoolStep
    PROVE  [Queue!Next]_(Queue!vars)
  <1> USE DEF poolVars, callVars, histVars
  <1>1. ASSUME NEW w \in Worker, WorkerTake(w)
        PROVE  [Queue!Next]_(Queue!vars)
    BY <1>1, TakeIsStart DEF Queue!Next
  <1>2. ASSUME NEW w \in Worker, WorkerExit(w)
        PROVE  [Queue!Next]_(Queue!vars)
    BY <1>2 DEF WorkerExit, Queue!vars
  <1>3. ASSUME NEW w \in Worker, WorkerBlock(w)
        PROVE  [Queue!Next]_(Queue!vars)
    BY <1>3 DEF WorkerBlock, Queue!vars
  <1>4. ASSUME NEW w \in Worker, WorkerRun(w)
        PROVE  [Queue!Next]_(Queue!vars)
    BY <1>4, RunIsFinish DEF Queue!Next, Queue!Finish
  <1>5. ASSUME NEW w \in Worker, SpuriousWakeWorker(w)
        PROVE  [Queue!Next]_(Queue!vars)
    BY <1>5 DEF SpuriousWakeWorker, Queue!vars
  <1>6. ASSUME NEW c \in Caller, NEW t \in Task, EnqueuePush(c, t)
        PROVE  [Queue!Next]_(Queue!vars)
    BY <1>6, PushIsSubmit DEF Queue!Next
  <1>7. ASSUME NEW c \in Caller, EnqueueThrow(c)
        PROVE  [Queue!Next]_(Queue!vars)
    BY <1>7 DEF EnqueueThrow, Queue!vars
  <1>8. ASSUME NEW c \in Caller, NEW n \in Sizes, Resize(c, n)
        PROVE  [Queue!Next]_(Queue!vars)
    BY <1>8 DEF Resize, Queue!vars
  <1>9. ASSUME NEW c \in Caller, Stop(c)
        PROVE  [Queue!Next]_(Queue!vars)
    BY <1>9 DEF Stop, Queue!vars
  <1>10. ASSUME NEW c \in Caller, Destroy(c)
        PROVE  [Queue!Next]_(Queue!vars)
    BY <1>10 DEF Destroy, Queue!vars
  <1>11. ASSUME NEW c \in Caller, EnqueueNotify(c)
        PROVE  [Queue!Next]_(Queue!vars)
    BY <1>11 DEF EnqueueNotify, Queue!vars
  <1>12. ASSUME NEW c \in Caller, Broadcast(c)
        PROVE  [Queue!Next]_(Queue!vars)
    BY <1>12 DEF Broadcast, WokenWorkers, WokenCallers, Queue!vars
  <1>13. ASSUME NEW c \in Caller, JoinStart(c)
        PROVE  [Queue!Next]_(Queue!vars)
    BY <1>13 DEF JoinStart, Queue!vars
  <1>14. ASSUME NEW c \in Caller, JoinSkip(c)
        PROVE  [Queue!Next]_(Queue!vars)
    BY <1>14 DEF JoinSkip, AtElement, Queue!vars
  <1>15. ASSUME NEW c \in Caller, JoinNotJoinable(c)
        PROVE  [Queue!Next]_(Queue!vars)
    BY <1>15 DEF JoinNotJoinable, Throw, AtElement, Queue!vars
  <1>16. ASSUME NEW c \in Caller, JoinTwice(c)
        PROVE  [Queue!Next]_(Queue!vars)
    BY <1>16 DEF JoinTwice, Throw, AtElement, Queue!vars
  <1>17. ASSUME NEW c \in Caller, JoinBegin(c)
        PROVE  [Queue!Next]_(Queue!vars)
    BY <1>17 DEF JoinBegin, AtElement, Queue!vars
  <1>18. ASSUME NEW c \in Caller, JoinEnd(c)
        PROVE  [Queue!Next]_(Queue!vars)
    BY <1>18 DEF JoinEnd, Queue!vars
  <1>19. ASSUME NEW c \in Caller, StopReturn(c)
        PROVE  [Queue!Next]_(Queue!vars)
    BY <1>19 DEF StopReturn, Return, AtLoopEnd, Queue!vars
  <1>20. ASSUME NEW c \in Caller, DestroyReturn(c)
        PROVE  [Queue!Next]_(Queue!vars)
    BY <1>20 DEF DestroyReturn, Return, AtLoopEnd, Queue!vars
  <1>21. ASSUME NEW c \in Caller, ResizeWait(c)
        PROVE  [Queue!Next]_(Queue!vars)
    BY <1>21 DEF ResizeWait, Queue!vars
  <1>22. ASSUME NEW c \in Caller, ResizeStop(c)
        PROVE  [Queue!Next]_(Queue!vars)
    BY <1>22 DEF ResizeStop, WokenWorkers, WokenCallers, Queue!vars
  <1>23. ASSUME NEW c \in Caller, ResizeClear(c)
        PROVE  [Queue!Next]_(Queue!vars)
    BY <1>23 DEF ResizeClear, AtLoopEnd, Queue!vars
  <1>24. ASSUME NEW c \in Caller, ResizeRearm(c)
        PROVE  [Queue!Next]_(Queue!vars)
    BY <1>24 DEF ResizeRearm, Queue!vars
  <1>25. ASSUME NEW c \in Caller, ResizeSpawn(c)
        PROVE  [Queue!Next]_(Queue!vars)
    BY <1>25 DEF ResizeSpawn, Queue!vars
  <1>25a. ASSUME NEW c \in Caller, ResizeSpawnFails(c)
        PROVE  [Queue!Next]_(Queue!vars)
    BY <1>25a DEF ResizeSpawnFails, Throw, Queue!vars
  <1>26. ASSUME NEW c \in Caller, ResizeReturn(c)
        PROVE  [Queue!Next]_(Queue!vars)
    BY <1>26 DEF ResizeReturn, Return, Queue!vars
  <1>27. ASSUME NEW c \in Caller, Caught(c)
        PROVE  [Queue!Next]_(Queue!vars)
    BY <1>27 DEF Caught, Return, Queue!vars
  <1>28. ASSUME NEW c \in Caller, SpuriousWakeCaller(c)
        PROVE  [Queue!Next]_(Queue!vars)
    BY <1>28 DEF SpuriousWakeCaller, Queue!vars
  <1>29. CASE Outside
    BY <1>29 DEF Outside, Queue!vars
  <1> QED
    BY <1>1, <1>2, <1>3, <1>4, <1>5, <1>6, <1>7, <1>8, <1>9, <1>10, <1>11, <1>12, <1>13,
       <1>14, <1>15, <1>16, <1>17, <1>18, <1>19, <1>20, <1>21, <1>22, <1>23, <1>24, <1>25,
       <1>25a, <1>26, <1>27, <1>28, <1>29
      DEF PoolStep, ThreadStep, AnyCall, CallStep, JoinStep, ResizeStep, WorkerStep

(* The threads, the condition variable, stop, resize and the destructor    *)
(* together behave like the abstract queue of TaskQueue.                   *)
THEOREM PoolImplementsQueue == Spec => ImplementsTaskQueue
  <1>1. Init => TypeInv /\ PlaceInv /\ Queue!Init
    BY TypeInit, PlaceInit, QueueInit
  <1>2. TypeInv /\ PlaceInv /\ [Next]_vars => (TypeInv /\ PlaceInv)'
    BY TypeStep, PlaceStep, NextIsPoolStep DEF TypeInv, TypeOK
  <1>3. TypeInv /\ PlaceInv /\ [Next]_vars => [Queue!Next]_(Queue!vars)
    BY QueueStep, NextIsPoolStep DEF TypeInv, TypeOK
  <1> QED BY <1>1, <1>2, <1>3, PTL DEF Spec, ImplementsTaskQueue, Queue!Spec
=============================================================================
