----------------------------- MODULE ThreadPool -----------------------------
(***************************************************************************)
(* utils::ThreadPool of ioserver_demo (include/thread_pool.h and           *)
(* src/common/thread_pool.cpp): worker threads, a FIFO of closures, one    *)
(* mutex, one condition variable shared by the workers and by resize, and  *)
(* the flag stop_.                                                         *)
(*                                                                         *)
(* Granularity.  tasks is only touched with queue_mutex held and nothing   *)
(* blocks inside a critical section except condition.wait, which releases  *)
(* the mutex; so a critical section is one step and the mutex itself is    *)
(* not a variable.  Every notification, join, thread creation and the      *)
(* unlocked write of stop_ in resize is a step of its own.                 *)
(*                                                                         *)
(* A worker is named by its index in the vector workers: the vector is     *)
(* only cleared once all its threads are joined, so an index never stands  *)
(* for two live threads.                                                   *)
(***************************************************************************)
EXTENDS Naturals, Sequences, FiniteSets, Functions

CONSTANTS Caller,       \* the threads that call methods of the pool
          Producers,    \* those that call enqueue
          Resizers,     \* those that call resize
          Stoppers,     \* those that call stop
          Owners,       \* those that may destroy the pool
          Task,         \* the closures; each is submitted at most once
          NoTask,       \* an empty std::function
          MaxThreads,   \* bound on the size of the vector workers
          InitThreads,  \* the constructor's numThreads
          Sizes         \* the values of numThreads that resize is called with

ASSUME CallersAssumption ==
    /\ Producers \subseteq Caller
    /\ Resizers \subseteq Caller
    /\ Stoppers \subseteq Caller
    /\ Owners \subseteq Caller

ASSUME TaskAssumption == NoTask \notin Task

ASSUME SizesAssumption ==
    /\ MaxThreads \in Nat
    /\ InitThreads \in 0 .. MaxThreads
    /\ Sizes \subseteq 0 .. MaxThreads

Worker == 1 .. MaxThreads

VARIABLES tasks,     \* std::queue<std::function<void()>> tasks
          stop_,     \* bool stop_
          nworkers,  \* workers.size()
          wpc,       \* where each worker thread is in its loop
          wtask,     \* the local task of each worker's iteration
          cpc,       \* where each caller is in the method it called
          op,        \* the method whose join loop a caller is in
          arg,       \* the caller's numThreads
          idx,       \* the caller's position in the loop over workers
          last,      \* the end of that loop, read once when it starts
          alive,     \* the destructor has not been entered
          aborted,   \* std::terminate was called
          submitted, \* history: the tasks accepted by enqueue, in order
          started,   \* history: the tasks taken by workers, in order
          finished   \* history: the tasks that returned

poolVars == <<tasks, stop_, nworkers, wpc, wtask, alive, aborted>>
callVars == <<cpc, op, arg, idx, last>>
histVars == <<submitted, started, finished>>
vars == <<tasks, stop_, nworkers, wpc, wtask, cpc, op, arg, idx, last,
          alive, aborted, submitted, started, finished>>

(* none: no such element, or a default-constructed std::thread; check: about *)
(* to lock queue_mutex; blocked: in condition.wait; run: in task(); exited:  *)
(* the function returned; joined: the std::thread is no longer joinable.     *)
WorkerState == {"none", "check", "blocked", "run", "exited", "joined"}

(* idle: not in the pool; notify: in enqueue, lock released; lock: in resize *)
(* before the mutex; wait: in resize's condition.wait; bcast: stop_ is set,  *)
(* notify_all is next; begin, join: before and at the head of a join loop;   *)
(* joining: inside std::thread::join; clear, spawn: the end of resize;       *)
(* threw: an exception left the method; gone: the destructor returned.       *)
CallerState == {"idle", "notify", "lock", "wait", "bcast", "begin", "join",
                "joining", "clear", "spawn", "threw", "gone"}

Method == {"none", "resize", "stop", "destroy"}

Joinable(w) == w \in Worker /\ wpc[w] \notin {"none", "joined"}

Init ==
    /\ tasks = << >>
    /\ stop_ = FALSE
    /\ nworkers = InitThreads
    /\ wpc = [w \in Worker |-> IF w <= InitThreads THEN "check" ELSE "none"]
    /\ wtask = [w \in Worker |-> NoTask]
    /\ cpc = [c \in Caller |-> "idle"]
    /\ op = [c \in Caller |-> "none"]
    /\ arg = [c \in Caller |-> 0]
    /\ idx = [c \in Caller |-> 1]
    /\ last = [c \in Caller |-> 0]
    /\ alive = TRUE
    /\ aborted = FALSE
    /\ submitted = << >>
    /\ started = << >>
    /\ finished = {}

-----------------------------------------------------------------------------
(* The condition variable.  notify_all moves every waiter to the point     *)
(* where it takes the mutex again.                                         *)

(* (Broken variants, here and below, are what the named definition would    *)
(* be with a likely mistake in the code; no action uses them.)             *)

WokenWorkers == [w \in Worker |-> IF wpc[w] = "blocked" THEN "check" ELSE wpc[w]]

WokenCallers(c, next) ==
    [d \in Caller |-> IF d = c THEN next
                      ELSE IF cpc[d] = "wait" THEN "lock" ELSE cpc[d]]

(* C++ lets a wait return without a notification. *)
SpuriousWakeWorker(w) ==
    /\ wpc[w] = "blocked"
    /\ wpc' = [wpc EXCEPT ![w] = "check"]
    /\ UNCHANGED <<tasks, stop_, nworkers, wtask, alive, aborted>>
    /\ UNCHANGED callVars /\ UNCHANGED histVars

SpuriousWakeCaller(c) ==
    /\ cpc[c] = "wait"
    /\ cpc' = [cpc EXCEPT ![c] = "lock"]
    /\ UNCHANGED <<op, arg, idx, last>>
    /\ UNCHANGED poolVars /\ UNCHANGED histVars

-----------------------------------------------------------------------------
(* The worker's loop.  The three steps are the outcomes of one passage     *)
(* through the critical section.                                           *)

(* Broken WorkerTake: tasks.pop() is missing. *)
WorkerTakeNoPop(w) ==
    /\ wpc[w] = "check" /\ tasks # << >>
    /\ wtask' = [wtask EXCEPT ![w] = Head(tasks)]
    /\ wpc' = [wpc EXCEPT ![w] = "run"]
    /\ started' = Append(started, Head(tasks))
    /\ UNCHANGED <<tasks, stop_, nworkers, alive, aborted, submitted, finished>>
    /\ UNCHANGED callVars

(* Broken WorkerTake: the task is taken from the wrong end. *)
WorkerTakeBack(w) ==
    /\ wpc[w] = "check" /\ tasks # << >>
    /\ tasks' = SubSeq(tasks, 1, Len(tasks) - 1)
    /\ wtask' = [wtask EXCEPT ![w] = tasks[Len(tasks)]]
    /\ wpc' = [wpc EXCEPT ![w] = "run"]
    /\ started' = Append(started, tasks[Len(tasks)])
    /\ UNCHANGED <<stop_, nworkers, alive, aborted, submitted, finished>>
    /\ UNCHANGED callVars

WorkerTake(w) ==
    /\ wpc[w] = "check"
    /\ tasks # << >>
    /\ tasks' = Tail(tasks)
    /\ wtask' = [wtask EXCEPT ![w] = Head(tasks)]
    /\ wpc' = [wpc EXCEPT ![w] = "run"]
    /\ started' = Append(started, Head(tasks))
    /\ UNCHANGED <<stop_, nworkers, alive, aborted, submitted, finished>>
    /\ UNCHANGED callVars

(* Broken WorkerExit: the worker leaves on stop_ without draining. *)
WorkerExitEager(w) ==
    /\ wpc[w] = "check" /\ stop_
    /\ wpc' = [wpc EXCEPT ![w] = "exited"]
    /\ UNCHANGED <<tasks, stop_, nworkers, wtask, alive, aborted>>
    /\ UNCHANGED callVars /\ UNCHANGED histVars

WorkerExit(w) ==
    /\ wpc[w] = "check"
    /\ stop_ /\ tasks = << >>
    /\ wpc' = [wpc EXCEPT ![w] = "exited"]
    /\ UNCHANGED <<tasks, stop_, nworkers, wtask, alive, aborted>>
    /\ UNCHANGED callVars /\ UNCHANGED histVars

WorkerBlock(w) ==
    /\ wpc[w] = "check"
    /\ ~stop_ /\ tasks = << >>
    /\ wpc' = [wpc EXCEPT ![w] = "blocked"]
    /\ UNCHANGED <<tasks, stop_, nworkers, wtask, alive, aborted>>
    /\ UNCHANGED callVars /\ UNCHANGED histVars

WorkerRun(w) ==
    /\ wpc[w] = "run"
    /\ wpc' = [wpc EXCEPT ![w] = "check"]
    /\ wtask' = [wtask EXCEPT ![w] = NoTask]
    /\ finished' = finished \cup {wtask[w]}
    /\ UNCHANGED <<tasks, stop_, nworkers, alive, aborted>>
    /\ UNCHANGED <<submitted, started>> /\ UNCHANGED callVars

-----------------------------------------------------------------------------
(* enqueue.  Making the packaged_task and its future changes nothing that  *)
(* another thread can see.                                                 *)

EnqueuePush(c, t) ==
    /\ cpc[c] = "idle"
    /\ ~stop_
    /\ t \notin Range(submitted)
    /\ tasks' = Append(tasks, t)
    /\ submitted' = Append(submitted, t)
    /\ cpc' = [cpc EXCEPT ![c] = "notify"]
    /\ UNCHANGED <<stop_, nworkers, wpc, wtask, alive, aborted>>
    /\ UNCHANGED <<op, arg, idx, last, started, finished>>

EnqueueThrow(c) ==
    /\ cpc[c] = "idle"
    /\ stop_
    /\ cpc' = [cpc EXCEPT ![c] = "threw"]
    /\ UNCHANGED <<op, arg, idx, last>>
    /\ UNCHANGED poolVars /\ UNCHANGED histVars

(* Broken EnqueueNotify: no notification. *)
EnqueueNotifyNone(c) ==
    /\ cpc[c] = "notify"
    /\ cpc' = [cpc EXCEPT ![c] = "idle"]
    /\ UNCHANGED <<op, arg, idx, last>>
    /\ UNCHANGED poolVars /\ UNCHANGED histVars

(* notify_one: some waiter, worker or resizer, goes on; with none it is lost. *)
EnqueueNotify(c) ==
    /\ cpc[c] = "notify"
    /\ \/ /\ \A w \in Worker : wpc[w] # "blocked"
          /\ \A d \in Caller : cpc[d] # "wait"
          /\ cpc' = [cpc EXCEPT ![c] = "idle"]
          /\ UNCHANGED wpc
       \/ \E w \in Worker :
          /\ wpc[w] = "blocked"
          /\ wpc' = [wpc EXCEPT ![w] = "check"]
          /\ cpc' = [cpc EXCEPT ![c] = "idle"]
       \/ \E d \in Caller :
          /\ cpc[d] = "wait"
          /\ cpc' = [cpc EXCEPT ![c] = "idle", ![d] = "lock"]
          /\ UNCHANGED wpc
    /\ UNCHANGED <<tasks, stop_, nworkers, wtask, alive, aborted>>
    /\ UNCHANGED <<op, arg, idx, last>> /\ UNCHANGED histVars

-----------------------------------------------------------------------------
(* resize up to its join loop.  stop_ and notify_all are under the mutex.  *)

Resize(c, n) ==
    /\ cpc[c] = "idle"
    /\ cpc' = [cpc EXCEPT ![c] = "lock"]
    /\ op' = [op EXCEPT ![c] = "resize"]
    /\ arg' = [arg EXCEPT ![c] = n]
    /\ UNCHANGED <<idx, last>>
    /\ UNCHANGED poolVars /\ UNCHANGED histVars

ResizeWait(c) ==
    /\ cpc[c] = "lock"
    /\ tasks # << >>
    /\ cpc' = [cpc EXCEPT ![c] = "wait"]
    /\ UNCHANGED <<op, arg, idx, last>>
    /\ UNCHANGED poolVars /\ UNCHANGED histVars

(* Broken ResizeStop: it notifies nobody. *)
ResizeStopSilent(c) ==
    /\ cpc[c] = "lock" /\ tasks = << >>
    /\ stop_' = TRUE
    /\ cpc' = [cpc EXCEPT ![c] = "begin"]
    /\ UNCHANGED <<tasks, nworkers, wpc, wtask, alive, aborted>>
    /\ UNCHANGED <<op, arg, idx, last>> /\ UNCHANGED histVars

ResizeStop(c) ==
    /\ cpc[c] = "lock"
    /\ tasks = << >>
    /\ stop_' = TRUE
    /\ wpc' = WokenWorkers
    /\ cpc' = WokenCallers(c, "begin")
    /\ UNCHANGED <<tasks, nworkers, wtask, alive, aborted>>
    /\ UNCHANGED <<op, arg, idx, last>> /\ UNCHANGED histVars

(* stop and the destructor up to their join loops. *)

Stop(c) ==
    /\ cpc[c] = "idle"
    /\ stop_' = TRUE
    /\ cpc' = [cpc EXCEPT ![c] = "bcast"]
    /\ op' = [op EXCEPT ![c] = "stop"]
    /\ UNCHANGED <<tasks, nworkers, wpc, wtask, alive, aborted>>
    /\ UNCHANGED <<arg, idx, last>> /\ UNCHANGED histVars

Destroy(c) ==
    /\ cpc[c] = "idle"
    /\ stop_' = TRUE
    /\ alive' = FALSE
    /\ cpc' = [cpc EXCEPT ![c] = "bcast"]
    /\ op' = [op EXCEPT ![c] = "destroy"]
    /\ UNCHANGED <<tasks, nworkers, wpc, wtask, aborted>>
    /\ UNCHANGED <<arg, idx, last>> /\ UNCHANGED histVars

(* Broken Broadcast: notify_one where the code has notify_all. *)
BroadcastOne(c) ==
    /\ cpc[c] = "bcast"
    /\ cpc' = [cpc EXCEPT ![c] = "begin"]
    /\ \/ (\A w \in Worker : wpc[w] # "blocked") /\ UNCHANGED wpc
       \/ \E w \in Worker : wpc[w] = "blocked" /\ wpc' = [wpc EXCEPT ![w] = "check"]
    /\ UNCHANGED <<tasks, stop_, nworkers, wtask, alive, aborted>>
    /\ UNCHANGED <<op, arg, idx, last>> /\ UNCHANGED histVars

Broadcast(c) ==
    /\ cpc[c] = "bcast"
    /\ wpc' = WokenWorkers
    /\ cpc' = WokenCallers(c, "begin")
    /\ UNCHANGED <<tasks, stop_, nworkers, wtask, alive, aborted>>
    /\ UNCHANGED <<op, arg, idx, last>> /\ UNCHANGED histVars

-----------------------------------------------------------------------------
(* The loop "for (std::thread& worker : workers)" of the three methods,    *)
(* outside the mutex.  The range is read once; an element the vector lost  *)
(* since then is read as a default std::thread, since clear keeps the      *)
(* storage: nothing here makes the vector outgrow it.                      *)

JoinStart(c) ==
    /\ cpc[c] = "begin"
    /\ cpc' = [cpc EXCEPT ![c] = "join"]
    /\ idx' = [idx EXCEPT ![c] = 1]
    /\ last' = [last EXCEPT ![c] = nworkers]
    /\ UNCHANGED <<op, arg>>
    /\ UNCHANGED poolVars /\ UNCHANGED histVars

(* Broken AtElement: the loop runs one element too far. *)
AtElementPastEnd(c) == cpc[c] = "join" /\ idx[c] <= last[c] + 1

AtElement(c) == cpc[c] = "join" /\ idx[c] <= last[c]

(* Another thread is inside join on the same std::thread: pthread_join     *)
(* then fails with EINVAL and join throws.                                 *)
JoinContended(c) == \E d \in Caller \ {c} : cpc[d] = "joining" /\ idx[d] = idx[c]

(* An exception that leaves the destructor, which is noexcept, ends the    *)
(* program; the other methods hand it to their caller.                     *)
Throw(c) ==
    /\ aborted' = (op[c] = "destroy")
    /\ cpc' = [cpc EXCEPT ![c] = "threw"]
    /\ UNCHANGED <<tasks, stop_, nworkers, wpc, wtask, alive>>
    /\ UNCHANGED <<op, arg, idx, last>> /\ UNCHANGED histVars

(* Broken JoinSkip: the test of joinable() is missing. *)
JoinSkipAlways(c) ==
    /\ AtElement(c)
    /\ op[c] # "destroy"
    /\ idx' = [idx EXCEPT ![c] = idx[c] + 1]
    /\ UNCHANGED <<cpc, op, arg, last>>
    /\ UNCHANGED poolVars /\ UNCHANGED histVars

JoinSkip(c) ==
    /\ AtElement(c) /\ ~Joinable(idx[c])
    /\ op[c] # "destroy"
    /\ idx' = [idx EXCEPT ![c] = idx[c] + 1]
    /\ UNCHANGED <<cpc, op, arg, last>>
    /\ UNCHANGED poolVars /\ UNCHANGED histVars

(* The destructor does not ask joinable(). *)
JoinNotJoinable(c) ==
    /\ AtElement(c) /\ ~Joinable(idx[c])
    /\ op[c] = "destroy"
    /\ Throw(c)

JoinTwice(c) ==
    /\ AtElement(c) /\ Joinable(idx[c])
    /\ JoinContended(c)
    /\ Throw(c)

JoinBegin(c) ==
    /\ AtElement(c) /\ Joinable(idx[c])
    /\ ~JoinContended(c)
    /\ cpc' = [cpc EXCEPT ![c] = "joining"]
    /\ UNCHANGED <<op, arg, idx, last>>
    /\ UNCHANGED poolVars /\ UNCHANGED histVars

JoinEnd(c) ==
    /\ cpc[c] = "joining"
    /\ wpc[idx[c]] = "exited"
    /\ wpc' = [wpc EXCEPT ![idx[c]] = "joined"]
    /\ cpc' = [cpc EXCEPT ![c] = "join"]
    /\ idx' = [idx EXCEPT ![c] = idx[c] + 1]
    /\ UNCHANGED <<tasks, stop_, nworkers, wtask, alive, aborted>>
    /\ UNCHANGED <<op, arg, last>> /\ UNCHANGED histVars

(* The end of a method: its locals are forgotten. *)
Return(c, state) ==
    /\ cpc' = [cpc EXCEPT ![c] = state]
    /\ op' = [op EXCEPT ![c] = "none"]
    /\ arg' = [arg EXCEPT ![c] = 0]
    /\ idx' = [idx EXCEPT ![c] = 1]
    /\ last' = [last EXCEPT ![c] = 0]

(* Broken AtLoopEnd: the last thread is not joined. *)
AtLoopEndEarly(c) == cpc[c] = "join" /\ idx[c] >= last[c]

AtLoopEnd(c) == cpc[c] = "join" /\ idx[c] > last[c]

StopReturn(c) ==
    /\ AtLoopEnd(c) /\ op[c] = "stop"
    /\ Return(c, "idle")
    /\ UNCHANGED poolVars /\ UNCHANGED histVars

DestroyReturn(c) ==
    /\ AtLoopEnd(c) /\ op[c] = "destroy"
    /\ Return(c, "gone")
    /\ UNCHANGED poolVars /\ UNCHANGED histVars

-----------------------------------------------------------------------------
(* The end of resize: workers.clear(), then stop_ = false without the      *)
(* mutex, then one std::thread after the other.  Destroying a joinable     *)
(* std::thread ends the program.                                           *)

ResizeClear(c) ==
    /\ AtLoopEnd(c) /\ op[c] = "resize"
    /\ IF \E w \in Worker : Joinable(w)
          THEN aborted' = TRUE /\ UNCHANGED <<nworkers, wpc>>
          ELSE /\ nworkers' = 0
               /\ wpc' = [w \in Worker |-> "none"]
               /\ UNCHANGED aborted
    /\ cpc' = [cpc EXCEPT ![c] = "clear"]
    /\ UNCHANGED <<tasks, stop_, wtask, alive>>
    /\ UNCHANGED <<op, arg, idx, last>> /\ UNCHANGED histVars

ResizeRearm(c) ==
    /\ cpc[c] = "clear"
    /\ stop_' = FALSE
    /\ cpc' = [cpc EXCEPT ![c] = "spawn"]
    /\ UNCHANGED <<tasks, nworkers, wpc, wtask, alive, aborted>>
    /\ UNCHANGED <<op, arg, idx, last>> /\ UNCHANGED histVars

ResizeSpawn(c) ==
    /\ cpc[c] = "spawn"
    /\ arg[c] > 0 /\ nworkers < MaxThreads
    /\ nworkers' = nworkers + 1
    /\ wpc' = [wpc EXCEPT ![nworkers + 1] = "check"]
    /\ arg' = [arg EXCEPT ![c] = arg[c] - 1]
    /\ UNCHANGED <<tasks, stop_, wtask, alive, aborted>>
    /\ UNCHANGED <<cpc, op, idx, last>> /\ UNCHANGED histVars

(* Creating a thread fails: std::thread throws std::system_error and       *)
(* resize leaves with the workers it has.                                  *)
ResizeSpawnFails(c) ==
    /\ cpc[c] = "spawn"
    /\ arg[c] > 0
    /\ Throw(c)

ResizeReturn(c) ==
    /\ cpc[c] = "spawn"
    /\ arg[c] = 0
    /\ Return(c, "idle")
    /\ UNCHANGED poolVars /\ UNCHANGED histVars

(* The caller's handler of an exception that left a method. *)
Caught(c) ==
    /\ cpc[c] = "threw"
    /\ Return(c, "idle")
    /\ UNCHANGED poolVars /\ UNCHANGED histVars

-----------------------------------------------------------------------------
(* Who may call what, and when: no method is called once the destructor    *)
(* has started, and the destructor waits for the calls that are under way. *)

Call(c) ==
    /\ alive
    /\ \/ c \in Producers /\ \E t \in Task : EnqueuePush(c, t)
       \/ c \in Producers /\ EnqueueThrow(c)
       \/ c \in Resizers /\ \E n \in Sizes : Resize(c, n)
       \/ c \in Stoppers /\ Stop(c)
       \/ c \in Owners /\ (\A d \in Caller : cpc[d] = "idle") /\ Destroy(c)

(* What a caller does inside a method. *)
JoinStep(c) ==
    \/ JoinStart(c) \/ JoinSkip(c) \/ JoinNotJoinable(c) \/ JoinTwice(c)
    \/ JoinBegin(c) \/ JoinEnd(c) \/ StopReturn(c) \/ DestroyReturn(c)

ResizeStep(c) ==
    \/ ResizeWait(c) \/ ResizeStop(c) \/ ResizeClear(c)
    \/ ResizeRearm(c) \/ ResizeSpawn(c) \/ ResizeSpawnFails(c) \/ ResizeReturn(c)

CallStep(c) ==
    EnqueueNotify(c) \/ Broadcast(c) \/ JoinStep(c) \/ ResizeStep(c) \/ Caught(c)

WorkerStep(w) == WorkerTake(w) \/ WorkerExit(w) \/ WorkerBlock(w) \/ WorkerRun(w)

(* The process is over, or the pool is. *)
Ended ==
    /\ aborted \/ \E c \in Caller : cpc[c] = "gone"
    /\ UNCHANGED vars

Next ==
    \/ ~aborted /\ \E w \in Worker : WorkerStep(w) \/ SpuriousWakeWorker(w)
    \/ ~aborted /\ \E c \in Caller : Call(c) \/ CallStep(c) \/ SpuriousWakeCaller(c)
    \/ Ended

Spec == Init /\ [][Next]_vars

(* Every thread keeps running, mutexes are granted, and a task returns.    *)
(* Nobody has to call a method, and no spurious wakeup has to happen.      *)
Fairness ==
    /\ \A w \in Worker : WF_vars(~aborted /\ WorkerStep(w))
    /\ \A c \in Caller : WF_vars(~aborted /\ CallStep(c))

FairSpec == Spec /\ Fairness

-----------------------------------------------------------------------------
(* Every variable stays in its domain: in particular the loop index of a   *)
(* join loop never leaves the vector, and the three histories stay         *)
(* sequences and sets of tasks.                                            *)
TypeOK ==
    /\ tasks \in Seq(Task) /\ submitted \in Seq(Task) /\ started \in Seq(Task)
    /\ finished \subseteq Task
    /\ stop_ \in BOOLEAN /\ alive \in BOOLEAN /\ aborted \in BOOLEAN
    /\ nworkers \in 0 .. MaxThreads
    /\ wpc \in [Worker -> WorkerState]
    /\ wtask \in [Worker -> Task \cup {NoTask}]
    /\ cpc \in [Caller -> CallerState]
    /\ op \in [Caller -> Method]
    /\ arg \in [Caller -> 0 .. MaxThreads]
    /\ idx \in [Caller -> 1 .. MaxThreads + 1]
    /\ last \in [Caller -> 0 .. MaxThreads]

(* An accepted closure is in exactly one place, in the order of acceptance *)
(* up to its start: in the queue, in one worker's hands, or done.  The     *)
(* claim is about worker threads and enqueue calls that race for the queue *)
(* across stop, resize and the destructor.                                 *)
NothingLostOrRunTwice ==
    /\ submitted = started \o tasks
    /\ \A i, j \in DOMAIN submitted : submitted[i] = submitted[j] => i = j
    /\ \A w \in Worker : wpc[w] = "run" <=> wtask[w] # NoTask
    /\ \A v, w \in Worker : v # w /\ wpc[v] = "run" => wtask[v] # wtask[w]
    /\ \A t \in Task :
          t \in Range(started) <=> t \in finished \/ \E w \in Worker : wtask[w] = t
    /\ \A w \in Worker : wtask[w] \notin finished

(* A worker gives up only when nothing is queued, and nothing is accepted  *)
(* while such a worker has not been cleared away: resize may reset stop_   *)
(* without the mutex because of this.                                      *)
ExitedDrained ==
    \A w \in Worker : wpc[w] \in {"exited", "joined"} => stop_ /\ tasks = << >>

(* The destructor returns only when no thread of the pool is left and, if  *)
(* there were threads at all, every accepted task has run, whatever stop   *)
(* and resize calls came before and however often creating a thread        *)
(* failed.  A pool of no threads drops its tasks.                          *)
DestroyedDrained ==
    \A c \in Caller : cpc[c] = "gone" =>
        /\ nworkers > 0 => Range(submitted) = finished
        /\ \A w \in Worker : wpc[w] \in {"none", "joined"}

(* clear() never destroys a joinable std::thread, so resize never ends the *)
(* program: when its join loop is over, every worker has been joined.      *)
OnlyDestructorAborts ==
    aborted => \E c \in Caller : op[c] = "destroy"

(* Every accepted task runs.  False when a resizer waits on the condition  *)
(* variable and takes a notify_one meant for a worker.                     *)
EveryTaskRuns == \A t \in Task : t \in Range(submitted) ~> t \in finished

(* The pool has no threads and nobody is about to start one: resize was    *)
(* called with 0, or could not start its first thread.                     *)
Unmanned == nworkers = 0 /\ \A c \in Caller : cpc[c] \notin {"clear", "spawn"}

(* An accepted task runs if no resizer comes to wait, the pool is not left *)
(* without threads and the program is not ended in the meantime, whatever  *)
(* stop, resize, the destructor and failures to start a thread do.         *)
TasksRun == \A t \in Task :
    t \in Range(submitted) ~>
        \/ t \in finished \/ aborted
        \/ Unmanned \/ \E c \in Resizers : cpc[c] = "wait"

(* The destructor returns, or aborts on a thread that stop has joined; no  *)
(* worker sleeps through its notify_all.                                   *)
DestroyReturns == (~alive) ~> (aborted \/ \E c \in Caller : cpc[c] = "gone")

(* stop returns unless a resize that overlaps it opens the pool again.     *)
StopReturns == \A c \in Stoppers :
    (op[c] = "stop" /\ stop_) ~> (op[c] = "none" \/ ~stop_)

(* A resize that got past its wait returns or throws, stop or no stop.     *)
ResizeCompletes == \A c \in Resizers :
    (op[c] = "resize" /\ cpc[c] = "begin") ~> (op[c] = "none")

-----------------------------------------------------------------------------
(* The pool implements the task queue it stands for. *)

Queue == INSTANCE TaskQueue WITH
    MaxActive <- MaxThreads,
    pending <- tasks,
    active <- {wtask[w] : w \in Worker} \ {NoTask}

(* Every step of the pool is a step of the abstract queue or none of its   *)
(* business.                                                               *)
ImplementsTaskQueue == Queue!Spec
=============================================================================
