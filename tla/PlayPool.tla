------------------------------ MODULE PlayPool ------------------------------
(***************************************************************************)
(* The thread pool of the playground programs: thread_pool/thread_pool.cpp,*)
(* thread_pool/thread_pool_priority.cpp, concurrent/base/                  *)
(* thread_pool_withwait.cpp and concurrent/std_async/                      *)
(* thread_pool_async_withwait.cpp have the same class.                     *)
(*                                                                         *)
(* Unlike the pool of ioserver_demo its flag stop_ is an atomic written    *)
(* without the mutex.  A thread can then set it between a worker's test of *)
(* the predicate and the moment the worker is asleep, so the mutex is a    *)
(* variable here and those are two steps.  The programs that use the pool  *)
(* are BatchSum and AsyncSum.                                              *)
(***************************************************************************)
EXTENDS Naturals, Sequences, FiniteSets

CONSTANTS Worker,      \* the threads of the pool
          Task,        \* the closures main enqueues, each once
          NoTask,      \* an empty std::function
          Nobody,      \* the owner of a free mutex
          Priority,    \* [Task -> Nat], as given to enqueue_task
          ByPriority,  \* the queue is a priority_queue and not a deque
          Spurious     \* whether waits may return without a notification

ASSUME PriorityAssumption == Priority \in [Task -> Nat]

VARIABLES tasks,    \* the queue
          task_mtx, \* the worker that holds task_mtx; main holds it only in a step
          stop_,    \* std::atomic<bool> stop_
          wpc,      \* where each worker is in thread_proc
          wtask,    \* the closure it has taken
          missed    \* history: the workers that were about to sleep when the
                    \* last notify_all came

pool == <<tasks, task_mtx, stop_, wpc, wtask, missed>>

(* loop: at the test of the while; lock: before the mutex; test: before    *)
(* the predicate of the wait; sleep: the predicate was false and the       *)
(* thread is about to sleep; blocked: asleep; run: in the closure.         *)
WorkerState == {"loop", "lock", "test", "sleep", "blocked", "run", "exited"}

PoolInit ==
    /\ tasks = << >>
    /\ task_mtx = Nobody
    /\ stop_ = FALSE
    /\ wpc = [w \in Worker |-> "loop"]
    /\ wtask = [w \in Worker |-> NoTask]
    /\ missed = {}

PoolTypeOK ==
    /\ tasks \in Seq(Task)
    /\ task_mtx \in Worker \cup {Nobody}
    /\ stop_ \in BOOLEAN
    /\ wpc \in [Worker -> WorkerState]
    /\ wtask \in [Worker -> Task \cup {NoTask}]
    /\ missed \subseteq Worker

Goto(w, state) == wpc' = [wpc EXCEPT ![w] = state]

LoopTest(w) ==
    /\ wpc[w] = "loop"
    /\ Goto(w, IF stop_ THEN "exited" ELSE "lock")
    /\ UNCHANGED <<tasks, task_mtx, stop_, wtask, missed>>

Lock(w) ==
    /\ wpc[w] = "lock"
    /\ task_mtx = Nobody
    /\ task_mtx' = w
    /\ Goto(w, "test")
    /\ UNCHANGED <<tasks, stop_, wtask, missed>>

TestFails(w) ==
    /\ wpc[w] = "test"
    /\ ~stop_ /\ tasks = << >>
    /\ Goto(w, "sleep")
    /\ UNCHANGED <<tasks, task_mtx, stop_, wtask, missed>>

(* Broken Sleep: the wait keeps the mutex. *)
SleepHolding(w) ==
    /\ wpc[w] = "sleep"
    /\ Goto(w, "blocked")
    /\ UNCHANGED <<tasks, task_mtx, stop_, wtask, missed>>

(* The wait releases the mutex and sleeps in one step. *)
Sleep(w) ==
    /\ wpc[w] = "sleep"
    /\ task_mtx' = Nobody
    /\ Goto(w, "blocked")
    /\ UNCHANGED <<tasks, stop_, wtask, missed>>

Leave(w) ==
    /\ wpc[w] = "test"
    /\ stop_ /\ tasks = << >>
    /\ task_mtx' = Nobody
    /\ Goto(w, "exited")
    /\ UNCHANGED <<tasks, stop_, wtask, missed>>

(* The position that front or top stands for. *)
Frontmost == IF ByPriority
         THEN {i \in DOMAIN tasks :
                 \A j \in DOMAIN tasks : Priority[tasks[j]] <= Priority[tasks[i]]}
         ELSE {1}

(* Broken Pop: the task is not removed from the queue. *)
PopKeeps(w) ==
    /\ wpc[w] = "test" /\ tasks # << >>
    /\ \E i \in Frontmost : wtask' = [wtask EXCEPT ![w] = tasks[i]]
    /\ task_mtx' = Nobody
    /\ Goto(w, "run")
    /\ UNCHANGED <<stop_, tasks, missed>>

Pop(w) ==
    /\ wpc[w] = "test"
    /\ tasks # << >>
    /\ \E i \in Frontmost :
          /\ wtask' = [wtask EXCEPT ![w] = tasks[i]]
          /\ tasks' = SubSeq(tasks, 1, i - 1) \o SubSeq(tasks, i + 1, Len(tasks))
    /\ task_mtx' = Nobody
    /\ Goto(w, "run")
    /\ UNCHANGED <<stop_, missed>>

(* The closure returns; what it did is the user's step. *)
Ran(w) ==
    /\ wpc[w] = "run"
    /\ wtask' = [wtask EXCEPT ![w] = NoTask]
    /\ Goto(w, "loop")
    /\ UNCHANGED <<tasks, task_mtx, stop_, missed>>

SpuriousWake(w) ==
    /\ Spurious
    /\ wpc[w] = "blocked"
    /\ Goto(w, "lock")
    /\ UNCHANGED <<tasks, task_mtx, stop_, wtask, missed>>

InPool(w) ==
    LoopTest(w) \/ Lock(w) \/ TestFails(w) \/ Sleep(w) \/ Leave(w) \/ Pop(w)

-----------------------------------------------------------------------------
(* What main does to the pool. *)

Enqueue(t) ==
    /\ task_mtx = Nobody
    /\ tasks' = Append(tasks, t)
    /\ UNCHANGED <<task_mtx, stop_, wpc, wtask, missed>>

Blocked == {w \in Worker : wpc[w] = "blocked"}

(* Broken NotifyOne: nobody is woken. *)
NotifyOneNone == UNCHANGED pool

NotifyOne ==
    /\ IF Blocked = {} THEN UNCHANGED wpc ELSE \E w \in Blocked : Goto(w, "lock")
    /\ UNCHANGED <<tasks, task_mtx, stop_, wtask, missed>>

(* Broken NotifyAll: it wakes one worker. *)
NotifyAllOne ==
    /\ IF Blocked = {} THEN UNCHANGED wpc ELSE \E w \in Blocked : Goto(w, "lock")
    /\ missed' = {w \in Worker : wpc[w] = "sleep"}
    /\ UNCHANGED <<tasks, task_mtx, stop_, wtask>>

NotifyAll ==
    /\ wpc' = [w \in Worker |-> IF w \in Blocked THEN "lock" ELSE wpc[w]]
    /\ missed' = {w \in Worker : wpc[w] = "sleep"}
    /\ UNCHANGED <<tasks, task_mtx, stop_, wtask>>

SetStop ==
    /\ stop_' = TRUE
    /\ UNCHANGED <<tasks, task_mtx, wpc, wtask, missed>>

Joined == \A w \in Worker : wpc[w] = "exited"

(* A join that never returns: the worker had found nothing to do before    *)
(* stop_ was set, and slept after the notification.                        *)
Stuck == \E w \in Worker : [](w \in missed /\ wpc[w] = "blocked")

-----------------------------------------------------------------------------
(* The mutex is held exactly by a worker between its lock and its sleep,   *)
(* departure or pop.                                                       *)
MutexHeld ==
    \A w \in Worker : task_mtx = w <=> wpc[w] \in {"test", "sleep"}
=============================================================================
