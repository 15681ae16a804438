------------------------------ MODULE BatchSum ------------------------------
(***************************************************************************)
(* main of thread_pool.cpp, thread_pool_priority.cpp and                   *)
(* thread_pool_withwait.cpp: it enqueues one task per chunk, waits on the  *)
(* Result for their completion, prints the sum, stops the pool, and        *)
(* returns, which destroys result first and the pool last.                 *)
(*                                                                         *)
(* The sum is the set of the chunks added to it.  result.mtx is only held  *)
(* within a step.                                                          *)
(***************************************************************************)
EXTENDS PlayPool

VARIABLES mpc,       \* where main is
          todo,      \* the chunks not yet enqueued
          done,      \* result.sum and result.task_done_count
          printed,   \* the sum that was printed
          live,      \* result has not been destroyed
          early      \* history: main's wait returned without a notification

vars == <<tasks, task_mtx, stop_, wpc, wtask, missed, mpc, todo, done, printed, live, early>>

MainState == {"fill", "notify", "wait", "waiting", "print", "stop", "stopNotify",
              "dtorResult", "dtorStop", "dtorNotify", "join", "end"}

Init ==
    /\ PoolInit
    /\ mpc = "fill" /\ todo = Task
    /\ done = {} /\ printed = {}
    /\ live = TRUE /\ early = FALSE

Fill(t) ==
    /\ mpc = "fill" /\ t \in todo
    /\ Enqueue(t)
    /\ mpc' = "notify" /\ todo' = todo \ {t}
    /\ UNCHANGED <<done, printed, live, early>>

FillNotify ==
    /\ mpc = "notify"
    /\ NotifyOne
    /\ mpc' = IF todo = {} THEN "wait" ELSE "fill"
    /\ UNCHANGED <<todo, done, printed, live, early>>

(* Main moves on from one point to the next without touching the Result. *)
MainTo(from, to) ==
    /\ mpc = from /\ mpc' = to
    /\ UNCHANGED <<todo, done, printed, live, early>>

(* result.cond.wait(lock) has no predicate: main sleeps whatever was done. *)
Wait == MainTo("wait", "waiting") /\ UNCHANGED pool

SpuriousMain ==
    /\ Spurious
    /\ mpc = "waiting" /\ mpc' = "print"
    /\ early' = TRUE
    /\ UNCHANGED <<todo, done, printed, live>> /\ UNCHANGED pool

PrintSum ==
    /\ mpc = "print"
    /\ printed' = done
    /\ mpc' = "stop"
    /\ UNCHANGED <<todo, done, live, early>> /\ UNCHANGED pool

(* stop(), then the destructors: result, and the pool, which does what     *)
(* stop does and joins.                                                    *)
StopPool ==
    \/ MainTo("stop", "stopNotify") /\ SetStop
    \/ MainTo("stopNotify", "dtorResult") /\ NotifyAll

DestroyResult ==
    /\ mpc = "dtorResult" /\ mpc' = "dtorStop"
    /\ live' = FALSE
    /\ UNCHANGED <<todo, done, printed, early>> /\ UNCHANGED pool

DestroyPool ==
    \/ MainTo("dtorStop", "dtorNotify") /\ SetStop
    \/ MainTo("dtorNotify", "join") /\ NotifyAll
    \/ MainTo("join", "end") /\ Joined /\ UNCHANGED pool

MainStep ==
    \/ (\E t \in Task : Fill(t)) \/ FillNotify \/ Wait \/ PrintSum
    \/ StopPool \/ DestroyResult \/ DestroyPool

(* Broken TaskRun: the last task but one reports the end. *)
TaskRunEarly(w) ==
    /\ Ran(w)
    /\ done' = done \cup {wtask[w]}
    /\ mpc' = IF Cardinality(done') >= Cardinality(Task) - 1 /\ mpc = "waiting"
              THEN "print" ELSE mpc
    /\ UNCHANGED <<todo, printed, live, early>>

(* task_run: the task that completes the count wakes main, if it waits. *)
TaskRun(w) ==
    /\ Ran(w)
    /\ done' = done \cup {wtask[w]}
    /\ mpc' = IF done' = Task /\ mpc = "waiting" THEN "print" ELSE mpc
    /\ UNCHANGED <<todo, printed, live, early>>

WorkerStep(w) ==
    \/ InPool(w) /\ UNCHANGED <<mpc, todo, done, printed, live, early>>
    \/ TaskRun(w)

Next ==
    \/ MainStep
    \/ SpuriousMain
    \/ \E w \in Worker : WorkerStep(w)
    \/ \E w \in Worker : SpuriousWake(w) /\ UNCHANGED <<mpc, todo, done, printed, live, early>>
    \/ mpc = "end" /\ UNCHANGED vars

Spec == Init /\ [][Next]_vars

(* Every thread keeps running; the fairness is strong because a thread     *)
(* that waits for a mutex gets it, however often others take it first.     *)
Fairness == SF_vars(MainStep) /\ \A w \in Worker : SF_vars(WorkerStep(w))

FairSpec == Spec /\ Fairness

-----------------------------------------------------------------------------
(* The domains of the variables, and who holds the mutex. *)
TypeOK ==
    /\ PoolTypeOK /\ MutexHeld
    /\ mpc \in MainState
    /\ todo \subseteq Task /\ done \subseteq Task /\ printed \subseteq Task
    /\ live \in BOOLEAN /\ early \in BOOLEAN

(* Every chunk is in one place: still in main's loop, in the queue, in one *)
(* worker's hands or in the sum.                                           *)
Queued == {tasks[i] : i \in DOMAIN tasks}
Taken == {wtask[w] : w \in Worker} \ {NoTask}
ChunksKept ==
    /\ todo \cup Queued \cup Taken \cup done = Task
    /\ Cardinality(todo) + Len(tasks) + Cardinality({w \in Worker : wpc[w] = "run"})
         + Cardinality(done) = Cardinality(Task)

(* The notification comes with the last chunk: what main prints after it   *)
(* is the sum of all chunks.  (The wait has no predicate: when it returns  *)
(* by itself, main prints what there is.)                                  *)
PrintsFullSum ==
    ~early /\ mpc \notin {"fill", "notify", "wait", "waiting", "print"} => printed = Task

(* No task uses result after main has destroyed it, with the same proviso. *)
ResultOutlivesTasks == ~early /\ ~live => Queued \cup Taken = {}

(* Every chunk is added in the end, whether main ever leaves its wait or   *)
(* not, unless it leaves it by itself: stop leaves tasks in the queue.     *)
ChunksAdded == <>(done = Task \/ early)

(* The destructor of the pool returns, unless a worker sleeps for ever     *)
(* because stop_ is set without the mutex; whatever was left in the queue. *)
PoolEnds == (mpc = "join") ~> (mpc = "end" \/ Stuck)

(* main gets past its wait.  False: the notification is lost when the last *)
(* task ends before main waits.                                            *)
WaitReturns == (mpc = "wait") ~> (mpc = "print")
=============================================================================
