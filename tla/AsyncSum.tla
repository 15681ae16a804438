------------------------------ MODULE AsyncSum ------------------------------
(***************************************************************************)
(* main of concurrent/std_async/thread_pool_async_withwait.cpp: one task   *)
(* per chunk, a future for each, and the sum of what the futures return.   *)
(* enqueue_task throws when the pool is stopped, which main does only      *)
(* after it has all results.                                               *)
(***************************************************************************)
EXTENDS PlayPool

VARIABLES mpc,       \* where main is
          futures,   \* the vector futures, in the order of the calls
          ready,     \* the tasks whose future has its value
          next,      \* the future main asks next
          total      \* total_sum, as the set of chunks added

vars == <<tasks, task_mtx, stop_, wpc, wtask, missed, mpc, futures, ready, next, total>>

Asked == {futures[i] : i \in DOMAIN futures}

MainState == {"fill", "notify", "get", "stop", "stopNotify",
              "dtorStop", "dtorNotify", "join", "end"}

Init ==
    /\ PoolInit
    /\ mpc = "fill" /\ futures = << >> /\ ready = {}
    /\ next = 1 /\ total = {}

Fill(t) ==
    /\ mpc = "fill" /\ t \notin Asked
    /\ ~stop_
    /\ Enqueue(t)
    /\ mpc' = "notify" /\ futures' = Append(futures, t)
    /\ UNCHANGED <<ready, next, total>>

FillNotify ==
    /\ mpc = "notify"
    /\ NotifyOne
    /\ mpc' = IF Asked = Task THEN "get" ELSE "fill"
    /\ UNCHANGED <<futures, ready, next, total>>

(* Broken Get: the future's value is used before it is ready. *)
GetUnready ==
    /\ mpc = "get" /\ next <= Len(futures)
    /\ total' = total \cup ({futures[next]} \cap ready)
    /\ next' = next + 1
    /\ UNCHANGED <<mpc, futures, ready>> /\ UNCHANGED pool

(* future.get() blocks until the packaged_task has run. *)
Get ==
    /\ mpc = "get" /\ next <= Len(futures)
    /\ futures[next] \in ready
    /\ total' = total \cup {futures[next]}
    /\ next' = next + 1
    /\ UNCHANGED <<mpc, futures, ready>> /\ UNCHANGED pool

MainTo(from, to) ==
    /\ mpc = from /\ mpc' = to
    /\ UNCHANGED <<futures, ready, next, total>>

Got == next > Len(futures) /\ MainTo("get", "stop") /\ UNCHANGED pool

StopPool ==
    \/ MainTo("stop", "stopNotify") /\ SetStop
    \/ MainTo("stopNotify", "dtorStop") /\ NotifyAll

DestroyPool ==
    \/ MainTo("dtorStop", "dtorNotify") /\ SetStop
    \/ MainTo("dtorNotify", "join") /\ NotifyAll
    \/ MainTo("join", "end") /\ Joined /\ UNCHANGED pool

MainStep ==
    \/ (\E t \in Task : Fill(t)) \/ FillNotify \/ Get \/ Got
    \/ StopPool \/ DestroyPool

(* The packaged_task stores its value. *)
TaskRun(w) ==
    /\ Ran(w)
    /\ ready' = ready \cup {wtask[w]}
    /\ UNCHANGED <<mpc, futures, next, total>>

WorkerStep(w) ==
    \/ InPool(w) /\ UNCHANGED <<mpc, futures, ready, next, total>>
    \/ TaskRun(w)

Next ==
    \/ MainStep
    \/ \E w \in Worker : WorkerStep(w)
    \/ \E w \in Worker : SpuriousWake(w) /\ UNCHANGED <<mpc, futures, ready, next, total>>
    \/ mpc = "end" /\ UNCHANGED vars

Spec == Init /\ [][Next]_vars

(* Every thread keeps running; the fairness is strong because a thread     *)
(* that waits for a mutex gets it, however often others take it first.     *)
Fairness == SF_vars(MainStep) /\ \A w \in Worker : SF_vars(WorkerStep(w))

FairSpec == Spec /\ Fairness

-----------------------------------------------------------------------------
TypeOK ==
    /\ PoolTypeOK /\ MutexHeld
    /\ mpc \in MainState
    /\ futures \in Seq(Task) /\ ready \subseteq Task /\ total \subseteq Task
    /\ next \in 1 .. Cardinality(Task) + 1

(* The total main prints has every chunk, even when waits return without   *)
(* a notification, and then no worker is running a task.                   *)
PrintsFullSum ==
    mpc \notin {"fill", "notify", "get"} =>
        total = Task /\ \A w \in Worker : wpc[w] # "run"

(* main gets all its results: no task and no notification is lost between  *)
(* enqueue_task and the workers.                                           *)
FuturesReady == (mpc = "get") ~> (mpc = "stop")

(* As in BatchSum: the destructor of the pool returns, unless a worker     *)
(* missed its notification.                                                *)
PoolEnds == (mpc = "join") ~> (mpc = "end" \/ Stuck)
=============================================================================
