-------------------------- MODULE PlaygroundProofs --------------------------
(***************************************************************************)
(* The programs of the playground, each by itself and as Playground runs   *)
(* it, for any number of workers and tasks and any priorities.             *)
(*                                                                         *)
(* The batch (over either queue) loses no chunk, and unless main's wait,   *)
(* which has no predicate, returns by itself, prints the whole sum and     *)
(* destroys no Result in use; the program with futures prints the whole    *)
(* sum always.  The benchmark client and the key-value tests follow.       *)
(***************************************************************************)
EXTENDS Playground, SequenceTheorems, FiniteSetTheorems, WellFoundedInduction, TLAPS

(* The module BatchSum has its own name for the library's operator. *)
LEMMA BatchCardinality == \A S : Batch!Cardinality(S) = Cardinality(S)
  BY DEF Batch!Cardinality, Cardinality


InQueue(t) == \E i \in DOMAIN tasks : tasks[i] = t
InHand(t) == \E w \in Worker : wtask[w] = t
Running == {w \in Worker : wpc[w] = "run"}

ChunkTypes ==
    /\ tasks \in Seq(Task) /\ wpc \in [Worker -> Batch!WorkerState]
    /\ wtask \in [Worker -> Task \cup {NoTask}]
    /\ todo \subseteq Task /\ done \subseteq Task
    /\ \A w \in Worker : wpc[w] = "run" <=> wtask[w] # NoTask

(* Each task is in one place, and there once. *)
ChunkPlaces ==
    /\ \A i, j \in DOMAIN tasks : tasks[i] = tasks[j] => i = j
    /\ \A v, w \in Worker : wtask[v] = wtask[w] /\ wtask[v] # NoTask => v = w
    /\ \A t \in Task :
          /\ t \in todo \/ InQueue(t) \/ InHand(t) \/ t \in done
          /\ t \in todo => ~InQueue(t) /\ ~InHand(t) /\ t \notin done
          /\ InQueue(t) => ~InHand(t) /\ t \notin done
          /\ InHand(t) => t \notin done

ChunkCount ==
    Cardinality(todo) + Len(tasks) + Cardinality(Running) + Cardinality(done) = Cardinality(Task)

ChunkInv == ChunkTypes /\ ChunkPlaces /\ ChunkCount

LEMMA Finite ==
    ASSUME IsFiniteSet(Task), IsFiniteSet(Worker), ChunkTypes
    PROVE  /\ IsFiniteSet(todo) /\ IsFiniteSet(done) /\ IsFiniteSet(Running)
           /\ Cardinality(todo) \in Nat /\ Cardinality(done) \in Nat
           /\ Cardinality(Running) \in Nat /\ Cardinality(Task) \in Nat /\ Len(tasks) \in Nat
  <1>1. todo \subseteq Task /\ done \subseteq Task /\ Running \subseteq Worker /\ Len(tasks) \in Nat
    BY DEF ChunkTypes, Running
  <1> QED
    BY <1>1, FS_Subset, FS_CardinalityType

LEMMA Removed ==
    ASSUME NEW S, NEW s \in Seq(S), NEW i \in 1..Len(s)
    PROVE  LET t == SubSeq(s, 1, i - 1) \o SubSeq(s, i + 1, Len(s))
           IN  /\ t \in Seq(S) /\ Len(t) = Len(s) - 1
               /\ \A j \in 1..(Len(s) - 1) : t[j] = s[IF j < i THEN j ELSE j + 1]
  <1> DEFINE a == SubSeq(s, 1, i - 1)
             b == SubSeq(s, i + 1, Len(s))
  <1>1. Len(s) \in Nat /\ i \in Nat /\ i >= 1 /\ i <= Len(s)
    OBVIOUS
  <1>2. a \in Seq(S) /\ Len(a) = i - 1 /\ \A j \in 1..(i - 1) : a[j] = s[j]
    <2>1. \A j \in 1..(i - 1) : s[j] \in S
      BY <1>1
    <2> QED
      BY <1>1, <2>1, SubSeqProperties
  <1>3. b \in Seq(S) /\ Len(b) = Len(s) - i /\ \A j \in 1..(Len(s) - i) : b[j] = s[i + j]
    <2>1. \A j \in (i + 1)..Len(s) : s[j] \in S
      BY <1>1
    <2> QED
      BY <1>1, <2>1, SubSeqProperties
  <1> HIDE DEF a, b
  <1>4. /\ a \o b \in Seq(S) /\ Len(a \o b) = Len(s) - 1
        /\ \A j \in 1..(Len(s) - 1) : (a \o b)[j] = IF j <= i - 1 THEN a[j] ELSE b[j - (i - 1)]
    <2>1. /\ a \o b \in Seq(S) /\ Len(a \o b) = Len(a) + Len(b)
          /\ \A j \in 1..(Len(a) + Len(b)) : (a \o b)[j] = IF j <= Len(a) THEN a[j] ELSE b[j - Len(a)]
      BY <1>2, <1>3, ConcatProperties
    <2>2. Len(a) = i - 1 /\ Len(a) + Len(b) = Len(s) - 1
      BY <1>1, <1>2, <1>3
    <2> QED
      BY <2>1, <2>2
  <1>5. ASSUME NEW j \in 1..(Len(s) - 1) PROVE (a \o b)[j] = s[IF j < i THEN j ELSE j + 1]
    <2>1. CASE j < i
      BY <1>1, <1>2, <1>4, <2>1
    <2>2. CASE ~(j < i)
      <3>1. j - (i - 1) \in 1..(Len(s) - i) /\ i + (j - (i - 1)) = j + 1
        BY <1>1, <2>2
      <3> QED
        BY <1>1, <1>3, <1>4, <2>2, <3>1
    <2> QED
      BY <2>1, <2>2
  <1> QED
    BY <1>4, <1>5 DEF a, b

-----------------------------------------------------------------------------
(* The queue, in either program. *)

(* A task that is enqueued is the last one of the queue. *)
LEMMA Enqueued ==
    ASSUME tasks \in Seq(Task), NEW t \in Task, ~InQueue(t), tasks' = Append(tasks, t),
           \A i, j \in DOMAIN tasks : tasks[i] = tasks[j] => i = j
    PROVE  /\ tasks' \in Seq(Task) /\ Len(tasks') = Len(tasks) + 1
           /\ \A i, j \in DOMAIN tasks' : tasks'[i] = tasks'[j] => i = j
           /\ \A u \in Task : InQueue(u)' <=> InQueue(u) \/ u = t
  <1>1. /\ tasks' \in Seq(Task) /\ Len(tasks) \in Nat /\ Len(tasks') = Len(tasks) + 1
        /\ DOMAIN tasks = 1..Len(tasks) /\ DOMAIN tasks' = 1..(Len(tasks) + 1)
        /\ tasks'[Len(tasks) + 1] = t /\ \A i \in 1..Len(tasks) : tasks'[i] = tasks[i]
    BY AppendProperties
  <1>2. \A u \in Task : InQueue(u)' <=> InQueue(u) \/ u = t
    BY <1>1 DEF InQueue
  <1>3. \A i, j \in DOMAIN tasks' : tasks'[i] = tasks'[j] => i = j
    BY <1>1 DEF InQueue
  <1> QED
    BY <1>1, <1>2, <1>3

(* A task taken from the queue, which is at place i, leaves it. *)
LEMMA Popped ==
    ASSUME tasks \in Seq(Task), NEW i \in 1..Len(tasks),
           \A j, k \in DOMAIN tasks : tasks[j] = tasks[k] => j = k
    PROVE  tasks' = SubSeq(tasks, 1, i - 1) \o SubSeq(tasks, i + 1, Len(tasks)) =>
               /\ tasks' \in Seq(Task) /\ Len(tasks') = Len(tasks) - 1
               /\ \A j, k \in DOMAIN tasks' : tasks'[j] = tasks'[k] => j = k
               /\ \A u \in Task : InQueue(u)' <=> InQueue(u) /\ u # tasks[i]
  <1>1. Len(tasks) \in Nat /\ DOMAIN tasks = 1..Len(tasks) /\ Len(tasks) > 0
    OBVIOUS
  <1>2. ASSUME tasks' = SubSeq(tasks, 1, i - 1) \o SubSeq(tasks, i + 1, Len(tasks))
        PROVE  /\ tasks' \in Seq(Task) /\ Len(tasks') = Len(tasks) - 1
               /\ DOMAIN tasks' = 1..(Len(tasks) - 1)
               /\ \A j \in 1..(Len(tasks) - 1) : tasks'[j] = tasks[IF j < i THEN j ELSE j + 1]
    <2> DEFINE rest == SubSeq(tasks, 1, i - 1) \o SubSeq(tasks, i + 1, Len(tasks))
    <2>1. /\ rest \in Seq(Task) /\ Len(rest) = Len(tasks) - 1
          /\ \A j \in 1..(Len(tasks) - 1) : rest[j] = tasks[IF j < i THEN j ELSE j + 1]
      BY Removed
    <2> HIDE DEF rest
    <2>2. tasks' = rest
      BY <1>2 DEF rest
    <2> QED
      BY <2>1, <2>2, <1>1
  <1> SUFFICES ASSUME tasks' \in Seq(Task), Len(tasks') = Len(tasks) - 1,
                      DOMAIN tasks' = 1..(Len(tasks) - 1),
                      \A j \in 1..(Len(tasks) - 1) : tasks'[j] = tasks[IF j < i THEN j ELSE j + 1]
               PROVE  /\ \A j, k \in DOMAIN tasks' : tasks'[j] = tasks'[k] => j = k
                      /\ \A u \in Task : InQueue(u)' <=> InQueue(u) /\ u # tasks[i]
    BY <1>2
  <1>3. ASSUME NEW u \in Task PROVE InQueue(u)' <=> InQueue(u) /\ u # tasks[i]
    <2>1. ASSUME InQueue(u)' PROVE InQueue(u) /\ u # tasks[i]
      <3>1. PICK j \in DOMAIN tasks' : tasks'[j] = u
        BY <2>1 DEF InQueue
      <3>2. PICK k \in 1..Len(tasks) : tasks[k] = u /\ k # i
        BY <1>1, <3>1
      <3> QED
        BY <1>1, <3>2 DEF InQueue
    <2>2. ASSUME InQueue(u), u # tasks[i] PROVE InQueue(u)'
      <3>1. PICK k \in 1..Len(tasks) : tasks[k] = u /\ k # i
        BY <1>1, <2>2 DEF InQueue
      <3>2. CASE k < i
        <4>1. k \in DOMAIN tasks' /\ tasks'[k] = u
          BY <1>1, <3>1, <3>2
        <4> QED
          BY <4>1 DEF InQueue
      <3>3. CASE k > i
        <4>1. k - 1 \in DOMAIN tasks' /\ tasks'[k - 1] = u
          BY <1>1, <3>1, <3>3
        <4> QED
          BY <4>1 DEF InQueue
      <3> QED
        BY <1>1, <3>1, <3>2, <3>3
    <2> QED
      BY <2>1, <2>2
  <1>4. \A j, k \in DOMAIN tasks' : tasks'[j] = tasks'[k] => j = k
    <2> SUFFICES ASSUME NEW j \in DOMAIN tasks', NEW k \in DOMAIN tasks', tasks'[j] = tasks'[k]
                 PROVE  j = k
      OBVIOUS
    <2> DEFINE pos(n) == IF n < i THEN n ELSE n + 1
    <2>1. pos(j) \in DOMAIN tasks /\ pos(k) \in DOMAIN tasks /\ tasks[pos(j)] = tasks[pos(k)]
      BY <1>1
    <2>2. pos(j) = pos(k)
      BY <2>1
    <2> QED
      BY <1>1, <2>2
  <1> QED
    BY <1>3, <1>4

-----------------------------------------------------------------------------
(* The steps that move a chunk. *)

LEMMA ChunksStay ==
    ASSUME ChunkInv, UNCHANGED <<tasks, wtask, todo, done>>, wpc' \in [Worker -> Batch!WorkerState],
           \A w \in Worker : wpc'[w] = "run" <=> wpc[w] = "run"
    PROVE  ChunkInv'
  <1>1. Running' = Running
    BY DEF Running
  <1> QED
    BY <1>1 DEF ChunkInv, ChunkTypes, ChunkPlaces, ChunkCount, InQueue, InHand

LEMMA FillKeeps ==
    ASSUME IsFiniteSet(Task), IsFiniteSet(Worker), ChunkInv, NEW t \in Task, Batch!Fill(t)
    PROVE  ChunkInv'
  <1>1. /\ t \in todo /\ tasks' = Append(tasks, t) /\ todo' = todo \ {t}
        /\ UNCHANGED <<wpc, wtask, done>>
    BY DEF Batch!Fill, Batch!Enqueue
  <1>2. ~InQueue(t) /\ ~InHand(t) /\ t \notin done
    BY <1>1 DEF ChunkInv, ChunkPlaces
  <1>3. /\ tasks' \in Seq(Task) /\ Len(tasks') = Len(tasks) + 1
        /\ \A i, j \in DOMAIN tasks' : tasks'[i] = tasks'[j] => i = j
        /\ \A u \in Task : InQueue(u)' <=> InQueue(u) \/ u = t
    BY <1>1, <1>2, Enqueued DEF ChunkInv, ChunkTypes, ChunkPlaces
  <1>4. \A u \in Task : InHand(u)' <=> InHand(u)
    BY <1>1 DEF InHand
  <1>5. ChunkPlaces'
    BY <1>1, <1>2, <1>3, <1>4 DEF ChunkInv, ChunkPlaces
  <1>6. Cardinality(todo') = Cardinality(todo) - 1
    BY <1>1, Finite, FS_RemoveElement DEF ChunkInv
  <1>7. Running' = Running
    BY <1>1 DEF Running
  <1>8. ChunkCount'
    BY <1>1, <1>3, <1>6, <1>7, Finite DEF ChunkInv, ChunkCount
  <1> QED
    BY <1>1, <1>3, <1>5, <1>8 DEF ChunkInv, ChunkTypes

LEMMA PopKeepsChunks ==
    ASSUME IsFiniteSet(Task), IsFiniteSet(Worker), NoTask \notin Task, ChunkInv,
           NEW w \in Worker, Batch!Pop(w), UNCHANGED <<todo, done>>
    PROVE  ChunkInv'
  <1>1. Len(tasks) \in Nat /\ DOMAIN tasks = 1..Len(tasks) /\ Len(tasks) > 0 /\ tasks \in Seq(Task)
    BY DEF Batch!Pop, ChunkInv, ChunkTypes
  <1>2. PICK i \in Batch!Frontmost :
            /\ wtask' = [wtask EXCEPT ![w] = tasks[i]]
            /\ tasks' = SubSeq(tasks, 1, i - 1) \o SubSeq(tasks, i + 1, Len(tasks))
    BY DEF Batch!Pop
  <1>3. i \in 1..Len(tasks)
    BY <1>1 DEF Batch!Frontmost
  <1>4. /\ tasks' \in Seq(Task) /\ Len(tasks') = Len(tasks) - 1
        /\ \A j, k \in DOMAIN tasks' : tasks'[j] = tasks'[k] => j = k
        /\ \A u \in Task : InQueue(u)' <=> InQueue(u) /\ u # tasks[i]
    BY <1>1, <1>2, <1>3, Popped DEF ChunkInv, ChunkPlaces
  <1>5. wpc[w] = "test" /\ wpc' = [wpc EXCEPT ![w] = "run"] /\ wtask[w] = NoTask
    BY DEF Batch!Pop, Batch!Goto, ChunkInv, ChunkTypes
  <1>6. tasks[i] \in Task /\ InQueue(tasks[i]) /\ ~InHand(tasks[i])
    BY <1>1, <1>3 DEF ChunkInv, ChunkTypes, ChunkPlaces, InQueue
  <1>7. \A u \in Task : InHand(u)' <=> InHand(u) \/ u = tasks[i]
    BY <1>2, <1>5, <1>6 DEF InHand, ChunkInv, ChunkTypes
  <1>8. \A u, v \in Worker : wtask'[u] = wtask'[v] /\ wtask'[u] # NoTask => u = v
    BY <1>2, <1>6 DEF ChunkInv, ChunkPlaces, ChunkTypes, InHand
  <1>9. ChunkPlaces'
    BY <1>4, <1>6, <1>7, <1>8 DEF ChunkInv, ChunkPlaces
  <1>10. Running' = Running \cup {w} /\ w \notin Running
    BY <1>5 DEF Running, ChunkInv, ChunkTypes
  <1>11. Cardinality(Running') = Cardinality(Running) + 1
    BY <1>10, Finite, FS_AddElement DEF ChunkInv
  <1>12. ChunkCount'
    BY <1>4, <1>11, Finite DEF ChunkInv, ChunkCount
  <1>13. ChunkTypes'
    BY <1>2, <1>4, <1>5, <1>6 DEF ChunkInv, ChunkTypes, Batch!WorkerState
  <1> QED
    BY <1>9, <1>12, <1>13 DEF ChunkInv

LEMMA TaskRunKeeps ==
    ASSUME IsFiniteSet(Task), IsFiniteSet(Worker), NoTask \notin Task, ChunkInv,
           NEW w \in Worker, Batch!TaskRun(w)
    PROVE  ChunkInv'
  <1>1. /\ wpc[w] = "run" /\ wtask' = [wtask EXCEPT ![w] = NoTask] /\ wpc' = [wpc EXCEPT ![w] = "loop"]
        /\ done' = done \cup {wtask[w]} /\ UNCHANGED <<tasks, todo>>
    BY DEF Batch!TaskRun, Batch!Ran, Batch!Goto
  <1>2. wtask[w] \in Task /\ InHand(wtask[w]) /\ wtask[w] \notin done
    BY <1>1 DEF ChunkInv, ChunkTypes, ChunkPlaces, InHand
  <1>3. \A u \in Task : InQueue(u)' <=> InQueue(u)
    BY <1>1 DEF InQueue
  <1>4. \A u \in Task : InHand(u)' <=> InHand(u) /\ u # wtask[w]
    BY <1>1, <1>2 DEF InHand, ChunkInv, ChunkTypes, ChunkPlaces
  <1>5. \A u, v \in Worker : wtask'[u] = wtask'[v] /\ wtask'[u] # NoTask => u = v
    BY <1>1 DEF ChunkInv, ChunkPlaces, ChunkTypes
  <1>6. ChunkPlaces'
    BY <1>1, <1>2, <1>3, <1>4, <1>5 DEF ChunkInv, ChunkPlaces
  <1>7. Running' = Running \ {w} /\ w \in Running
    BY <1>1 DEF Running, ChunkInv, ChunkTypes
  <1>8. Cardinality(Running') = Cardinality(Running) - 1
    BY <1>7, Finite, FS_RemoveElement DEF ChunkInv
  <1>9. Cardinality(done') = Cardinality(done) + 1
    BY <1>1, <1>2, Finite, FS_AddElement DEF ChunkInv
  <1>10. ChunkCount'
    BY <1>1, <1>8, <1>9, Finite DEF ChunkInv, ChunkCount
  <1>11. ChunkTypes'
    BY <1>1, <1>2 DEF ChunkInv, ChunkTypes, Batch!WorkerState
  <1> QED
    BY <1>6, <1>10, <1>11 DEF ChunkInv

-----------------------------------------------------------------------------
(* main.  Past the loop nothing is left to enqueue; past the wait, unless  *)
(* it returned by itself, all is done.                                     *)
BatchMain ==
    /\ mpc \notin {"fill", "notify"} => todo = {}
    /\ ~early /\ mpc \notin {"fill", "notify", "wait", "waiting"} => done = Task
    /\ Batch!PrintsFullSum
    /\ ~live => mpc \in {"dtorStop", "dtorNotify", "join", "end"}

LEMMA BatchStep ==
    ASSUME IsFiniteSet(Task), IsFiniteSet(Worker), NoTask \notin Task, ChunkInv, BatchMain, [Batch!Next]_(Batch!vars)
    PROVE  ChunkInv' /\ BatchMain'
  <1>1. ASSUME NEW t \in Task, Batch!Fill(t) PROVE ChunkInv' /\ BatchMain'
    BY <1>1, FillKeeps DEF Batch!Fill, BatchMain, Batch!PrintsFullSum
  <1>2. ASSUME Batch!NotifyOne \/ Batch!NotifyAll PROVE ChunkInv' \/ ~UNCHANGED <<todo, done>>
    <2>1. CASE Batch!NotifyOne
      BY <2>1, ChunksStay DEF Batch!NotifyOne, Batch!Blocked, Batch!Goto, ChunkInv, ChunkTypes,
         Batch!WorkerState
    <2>2. CASE Batch!NotifyAll
      BY <2>2, ChunksStay DEF Batch!NotifyAll, Batch!Blocked, ChunkInv, ChunkTypes,
         Batch!WorkerState
    <2> QED
      BY <1>2, <2>1, <2>2
  <1>3. ASSUME UNCHANGED Batch!pool \/ Batch!SetStop PROVE ChunkInv' \/ ~UNCHANGED <<todo, done>>
    BY <1>3, ChunksStay DEF Batch!pool, Batch!SetStop, ChunkInv, ChunkTypes
  <1>4. CASE Batch!FillNotify
    <2>1. BatchMain'
      BY <1>4 DEF Batch!FillNotify, BatchMain, Batch!PrintsFullSum
    <2> QED
      BY <1>2, <1>4, <2>1 DEF Batch!FillNotify
  <1>5. CASE Batch!Wait \/ Batch!PrintSum \/ Batch!StopPool \/ Batch!DestroyResult \/ Batch!DestroyPool \/ Batch!SpuriousMain
    <2>1. UNCHANGED <<todo, done>> /\ (UNCHANGED Batch!pool \/ Batch!SetStop \/ Batch!NotifyAll)
      BY <1>5 DEF Batch!Wait, Batch!PrintSum, Batch!StopPool, Batch!DestroyResult,
         Batch!DestroyPool, Batch!SpuriousMain, Batch!MainTo
    <2>2. BatchMain'
      BY <1>5 DEF Batch!Wait, Batch!PrintSum, Batch!StopPool, Batch!DestroyResult,
         Batch!DestroyPool, Batch!SpuriousMain, Batch!MainTo,
                  BatchMain, Batch!PrintsFullSum
    <2> QED
      BY <1>2, <1>3, <2>1, <2>2
  <1>6. ASSUME NEW w \in Worker, Batch!InPool(w) \/ Batch!SpuriousWake(w),
               UNCHANGED <<mpc, todo, done, sum, live, early>>
        PROVE  ChunkInv' /\ BatchMain'
    <2>1. BatchMain'
      BY <1>6 DEF BatchMain, Batch!PrintsFullSum
    <2>2. CASE Batch!Pop(w)
      BY <1>6, <2>1, <2>2, PopKeepsChunks
    <2>3. CASE Batch!LoopTest(w) \/ Batch!Lock(w) \/ Batch!TestFails(w) \/ Batch!Sleep(w) \/ Batch!Leave(w) \/ Batch!SpuriousWake(w)
      <3>1. /\ UNCHANGED <<tasks, wtask>> /\ wpc[w] # "run"
            /\ \E l \in Batch!WorkerState \ {"run"} : wpc' = [wpc EXCEPT ![w] = l]
        BY <2>3 DEF Batch!LoopTest, Batch!Lock, Batch!TestFails, Batch!Sleep, Batch!Leave,
           Batch!SpuriousWake, Batch!Goto, Batch!WorkerState
      <3> QED
        BY <1>6, <2>1, <3>1, ChunksStay DEF ChunkInv, ChunkTypes
    <2> QED
      BY <1>6, <2>2, <2>3 DEF Batch!InPool
  <1>7. ASSUME NEW w \in Worker, Batch!TaskRun(w) PROVE ChunkInv' /\ BatchMain'
    <2>1. ChunkInv'
      BY <1>7, TaskRunKeeps
    <2>2. done \subseteq done' /\ done' \subseteq Task
      BY <1>7, <2>1 DEF Batch!TaskRun, ChunkInv, ChunkTypes
    <2>3. /\ mpc' = IF done' = Task /\ mpc = "waiting" THEN "print" ELSE mpc
          /\ UNCHANGED <<todo, sum, live, early>>
      BY <1>7 DEF Batch!TaskRun
    <2> QED
      BY <2>1, <2>2, <2>3 DEF BatchMain, Batch!PrintsFullSum
  <1>8. CASE UNCHANGED Batch!vars
    BY <1>8, ChunksStay DEF Batch!vars, BatchMain, Batch!PrintsFullSum, ChunkInv, ChunkTypes
  <1> QED
    BY <1>1, <1>4, <1>5, <1>6, <1>7, <1>8 DEF Batch!Next, Batch!MainStep, Batch!WorkerStep

LEMMA BatchInit ==
    ASSUME IsFiniteSet(Task), IsFiniteSet(Worker), NoTask \notin Task, Batch!Init
    PROVE  ChunkInv /\ BatchMain
  <1>1. /\ tasks = << >> /\ wpc = [w \in Worker |-> "loop"] /\ wtask = [w \in Worker |-> NoTask]
        /\ todo = Task /\ done = {}
    BY DEF Batch!Init, Batch!PoolInit
  <1>2. Running = {} /\ ChunkTypes
    BY <1>1, EmptySeq DEF Running, ChunkTypes, Batch!WorkerState
  <1>3. ChunkPlaces
    BY <1>1 DEF ChunkPlaces, InQueue, InHand
  <1>4. ChunkCount
    BY <1>1, <1>2, FS_EmptySet, Finite DEF ChunkCount
  <1> QED
    BY <1>2, <1>3, <1>4 DEF Batch!Init, ChunkInv, BatchMain, Batch!PrintsFullSum

(* A step of the playground is a step of the program that runs. *)
LEMMA PoolStep ==
    ASSUME [PlayNext]_playVars
    PROVE  /\ program' = program
           /\ program = "batch" => [Batch!Next]_(Batch!vars)
           /\ program = "async" => [Async!Next]_(Async!vars)
  <1>1. CASE InBatch(Batch!Next)
    BY <1>1 DEF InBatch
  <1>2. CASE InAsync(Async!Next)
    BY <1>2 DEF InAsync
  <1>3. CASE InFraming(Next) \/ InMove(Move!Next) \/ InClient(Client!Next)
    BY <1>3 DEF InFraming, InMove, InClient
  <1>4. CASE UNCHANGED playVars
    BY <1>4 DEF playVars, pool, batchVars, asyncVars, Batch!vars, Async!vars
  <1> QED
    BY <1>1, <1>2, <1>3, <1>4 DEF PlayNext

LEMMA BatchHolds ==
    ASSUME IsFiniteSet(Task), IsFiniteSet(Worker), NoTask \notin Task
    PROVE  /\ Batch!Spec => [](ChunkInv /\ BatchMain)
           /\ PlaySpec => [](program = "batch" => ChunkInv /\ BatchMain)
  <1> DEFINE Inv == program = "batch" => ChunkInv /\ BatchMain
  <1>1. Batch!Init => ChunkInv /\ BatchMain
    BY BatchInit
  <1>2. ChunkInv /\ BatchMain /\ [Batch!Next]_(Batch!vars) => (ChunkInv /\ BatchMain)'
    BY BatchStep
  <1>3. PlayInit => Inv
    BY <1>1 DEF PlayInit
  <1>4. Inv /\ [PlayNext]_playVars => Inv'
    BY <1>2, PoolStep
  <1>5. Batch!Spec => [](ChunkInv /\ BatchMain)
    BY <1>1, <1>2, PTL DEF Batch!Spec
  <1>6. PlaySpec => []Inv
    BY <1>3, <1>4, PTL DEF PlaySpec
  <1> QED
    BY <1>5, <1>6

(* Every chunk is in one place, and counted there once, from main's loop   *)
(* to the sum (Pool::enqueue_task, thread_proc and task_run).              *)
THEOREM ChunksAreKept ==
    ASSUME IsFiniteSet(Task), IsFiniteSet(Worker), NoTask \notin Task
    PROVE  (Batch!Spec => []Batch!ChunksKept) /\ (PlaySpec => []ChunksKept)
  <1>1. ChunkInv => Batch!ChunksKept
    <2> SUFFICES ASSUME ChunkInv PROVE Batch!ChunksKept
      OBVIOUS
    <2>1. todo \cup Batch!Queued \cup Batch!Taken \cup done \subseteq Task
      BY DEF ChunkInv, ChunkTypes, Batch!Queued, Batch!Taken
    <2>2. Task \subseteq todo \cup Batch!Queued \cup Batch!Taken \cup done
      BY DEF ChunkInv, ChunkPlaces, Batch!Queued, Batch!Taken, InQueue, InHand
    <2> QED
      BY <2>1, <2>2, BatchCardinality DEF Batch!ChunksKept, ChunkInv, ChunkCount, Running
  <1>2. (program = "batch" => ChunkInv /\ BatchMain) => ChunksKept
    BY <1>1 DEF ChunksKept
  <1> QED
    BY <1>1, <1>2, BatchHolds, PTL

(* With the same proviso as for its sum, no task uses the Result after it  *)
(* was destroyed: main gets past its wait only when all tasks are done.    *)
THEOREM ResultIsAlive ==
    ASSUME IsFiniteSet(Task), IsFiniteSet(Worker), NoTask \notin Task
    PROVE  (Batch!Spec => []Batch!ResultOutlivesTasks) /\ (PlaySpec => []ResultOutlivesTasks)
  <1>1. ChunkInv /\ BatchMain => Batch!ResultOutlivesTasks
    <2> SUFFICES ASSUME ChunkInv, BatchMain, ~early, ~live PROVE Batch!Queued \cup Batch!Taken = {}
      BY DEF Batch!ResultOutlivesTasks
    <2>1. done = Task
      BY DEF BatchMain
    <2>2. \A t \in Task : ~InQueue(t) /\ ~InHand(t)
      BY <2>1 DEF ChunkInv, ChunkPlaces
    <2> QED
      BY <2>2 DEF Batch!Queued, Batch!Taken, InQueue, InHand, ChunkInv, ChunkTypes
  <1>2. (program = "batch" => ChunkInv /\ BatchMain) => ResultOutlivesTasks
    BY <1>1 DEF ResultOutlivesTasks
  <1> QED
    BY <1>1, <1>2, BatchHolds, PTL

-----------------------------------------------------------------------------
(* AsyncSum.  A task is in the queue, in hand or ready, and only one of    *)
(* them, after its future is in the vector.                                *)
FutureTypes ==
    /\ tasks \in Seq(Task) /\ wpc \in [Worker -> Async!WorkerState]
    /\ wtask \in [Worker -> Task \cup {NoTask}]
    /\ futures \in Seq(Task) /\ ready \subseteq Task /\ next \in Nat
    /\ \A w \in Worker : wpc[w] = "run" <=> wtask[w] # NoTask

FuturePlaces ==
    /\ \A i, j \in DOMAIN tasks : tasks[i] = tasks[j] => i = j
    /\ \A v, w \in Worker : wtask[v] = wtask[w] /\ wtask[v] # NoTask => v = w
    /\ \A t \in Task :
          /\ InQueue(t) => ~InHand(t) /\ t \notin ready /\ t \in Async!Asked
          /\ InHand(t) => t \notin ready /\ t \in Async!Asked

(* main has added the values of the futures it asked, each of them ready.  *)
SumSoFar ==
    /\ 1 <= next /\ next <= Len(futures) + 1
    /\ total = {futures[i] : i \in 1..(next - 1)} /\ total \subseteq ready
    /\ ready \subseteq Async!Asked
    /\ mpc \notin {"fill", "notify"} => Async!Asked = Task
    /\ mpc \notin {"fill", "notify", "get"} => next = Len(futures) + 1

FutureInv == FutureTypes /\ FuturePlaces /\ SumSoFar

LEMMA FuturesStay ==
    ASSUME FutureInv, UNCHANGED <<tasks, wtask, futures, ready>>,
           wpc' \in [Worker -> Async!WorkerState], next' \in Nat,
           \A w \in Worker : wpc'[w] = "run" <=> wpc[w] = "run"
    PROVE  FutureTypes' /\ FuturePlaces'
  BY DEF FutureInv, FutureTypes, FuturePlaces, InQueue, InHand, Async!Asked

LEMMA FutureAsked ==
    ASSUME FutureInv, NEW t \in Task, Async!Fill(t)
    PROVE  FutureInv'
  <1>1. /\ mpc = "fill" /\ mpc' = "notify" /\ t \notin Async!Asked /\ tasks' = Append(tasks, t)
        /\ futures' = Append(futures, t) /\ UNCHANGED <<wpc, wtask, ready, next, total>>
    BY DEF Async!Fill, Async!Enqueue
  <1>2. /\ futures' \in Seq(Task) /\ Len(futures) \in Nat /\ Len(futures') = Len(futures) + 1
        /\ DOMAIN futures = 1..Len(futures) /\ DOMAIN futures' = 1..(Len(futures) + 1)
        /\ futures'[Len(futures) + 1] = t /\ \A i \in 1..Len(futures) : futures'[i] = futures[i]
    BY <1>1, AppendProperties DEF FutureInv, FutureTypes
  <1>3. Async!Asked' = Async!Asked \cup {t}
    BY <1>2 DEF Async!Asked
  <1>4. ~InQueue(t) /\ ~InHand(t) /\ t \notin ready
    BY <1>1 DEF FutureInv, FuturePlaces, SumSoFar
  <1>5. /\ tasks' \in Seq(Task) /\ \A i, j \in DOMAIN tasks' : tasks'[i] = tasks'[j] => i = j
        /\ \A u \in Task : InQueue(u)' <=> InQueue(u) \/ u = t
    BY <1>1, <1>4, Enqueued DEF FutureInv, FutureTypes, FuturePlaces
  <1>6. \A u \in Task : InHand(u)' <=> InHand(u)
    BY <1>1 DEF InHand
  <1>7. FuturePlaces'
    BY <1>1, <1>3, <1>4, <1>5, <1>6 DEF FutureInv, FuturePlaces
  <1>8. {futures'[i] : i \in 1..(next - 1)} = {futures[i] : i \in 1..(next - 1)}
    <2>1. \A i \in 1..(next - 1) : futures'[i] = futures[i]
      BY <1>2 DEF FutureInv, FutureTypes, SumSoFar
    <2> QED
      BY <2>1
  <1>9. SumSoFar'
    BY <1>1, <1>2, <1>3, <1>8 DEF FutureInv, FutureTypes, SumSoFar
  <1> QED
    BY <1>1, <1>2, <1>5, <1>7, <1>9 DEF FutureInv, FutureTypes

LEMMA FuturePopped ==
    ASSUME NoTask \notin Task, FutureInv, NEW w \in Worker, Async!Pop(w),
           UNCHANGED <<mpc, futures, ready, next, total>>
    PROVE  FutureInv'
  <1>1. Len(tasks) \in Nat /\ DOMAIN tasks = 1..Len(tasks) /\ Len(tasks) > 0 /\ tasks \in Seq(Task)
    BY SMTT(30) DEF Async!Pop, FutureInv, FutureTypes
  <1>2. PICK i \in Async!Frontmost :
            /\ wtask' = [wtask EXCEPT ![w] = tasks[i]]
            /\ tasks' = SubSeq(tasks, 1, i - 1) \o SubSeq(tasks, i + 1, Len(tasks))
    BY DEF Async!Pop
  <1>3. i \in 1..Len(tasks)
    BY <1>1 DEF Async!Frontmost
  <1>4. /\ tasks' \in Seq(Task)
        /\ \A j, k \in DOMAIN tasks' : tasks'[j] = tasks'[k] => j = k
        /\ \A u \in Task : InQueue(u)' <=> InQueue(u) /\ u # tasks[i]
    BY <1>1, <1>2, <1>3, Popped DEF FutureInv, FuturePlaces
  <1>5. wpc[w] = "test" /\ wpc' = [wpc EXCEPT ![w] = "run"] /\ wtask[w] = NoTask
    BY DEF Async!Pop, Async!Goto, FutureInv, FutureTypes
  <1>6. tasks[i] \in Task /\ InQueue(tasks[i]) /\ ~InHand(tasks[i])
    BY <1>1, <1>3 DEF FutureInv, FuturePlaces, InQueue
  <1>7. \A u \in Task : InHand(u)' <=> InHand(u) \/ u = tasks[i]
    BY <1>2, <1>5, <1>6 DEF InHand, FutureInv, FutureTypes
  <1>8. \A u, v \in Worker : wtask'[u] = wtask'[v] /\ wtask'[u] # NoTask => u = v
    BY <1>2, <1>6 DEF FutureInv, FuturePlaces, FutureTypes, InHand
  <1>9. Async!Asked' = Async!Asked
    BY DEF Async!Asked
  <1>10. FuturePlaces'
    BY <1>4, <1>6, <1>7, <1>8, <1>9 DEF FutureInv, FuturePlaces
  <1>11. FutureTypes'
    BY <1>2, <1>4, <1>5, <1>6 DEF FutureInv, FutureTypes, Async!WorkerState
  <1>12. SumSoFar'
    BY <1>9 DEF FutureInv, SumSoFar
  <1> QED
    BY <1>10, <1>11, <1>12 DEF FutureInv

LEMMA FutureRan ==
    ASSUME NoTask \notin Task, FutureInv, NEW w \in Worker, Async!TaskRun(w)
    PROVE  FutureInv'
  <1>1. /\ wpc[w] = "run" /\ wtask' = [wtask EXCEPT ![w] = NoTask] /\ wpc' = [wpc EXCEPT ![w] = "loop"]
        /\ ready' = ready \cup {wtask[w]} /\ UNCHANGED <<tasks, mpc, futures, next, total>>
    BY DEF Async!TaskRun, Async!Ran, Async!Goto
  <1>2. wtask[w] \in Task /\ InHand(wtask[w]) /\ wtask[w] \in Async!Asked
    BY <1>1 DEF FutureInv, FutureTypes, FuturePlaces, InHand
  <1>3. \A u \in Task : InQueue(u)' <=> InQueue(u)
    BY <1>1 DEF InQueue
  <1>4. \A u \in Task : InHand(u)' <=> InHand(u) /\ u # wtask[w]
    BY <1>1, <1>2 DEF InHand, FutureInv, FutureTypes, FuturePlaces
  <1>5. \A u, v \in Worker : wtask'[u] = wtask'[v] /\ wtask'[u] # NoTask => u = v
    BY <1>1 DEF FutureInv, FuturePlaces, FutureTypes
  <1>6. Async!Asked' = Async!Asked
    BY <1>1 DEF Async!Asked
  <1>7. FuturePlaces'
    BY <1>1, <1>2, <1>3, <1>4, <1>5, <1>6 DEF FutureInv, FuturePlaces
  <1>8. FutureTypes'
    BY <1>1, <1>2 DEF FutureInv, FutureTypes, Async!WorkerState
  <1>9. SumSoFar'
    BY <1>1, <1>2, <1>6 DEF FutureInv, SumSoFar
  <1> QED
    BY <1>7, <1>8, <1>9 DEF FutureInv

LEMMA AsyncStep ==
    ASSUME NoTask \notin Task, FutureInv, [Async!Next]_(Async!vars)
    PROVE  FutureInv'
  <1>1. ASSUME NEW t \in Task, Async!Fill(t) PROVE FutureInv'
    BY <1>1, FutureAsked
  <1>2. ASSUME UNCHANGED <<tasks, wtask, futures, ready>>, next' \in Nat,
               Async!NotifyOne \/ Async!NotifyAll \/ Async!SetStop \/ UNCHANGED Async!pool
        PROVE  FutureTypes' /\ FuturePlaces'
    <2>1. CASE Async!NotifyOne
      BY <1>2, <2>1, FuturesStay
         DEF Async!NotifyOne, Async!Blocked, Async!Goto, FutureInv, FutureTypes, Async!WorkerState
    <2>2. CASE Async!NotifyAll
      BY <1>2, <2>2, FuturesStay
         DEF Async!NotifyAll, Async!Blocked, FutureInv, FutureTypes, Async!WorkerState
    <2>3. CASE Async!SetStop \/ UNCHANGED Async!pool
      BY <1>2, <2>3, FuturesStay DEF Async!SetStop, Async!pool, FutureInv, FutureTypes
    <2> QED
      BY <1>2, <2>1, <2>2, <2>3
  <1>3. CASE Async!FillNotify
    <2>1. /\ Async!NotifyOne /\ mpc = "notify" /\ UNCHANGED <<tasks, wtask, futures, ready, next, total>>
          /\ mpc' = IF Async!Asked = Task THEN "get" ELSE "fill"
      BY <1>3 DEF Async!FillNotify, Async!NotifyOne
    <2>2. SumSoFar'
      BY <2>1 DEF FutureInv, SumSoFar, Async!Asked
    <2> QED
      BY <1>2, <2>1, <2>2 DEF FutureInv, FutureTypes
  <1>4. CASE Async!Get
    <2>1. /\ mpc = "get" /\ next <= Len(futures) /\ futures[next] \in ready
          /\ total' = total \cup {futures[next]} /\ next' = next + 1
          /\ UNCHANGED <<mpc, futures, ready>> /\ UNCHANGED Async!pool
      BY <1>4 DEF Async!Get
    <2>2. next \in Nat /\ next >= 1 /\ next' \in Nat /\ Len(futures) \in Nat
      BY <2>1 DEF FutureInv, FutureTypes, SumSoFar
    <2>3. 1..(next' - 1) = 1..(next - 1) \cup {next}
      BY <2>1, <2>2
    <2>4. total' = {futures[i] : i \in 1..(next' - 1)}
      BY <2>1, <2>3 DEF FutureInv, SumSoFar
    <2>5. SumSoFar'
      BY <2>1, <2>2, <2>4 DEF FutureInv, SumSoFar, Async!Asked
    <2>6. UNCHANGED <<tasks, wtask, futures, ready>>
      BY <2>1 DEF Async!pool
    <2> QED
      BY <1>2, <2>1, <2>2, <2>5, <2>6 DEF FutureInv
  <1>5. CASE Async!Got \/ Async!StopPool \/ Async!DestroyPool
    <2>1. /\ UNCHANGED <<tasks, wtask, futures, ready, next, total>>
          /\ Async!NotifyAll \/ Async!SetStop \/ UNCHANGED Async!pool
          /\ mpc \notin {"fill", "notify"}
          /\ mpc = "get" => next > Len(futures)
      BY <1>5 DEF Async!Got, Async!StopPool, Async!DestroyPool, Async!MainTo, Async!SetStop,
                  Async!NotifyAll, Async!pool
    <2>2. SumSoFar'
      BY <2>1 DEF FutureInv, FutureTypes, SumSoFar, Async!Asked
    <2> QED
      BY <1>2, <2>1, <2>2 DEF FutureInv, FutureTypes
  <1>6. ASSUME NEW w \in Worker, Async!InPool(w) \/ Async!SpuriousWake(w),
               UNCHANGED <<mpc, futures, ready, next, total>>
        PROVE  FutureInv'
    <2>1. CASE Async!Pop(w)
      BY <1>6, <2>1, FuturePopped
    <2>2. CASE Async!LoopTest(w) \/ Async!Lock(w) \/ Async!TestFails(w) \/ Async!Sleep(w)
               \/ Async!Leave(w) \/ Async!SpuriousWake(w)
      <3>1. /\ UNCHANGED <<tasks, wtask>> /\ wpc[w] # "run"
            /\ \E l \in Async!WorkerState \ {"run"} : wpc' = [wpc EXCEPT ![w] = l]
        BY <2>2 DEF Async!LoopTest, Async!Lock, Async!TestFails, Async!Sleep, Async!Leave,
                    Async!SpuriousWake, Async!Goto, Async!WorkerState
      <3>2. wpc' \in [Worker -> Async!WorkerState] /\ \A v \in Worker : wpc'[v] = "run" <=> wpc[v] = "run"
        BY <3>1 DEF FutureInv, FutureTypes
      <3>3. FutureTypes' /\ FuturePlaces'
        BY <1>6, <3>1, <3>2, FuturesStay DEF FutureInv, FutureTypes
      <3>4. SumSoFar'
        BY <1>6 DEF FutureInv, SumSoFar, Async!Asked
      <3> QED
        BY <3>3, <3>4 DEF FutureInv
    <2> QED
      BY <1>6, <2>1, <2>2 DEF Async!InPool
  <1>7. ASSUME NEW w \in Worker, Async!TaskRun(w) PROVE FutureInv'
    BY <1>7, FutureRan
  <1>8. CASE UNCHANGED Async!vars
    BY <1>8 DEF Async!vars, FutureInv, FutureTypes, FuturePlaces, SumSoFar, InQueue, InHand,
       Async!Asked
  <1> QED
    BY <1>1, <1>3, <1>4, <1>5, <1>6, <1>7, <1>8 DEF Async!Next, Async!MainStep, Async!WorkerStep

(* A future is ready only when its task has run, so main has what all the  *)
(* tasks returned when it leaves the loop, and no task runs after that.    *)
LEMMA SumIsFull ==
    ASSUME FutureInv
    PROVE  Async!PrintsFullSum
  <1> SUFFICES ASSUME mpc \notin {"fill", "notify", "get"}
               PROVE  total = Task /\ \A w \in Worker : wpc[w] # "run"
    BY DEF Async!PrintsFullSum
  <1>1. total = Async!Asked /\ Async!Asked = Task
    BY DEF FutureInv, FutureTypes, SumSoFar, Async!Asked
  <1>2. \A t \in Task : ~InHand(t)
    BY <1>1 DEF FutureInv, FuturePlaces, SumSoFar
  <1> QED
    BY <1>1, <1>2 DEF InHand, FutureInv, FutureTypes

LEMMA AsyncHolds ==
    ASSUME NoTask \notin Task
    PROVE  /\ Async!Spec => []FutureInv
           /\ PlaySpec => [](program = "async" => FutureInv)
  <1> DEFINE Inv == program = "async" => FutureInv
  <1>1. Async!Init => FutureInv
    BY EmptySeq DEF Async!Init, Async!PoolInit, FutureInv, FutureTypes, FuturePlaces, SumSoFar,
                    InQueue, InHand, Async!Asked, Async!WorkerState
  <1>2. FutureInv /\ [Async!Next]_(Async!vars) => FutureInv'
    BY AsyncStep
  <1>3. PlayInit => Inv
    BY <1>1 DEF PlayInit
  <1>4. Inv /\ [PlayNext]_playVars => Inv'
    BY <1>2, PoolStep
  <1>5. Async!Spec => []FutureInv
    BY <1>1, <1>2, PTL DEF Async!Spec
  <1>6. PlaySpec => []Inv
    BY <1>3, <1>4, PTL DEF PlaySpec
  <1> QED
    BY <1>5, <1>6

(* What the programs print is the sum of all chunks: the batch unless its  *)
(* wait returned by itself (main and task_run), the program with futures   *)
(* always (main, enqueue_task and the packaged_task of each).              *)
THEOREM FullSumIsPrinted ==
    ASSUME IsFiniteSet(Task), IsFiniteSet(Worker), NoTask \notin Task
    PROVE  /\ Batch!Spec => []Batch!PrintsFullSum
           /\ Async!Spec => []Async!PrintsFullSum
           /\ PlaySpec => []PrintsFullSum
  <1>1. BatchMain => Batch!PrintsFullSum
    BY DEF BatchMain
  <1>2. FutureInv => Async!PrintsFullSum
    BY SumIsFull
  <1>3. (program = "batch" => ChunkInv /\ BatchMain) /\ (program = "async" => FutureInv) => PrintsFullSum
    BY <1>1, <1>2 DEF PrintsFullSum
  <1> QED
    BY <1>1, <1>2, <1>3, BatchHolds, AsyncHolds, PTL

-----------------------------------------------------------------------------
(* A step of the playground is a step of the program that runs. *)
LEMMA ProgramStep ==
    ASSUME [PlayNext]_playVars
    PROVE  /\ program' = program
           /\ IF program = "framing" THEN [Next]_vars ELSE UNCHANGED vars
           /\ program = "move" => [Move!Next]_(Move!vars)
           /\ program = "client" => [Client!Next]_(Client!vars)
  <1>1. CASE InFraming(Next)
    BY <1>1 DEF InFraming
  <1>2. CASE InMove(Move!Next)
    BY <1>2 DEF InMove, framingVars
  <1>3. CASE InClient(Client!Next)
    BY <1>3 DEF InClient, framingVars
  <1>4. CASE InBatch(Batch!Next) \/ InAsync(Async!Next)
    BY <1>4 DEF InBatch, InAsync, framingVars
  <1>5. CASE UNCHANGED playVars
    BY <1>5 DEF playVars, framingVars, moveVars, clientVars, Move!vars, Client!vars,
                Client!threadVars, Client!counts, Client!serverVars
  <1> QED
    BY <1>1, <1>2, <1>3, <1>4, <1>5 DEF PlayNext

-----------------------------------------------------------------------------
(* BenchmarkClient *)
Labels == {"new", "loop", "connect", "send", "recv", "parse", "count", "failed", "exited"}

SocketInv ==
    /\ bpc \in [Thread -> Labels] /\ socks \in [Thread -> Nat]
    /\ Client!SocketsClosed

(* An action of thread t changes nothing of the others. *)
LEMMA SocketStep == SocketInv /\ [Client!Next]_(Client!vars) => SocketInv'
  <1> SUFFICES ASSUME SocketInv, [Client!Next]_(Client!vars) PROVE SocketInv'
    OBVIOUS
  <1> USE DEF SocketInv, Labels, Client!SocketsClosed
  <1>1. ASSUME NEW t \in Thread, Client!StartThread(t) PROVE SocketInv'
    BY <1>1 DEF Client!StartThread, Client!Goto
  <1>2. CASE Client!StartThreadFails \/ Client!JoinAll
    BY <1>2 DEF Client!StartThreadFails, Client!JoinAll, Client!threadVars
  <1>3. ASSUME NEW t \in Thread, Client!ThreadStep(t) PROVE SocketInv'
    <2>1. CASE Client!LoopEnds(t) \/ Client!CountSuccess(t) \/ Client!CountError(t) \/ Client!ParseAnswer(t)
      BY <2>1 DEF Client!LoopEnds, Client!CountSuccess, Client!CountError, Client!ParseAnswer,
         Client!At, Client!Goto
    <2>2. CASE Client!CreateSocket(t)
      BY <2>2 DEF Client!CreateSocket, Client!At, Client!Goto
    <2>3. CASE Client!Connect(t)
      BY <2>3 DEF Client!Connect, Client!At, Client!Goto
    <2>4. CASE Client!SendSome(t) \/ Client!RecvSome(t)
      BY <2>4 DEF Client!SendSome, Client!RecvSome, Client!At, Client!Goto
    <2>5. CASE Client!ConnectGivesUp(t)
      BY <2>5 DEF Client!ConnectGivesUp, Client!CloseSocket, Client!At, Client!Goto
    <2>6. CASE Client!SendFails(t)
      BY <2>6 DEF Client!SendFails, Client!CloseSocket, Client!At, Client!Goto
    <2>7. CASE Client!RecvEnds(t)
      BY <2>7 DEF Client!RecvEnds, Client!CloseSocket, Client!At, Client!Goto
    <2>8. CASE Client!RecvFails(t)
      BY <2>8 DEF Client!RecvFails, Client!CloseSocket, Client!At, Client!Goto
    <2> QED
      BY <1>3, <2>1, <2>2, <2>3, <2>4, <2>5, <2>6, <2>7, <2>8 DEF Client!ThreadStep
  <1>4. ASSUME NEW t \in Thread, Client!ServerStep(t) PROVE SocketInv'
    BY <1>4 DEF Client!ServerStep, Client!Answer, Client!AnswerArrives, Client!ServerCloses,
       Client!threadVars
  <1>5. CASE UNCHANGED Client!vars
    BY <1>5 DEF Client!vars, Client!threadVars
  <1> QED
    BY <1>1, <1>2, <1>3, <1>4, <1>5 DEF Client!Next, Client!RunStep

(* No path through sendRequest leaves its socket open or closes it twice.  *)
THEOREM EverySocketIsClosed ==
    (Client!Spec => []Client!SocketsClosed) /\ (PlaySpec => []SocketsClosed)
  <1> DEFINE Inv == program = "client" => SocketInv
  <1>1. Client!Init => SocketInv
    BY DEF Client!Init, SocketInv, Client!SocketsClosed, Labels
  <1>2. SocketInv => Client!SocketsClosed
    BY DEF SocketInv
  <1>3. PlayInit => Inv
    BY <1>1 DEF PlayInit
  <1>4. Inv /\ [PlayNext]_playVars => Inv'
    BY SocketStep, ProgramStep
  <1>5. Inv => SocketsClosed
    BY <1>2 DEF SocketsClosed
  <1>6. Client!Spec => []Client!SocketsClosed
    BY <1>1, <1>2, SocketStep, PTL DEF Client!Spec
  <1> HIDE DEF Inv
  <1>7. PlaySpec => []SocketsClosed
    BY <1>3, <1>4, <1>5, PTL DEF PlaySpec
  <1> QED
    BY <1>6, <1>7

-----------------------------------------------------------------------------
(* The requests that have been counted. *)
Counted == {p \in Thread \X (1..Requests) : p[2] <= req[p[1]]}

(* A thread that is inside a request has not counted it, one that has      *)
(* exited has counted all, and so has every thread when run is done.       *)
CountInv ==
    /\ bpc \in [Thread -> Labels] /\ req \in [Thread -> 0..Requests]
    /\ success_count_ \in Nat /\ error_count_ \in Nat /\ latencies = success_count_
    /\ \A t \in Thread : bpc[t] \in Labels \ {"new", "loop", "exited"} => req[t] < Requests
    /\ \A t \in Thread : bpc[t] = "exited" => req[t] = Requests
    /\ rpc = "done" => \A t \in Thread : bpc[t] = "exited"
    /\ Cardinality(Counted) = success_count_ + error_count_

(* The module BenchmarkClient has its own name for the library's operator. *)
LEMMA ClientCardinality == \A S : Client!Cardinality(S) = Cardinality(S)
  BY DEF Client!Cardinality, Cardinality

LEMMA AllRequests ==
    ASSUME IsFiniteSet(Thread), Requests \in Nat
    PROVE  /\ IsFiniteSet(Thread \X (1..Requests))
           /\ Cardinality(Thread \X (1..Requests)) = Cardinality(Thread) * Requests
  <1>1. IsFiniteSet(1..Requests) /\ Cardinality(1..Requests) = Requests
    BY FS_Interval
  <1> QED
    BY <1>1, FS_Product

LEMMA OneMoreCounted ==
    ASSUME IsFiniteSet(Thread), Requests \in Nat, CountInv, NEW t \in Thread, req[t] < Requests,
           req' = [req EXCEPT ![t] = @ + 1]
    PROVE  Cardinality(Counted') = Cardinality(Counted) + 1
  <1>1. req \in [Thread -> Nat]
    BY DEF CountInv
  <1>2. <<t, req[t] + 1>> \in Thread \X (1..Requests) /\ <<t, req[t] + 1>> \notin Counted
    BY <1>1 DEF Counted
  <1>3. Counted' = Counted \cup {<<t, req[t] + 1>>}
    <2>1. \A u \in Thread, k \in 1..Requests :
             k <= req'[u] <=> k <= req[u] \/ (u = t /\ k = req[t] + 1)
      BY <1>1
    <2> QED
      BY <1>2, <2>1 DEF Counted
  <1>4. IsFiniteSet(Counted)
    BY AllRequests, FS_Subset DEF Counted
  <1> QED
    BY <1>2, <1>3, <1>4, FS_AddElement

LEMMA CountStep ==
    ASSUME IsFiniteSet(Thread), Requests \in Nat
    PROVE  CountInv /\ [Client!Next]_(Client!vars) => CountInv'
  <1> SUFFICES ASSUME CountInv, [Client!Next]_(Client!vars) PROVE CountInv'
    OBVIOUS
  <1>1. ASSUME NEW t \in Thread, Client!CountSuccess(t) PROVE CountInv'
    <2>1. req[t] < Requests /\ rpc # "done" /\ rpc' = rpc
      BY <1>1 DEF Client!CountSuccess, Client!At, Client!Running, CountInv, Labels
    <2>2. Cardinality(Counted') = Cardinality(Counted) + 1
      BY <1>1, <2>1, OneMoreCounted DEF Client!CountSuccess
    <2> QED
      BY <1>1, <2>1, <2>2 DEF Client!CountSuccess, Client!Goto, CountInv, Labels
  <1>2. ASSUME NEW t \in Thread, Client!CountError(t) PROVE CountInv'
    <2>1. req[t] < Requests /\ rpc # "done" /\ rpc' = rpc
      BY <1>2 DEF Client!CountError, Client!At, Client!Running, CountInv, Labels
    <2>2. Cardinality(Counted') = Cardinality(Counted) + 1
      BY <1>2, <2>1, OneMoreCounted DEF Client!CountError
    <2> QED
      BY <1>2, <2>1, <2>2 DEF Client!CountError, Client!Goto, CountInv, Labels
  <1>3. ASSUME UNCHANGED <<req, Client!counts>>, UNCHANGED bpc, rpc' = "done" => rpc = "done" PROVE CountInv'
    BY <1>3 DEF CountInv, Counted, Client!counts
  <1>4. CASE Client!JoinAll
    BY <1>4 DEF Client!JoinAll, CountInv, Counted, Client!counts, Client!threadVars
  <1>5. ASSUME NEW t \in Thread, UNCHANGED <<req, Client!counts>>, rpc # "done", rpc' # "done",
               bpc[t] # "exited",
               \E l \in Labels : /\ bpc' = [bpc EXCEPT ![t] = l]
                                 /\ l \in {"new", "loop"} \/ (l = "exited" /\ req[t] = Requests)
                                                          \/ (l # "exited" /\ req[t] < Requests)
        PROVE  CountInv'
    BY <1>5 DEF CountInv, Counted, Client!counts, Labels
  <1>6. ASSUME NEW t \in Thread, Client!StartThread(t) PROVE CountInv'
    BY <1>5, <1>6 DEF Client!StartThread, Client!Goto, Labels, Client!counts
  <1>7. ASSUME NEW t \in Thread, Client!ThreadStep(t) PROVE CountInv'
    <2>1. CASE Client!LoopEnds(t) \/ Client!CreateSocket(t)
      BY <1>5, <2>1 DEF Client!LoopEnds, Client!CreateSocket, Client!At, Client!Running,
         Client!Goto, Labels, CountInv
    <2>2. CASE Client!Connect(t) \/ Client!RecvSome(t)
      BY <1>3, <1>5, <2>2 DEF Client!Connect, Client!RecvSome, Client!At, Client!Running,
         Client!Goto, Labels, CountInv
    <2>3. CASE Client!SendSome(t)
      BY <1>5, <2>3 DEF Client!SendSome, Client!At, Client!Running, Client!Goto, Labels, CountInv
    <2>4. CASE Client!ConnectGivesUp(t) \/ Client!SendFails(t) \/ Client!RecvEnds(t) \/ Client!RecvFails(t) \/ Client!ParseAnswer(t)
      BY <1>5, <2>4 DEF Client!ConnectGivesUp, Client!SendFails, Client!RecvEnds,
         Client!RecvFails, Client!ParseAnswer,
                        Client!At, Client!Running, Client!Goto, Labels, CountInv
    <2> QED
      BY <1>1, <1>2, <1>7, <2>1, <2>2, <2>3, <2>4 DEF Client!ThreadStep
  <1>8. ASSUME NEW t \in Thread, Client!ServerStep(t) PROVE CountInv'
    BY <1>3, <1>8 DEF Client!ServerStep, Client!Answer, Client!AnswerArrives,
       Client!ServerCloses, Client!threadVars
  <1>9. CASE Client!StartThreadFails \/ UNCHANGED Client!vars
    BY <1>3, <1>9 DEF Client!StartThreadFails, Client!vars, Client!threadVars
  <1> QED
    BY <1>4, <1>6, <1>7, <1>8, <1>9 DEF Client!Next, Client!RunStep

(* The printed result accounts for every request, and its average is over  *)
(* the latencies of the requests it counts as successes (run).             *)
THEOREM EveryRequestCounts ==
    ASSUME IsFiniteSet(Thread), Requests \in Nat
    PROVE  (Client!Spec => []Client!ResultCounts) /\ (PlaySpec => []ResultCounts)
  <1> DEFINE Inv == program = "client" => CountInv
  <1>1. Client!Init => CountInv
    <2> SUFFICES ASSUME Client!Init PROVE CountInv
      OBVIOUS
    <2>1. Counted = {}
      BY DEF Client!Init, Counted
    <2> QED
      BY <2>1, FS_EmptySet DEF Client!Init, CountInv, Labels
  <1>2. CountInv => Client!ResultCounts
    <2> SUFFICES ASSUME CountInv, rpc = "done" PROVE Client!ResultCounts
      BY DEF Client!ResultCounts
    <2>1. Counted = Thread \X (1..Requests)
      BY DEF CountInv, Counted
    <2> QED
      BY <2>1, AllRequests, ClientCardinality DEF CountInv, Client!ResultCounts
  <1>3. PlayInit => Inv
    BY <1>1 DEF PlayInit
  <1>4. Inv /\ [PlayNext]_playVars => Inv'
    BY CountStep, ProgramStep
  <1>5. Inv => ResultCounts
    BY <1>2 DEF ResultCounts
  <1>6. Client!Spec => []Client!ResultCounts
    BY <1>1, <1>2, CountStep, PTL DEF Client!Spec
  <1> HIDE DEF Inv
  <1>7. PlaySpec => []ResultCounts
    BY <1>3, <1>4, <1>5, PTL DEF PlaySpec
  <1> QED
    BY <1>6, <1>7

-----------------------------------------------------------------------------
(* KeyMove *)
Val == Nat \cup {Deleted}

Record == [{"key1"} -> Val] \cup [{"key2"} -> Val] \cup [Move!Keys -> Val]

IsPut(r) == "key1" \in DOMAIN r /\ r["key1"] # Deleted

(* Get of key finds record i in s.                                         *)
Latest(s, key, i) ==
    /\ i \in DOMAIN s /\ key \in DOMAIN s[i]
    /\ \A j \in DOMAIN s : j > i => key \notin DOMAIN s[j]

(* The put p is what Get of key1 finds in the first n records of s.        *)
Current(s, p, n) ==
    /\ p \in 1..n /\ IsPut(s[p])
    /\ \A j \in 1..n : j > p => "key1" \notin DOMAIN s[j]

(* A copy has the value that key1 had before it, and a deletion comes with *)
(* its copy or right after it.                                             *)
RecordOK(s, i) ==
    /\ "key2" \in DOMAIN s[i] =>
          /\ ~IsPut(s[i])
          /\ \E p \in 1..(i - 1) : Current(s, p, i - 1) /\ s[i]["key2"] = s[p]["key1"]
    /\ "key1" \in DOMAIN s[i] /\ ~IsPut(s[i]) =>
          "key2" \in DOMAIN s[i] \/ (i > 1 /\ "key2" \in DOMAIN s[i - 1])

LogOK(s) == \A i \in DOMAIN s : RecordOK(s, i)

(* Each put has a new value.                                               *)
PutsGrow(s) ==
    \A i, j \in DOMAIN s : i < j /\ IsPut(s[i]) /\ IsPut(s[j]) => s[i]["key1"] < s[j]["key1"]

-----------------------------------------------------------------------------
(* The library's Max, and what Get finds. *)

LEMMA MaxExists ==
    ASSUME NEW n \in Nat, NEW S \in SUBSET (1..n), S # {}
    PROVE  Move!Max(S) \in S /\ \A y \in S : Move!Max(S) >= y
  <1> DEFINE T == {n - i : i \in S}
  <1>1. \A i \in S : i \in Nat /\ i <= n /\ n - i \in Nat
    OBVIOUS
  <1>2. T \in SUBSET Nat
    BY <1>1
  <1>3. T # {}
    OBVIOUS
  <1> HIDE DEF T
  <1>4. PICK t \in T : \A u \in T : ~(<<u, t>> \in OpToRel(<, Nat))
    BY <1>2, <1>3, NatLessThanWellFounded, WFMin
  <1>5. OpToRel(<, Nat) = {ss \in Nat \X Nat : ss[1] < ss[2]}
    BY DEF OpToRel
  <1>6. \A u \in T : t <= u
    <2> SUFFICES ASSUME NEW u \in T, u < t PROVE FALSE
      BY <1>2
    <2>1. <<u, t>> \in OpToRel(<, Nat)
      BY <1>2, <1>5
    <2> QED
      BY <1>4, <2>1
  <1>7. PICK x \in S : t = n - x
    BY DEF T
  <1>8. ASSUME NEW y \in S PROVE x >= y
    <2>1. n - y \in T
      BY DEF T
    <2>2. n - x <= n - y
      BY <1>6, <1>7, <2>1
    <2> QED
      BY <1>1, <2>2
  <1> QED
    BY <1>8 DEF Move!Max

LEMMA MaxIs ==
    ASSUME NEW n \in Nat, NEW S \in SUBSET (1..n), NEW x \in S, \A y \in S : x >= y
    PROVE  Move!Max(S) = x
  <1>1. Move!Max(S) \in S /\ \A y \in S : Move!Max(S) >= y
    BY MaxExists
  <1>2. Move!Max(S) \in 1..n /\ x \in 1..n /\ Move!Max(S) >= x /\ x >= Move!Max(S)
    BY <1>1
  <1> QED
    BY <1>2

LEMMA StoredLatest ==
    ASSUME log \in Seq(Record), NEW key, NEW i, Latest(log, key, i)
    PROVE  Move!Stored(key) = log[i][key]
  <1> DEFINE here == {j \in DOMAIN log : key \in DOMAIN log[j]}
  <1>1. Len(log) \in Nat /\ here \in SUBSET (1..Len(log)) /\ i \in here /\ \A y \in here : i >= y
    BY DEF Latest
  <1>2. Move!Max(here) = i
    BY <1>1, MaxIs
  <1> QED
    BY <1>1, <1>2 DEF Move!Stored

LEMMA LatestExists ==
    ASSUME NEW s \in Seq(Record), NEW key, NEW j \in DOMAIN s, key \in DOMAIN s[j]
    PROVE  \E i \in DOMAIN s : Latest(s, key, i)
  <1> DEFINE here == {k \in DOMAIN s : key \in DOMAIN s[k]}
  <1>1. Len(s) \in Nat /\ here \in SUBSET (1..Len(s)) /\ here # {}
    OBVIOUS
  <1> HIDE DEF here
  <1>2. Move!Max(here) \in here /\ \A y \in here : Move!Max(here) >= y
    BY <1>1, MaxExists
  <1>3. \A k \in DOMAIN s : k > Move!Max(here) => k \notin here
    <2> SUFFICES ASSUME NEW k \in DOMAIN s, k > Move!Max(here), k \in here PROVE FALSE
      OBVIOUS
    <2>1. Move!Max(here) >= k /\ k \in 1..Len(s) /\ Move!Max(here) \in 1..Len(s)
      BY <1>1, <1>2
    <2> QED
      BY <1>1, <2>1
  <1> QED
    BY <1>2, <1>3 DEF Latest, here

-----------------------------------------------------------------------------
(* How a log that is right becomes another one. *)

LEMMA Extended ==
    ASSUME NEW s \in Seq(Record), NEW r \in Record, LogOK(s), RecordOK(Append(s, r), Len(s) + 1)
    PROVE  LogOK(Append(s, r))
  <1> DEFINE t == Append(s, r)
  <1>1. /\ Len(t) = Len(s) + 1 /\ DOMAIN t = 1..Len(t) /\ DOMAIN s = 1..Len(s) /\ Len(s) \in Nat
        /\ \A i \in 1..Len(s) : t[i] = s[i]
    BY AppendProperties
  <1> HIDE DEF t
  <1>2. ASSUME NEW i \in 1..Len(s) PROVE RecordOK(t, i)
    <2>1. RecordOK(s, i)
      BY <1>1 DEF LogOK
    <2>2. \A p \in 1..(i - 1) : Current(s, p, i - 1) => Current(t, p, i - 1)
      BY <1>1 DEF Current
    <2>3. \A p \in 1..(i - 1) : t[p] = s[p]
      BY <1>1
    <2>4. t[i] = s[i] /\ (i > 1 => t[i - 1] = s[i - 1])
      BY <1>1
    <2> QED
      BY <2>1, <2>2, <2>3, <2>4 DEF RecordOK
  <1>3. RecordOK(t, Len(s) + 1)
    BY DEF t
  <1> QED
    BY <1>1, <1>2, <1>3 DEF LogOK, t

LEMMA Prefix ==
    ASSUME NEW s \in Seq(Record), NEW n \in 0..Len(s)
    PROVE  LET t == SubSeq(s, 1, n)
           IN  /\ t \in Seq(Record) /\ Len(t) = n
               /\ \A i \in 1..n : t[i] = s[i]
  <1>1. \A i \in 1..n : s[i] \in Record
    OBVIOUS
  <1>2. n \in Int /\ 1 \in Int /\ Len(s) \in Nat
    OBVIOUS
  <1>3. SubSeq(s, 1, n) \in Seq(Record)
        /\ Len(SubSeq(s, 1, n)) = (IF 1 <= n THEN n - 1 + 1 ELSE 0)
        /\ \A i \in 1..(n - 1 + 1) : SubSeq(s, 1, n)[i] = s[1 + i - 1]
    BY <1>1, <1>2, SubSeqProperties
  <1> QED
    BY <1>2, <1>3

LEMMA Shortened ==
    ASSUME NEW s \in Seq(Record), NEW n \in 0..Len(s), LogOK(s)
    PROVE  LogOK(SubSeq(s, 1, n))
  <1> DEFINE t == SubSeq(s, 1, n)
  <1>1. t \in Seq(Record) /\ Len(t) = n /\ \A i \in 1..n : t[i] = s[i]
    BY Prefix
  <1> HIDE DEF t
  <1>2. DOMAIN t = 1..n /\ DOMAIN s = 1..Len(s) /\ Len(s) \in Nat
    BY <1>1
  <1>3. ASSUME NEW i \in 1..n PROVE RecordOK(t, i)
    <2>1. RecordOK(s, i)
      BY <1>2 DEF LogOK
    <2>2. \A p \in 1..(i - 1) : Current(s, p, i - 1) => Current(t, p, i - 1)
      BY <1>1 DEF Current
    <2>3. \A p \in 1..(i - 1) : t[p] = s[p]
      BY <1>1
    <2>4. t[i] = s[i] /\ (i > 1 => t[i - 1] = s[i - 1])
      BY <1>1
    <2> QED
      BY <2>1, <2>2, <2>3, <2>4 DEF RecordOK
  <1> QED
    BY <1>2, <1>3 DEF LogOK, t

LEMMA Copied ==
    ASSUME NEW s \in Seq(Record), NEW r \in Record, "key2" \in DOMAIN r, ~IsPut(r),
           NEW p \in 1..Len(s), Current(s, p, Len(s)), r["key2"] = s[p]["key1"]
    PROVE  RecordOK(Append(s, r), Len(s) + 1)
  <1> DEFINE t == Append(s, r)
  <1>1. t[Len(s) + 1] = r /\ Len(s) \in Nat /\ \A i \in 1..Len(s) : t[i] = s[i]
    BY AppendProperties
  <1> HIDE DEF t
  <1>2. Current(t, p, Len(s)) /\ t[p] = s[p] /\ (Len(s) + 1) - 1 = Len(s)
    BY <1>1 DEF Current
  <1>3. RecordOK(t, Len(s) + 1)
    BY <1>1, <1>2 DEF RecordOK
  <1> QED
    BY <1>3 DEF t

LEMMA PutAppended ==
    ASSUME NEW s \in Seq(Record), NEW r \in Record, "key2" \notin DOMAIN r, IsPut(r)
    PROVE  RecordOK(Append(s, r), Len(s) + 1)
  BY AppendProperties DEF RecordOK

LEMMA DeletionAppended ==
    ASSUME NEW s \in Seq(Record), NEW r \in Record, "key2" \notin DOMAIN r,
           Len(s) > 0, "key2" \in DOMAIN s[Len(s)]
    PROVE  RecordOK(Append(s, r), Len(s) + 1)
  <1>1. Append(s, r)[Len(s) + 1] = r /\ Append(s, r)[Len(s)] = s[Len(s)] /\ Len(s) \in Nat
    BY AppendProperties
  <1>2. (Len(s) + 1) - 1 = Len(s) /\ Len(s) + 1 > 1
    BY <1>1
  <1> QED
    BY <1>1, <1>2 DEF RecordOK

-----------------------------------------------------------------------------
(* The program. *)

MoveTypes ==
    /\ log \in Seq(Record) /\ durable \in Nat /\ durable <= Len(log)
    /\ runs \in Nat /\ value \in Val

(* Before a copy, value is what key1 has; before a deletion, the copy is   *)
(* the newest record.                                                      *)
MovePc ==
    /\ at = "move" =>
          \E p \in 1..Len(log) : Current(log, p, Len(log)) /\ value = log[p]["key1"]
    /\ at = "delete" => Len(log) > 0 /\ "key2" \in DOMAIN log[Len(log)]

MoveInv == MoveTypes /\ LogOK(log) /\ MovePc

LEMMA MoveInit == Move!Init => MoveInv
  BY DEF Move!Init, MoveInv, MoveTypes, LogOK, MovePc, Val

LEMMA Written ==
    ASSUME MoveInv, NEW r \in Record, NEW nxt, Move!Write(r, nxt), nxt # "move",
           RecordOK(Append(log, r), Len(log) + 1), nxt = "delete" => "key2" \in DOMAIN r
    PROVE  MoveInv'
  <1>1. /\ log' = Append(log, r) /\ at' = nxt /\ UNCHANGED <<runs, value, durable>>
        /\ log' \in Seq(Record) /\ Len(log') = Len(log) + 1 /\ log'[Len(log) + 1] = r
    BY AppendProperties DEF Move!Write, MoveInv, MoveTypes
  <1>2. MoveTypes'
    BY <1>1 DEF MoveInv, MoveTypes
  <1>3. LogOK(log')
    BY <1>1, Extended DEF MoveInv, MoveTypes
  <1>4. MovePc'
    BY <1>1 DEF MovePc, MoveInv, MoveTypes
  <1> QED
    BY <1>2, <1>3, <1>4 DEF MoveInv

LEMMA MoveStep == ASSUME Deleted \notin Nat PROVE MoveInv /\ [Move!Next]_(Move!vars) => MoveInv'
  <1> SUFFICES ASSUME MoveInv, [Move!Next]_(Move!vars) PROVE MoveInv'
    OBVIOUS
  <1>1. CASE Move!Start
    BY <1>1 DEF Move!Start, MoveInv, MoveTypes, MovePc, Val
  <1>2. CASE Move!PutFirst
    <2> DEFINE r == [key1 |-> runs]
    <2>1. r \in Record /\ "key2" \notin DOMAIN r /\ IsPut(r)
      BY DEF Record, IsPut, Val, MoveInv, MoveTypes
    <2>2. Move!Write(r, "get1")
      BY <1>2 DEF Move!PutFirst
    <2> HIDE DEF r
    <2> QED
      BY <2>1, <2>2, PutAppended, Written DEF MoveInv, MoveTypes
  <1>3. CASE Move!WriteFails
    BY <1>3 DEF Move!WriteFails, MoveInv, MoveTypes, MovePc
  <1>4. CASE Move!GetFirst
    <2>1. value' = Move!Stored("key1") /\ UNCHANGED <<runs, log, durable>>
          /\ at' = (IF value' = Deleted THEN "down" ELSE "move")
      BY <1>4 DEF Move!GetFirst
    <2>2. CASE \A j \in DOMAIN log : "key1" \notin DOMAIN log[j]
      <3>1. value' = Deleted
        BY <2>1, <2>2 DEF Move!Stored
      <3> QED
        BY <2>1, <3>1 DEF MoveInv, MoveTypes, MovePc, Val
    <2>3. CASE \E j \in DOMAIN log : "key1" \in DOMAIN log[j]
      <3>1. PICK i \in DOMAIN log : Latest(log, "key1", i)
        BY <2>3, LatestExists DEF MoveInv, MoveTypes
      <3>2. value' = log[i]["key1"]
        BY <2>1, <3>1, StoredLatest DEF MoveInv, MoveTypes
      <3>3. i \in 1..Len(log) /\ log[i] \in Record
        BY <3>1 DEF MoveInv, MoveTypes
      <3>4. value' \in Val
        BY <3>1, <3>2, <3>3 DEF Record, Latest, Move!Keys
      <3>5. value' # Deleted => Current(log, i, Len(log))
        BY <3>1, <3>2, <3>3 DEF Latest, Current, IsPut, MoveInv, MoveTypes
      <3> QED
        BY <2>1, <3>2, <3>3, <3>4, <3>5 DEF MoveInv, MoveTypes, MovePc
    <2> QED
      BY <2>2, <2>3
  <1>5. CASE Move!MoveAsBatch
    <2> DEFINE r == [key1 |-> Deleted, key2 |-> value]
    <2>1. r \in Record /\ "key2" \in DOMAIN r /\ ~IsPut(r) /\ r["key2"] = value
      BY DEF Record, Move!Keys, IsPut, Val, MoveInv, MoveTypes
    <2>2. Move!Write(r, "down") /\ at = "move"
      BY <1>5 DEF Move!MoveAsBatch
    <2> HIDE DEF r
    <2>3. RecordOK(Append(log, r), Len(log) + 1)
      BY <2>1, <2>2, Copied DEF MoveInv, MoveTypes, MovePc
    <2> QED
      BY <2>1, <2>2, <2>3, Written
  <1>6. CASE Move!MoveCopy
    <2> DEFINE r == [key2 |-> value]
    <2>1. r \in Record /\ "key2" \in DOMAIN r /\ ~IsPut(r) /\ r["key2"] = value
      BY DEF Record, IsPut, Val, MoveInv, MoveTypes
    <2>2. Move!Write(r, "delete") /\ at = "move"
      BY <1>6 DEF Move!MoveCopy
    <2> HIDE DEF r
    <2>3. RecordOK(Append(log, r), Len(log) + 1)
      BY <2>1, <2>2, Copied DEF MoveInv, MoveTypes, MovePc
    <2> QED
      BY <2>1, <2>2, <2>3, Written
  <1>7. CASE Move!MoveDelete
    <2> DEFINE r == [key1 |-> Deleted]
    <2>1. r \in Record /\ "key2" \notin DOMAIN r
      BY DEF Record, Val
    <2>2. Move!Write(r, "down") /\ at = "delete"
      BY <1>7 DEF Move!MoveDelete
    <2> HIDE DEF r
    <2>3. RecordOK(Append(log, r), Len(log) + 1)
      BY <2>1, <2>2, DeletionAppended DEF MoveInv, MoveTypes, MovePc
    <2> QED
      BY <2>1, <2>2, <2>3, Written
  <1>8. CASE Move!Kill
    BY <1>8 DEF Move!Kill, MoveInv, MoveTypes, MovePc
  <1>9. CASE Move!Writeback
    BY <1>9 DEF Move!Writeback, MoveInv, MoveTypes, MovePc
  <1>10. CASE Move!PowerLoss
    <2>1. PICK n \in durable..Len(log) : log' = SubSeq(log, 1, n) /\ durable' = n
      BY <1>10 DEF Move!PowerLoss
    <2>2. n \in 0..Len(log) /\ n \in Nat
      BY DEF MoveInv, MoveTypes
    <2>3. log' \in Seq(Record) /\ Len(log') = n
      BY <2>1, <2>2, Prefix DEF MoveInv, MoveTypes
    <2>4. LogOK(log')
      BY <2>1, <2>2, Shortened DEF MoveInv, MoveTypes
    <2> QED
      BY <1>10, <2>1, <2>2, <2>3, <2>4 DEF Move!PowerLoss, MoveInv, MoveTypes, MovePc
  <1>11. CASE UNCHANGED Move!vars
    BY <1>11 DEF Move!vars, MoveInv, MoveTypes, MovePc
  <1> QED
    BY <1>1, <1>2, <1>3, <1>4, <1>5, <1>6, <1>7, <1>8, <1>9, <1>10, <1>11 DEF Move!Next, Move!Over

-----------------------------------------------------------------------------
(* The newest copy after the newest put is a copy of it. *)
LEMMA LogKeepsValue == MoveInv => Move!MoveKeepsValue
  <1> DEFINE puts == {i \in DOMAIN log : "key1" \in DOMAIN log[i] /\ log[i]["key1"] # Deleted}
             p == Move!Max(puts)
  <1> SUFFICES ASSUME MoveInv, puts # {}
               PROVE  log[p]["key1"] \in {Move!Stored("key1"), Move!Stored("key2")}
    BY DEF Move!MoveKeepsValue
  <1>1. log \in Seq(Record) /\ Len(log) \in Nat /\ puts \in SUBSET (1..Len(log))
    BY DEF MoveInv, MoveTypes
  <1>2. p \in puts /\ \A y \in puts : p >= y
    BY <1>1, MaxExists
  <1>3. p \in 1..Len(log) /\ IsPut(log[p])
    BY <1>1, <1>2 DEF IsPut
  <1>4. \A j \in 1..Len(log) : IsPut(log[j]) => j \in puts
    BY <1>1 DEF IsPut
  <1> HIDE DEF p, puts
  <1>5. \A j \in 1..Len(log) : j > p => ~IsPut(log[j])
    BY <1>1, <1>2, <1>3, <1>4
  <1>6. \A i \in 1..Len(log) : RecordOK(log, i)
    BY <1>1 DEF MoveInv, LogOK
  <1>7. CASE \A j \in 1..Len(log) : j > p => "key1" \notin DOMAIN log[j]
    <2>1. Latest(log, "key1", p)
      BY <1>1, <1>3, <1>7 DEF Latest, IsPut
    <2> QED
      BY <1>1, <2>1, StoredLatest
  <1>8. CASE \E j \in 1..Len(log) : j > p /\ "key1" \in DOMAIN log[j]
    <2>1. PICK d \in 1..Len(log) : d > p /\ "key1" \in DOMAIN log[d]
      BY <1>8
    <2>2. "key2" \in DOMAIN log[d] \/ (d > 1 /\ "key2" \in DOMAIN log[d - 1])
      BY <1>5, <1>6, <2>1 DEF RecordOK
    <2>3. "key2" \notin DOMAIN log[p]
      BY <1>3, <1>6 DEF RecordOK
    <2>4. PICK j \in 1..Len(log) : j > p /\ "key2" \in DOMAIN log[j]
      <3>1. CASE "key2" \in DOMAIN log[d]
        BY <2>1, <3>1
      <3>2. CASE d > 1 /\ "key2" \in DOMAIN log[d - 1]
        <4>1. d - 1 \in 1..Len(log) /\ d - 1 >= p /\ d - 1 # p
          BY <1>1, <1>3, <2>1, <2>3, <3>2
        <4> QED
          BY <1>1, <1>3, <3>2, <4>1
      <3> QED
        BY <2>2, <3>1, <3>2
    <2>5. PICK m \in 1..Len(log) : Latest(log, "key2", m)
      BY <1>1, <2>4, LatestExists
    <2>6. m > p
      BY <1>1, <1>3, <2>4, <2>5 DEF Latest
    <2>7. PICK q \in 1..(m - 1) : Current(log, q, m - 1) /\ log[m]["key2"] = log[q]["key1"]
      BY <1>6, <2>5 DEF RecordOK, Latest
    <2>8. q = p
      BY <1>1, <1>3, <1>5, <2>6, <2>7 DEF Current, IsPut
    <2>9. Move!Stored("key2") = log[m]["key2"]
      BY <1>1, <2>5, StoredLatest
    <2> QED
      BY <2>7, <2>8, <2>9
  <1> QED
    BY <1>7, <1>8

-----------------------------------------------------------------------------
(* The batch.  Every record has key1, and each put is of a new run. *)
BatchLog ==
    test = "batch" =>
        /\ at \notin {"delete", "copy"}
        /\ \A i \in DOMAIN log : "key1" \in DOMAIN log[i]
        /\ PutsGrow(log)
        /\ \A i \in DOMAIN log : IsPut(log[i]) =>
              log[i]["key1"] \in Nat /\ log[i]["key1"] <= runs /\ (at = "put1" => log[i]["key1"] < runs)

LEMMA BatchLogInit == Move!Init => BatchLog
  BY DEF Move!Init, BatchLog, PutsGrow

LEMMA BatchLogStep == MoveInv /\ BatchLog /\ [Move!Next]_(Move!vars) => BatchLog'
  <1> SUFFICES ASSUME MoveInv, BatchLog, [Move!Next]_(Move!vars), test = "batch", test' = "batch"
               PROVE  BatchLog'
    BY DEF BatchLog, Move!Next, Move!vars, Move!Start, Move!PutFirst, Move!Write,
       Move!WriteFails, Move!GetFirst, Move!MoveAsBatch,
           Move!MoveCopy, Move!MoveDelete, Move!Kill, Move!Writeback, Move!PowerLoss, Move!Over
  <1>1. CASE Move!Start
    BY <1>1 DEF Move!Start, BatchLog, PutsGrow, MoveInv, MoveTypes
  <1>2. CASE Move!PutFirst
    <2>1. /\ log' = Append(log, [key1 |-> runs]) /\ runs' = runs /\ at' = "get1" /\ at = "put1"
          /\ Len(log') = Len(log) + 1 /\ log'[Len(log) + 1] = [key1 |-> runs]
          /\ DOMAIN log' = 1..(Len(log) + 1) /\ DOMAIN log = 1..Len(log) /\ Len(log) \in Nat
          /\ \A i \in 1..Len(log) : log'[i] = log[i]
      BY <1>2, AppendProperties DEF Move!PutFirst, Move!Write, MoveInv, MoveTypes
    <2>2. runs \in Nat
      BY DEF MoveInv, MoveTypes
    <2>3. PutsGrow(log')
      BY <2>1, <2>2 DEF BatchLog, PutsGrow
    <2>4. \A i \in DOMAIN log' : "key1" \in DOMAIN log'[i]
      BY <2>1 DEF BatchLog
    <2>5. \A i \in DOMAIN log' : IsPut(log'[i]) => log'[i]["key1"] \in Nat /\ log'[i]["key1"] <= runs
      BY <2>1, <2>2 DEF BatchLog
    <2> QED
      BY <2>1, <2>3, <2>4, <2>5 DEF BatchLog
  <1>3. CASE Move!WriteFails
    BY <1>3 DEF Move!WriteFails, BatchLog, PutsGrow
  <1>4. CASE Move!GetFirst
    BY <1>4 DEF Move!GetFirst, BatchLog, PutsGrow
  <1>5. CASE Move!MoveAsBatch
    <2> DEFINE r == [key1 |-> Deleted, key2 |-> value]
    <2>1. "key1" \in DOMAIN r /\ ~IsPut(r) /\ r \in Record
      BY DEF IsPut, Record, Move!Keys, Val, MoveInv, MoveTypes
    <2>2. log' = Append(log, r) /\ runs' = runs /\ at' = "down"
      BY <1>5 DEF Move!MoveAsBatch, Move!Write
    <2> HIDE DEF r
    <2>3. /\ Len(log') = Len(log) + 1 /\ log'[Len(log) + 1] = r
          /\ DOMAIN log' = 1..(Len(log) + 1) /\ DOMAIN log = 1..Len(log) /\ Len(log) \in Nat
          /\ \A i \in 1..Len(log) : log'[i] = log[i]
      BY <2>1, <2>2, AppendProperties DEF MoveInv, MoveTypes
    <2>4. PutsGrow(log')
      BY <2>1, <2>3 DEF BatchLog, PutsGrow
    <2>5. \A i \in DOMAIN log' : "key1" \in DOMAIN log'[i]
      BY <2>1, <2>3 DEF BatchLog
    <2>6. \A i \in DOMAIN log' : IsPut(log'[i]) => log'[i]["key1"] \in Nat /\ log'[i]["key1"] <= runs
      BY <2>1, <2>3 DEF BatchLog
    <2> QED
      BY <2>2, <2>4, <2>5, <2>6 DEF BatchLog
  <1>6. CASE Move!MoveCopy
    BY <1>6 DEF Move!MoveCopy
  <1>7. CASE Move!MoveDelete
    BY <1>7 DEF Move!MoveDelete, BatchLog
  <1>8. CASE Move!Kill
    BY <1>8 DEF Move!Kill, BatchLog, PutsGrow
  <1>9. CASE Move!Writeback
    BY <1>9 DEF Move!Writeback, BatchLog, PutsGrow
  <1>10. CASE Move!PowerLoss
    <2>1. PICK n \in durable..Len(log) : log' = SubSeq(log, 1, n)
      BY <1>10 DEF Move!PowerLoss
    <2>2. at' = "down" /\ runs' = runs
      BY <1>10 DEF Move!PowerLoss
    <2>3. n \in 0..Len(log) /\ Len(log) \in Nat
      BY DEF MoveInv, MoveTypes
    <2>4. DOMAIN log' = 1..n /\ DOMAIN log = 1..Len(log) /\ \A i \in 1..n : i \in 1..Len(log) /\ log'[i] = log[i]
      BY <2>1, <2>3, Prefix DEF MoveInv, MoveTypes
    <2>5. PutsGrow(log')
      BY <2>4 DEF BatchLog, PutsGrow
    <2> QED
      BY <2>2, <2>4, <2>5 DEF BatchLog
  <1>11. CASE UNCHANGED Move!vars
    BY <1>11 DEF Move!vars, BatchLog, PutsGrow
  <1> QED
    BY <1>1, <1>2, <1>3, <1>4, <1>5, <1>6, <1>7, <1>8, <1>9, <1>10, <1>11 DEF Move!Next, Move!Over

LEMMA LogIsAtomic == MoveInv /\ BatchLog => Move!MoveIsAtomic
  <1> SUFFICES ASSUME MoveInv, BatchLog, test = "batch", Move!Stored("key1") # Deleted
               PROVE  Move!Stored("key1") # Move!Stored("key2")
    BY DEF Move!MoveIsAtomic
  <1> DEFINE n == Len(log)
  <1>1. log \in Seq(Record) /\ n \in Nat /\ DOMAIN log = 1..n
    BY DEF MoveInv, MoveTypes
  <1>2. n > 0
    BY <1>1 DEF Move!Stored
  <1>3. Latest(log, "key1", n)
    BY <1>1, <1>2 DEF Latest, BatchLog
  <1>4. Move!Stored("key1") = log[n]["key1"] /\ IsPut(log[n]) /\ log[n]["key1"] \in Nat
    <2>1. Move!Stored("key1") = log[n]["key1"]
      BY <1>1, <1>3, StoredLatest
    <2> QED
      BY <1>1, <1>2, <1>3, <2>1 DEF IsPut, Latest, BatchLog
  <1>5. CASE \A j \in DOMAIN log : "key2" \notin DOMAIN log[j]
    BY <1>5 DEF Move!Stored
  <1>6. CASE \E j \in DOMAIN log : "key2" \in DOMAIN log[j]
    <2>1. PICK m \in DOMAIN log : Latest(log, "key2", m)
      BY <1>1, <1>6, LatestExists
    <2>2. Move!Stored("key2") = log[m]["key2"]
      BY <1>1, <2>1, StoredLatest
    <2>3. RecordOK(log, m) /\ "key2" \in DOMAIN log[m]
      BY <2>1 DEF Latest, MoveInv, LogOK
    <2>4. PICK q \in 1..(m - 1) : Current(log, q, m - 1) /\ log[m]["key2"] = log[q]["key1"]
      BY <2>3 DEF RecordOK
    <2>5. q < n /\ q \in 1..n /\ IsPut(log[q])
      BY <1>1, <2>1, <2>4 DEF Current
    <2>6. log[q]["key1"] < log[n]["key1"] /\ log[q]["key1"] \in Nat
      BY <1>1, <1>2, <1>4, <2>5 DEF BatchLog, PutsGrow
    <2> QED
      BY <1>4, <2>2, <2>4, <2>6
  <1> QED
    BY <1>5, <1>6

-----------------------------------------------------------------------------
LEMMA MoveHolds ==
    ASSUME Deleted \notin Nat
    PROVE  /\ Move!Spec => [](MoveInv /\ BatchLog)
           /\ PlaySpec => [](program = "move" => MoveInv /\ BatchLog)
  <1> DEFINE Inv == program = "move" => MoveInv /\ BatchLog
  <1>1. Move!Init => MoveInv /\ BatchLog
    BY MoveInit, BatchLogInit
  <1>2. MoveInv /\ BatchLog /\ [Move!Next]_(Move!vars) => (MoveInv /\ BatchLog)'
    BY MoveStep, BatchLogStep
  <1>3. PlayInit => Inv
    BY <1>1 DEF PlayInit
  <1>4. Inv /\ [PlayNext]_playVars => Inv'
    BY <1>2, ProgramStep
  <1>5. Move!Spec => [](MoveInv /\ BatchLog)
    BY <1>1, <1>2, PTL DEF Move!Spec
  <1>6. PlaySpec => []Inv
    BY <1>3, <1>4, PTL DEF PlaySpec
  <1> QED
    BY <1>5, <1>6

(* Whatever fails and whenever the program or the machine stops, the value *)
(* last put under key1 is under one of the keys (test_leveldb_rw and       *)
(* test_leveldb_write_batch, and test of test_rocksdb_ops).                *)
THEOREM ValueKept ==
    ASSUME Deleted \notin Nat
    PROVE  (Move!Spec => []Move!MoveKeepsValue) /\ (PlaySpec => []MoveKeepsValue)
  <1>1. (program = "move" => MoveInv /\ BatchLog) => MoveKeepsValue
    BY LogKeepsValue DEF MoveKeepsValue
  <1> QED
    BY <1>1, MoveHolds, LogKeepsValue, PTL

(* The move in one batch leaves no value under both keys, at no time and   *)
(* after no crash (test_leveldb_write_batch).                              *)
THEOREM BatchIsAtomic ==
    ASSUME Deleted \notin Nat
    PROVE  (Move!Spec => []Move!MoveIsAtomic) /\ (PlaySpec => []MoveIsAtomic)
  <1>1. (program = "move" => MoveInv /\ BatchLog) => MoveIsAtomic
    BY LogIsAtomic DEF MoveIsAtomic
  <1> QED
    BY <1>1, MoveHolds, LogIsAtomic, PTL
=============================================================================
