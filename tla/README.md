# A verification of prog-playground

prog-playground is a collection of small C and C++ experiments.  This
directory holds TLA+ specifications of the parts that have a concurrency
protocol or a state machine of their own, TLC configurations that check them,
and proofs, checked by TLAPS, of their safety properties: those of the
thread pool that the server is built on, of the server's process, of its connections, of the
path a request takes into the two databases, of its multiplexing back ends, of the benchmark
client, of the playground programs and of the tree bins of dlmalloc, the allocator that the
repository carries as a study object.
`PROJECT.json` maps every definition to the lines it
models and lists the runs, the hazards and the theorems.

## 1. The system

Paths are relative to the root of the repository.

| part | state it keeps | operations | interacts with |
|---|---|---|---|
| **thread pool** `ioserver_demo/include/thread_pool.h`, `src/common/thread_pool.cpp` | the vector of threads, the queue of closures, `stop_`, one mutex, one condition variable | constructor, worker loop, `enqueue`, `resize`, `stop`, destructor | called by the server's two threads |
| **server process** `ioserver_demo/src/server/server.cpp` | the flags `running` and `reload_config`, the listening socket, the `EpollIO` object, the settings | `init`, `run` (on a detached thread), `loadConfig`, `cleanup`, the signal handler, `main` and the destruction of `server` | pool, database manager, epoll, signals |
| **connections** `server.cpp` (`acceptClient`, `handleClient`), `io_multiplexing.cpp` | descriptors and their epoll registration, bytes received | accept, read a request, parse it, respond, close | the kernel, the pool, the write path |
| **write path** `server.cpp` (`processKeyValue`), `db_manager.cpp` | one MySQL and one Redis handle | connect, set in Redis, set in MySQL, batches, disconnect | all workers share the handles |
| **multiplexing back ends** `io_multiplexing.cpp` | `fd_set`s, a vector of `pollfd`s, the kernel's interest list | add, remove, modify, wait | the server uses `EpollIO`; `SelectIO` and `PollIO` have the same interface |
| **benchmark client** `src/client/client.cpp` | statistics shared by its threads | connect, send with retries, report | the server |
| **playground pools** `thread_pool/`, `concurrent/base/`, `concurrent/std_async/` | queue or priority queue, `stop_` (atomic, set without the mutex), a `Result` with a count and a condition variable, or a vector of futures | enqueue, worker loop, stop, destructor; a `main` that sums an array in chunks | `main` and the workers |
| **dlmalloc** `memory/dlmalloc_src/malloc.c` | chunks with boundary tags, small bins, tries of large chunks, the designated victim, top, segments, footprint | malloc, free, realloc, memalign, independent_calloc, bulk_free, malloc_trim | the kernel (sbrk, mmap, mremap, munmap), the application |
| **counters, mutex tests** `concurrent/mutex_cost`, `cpu/mutex_test` | a counter, one mutex | increments; lock, unlock | threads |
| **pipe ping-pong** `cpu/cswch_demo` | two pipes | read, write | two processes |
| **signal driven I/O** `storage/read_by_signal`, `write_by_signal*`, `simple_io` | a flag or a descriptor | handlers that read and write | the main loop they interrupt |
| **byte order cases** `network/byte_order` | a socket, a packed header | send, receive, checksum | client and server |
| **key-value tests** `leveldb/`, `storage/rocksdb/` | two keys of a store | put, get, batch | the store |
| the rest | — | straight-line socket programs, programs that leak on purpose, probes, scripts, recorded results, PDFs, vendored code (spdlog, json) | — |

What is hard here:

* *The pool's one condition variable has two kinds of waiters*, workers and
  `resize`, and `enqueue` sends `notify_one`.
* *`resize`, `stop` and the destructor each run the same join loop over the
  same vector without the mutex*; `resize` then clears the vector and resets
  `stop_`, also without the mutex.
* *Nothing makes main wait for the detached thread of `Server::run`*: after a
  SIGTERM one thread is in `cleanup` while the other destroys the Server.
* *A reload happens while requests arrive*: `enqueue` throws when it meets a
  pool that `resize` has stopped.
* *The playground pools set `stop_` outside the mutex*, so a notification can
  fall between a worker's test and its sleep; their `main` waits for the
  batch without a predicate.
* *epoll is level-triggered and the descriptor stays registered* while a
  worker reads it; several handlers may serve one descriptor.
* *All workers share one Redis context and one MySQL handle* without a lock.
* *One request can end the process*: `item` is `const`, so `item["key"]` is json's
  `operator[]` that asserts, and the Makefile does not set `NDEBUG`.
* *An exception can leave a handler through its own `catch`*: the error answer
  repeats the message of the parser, and `dump` throws on bytes that are not
  UTF-8; the pool drops the exception and the descriptor stays open.
* *The server closes descriptors without `removeEvent`*: only a back end whose
  list is the kernel's own survives that.
* *dlmalloc keeps one truth in many places*: a chunk's head, its foot, two flags in
  its neighbours, a bin or one of two special places, the segment list and the
  footprint, and every call edits them by hand, on paths that memory from sbrk and mmap
  and their failures multiply.

The properties that make each part correct: the pool keeps every accepted
task, runs it once and in order of acceptance, and its methods return; the
process ends when asked to, serves what it accepted and closes its databases
after that; a batch is summed completely; no client that waits for its answer is
closed, no request runs twice, and answers go to those who asked; a value acknowledged is in both stores; a message is
framed as it was sent; a block of memory stays the application's until it gives
it back.

## 2. Modules

| module | models | state and actions |
|---|---|---|
| `TaskQueue` | what a pool promises | `pending` (a sequence), `active`, `finished`; `Submit`, `Start`, `Finish` |
| `ThreadPool` | `utils::ThreadPool` | every field of the class, a program counter per worker and per caller, and the locals of the join loops (`op`, `arg`, `idx`, `last`); one action per critical section, notification, join, thread creation and unlocked write |
| `ServerLifecycle` | main, signals, `init`, `run`, `loadConfig`, `cleanup`, destruction | extends `ThreadPool` and gives its callers the roles of the two threads: `run` enqueues and stops, `main` resizes and destroys; a call of a pool method is its first step in `ThreadPool` taken together with the caller's step. What a request may do besides returning is `RequestAborts` (an item without its key or value, another request in the same handles) and `RequestLosesHandles` (closed under it) |
| `PlayPool` | the class `ThreadPool` of the playground programs | as `ThreadPool`, with the mutex as a variable, since the flag is written without it |
| `BatchSum`, `MCBatchSum` | `task_run` and `main` of `thread_pool.cpp`, `thread_pool_priority.cpp`, `thread_pool_withwait.cpp` | extends `PlayPool`; the sum is the set of the chunks added to it |
| `AsyncSum` | `main` of `thread_pool_async_withwait.cpp` | extends `PlayPool`; a future is ready when its task is in `ready` |
| `Framing` | the servers and clients of `network/byte_order`, all four cases | layouts and (de)serialization are operators; the state is the loop of `main` and of `recvAll` |
| `KeyMove` | the key-value tests that move a value between two keys | the store is its log of records and how many of them are `durable`; the program is the call it makes next; kills, write errors, power losses |
| `BenchmarkClient` | `run` and `sendRequest` of `client.cpp` | a program counter per thread, the open sockets, the parts sent and received, the counters; the server is seen from the client's end |
| `Playground`, `MCPlayground` | the five programs above side by side, one of which is started | instances of the five modules; the programs with a pool share its variables |
| `Connections`, `MCConnections` | the loop of `Server::run`, `handleNewConnection`, `handleClient`, the clients | `file` maps a descriptor to its connection, `inbuf` counts the parts that arrived; a handler has a program counter, its descriptor and its `data`, and ends in `Close` or in `AnswerThrows`. The pool is a first-in first-out queue of descriptors, which is what `PoolImplementsQueue` proves of it |
| `WritePath`, `MCWritePath` | `processKeyValue`, `setCache`, `executeSQL`, the batch loop of `handleClient`; Redis, MySQL and the connections to them | per worker its request, item and store; per store the commands `sent`, the `replies` on the way back, whether the connection is `up`; `AssertFails` is the item that lacks its key or value, `RejectItem` the one that throws |
| `IoMultiplexing` | `SelectIO`, `PollIO`, `EpollIO` | the lists each keeps, what the kernel has to say of each socket; `SelectWait`, `PollWait` and `EpollWait` are what `wait` would report |
| `TreeBins`, `TreeBinUse` | dlmalloc's large bins: index, trie insertion and removal, `tmalloc_large`, `tmalloc_small` | operators on a function from paths to rings of chunks; `TreeBinUse` puts them in and takes them out in every order |
| `Heap` | `malloc.c`, built as by default on 64-bit Linux | extends `TreeBins`; the state is the `malloc_state` with the headers in memory (`m`) and what the application holds (`live`); each helper is an operator on the state, each function of the interface an action |
| `Allocator` | what an allocator promises | blocks, and the memory it owns; `Allocate`, `Release`, `Resize` |
| `Libraries`, `MCLibraries` | `Heap`, `TreeBinUse` and `IoMultiplexing`, one of them at a time | extends the first two, with an instance of the third; code that only answers its caller |
| `ThreadPoolProofs`, `ServerProofs`, `ConnectionsProofs`, `WritePathProofs`, `PlaygroundProofs`, `FramingProofs`, `TreeBinProofs`, `LibrariesProofs` | — | theorems. `ServerProofs` extends `ServerLifecycle` and the proofs of the pool; `PlaygroundProofs` (the batches, the client and the key move) and `FramingProofs` (byte order) extend `Playground`; `TreeBinProofs` extends `TreeBinUse` and has the lemmas about tries, from which `LibrariesProofs`, which extends it and `Libraries`, draws its theorems; the others extend the module in their name |

`Connections` stops where a request is processed (`Process` is one step) and
`WritePath` begins there, with the requests that were parsed; what the first
proves of its queue, the second uses: each request is taken by one worker, once.

Atomicity.  In `ThreadPool` the queue is only touched with the mutex held, so a
critical section is one step.  `stop_` is also written by `resize` without the
mutex: that write is a step of its own, and it can fall between any two
critical sections.  In `PlayPool` the mutex is explicit because the test of the
wait's predicate and the moment the thread is asleep are separated by a state
in which others may still set `stop_` and notify.

History variables.  `submitted`, `started` and `finished` in `ThreadPool`,
`reloaded` and `fatal` in `ServerLifecycle`, `early` in `BatchSum`, `executed`, `thrown` and
`reused` in `Connections`, `refused` in `WritePath`, `plain` and `tidy` in
`IoMultiplexing`, `binned` and `older` in `TreeBinUse` and `missed` in `PlayPool` record what happened for the
properties; no guard depends on them except that a task is submitted once.
Three more also stand for something outside the server: `served` in `Connections` for the end of the stream that a client
sees, `answers` and `answer` for what clients received; `log` in `WritePath` is
what the stores contain.

Definitions whose comment starts with *Broken* are variants of the definition
that follows, with a likely mistake in it.  No action uses them; they show that a property notices the
mistake (`"mutants"` in `PROJECT.json`).

## 3. Runs

| run | expects | what it shows |
|---|---|---|
| `pool` | pass | accepted tasks are in exactly one place and in order; the destructor drains a pool that has threads; `resize` never destroys a joinable thread; the pool implements `TaskQueue`; and, with fair threads, tasks run, and the destructor and a `resize` past its wait return, whichever threads cannot be started |
| `pool_task_stranded` | violation of `EveryTaskRuns` | a waiting `resize` takes the `notify_one` of an `enqueue`: an accepted task stays queued while the worker sleeps |
| `server` | pass | the process aborts in service only through a request (an incomplete item, two requests inside the shared handles), an `enqueue` that meets a reload, or the logger that a reload replaces, and never in a failed `init`; a normal exit has served every accepted request, wherever a reload failed, unless the pool was left without threads; without a reload, `cleanup` closes the databases after the last request; after `running` becomes false the process ends |
| `server_shutdown_aborts` | violation of `GracefulShutdown` | after one SIGTERM, without a reload or a request, main destroys the pool while `cleanup`'s `stop` joins its threads; the join of a thread that is being joined throws, and the process aborts |
| `server_reload_terminates` | violation of `DispatchSucceeds` | `enqueue` throws during a reload, on a detached thread that catches nothing |
| `playground` | pass | *byte order*: however the stream is cut, a message is printed exactly when it is whole and has the server's layout, with the fields that were sent, buffers are freed on all paths but one, every queued connection gets its turn; *pools*: no chunk is lost or added twice, all are added, tasks do not outlive the `Result`, the futures' total is complete, the destructors return unless a worker missed the notification; *key move*: one batch is never seen half-done, and no crash loses the value in either form; *client*: every request is counted once and closes its one socket, and the run ends unless the server keeps silent |
| `batch_lost_wakeup` | violation of `WaitReturns` | the last task notifies before main waits, and main waits for ever |
| `connections` | pass | although level-triggered epoll starts several handlers for one descriptor, the bytes of a request are read once, it is executed at most once, and none of the handlers closes on a client that waits for its answer, unless `accept` gave the number out under a handler; with one worker nobody gets another's answer; a readable connection is closed in the end, unless an exception ended its handler |
| `connections_split_request` | violation of `ReadToTheEnd` | `EAGAIN` is taken for the end of the request: one that comes in two parts is answered after the first |
| `write_path` | pass | every request is answered whatever breaks, unless the process dies of a batch it has begun or of two workers in one handle; with one worker, success means that both stores have every item, a failed batch leaves a prefix, and Redis differs from the newest row only by an unacknowledged item; with any number, each refused command makes a request fail, and when nothing fails what was acknowledged is stored in the end |
| `libraries` | pass | dlmalloc: the chunks tile the segments, a free chunk is in exactly one place and every trie has its shape, the pages owned are those of the segments and mmapped chunks, the best fit is found by one path of a trie, and the heap implements `Allocator`; the back ends: used for READ with sockets removed before they are closed all three report the same, for other types poll and epoll do |
| `heap_footprint_limit` | violation of `WithinFootprintLimit` | `realloc` of a chunk that mmap gave uses `mremap` and does not look at the limit |

Some passing properties carry a proviso, stated with them, because the plain
statement is false: `TasksRun` (a resizer in its wait can take a
notification; a pool may be left without threads), `DestroyedDrained` and `ExitedServed`
(a pool of no threads drops its tasks), `DestroyReturns` and `ShutdownEnds` (an abort is an end too),
`NoAbortInService` (a request that ends the process, and in a reload an `enqueue` that throws or
the logger), `CleanupAfterDrain` (no reload before), `NoneDropped` (a number that `accept` reused under a
handler), `ConnectionsEnd` (an exception that ended the handler), `Answered` (the process
died of a batch it had begun or of two workers in one handle), `PrintsFullSum` (the wait did not return by
itself), `ProgramsEnd` (a missed notification, a silent server), `PollLikeEpoll` (poll
drops a hang-up without anything to read, epoll calls it READ).
The proviso of `NoneDropped` is needed with one worker too: the `recv` of a stale handler fails on the
closed descriptor, `accept` gives the number to the next client, and the handler, on its way out,
closes that one.  `OwnAnswer`, `AckedStored`, `BatchPrefix` and `CacheAgrees` are about a
pool of one worker.  With two, the handler of an old event may close a
descriptor another handler works on; `accept` gives the number out again and the other
handler answers the new connection.  And two workers on one handle may read
each other's replies, so a client can be told of the other's failure or success;
what stays true then is `FailuresTold`, `Answered` and, while nothing is refused
or lost, `AckedStoredLater`, the second half of `Answered`.  The runs `connections` and `write_path` choose the
pool in the initial state and so cover both.  `ShutdownEnds` exempts main blocked for ever in the wait of
`resize`: only `enqueue`, `stop` and the destructor notify it, never a worker that
takes the last task.

Bounds.  Two workers are enough for two to compete for one task or one
notification; three tasks for one to run while one is taken and one waits; two callers are all
the server has.  `resize` asks for none or for two threads and may be cut short
after any of them, so the pool has zero, one or two.  In `server`
one `epoll_wait` returns up to two events, so a dispatch loop is interrupted
between them, and one of the two requests may be incomplete.  `server_shutdown_aborts` has no request
and one thread.  `connections` has two clients, one that sends its request in two
parts and one that may leave early, both with bytes beyond ASCII, which are cut inside a character or are no UTF-8
at all; two descriptors and a queue of two handlers: enough for two handlers on
one descriptor, a stale event, and a descriptor closed and used again.  `write_path` has
three requests: a batch of two keys, one key written again, and a batch whose second
item has a number for its key, which throws, and no value, which ends the process: the order of the two
look-ups is the compiler's.

In `playground` the batch has three chunks, two of them of one priority, and two workers; the
byte order server has two connections in a row, each with one of five messages
(two whole ones, a short body, a wrong checksum, a wrong magic), against both builds of the
server, and the portions of the stream have every size; the key moves run three times on the same
database, since only a second run meets what the first left, and only a third one what a second left half-done;
the client has two threads with a request each, whose
parts and answers can be cut once.

In `libraries` addresses and sizes are in granules of `MALLOC_ALIGNMENT`.  The parameters of the
allocator are scaled down with their order kept: a page of 10 granules, direct mmap
from 6, trimming from 12, small chunks of 2 and 3, four tree bins.  `Surroundings` are five processes: one where only mmap
has room, two where only sbrk has (two and three blocks held), one with a
footprint limit, one with both whose mmap room is right above the break, so that
regions of both kinds touch; in the first each call of `munmap` and `mremap` may fail by itself.  The requests have a
small, a largest small, a large and a directly mapped size.  With these every
function of the interface runs and all but three of its branches: a region prepended to a segment that
starts with the designated victim, an sbrk region just below a segment, and a trim refused because a segment
record lies in top's own segment need more memory than the instance has.  A heap
of this size has shallow tries, which is why the bins run alone too, with eight chunks of seven sizes, three of
them equal, in all bins.  `compute_tree_index` keeps the size, shifted right, in an `unsigned int`, so it gives a
free chunk of one terabyte or more the bin of a smaller size, although "the last bin holds anything larger"
(`malloc.c:2557`).  The model truncates as the code does (`IntBits`; 32 bits and 32 bins
are 3 bits and 4 bins in the runs), and what it says of the tree bins is about the sizes below, `LargeSize`.
The back ends have two descriptors, which close and open again, and two entries.

The violation runs use the smallest instance that shows the behaviour, or the passing run's.

Fairness.  Every thread keeps running and a task returns or ends the process, so each thread's steps are
weakly fair; `epoll_wait` has a timeout of one second.  In `PlayPool` fairness is
strong, since the mutex is a variable there and a thread that waits for it is
granted it eventually.  In `Connections` a client that is waiting sees its
stream end; no client has to connect, send or leave before.  In `WritePath` a store deals with the commands it has received.
In `Framing` a stream brings bytes or ends: the program has no
timeout, so a client that stays silent for ever would hold up all others, and the run
says nothing of that.  In `BenchmarkClient` the server promises nothing.
Calls, signals, spurious wakeups, refusals, thread creation failures and broken
connections are never fair.  `KeyMove`, `Heap`, `TreeBinUse` and `IoMultiplexing` have only safety
properties.

Deadlock is checked in the passing runs; a process or a pool that has ended
stutters in an action that says so.  `playground` and `batch_lost_wakeup` turn the check off,
because the programs really stop there.

## 4. Proofs

The theorems hold for every value of the constants that satisfies the modules' named
assumptions and what the statement asks for.  "Finite" means that the
sets of threads, chunks or connections are.

| module | theorem | statement |
|---|---|---|
| `ThreadPoolProofs` | `TypeCorrect` | `Spec => []TypeOK` |
| | `TasksAreKept` | `Spec => []NothingLostOrRunTwice` |
| | `PoolImplementsQueue` | `Spec => ImplementsTaskQueue` |
| | `ExitIsFinal` | one resizing thread: `Spec => []ExitedDrained` |
| | `ResizeNeverAborts` | one resizing thread: `Spec => []OnlyDestructorAborts` |
| | `DestructorDrains` | one resizing thread: `Spec => []DestroyedDrained` |
| `ServerProofs` | `ServerTypeCorrect` | `ServerSpec => []ServerTypeOK` |
| | `ServiceNeverAborts` | `ServerSpec => []NoAbortInService` |
| | `ExitServesAll` | `ServerSpec => []ExitedServed` |
| | `CleanupDrains` | `ServerSpec => []CleanupAfterDrain` |
| | `ServerKeepsRequests` | `ServerSpec => []NothingLostOrRunTwice /\ ImplementsTaskQueue` |
| `ConnectionsProofs` | `NobodyIsDropped` | `Spec => NoneDropped` |
| | `AnswersAreOwn` | finite pools: `Spec => []OwnAnswer` |
| | `RequestsRunOnce` | `Spec => []ExecutedOnce` |
| `WritePathProofs` | `TypeCorrect` | `Spec => []TypeOK` |
| | `AcknowledgedIsStored` | `Spec => []AckedStored` |
| | `BatchesArePrefixes` | `Spec => []BatchPrefix` |
| | `CacheFollowsDatabase` | `Spec => []CacheAgrees` |
| | `RefusalsAreTold` | `Spec => []FailuresTold` |
| `PlaygroundProofs` | `ChunksAreKept` | finite: `ChunksKept` |
| | `ResultIsAlive` | finite: `ResultOutlivesTasks` |
| | `FullSumIsPrinted` | finite: `PrintsFullSum`, of the batches and of the futures |
| | `EverySocketIsClosed` | `SocketsClosed` |
| | `EveryRequestCounts` | finite: `ResultCounts` |
| | `ValueKept` | `Deleted` is no number: `MoveKeepsValue` |
| | `BatchIsAtomic` | the same: `MoveIsAtomic` |
| `FramingProofs` | `BuffersAreFreed` | finite: `BuffersFreed` |
| | `PrintedAsSent` | `Verdict` |
| `LibrariesProofs` | `BackEndsAgree` | descriptors are integers: `SameReads`, `PollLikeEpoll`, `BackendsAgree` |
| | `TreesAreSound` | `TreeSpec => []TreesSound` |
| | `BestFit` | `TreeSpec => []BestFitFound` |
| | `TreeBinsAreSound` | `Spec => []TreeBinsSound` |

The theorems of the last three modules say that the formula is an invariant of the program's
own specification and of the composition the run checks (`PlaySpec`, `Libraries!Spec`); for
the tree bins these are separate theorems.

Assumptions.  The pool and the server: who may call what, that `NoTask` is no task, and that
sizes are numbers.  "One resizing thread" is true of the server, where only main resizes, so
its theorems have no such hypothesis.  The byte order server: the layouts are those that the
compilers produce, every field has the bytes of its type, and no client sends more body than
it has, as the clients of the repository do.  The write path: an item belongs to one request,
once, and pools are finite.  The connections: a request has at least one part, and descriptors
are positive.  The tree bins: an even number of bins, an `unsigned int` that can tell them apart
(32 bits and 32 bins in the code) and is not wider than what a size has above `TREEBIN_SHIFT`, and
large sizes below a terabyte; `Chunk`, finite or not, their sizes and the sizes searched for are any.

**The pool.**  The proofs are about `PoolStep`, a step of a worker or of a caller, whoever
calls, so that they hold for the server too.  The argument goes in layers.  `TypeInv` is
`TypeOK` with the facts about the join loops' indices.  `PlaceInv` says that the histories are
split exactly by the queue and by the workers' hands; `NothingLostOrRunTwice` follows.
That a worker leaves its loop only with an empty queue and a closed door
is not inductive: `resize` resets `stop_`
without the mutex, and one has to know that no thread has exited then and that
no other thread is in the same phase.  `RebuildInv` says where in its method
the resizing thread is when workers are gone, that all of the indices it has passed are joined, and that the
vector is empty between `clear` and the last `emplace_back`, also when a thread cannot be created; with two resizing
threads it is false, hence the hypothesis.  `DrainInv` relates the destructor's position to
the joined prefix of the vector, and uses that a pool that has threads
leaves no task behind: the last worker to exit has seen the queue empty.  The
refinement maps `active` to the closures in the workers' hands and
uses `PlaceInv` for the guards of `Submit`, `Start` and `Finish`.

**The server.**  Every step of the server is a `PoolStep` or leaves the pool's variables alone,
so the pool's invariants hold of it; a call of a pool method is one step with the statement
that makes it.  What is left, `ServerInv`, says how far the two threads are with each other.
`MainCall` and `RunCall` tie each thread's position in the pool's methods to its position in
the server's, `Phases` orders the process's life, `Quiet` says that
before the service starts main alone stops the pool and joins its threads, each of them once, `Service` that without a reload `stop_` is
false until `cleanup` sets it, and `CleanupJoins` and `CleanupJoined` carry the join loop of
`cleanup`: what it has passed has exited, with an empty queue.  `CleanupAfterDrain` is the point:
the databases are closed behind a join loop that may run at the same time as the destructor's.
A request can end the process at any moment of its run (`RequestSteps`).  In service that is one
of the excuses of `NoAbortInService`, and the other two belong to a reload; what the proof adds is that there is no fourth: until `cleanup` or the
destruction begins, nobody but main joins or destroys a thread, and the handles stay open.

**Connections.**  `NoneDropped` is about the step that closes, and the reason for it lies
some steps back: `DropInv` says that a handler about to close a descriptor that was not reused
under it finds behind it a client that has closed, or one with an answer.  The stream has ended or the answer was sent on that
connection; no other handler can have put a new one there without `accept`, which would have marked the number as
reused; and what a client is done with it stays done with (`DoneStays`).  `OwnAnswer` is
about one worker: everything its handler has read came from the connection its
descriptor refers to *now* (`OwnData`), which holds because only that worker closes
descriptors, and `accept` does not give out one that is in use; an answer that throws is therefore
made of one client's bytes, who had some beyond ASCII among them.  `ExecutedOnce` holds with any
number of workers, who may read parts of one request into different hands.  `ReadInv` counts:
the parts of a client that it has still to send, that are in the receive buffer and that
handlers hold make up its request at most, where the last are a set of pairs of a handler and a position
in its `data`, so that the finite set lemmas apply.  A handler whose data are a whole request
therefore holds all its parts, and nobody else ever will: `ExecInv` says that after the
execution nothing is left (`Spent`) but what that handler is about to drop.

**Write path.**  `AckedStored` is not inductive: that a client is told of success at the end of a
batch says nothing unless everything before it is known to be stored, and that the worker may go
on after a good reply says nothing unless the reply is its own.  The strengthening
`OneInv` has these two parts: what a worker has behind it is in both stores
(`Behind`), and a usable connection is empty or carries exactly the command of the
worker that waits, or its reply, in which case the item is stored (`Matched`).
With a second worker `Matched` is false, which is why the theorem, like the property, is
about one.  Stores only grow, so the steps of a store keep what is `Behind`, and
a broken connection carries nothing that could be read.  `BatchPrefix` needs more, since
a command may be executed after its connection was lost and its request failed:
`OrderInv` says of commands on their way as well as of stored items that
MySQL's come after Redis has the item, and Redis's after both have everything before it.

`CacheAgrees` compares the newest entries of two logs.  `FreshInv` says that commands on their way are of
requests that were taken, and that what a worker is about to send is not on its way already, so that
no late command can be a second copy of one already stored; `NewestInv` says that a command
on its way to MySQL is of the newest item that Redis has under its key, unless that one is not in MySQL,
and that where it is, it is MySQL's newest too.

`FailuresTold` is about any number of workers, whose replies may be swapped.  A connection's
`Debt` is what it still owes of bad news: while it is up, the replies FALSE that wait to be read; when it is
down, the workers who wait for it less the commands that were never executed.  `Paid` says that
refusals are at most failed requests and debts together; when nobody waits no debt is left.

**Batch.**  The numbers of chunks still in the loop, in the queue, in the hands of running
workers and added make up the whole, and the four are disjoint (`ChunkInv`).  The last task to be
counted notifies, so past the wait all are added (`BatchMain`) and none is
left to touch the `Result`.  With futures, main has passed only those that are ready
(`FutureInv`), and what is ready was added.

**Client.**  A thread has one socket exactly between `socket` and `close` (`SocketInv`).  For the
counters, the pairs of a thread and a request that it is past are as many as successes
and failures together; when every thread has ended these are all pairs.

**Byte order server.**  The buffers in memory are those of the connections with too small a
body, and one more while a body is read (`BuffersInv`).  The count only steps with the
connection in service, so one needs that a connection is in one place (`ServedInv`).
`Verdict` says of every client, every message and every portion in which the stream is read
what the server makes of it.  `StreamInv` says that what the server has read is the beginning of what
the client wrote and where the header ends in it.  The rest is about bytes: extracting the fields of a
serialized structure gives them back, whatever the gaps hold (`RoundTrip`, proved from the
offsets that `ServerLayouts` computes), so a server of the client's layout sees the fields
sent (`SameLayout`).  A server of the other layout reads a length from the wrong place
(`OtherLayout`): 0, of padding and the high bytes of the true length, and the message is refused as too small, or at least
131072, and the stream ends before such a body does.  That is why it never prints.

**Key move.**  Every record of the log is judged by those before it: a copy has the value that
`key1` had just before, and `key1` is deleted together with its copy or right after it.  A
prefix of such a log is such a log, which is why power losses do no harm, and a new run appends to one.  The
atomicity of the batch uses that each run puts a new value.

**Back ends.**  The kernel has each socket in its interest list at most once, and for READ
alone while nothing else was asked for (`EventInv`).  As long
as sockets are removed before they are closed, `PollInv` says that the vector of `pollfd`s has the entries that
were added, and `SelectInv` that the set of READ descriptors has those added for READ, all below `max_fd`.
Then the three `wait`s go through the same sockets.

**Tree bins.**  The state is a function from nodes to rings, and `TreeInv` says that it is a trie
(`Trie`: a node lies on the way of its size, with every node above it, its ring is of one size, and no two
nodes have the same), that it holds the chunks put in, and that a ring is in the order of time (`RingOrder`).
`TreesSound` alone is not inductive: it does not say that a ring has a chunk only once, and of a ring
with a repetition `unlink_large_chunk` would leave a chunk that is not binned any more.  The delicate step is the other
one of `unlink_large_chunk`, where the ring of a leaf moves up to the place of the node that is removed: the leaf is below,
so that its way begins with that place, and it has no node below that would hang on nothing (`LeafMoved`).
An insertion ends at the node of its size or at a free place: a way that
is used up is the whole size (`WholeWay`), so no two sizes compete for one place (`PlaceIs`).
`BestFitFound` is about numbers.  Bins are in the order of their sizes (`IndexOrder`), sizes that
part at a turn are in the order of the turn (`LeftIsSmaller`), so what is larger than the size looked
for is on its way, to the right of it, or in a later bin (`Divergence`).  Everything in a subtree that
branched off to the right deeper down is smaller than in one that branched off before (`DeepestRight`), and the least of a subtree
is on its chain of leftmost children, though not at the end of it (`LeastOnChain`); `VisitedBest`
puts this together: for every chunk that is large enough the code looks at one that is not larger.  The unsigned comparison of
remainders tells which are large enough (`FitsAre`), and the first of a ring is its oldest.  Powers of two
are a function of the module, `Pow2`, because the provers know nothing of `^`; the lemmas about
shifts come from its recursion.

Only model-checked:

* everything about liveness, and the deadlock freedom of the runs: fairness and `ENABLED` are out of the
  prover's reach;
* `HeapTiled`, `BinnedOnce`, `PagesOwned` and the refinement of `Allocator`.  None of them is inductive alone:
  a call finds the neighbours of a chunk through heads and feet, so each needs that the others hold before
  every one of the some thirty operators a call is made of, and in between, where they are broken on purpose.
  They also count with sums over the segments and the bins, and `BulkFree`, `IndependentCalloc` and the
  release of segments are folds: what a fold or a sum is after a step is induction over data, which the
  installed provers do not do by themselves.  Of the tree bins inside `Heap` the theorems say what the operators do to a
  trie that is in order; that the heap always hands them such a one is in `BinnedOnce`.

## 5. Not modelled, and the plan

Left out of the modelled parts: failure of `epoll_create1` and of allocation, and of the threads
that the constructor of the pool starts; growth of the vector of workers while another
thread iterates over it (the loop would read freed memory); crash signals; the
counter values and chunk borders of the sums; the values of the settings.

In `Connections` a response fits one `send`, `epoll_ctl` on a fresh descriptor succeeds, and parsing is a
test whether the parts are one client's, all of them, and well encoded.  Its clients send no incomplete
items, since these end the process: they are in `WritePath` and `ServerLifecycle`.  In `WritePath` `query` and
`getCache` are left out, since nothing calls them; what a corrupted handle does is
one step, `Crash`.  A handle whose connection was lost stays unusable, as in the code:
neither is connected again, and no Redis command has a timeout.  In `Framing` the
dump of the raw header is left out; it is called the original packet and shows the
header after its conversion to host order.  A body that is too small leaves the
loop without `delete[]`, which `BuffersFreed` counts.  `IoMultiplexing` leaves out `MAX_EVENTS`
and failing system calls, `BenchmarkClient` the times and the payload.

dlmalloc is modelled as the default build has it.  Left out are mspaces (the same code
on a heap of its own), locks and footers (off by default), `independent_comalloc` (`ialloc` with
unequal sizes), `mallopt`, and the functions that only inspect the heap.

Some hazards of `PROJECT.json` have no property, or only part of one, because the code does go wrong there
and no document denies it: the wait of `resize`, a forgotten SIGHUP, the logger, the silent peers of the
client and of the byte order server.  The models have these behaviours, and the provisos above name them;
the growth of the vector under a join loop is left out.

For good reasons not modelled at all:

* spdlog, fmt and json.hpp, third-party headers that make up most of the
  repository's lines: the server uses them to write logs and to parse one document, and
  what it needs of them is in the models of their callers.  What the logger adds,
  a shared pointer that a reload replaces, is in `ServerLifecycle`.
* the counters, the ping-pong, the signal driven programs: one step at a time, in one
  order; a model would restate them line by line.
* the mutex ownership test, whose outcome is undefined.
* socket and storage experiments, leaks on purpose, probes, scripts, recorded results,
  manifests, PDFs: straight-line I/O, or no program.

What could still be done, in order of use:

1. `Connections` as an implementation of an abstract service that takes each request
   once and drops nobody; its safety is in `RequestsRunOnce`, `NobodyIsDropped` and
   `AnswersAreOwn`.
2. The tiling of `Heap` by its chunks, for one segment and without the bins, to which the theorems
   about tries would then be added.
