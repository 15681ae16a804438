----------------------------- MODULE Playground -----------------------------
(***************************************************************************)
(* The programs that run by themselves, side by side: one of them is       *)
(* started and runs to its end.  The variables of the others stay as they  *)
(* are at the start.  The two programs with a pool share its variables.    *)
(***************************************************************************)
EXTENDS Framing, PlayPool

VARIABLES program  \* "framing", "batch", "async", "move" or "client"

framingVars == vars

(* BatchSum and AsyncSum; mpc is where main is in either. *)
VARIABLES mpc, todo, done, sum, live, early
VARIABLES futures, ready, next, total

batchVars == <<todo, done, sum, live, early>>
asyncVars == <<futures, ready, next, total>>

Batch == INSTANCE BatchSum WITH printed <- sum
Async == INSTANCE AsyncSum WITH ByPriority <- FALSE

(* KeyMove *)
CONSTANTS Programs, Deleted, MaxRuns
VARIABLES test, at, runs, value, log, durable

moveVars == <<test, at, runs, value, log, durable>>

Move == INSTANCE KeyMove WITH program <- test

(* BenchmarkClient *)
CONSTANTS Thread, Requests, MaxRetries
VARIABLES rpc, bpc, req, tries, socks, sent, got
VARIABLES success_count_, error_count_, latencies, answer, arrived, peer

clientVars == <<rpc, bpc, req, tries, socks, sent, got,
                success_count_, error_count_, latencies, answer, arrived, peer>>

Client == INSTANCE BenchmarkClient WITH ready <- arrived

playVars == <<program, framingVars, pool, mpc, batchVars, asyncVars, moveVars, clientVars>>

-----------------------------------------------------------------------------
NoFraming ==
    /\ packed = TRUE /\ message = [c \in Conn |-> CHOOSE m \in Message : TRUE]
    /\ backlog = << >> /\ spc = "accept" /\ cur = NoConn
    /\ want = 0 /\ buf = << >> /\ header = << >> /\ read = 0 /\ buffers = 0
    /\ outcome = [c \in Conn |-> "none"] /\ printed = [c \in Conn |-> Nothing]
NoPool ==
    /\ tasks = << >> /\ task_mtx = Nobody /\ stop_ = FALSE
    /\ wpc = [w \in Worker |-> "exited"] /\ wtask = [w \in Worker |-> NoTask]
    /\ missed = {} /\ mpc = "none"
NoBatch == todo = {} /\ done = {} /\ sum = {} /\ live = FALSE /\ early = FALSE
NoAsync == futures = << >> /\ ready = {} /\ next = 0 /\ total = {}
NoMove ==
    /\ test = "none" /\ at = "down" /\ runs = 0 /\ value = Deleted
    /\ log = << >> /\ durable = 0

PlayInit ==
    /\ \/ program = "framing" /\ Init /\ NoPool /\ NoBatch /\ NoAsync /\ NoMove
       \/ program = "batch" /\ Batch!Init /\ NoFraming /\ NoAsync /\ NoMove
       \/ program = "async" /\ Async!Init /\ NoFraming /\ NoBatch /\ NoMove
       \/ program = "move" /\ Move!Init /\ NoFraming /\ NoPool /\ NoBatch /\ NoAsync
       \/ program = "client" /\ NoFraming /\ NoPool /\ NoBatch /\ NoAsync /\ NoMove
    /\ Client!Init

InFraming(step) ==
    /\ program = "framing" /\ step
    /\ UNCHANGED <<program, pool, mpc, batchVars, asyncVars, moveVars, clientVars>>

InBatch(step) ==
    /\ program = "batch" /\ step
    /\ UNCHANGED <<program, framingVars, asyncVars, moveVars, clientVars>>

InAsync(step) ==
    /\ program = "async" /\ step
    /\ UNCHANGED <<program, framingVars, batchVars, moveVars, clientVars>>

InMove(step) ==
    /\ program = "move" /\ step
    /\ UNCHANGED <<program, framingVars, pool, mpc, batchVars, asyncVars, clientVars>>

InClient(step) ==
    /\ program = "client" /\ step
    /\ UNCHANGED <<program, framingVars, pool, mpc, batchVars, asyncVars, moveVars>>

PlayNext ==
    \/ InFraming(Next) \/ InBatch(Batch!Next) \/ InAsync(Async!Next)
    \/ InMove(Move!Next) \/ InClient(Client!Next)

(* The fairness of each program, while it is the one that runs. *)
Fairness ==
    /\ WF_playVars(InFraming(ServerStep))
    /\ SF_playVars(InBatch(Batch!MainStep))
    /\ SF_playVars(InAsync(Async!MainStep))
    /\ \A w \in Worker : /\ SF_playVars(InBatch(Batch!WorkerStep(w)))
                         /\ SF_playVars(InAsync(Async!WorkerStep(w)))
    /\ WF_playVars(InClient(Client!RunStep))
    /\ \A t \in Thread : WF_playVars(InClient(Client!ThreadStep(t)))

PlaySpec == PlayInit /\ [][PlayNext]_playVars /\ Fairness

-----------------------------------------------------------------------------
(* The properties of the programs, each for the program it is about; the   *)
(* modules of the programs say what they mean.  Those of Framing keep      *)
(* their names.                                                            *)

(* Every chunk of the batch is in one place until it is in the sum.        *)
ChunksKept == program = "batch" => Batch!ChunksKept

(* Both programs print the sum of all chunks: the batch unless its wait    *)
(* returned by itself, the program with futures always.                    *)
PrintsFullSum ==
    /\ program = "batch" => Batch!PrintsFullSum
    /\ program = "async" => Async!PrintsFullSum

(* No task of the batch uses the Result after main has destroyed it.       *)
ResultOutlivesTasks == program = "batch" => Batch!ResultOutlivesTasks

(* Every task that was enqueued runs: the batch adds all its chunks, the   *)
(* futures all become ready.                                               *)
TasksComplete ==
    /\ program = "batch" => Batch!ChunksAdded
    /\ program = "async" => Async!FuturesReady

(* The programs end: the destructor of the pool returns, unless a worker   *)
(* missed the notification because stop_ is set without the mutex, and the *)
(* benchmark is over, unless a thread waits for ever for a silent server.  *)
ProgramsEnd ==
    /\ program = "batch" => Batch!PoolEnds
    /\ program = "async" => Async!PoolEnds
    /\ program = "client" => Client!RunEnds

(* A value moved in one batch is never seen under both keys.               *)
MoveIsAtomic == program = "move" => Move!MoveIsAtomic

(* A value that is moved is never lost.                                    *)
MoveKeepsValue == program = "move" => Move!MoveKeepsValue

(* The benchmark's result accounts for every request once.                 *)
ResultCounts == program = "client" => Client!ResultCounts

(* A request's socket is closed exactly once on every path.                *)
SocketsClosed == program = "client" => Client!SocketsClosed
=============================================================================
