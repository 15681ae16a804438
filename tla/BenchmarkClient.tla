-------------------------- MODULE BenchmarkClient --------------------------
(***************************************************************************)
(* The benchmark client of the ioserver (client.cpp): run starts the       *)
(* threads, each sends its requests one after the other over a connection  *)
(* of its own, and main prints the counts when all have been joined.       *)
(*                                                                         *)
(* A request and an answer have two parts, so that either can be cut.  The *)
(* server is seen from here: it answers what it has read, success only for *)
(* a whole request, and may close or be killed at any time.  A vector is   *)
(* pushed to under latencies_mutex, which nothing else needs: one step.    *)
(***************************************************************************)
EXTENDS Naturals, FiniteSets

CONSTANTS Thread,     \* the client's threads
          Requests,   \* requests_per_thread_
          MaxRetries  \* how often connect is tried: 3 in the code

VARIABLES rpc,     \* where run is: start, join, done, aborted
          bpc,     \* where a thread is
          req,     \* the request it is at
          tries,   \* retry_count
          socks,   \* how many sockets it has open
          sent,    \* parts of the request sent (total_sent)
          got,     \* parts of the answer received (response_data)
          success_count_, error_count_, latencies,
          answer,  \* what the server answers on the connection: none, success, error
          ready,   \* parts of the answer that have arrived and are not received
          peer     \* the server's end: none, open, closed, reset

threadVars == <<bpc, req, tries, socks, sent, got>>
counts == <<success_count_, error_count_, latencies>>
serverVars == <<answer, ready, peer>>
vars == <<rpc, threadVars, counts, serverVars>>

TypeOK ==
    /\ rpc \in {"start", "join", "done", "aborted"}
    /\ bpc \in [Thread -> {"new", "loop", "connect", "send", "recv", "parse", "count", "failed", "exited"}]
    /\ req \in [Thread -> 0..Requests] /\ tries \in [Thread -> 0..MaxRetries]
    /\ socks \in [Thread -> Nat]
    /\ sent \in [Thread -> 0..2] /\ got \in [Thread -> 0..2] /\ ready \in [Thread -> 0..2]
    /\ answer \in [Thread -> {"none", "success", "error"}]
    /\ peer \in [Thread -> {"none", "open", "closed", "reset"}]

Init ==
    /\ rpc = "start" /\ bpc = [t \in Thread |-> "new"]
    /\ req = [t \in Thread |-> 0] /\ tries = [t \in Thread |-> 0]
    /\ socks = [t \in Thread |-> 0] /\ sent = [t \in Thread |-> 0] /\ got = [t \in Thread |-> 0]
    /\ success_count_ = 0 /\ error_count_ = 0 /\ latencies = 0
    /\ answer = [t \in Thread |-> "none"] /\ ready = [t \in Thread |-> 0]
    /\ peer = [t \in Thread |-> "none"]

Running == rpc \in {"start", "join"}
At(t, label) == Running /\ bpc[t] = label
Goto(t, label) == bpc' = [bpc EXCEPT ![t] = label]
CloseSocket(t) ==
    /\ socks' = [socks EXCEPT ![t] = @ - 1]
    /\ peer' = [peer EXCEPT ![t] = "none"]

-----------------------------------------------------------------------------
(* run *)

StartThread(t) ==
    /\ rpc = "start" /\ bpc[t] = "new"
    /\ Goto(t, "loop")
    /\ rpc' = IF \E u \in Thread \ {t} : bpc[u] = "new" THEN "start" ELSE "join"
    /\ UNCHANGED <<req, tries, socks, sent, got, counts, serverVars>>

(* The thread cannot be created: the vector of joinable threads is         *)
(* destroyed, and the process is gone with all its sockets.                *)
StartThreadFails ==
    /\ rpc = "start"
    /\ rpc' = "aborted"
    /\ UNCHANGED <<threadVars, counts, serverVars>>

(* Broken JoinAll: the result is read when the threads have been started.  *)
JoinNone ==
    /\ rpc = "join" /\ rpc' = "done"
    /\ UNCHANGED <<threadVars, counts, serverVars>>

JoinAll ==
    /\ rpc = "join" /\ \A t \in Thread : bpc[t] = "exited"
    /\ rpc' = "done"
    /\ UNCHANGED <<threadVars, counts, serverVars>>

-----------------------------------------------------------------------------
(* The thread's loop.  The locals of sendRequest are gone when it returns. *)

LocalsGone(t) ==
    /\ tries' = [tries EXCEPT ![t] = 0]
    /\ sent' = [sent EXCEPT ![t] = 0] /\ got' = [got EXCEPT ![t] = 0]
    /\ answer' = [answer EXCEPT ![t] = "none"] /\ ready' = [ready EXCEPT ![t] = 0]

LoopEnds(t) ==
    /\ At(t, "loop") /\ req[t] = Requests
    /\ Goto(t, "exited")
    /\ UNCHANGED <<rpc, req, tries, socks, sent, got, counts, serverVars>>

CountSuccess(t) ==
    /\ At(t, "count")
    /\ success_count_' = success_count_ + 1 /\ latencies' = latencies + 1
    /\ req' = [req EXCEPT ![t] = @ + 1] /\ Goto(t, "loop") /\ LocalsGone(t)
    /\ UNCHANGED <<rpc, socks, error_count_, peer>>

CountError(t) ==
    /\ At(t, "failed")
    /\ error_count_' = error_count_ + 1
    /\ req' = [req EXCEPT ![t] = @ + 1] /\ Goto(t, "loop") /\ LocalsGone(t)
    /\ UNCHANGED <<rpc, socks, success_count_, latencies, peer>>

-----------------------------------------------------------------------------
(* sendRequest *)

CreateSocket(t) ==
    /\ At(t, "loop") /\ req[t] < Requests
    /\ \/ Goto(t, "connect") /\ socks' = [socks EXCEPT ![t] = @ + 1]
       \/ Goto(t, "failed") /\ UNCHANGED socks
    /\ tries' = [tries EXCEPT ![t] = MaxRetries]
    /\ UNCHANGED <<rpc, req, sent, got, counts, serverVars>>

Connect(t) ==
    /\ At(t, "connect") /\ tries[t] > 0
    /\ tries' = [tries EXCEPT ![t] = @ - 1]
    /\ \/ Goto(t, "send") /\ peer' = [peer EXCEPT ![t] = "open"]
       \/ UNCHANGED <<bpc, peer>>
    /\ UNCHANGED <<rpc, req, socks, sent, got, counts, answer, ready>>

(* Broken ConnectGivesUp: the socket is not closed.                        *)
ConnectGivesUpOpen(t) ==
    /\ At(t, "connect") /\ tries[t] = 0
    /\ Goto(t, "failed")
    /\ UNCHANGED <<rpc, req, tries, socks, sent, got, counts, serverVars>>

ConnectGivesUp(t) ==
    /\ At(t, "connect") /\ tries[t] = 0
    /\ CloseSocket(t) /\ Goto(t, "failed")
    /\ UNCHANGED <<rpc, req, tries, sent, got, counts, answer, ready>>

(* A send to an end that the server has closed still succeeds once.        *)
SendSome(t) ==
    /\ At(t, "send") /\ sent[t] < 2 /\ peer[t] # "reset"
    /\ \E n \in 1..(2 - sent[t]) :
          /\ sent' = [sent EXCEPT ![t] = @ + n]
          /\ Goto(t, IF sent[t] + n = 2 THEN "recv" ELSE "send")
    /\ UNCHANGED <<rpc, req, tries, socks, got, counts, serverVars>>

SendFails(t) ==
    /\ At(t, "send") /\ peer[t] # "open"
    /\ CloseSocket(t) /\ Goto(t, "failed")
    /\ UNCHANGED <<rpc, req, tries, sent, got, counts, answer, ready>>

RecvSome(t) ==
    /\ At(t, "recv") /\ ready[t] > 0 /\ peer[t] # "reset"
    /\ \E n \in 1..ready[t] :
          /\ got' = [got EXCEPT ![t] = @ + n]
          /\ ready' = [ready EXCEPT ![t] = @ - n]
    /\ UNCHANGED <<rpc, bpc, req, tries, socks, sent, counts, answer, peer>>

(* Broken RecvEnds: recv's 0 ends the loop only after a whole answer.      *)
RecvWaits(t) ==
    /\ At(t, "recv") /\ got[t] = 2 /\ peer[t] = "closed"
    /\ CloseSocket(t) /\ Goto(t, "parse")
    /\ UNCHANGED <<rpc, req, tries, sent, got, counts, answer, ready>>

RecvEnds(t) ==
    /\ At(t, "recv") /\ ready[t] = 0 /\ peer[t] = "closed"
    /\ CloseSocket(t) /\ Goto(t, "parse")
    /\ UNCHANGED <<rpc, req, tries, sent, got, counts, answer, ready>>

RecvFails(t) ==
    /\ At(t, "recv") /\ peer[t] = "reset"
    /\ CloseSocket(t) /\ Goto(t, "failed")
    /\ UNCHANGED <<rpc, req, tries, sent, got, counts, answer, ready>>

(* What was received is the success of a whole answer, or json::parse, the *)
(* status or the missing message make it a failure.                        *)
ParseAnswer(t) ==
    /\ At(t, "parse")
    /\ Goto(t, IF got[t] = 2 /\ answer[t] = "success" THEN "count" ELSE "failed")
    /\ UNCHANGED <<rpc, req, tries, socks, sent, got, counts, serverVars>>

-----------------------------------------------------------------------------
(* The server. *)

Answer(t) ==
    /\ Running /\ peer[t] = "open" /\ answer[t] = "none" /\ sent[t] > 0
    /\ \E a \in IF sent[t] = 2 THEN {"success", "error"} ELSE {"error"} :
          answer' = [answer EXCEPT ![t] = a]
    /\ \E n \in 1..2 : ready' = [ready EXCEPT ![t] = n]
    /\ UNCHANGED <<rpc, threadVars, counts, peer>>

(* The rest of the answer arrives. *)
AnswerArrives(t) ==
    /\ Running /\ peer[t] = "open" /\ answer[t] # "none" /\ got[t] + ready[t] = 1
    /\ ready' = [ready EXCEPT ![t] = @ + 1]
    /\ UNCHANGED <<rpc, threadVars, counts, answer, peer>>

ServerCloses(t) ==
    /\ Running /\ peer[t] = "open"
    /\ \E how \in {"closed", "reset"} : peer' = [peer EXCEPT ![t] = how]
    /\ UNCHANGED <<rpc, threadVars, counts, answer, ready>>

-----------------------------------------------------------------------------
ThreadStep(t) ==
    \/ LoopEnds(t) \/ CountSuccess(t) \/ CountError(t)
    \/ CreateSocket(t) \/ Connect(t) \/ ConnectGivesUp(t)
    \/ SendSome(t) \/ SendFails(t)
    \/ RecvSome(t) \/ RecvEnds(t) \/ RecvFails(t) \/ ParseAnswer(t)

RunStep == JoinAll \/ \E t \in Thread : StartThread(t)

ServerStep(t) == Answer(t) \/ AnswerArrives(t) \/ ServerCloses(t)

Next ==
    \/ RunStep \/ StartThreadFails
    \/ \E t \in Thread : ThreadStep(t) \/ ServerStep(t)

(* The threads and run are scheduled; the server promises nothing.         *)
Spec ==
    /\ Init /\ [][Next]_vars
    /\ WF_vars(RunStep) /\ \A t \in Thread : WF_vars(ThreadStep(t))

-----------------------------------------------------------------------------
(* The printed result accounts for every request, and its average is over  *)
(* the latencies of exactly the requests it counts as successes.           *)
ResultCounts ==
    rpc = "done" =>
        /\ success_count_ + error_count_ = Cardinality(Thread) * Requests
        /\ latencies = success_count_

(* No path through sendRequest leaves its socket open or closes it twice:  *)
(* a thread has one while it is between socket and close, else none.       *)
SocketsClosed ==
    \A t \in Thread : socks[t] = IF bpc[t] \in {"connect", "send", "recv"} THEN 1 ELSE 0

(* The run ends, unless a thread waits for ever for a server that keeps    *)
(* the connection open: recv has no timeout.                               *)
WaitsForServer(t) == bpc[t] = "recv" /\ peer[t] = "open" /\ ready[t] = 0

RunEnds == <>(rpc \in {"done", "aborted"}) \/ \E t \in Thread : <>[]WaitsForServer(t)
=============================================================================
