-------------------------- MODULE WritePathProofs --------------------------
(***************************************************************************)
(* What holds of WritePath for every set of requests and batches, whatever *)
(* the stores refuse and whichever connection is lost: the domains of the  *)
(* variables; with one worker, that a client told of success has its items *)
(* in both stores, that a failed batch leaves a prefix of itself and that  *)
(* the cache differs from the database only by what was not acknowledged;  *)
(* and with any number of workers, that every refusal makes a request fail.*)
(***************************************************************************)
EXTENDS WritePath, SequenceTheorems, FiniteSetTheorems, WellFoundedInduction, TLAPS

-----------------------------------------------------------------------------
(* TypeOK in the parts that different steps touch. *)
WorkersOK ==
    /\ todo \subseteq Request
    /\ wpc \in [Worker -> {"idle", "call", "wait"}]
    /\ wreq \in [Worker -> Request \cup {NoRequest}]
    /\ \A w \in Worker : wpc[w] = "idle" <=> wreq[w] = NoRequest
    /\ wpos \in [Worker -> Nat \ {0}] /\ wstore \in [Worker -> Store]
    /\ \A w \in Worker : wpc[w] = "wait" => HasItem(w)
    /\ answer \in [Request -> {"none", "success", "error"}]

ChannelsOK ==
    /\ up \in [Store -> BOOLEAN]
    /\ sent \in [Store -> Seq(Item)] /\ replies \in [Store -> Seq(BOOLEAN)]

HistoryOK == log \in [Store -> Seq(Item)] /\ refused \in [Store -> SUBSET Item]

ProcessOK == pool \in Pools /\ crashed \in BOOLEAN

LEMMA TypeParts == TypeOK <=> ProcessOK /\ WorkersOK /\ ChannelsOK /\ HistoryOK
  BY DEF TypeOK, ProcessOK, WorkersOK, ChannelsOK, HistoryOK

LEMMA TypePartsNext == TypeOK' <=> (ProcessOK /\ WorkersOK /\ ChannelsOK /\ HistoryOK)'
  BY DEF TypeOK, ProcessOK, WorkersOK, ChannelsOK, HistoryOK, HasItem

LEMMA TypeInit == Init => TypeOK
  <1> SUFFICES ASSUME Init PROVE TypeOK
    OBVIOUS
  <1>1. << >> \in Seq(Item) /\ << >> \in Seq(BOOLEAN)
    BY EmptySeq
  <1>2. ProcessOK
    BY DEF Init, ProcessOK
  <1>3. WorkersOK
    BY NamesAssumption DEF Init, WorkersOK, Store
  <1>4. ChannelsOK
    BY <1>1 DEF Init, ChannelsOK
  <1>5. HistoryOK
    BY <1>1 DEF Init, HistoryOK
  <1> QED BY <1>2, <1>3, <1>4, <1>5, TypeParts

(* The item a worker works on. *)
LEMMA CurrentType ==
    ASSUME WorkersOK, NEW w \in Worker, wpc[w] # "idle", HasItem(w)
    PROVE  /\ wreq[w] \in Request
           /\ wpos[w] \in DOMAIN Items[wreq[w]]
           /\ Current(w) \in Item
  <1>1. wreq[w] \in Request
    BY DEF WorkersOK
  <1>2. Items[wreq[w]] \in Seq(Item)
    BY <1>1, ItemsAssumption
  <1>3. wpos[w] \in 1 .. Len(Items[wreq[w]])
    BY <1>2, LenProperties DEF WorkersOK, HasItem
  <1> QED BY <1>1, <1>2, <1>3, ElementOfSeq, LenProperties DEF Current

(* A request is answered and let go. *)
LEMMA AnswerType ==
    ASSUME WorkersOK, NEW w \in Worker, wpc[w] # "idle",
           NEW status \in {"success", "error"}, Answer(w, status)
    PROVE  WorkersOK'
  <1>1. wreq[w] \in Request
    BY DEF WorkersOK
  <1>2. answer' \in [Request -> {"none", "success", "error"}]
    BY <1>1 DEF WorkersOK, Answer
  <1>3. /\ wpc' \in [Worker -> {"idle", "call", "wait"}]
        /\ wreq' \in [Worker -> Request \cup {NoRequest}]
        /\ wpos' \in [Worker -> Nat \ {0}]
        /\ wstore' \in [Worker -> Store]
    BY DEF WorkersOK, Answer, Store
  <1>4. \A v \in Worker : wpc'[v] = "idle" <=> wreq'[v] = NoRequest
    BY DEF WorkersOK, Answer
  <1>5. \A v \in Worker : wpc'[v] = "wait" => HasItem(v)'
    BY DEF WorkersOK, Answer, HasItem
  <1> QED BY <1>2, <1>3, <1>4, <1>5 DEF WorkersOK, Answer

(* A worker goes on to the next store or item. *)
LEMMA AdvanceType ==
    ASSUME WorkersOK, NEW w \in Worker, wpc[w] = "wait", Advance(w)
    PROVE  WorkersOK'
  <1>1. wpc' \in [Worker -> {"idle", "call", "wait"}] /\ wstore' \in [Worker -> Store]
    BY DEF WorkersOK, Advance, Store
  <1>2. wpos' \in [Worker -> Nat \ {0}]
    BY DEF WorkersOK, Advance
  <1>3. \A v \in Worker : wpc'[v] = "idle" <=> wreq'[v] = NoRequest
    BY DEF WorkersOK, Advance
  <1>4. \A v \in Worker : wpc'[v] = "wait" => HasItem(v)'
    BY DEF WorkersOK, Advance, HasItem
  <1> QED BY <1>1, <1>2, <1>3, <1>4 DEF WorkersOK, Advance

LEMMA WorkerType ==
    ASSUME WorkersOK, ChannelsOK, HistoryOK, NEW w \in Worker, WorkerStep(w)
    PROVE  WorkersOK' /\ ChannelsOK' /\ HistoryOK'
  <1> USE DEF storeVars
  <1>1. CASE Take(w)
    <2>1. PICK r \in todo : wreq' = [wreq EXCEPT ![w] = r] /\ todo' = todo \ {r}
      BY <1>1 DEF Take
    <2>2. r \in Request /\ r # NoRequest
      BY NamesAssumption DEF WorkersOK
    <2>3. WorkersOK'
      BY <1>1, <2>1, <2>2 DEF Take, WorkersOK, HasItem
    <2> QED BY <1>1, <2>3 DEF Take, ChannelsOK, HistoryOK
  <1>2. CASE Succeed(w)
    BY <1>2, AnswerType DEF Succeed, ChannelsOK, HistoryOK
  <1>3. CASE RejectItem(w)
    BY <1>3, AnswerType DEF RejectItem, LooksUp, ChannelsOK, HistoryOK
  <1>4. CASE Command(w)
    <2>1. Current(w) \in Item /\ wstore[w] \in Store
      BY <1>4, CurrentType DEF Command, Ready, WorkersOK
    <2>2. ChannelsOK'
      BY <1>4, <2>1 DEF Command, ChannelsOK
    <2>3. WorkersOK'
      BY <1>4 DEF Command, Ready, WorkersOK, HasItem
    <2> QED BY <1>4, <2>2, <2>3 DEF Command, HistoryOK
  <1>5. CASE CommandFails(w)
    BY <1>5, AnswerType DEF CommandFails, Ready, ChannelsOK, HistoryOK
  <1>6. ASSUME NEW b \in BOOLEAN, ReadReply(w, b)
        PROVE  wpc[w] = "wait" /\ ChannelsOK' /\ HistoryOK'
    <2>1. wstore[w] \in Store
      BY DEF WorkersOK
    <2>2. replies' \in [Store -> Seq(BOOLEAN)]
      BY <1>6, <2>1, HeadTailProperties DEF ReadReply, ChannelsOK
    <2> QED BY <1>6, <2>2 DEF ReadReply, ChannelsOK, HistoryOK
  <1>7. CASE ReplyOk(w)
    BY <1>6, <1>7, AdvanceType DEF ReplyOk
  <1>8. CASE ReplyError(w)
    BY <1>6, <1>8, AnswerType DEF ReplyError
  <1>9. CASE ReplyLost(w)
    BY <1>9, AnswerType DEF ReplyLost, ChannelsOK, HistoryOK
  <1> QED BY <1>1, <1>2, <1>3, <1>4, <1>5, <1>7, <1>8, <1>9 DEF WorkerStep

LEMMA StoreType ==
    ASSUME ChannelsOK, HistoryOK, NEW s \in Store, NEW b \in BOOLEAN, Reply(s, b)
    PROVE  ChannelsOK' /\ Head(sent[s]) \in Item
  <1>1. sent[s] \in Seq(Item) /\ sent[s] # << >>
    BY DEF ChannelsOK, Reply
  <1>2. Head(sent[s]) \in Item /\ Tail(sent[s]) \in Seq(Item)
    BY <1>1, HeadTailProperties
  <1> QED BY <1>2 DEF ChannelsOK, Reply

LEMMA TypeStep == TypeOK /\ [Next]_vars => TypeOK'
  <1> SUFFICES ASSUME TypeOK, [Next]_vars PROVE TypeOK'
    OBVIOUS
  <1>0. ProcessOK /\ WorkersOK /\ ChannelsOK /\ HistoryOK
    BY TypeParts
  <1> USE DEF workerVars, storeVars
  <1>1. ASSUME NEW w \in Worker, WorkerStep(w) PROVE TypeOK'
    <2>1. ProcessOK'
      BY <1>0, <1>1 DEF WorkerStep, ProcessOK
    <2> QED BY <1>0, <1>1, <2>1, WorkerType, TypePartsNext
  <1>2. ASSUME NEW s \in Store, Execute(s), UNCHANGED <<pool, crashed>> PROVE TypeOK'
    <2>1. ChannelsOK' /\ Head(sent[s]) \in Item
      BY <1>0, <1>2, StoreType DEF Execute
    <2>2. HistoryOK'
      BY <1>0, <1>2, <2>1 DEF Execute, HistoryOK
    <2>3. WorkersOK'
      BY <1>0, <1>2 DEF Execute, Reply, WorkersOK, HasItem
    <2> QED BY <1>0, <1>2, <2>1, <2>2, <2>3, TypePartsNext DEF ProcessOK
  <1>3. ASSUME NEW s \in Store, Refuse(s), UNCHANGED <<pool, crashed>> PROVE TypeOK'
    <2>1. ChannelsOK' /\ Head(sent[s]) \in Item
      BY <1>0, <1>3, StoreType DEF Refuse
    <2>2. HistoryOK'
      BY <1>0, <1>3, <2>1 DEF Refuse, HistoryOK
    <2>3. WorkersOK'
      BY <1>0, <1>3 DEF Refuse, Reply, WorkersOK, HasItem
    <2> QED BY <1>0, <1>3, <2>1, <2>2, <2>3, TypePartsNext DEF ProcessOK
  <1>4. ASSUME NEW s \in Store, Break(s), UNCHANGED <<pool, crashed>> PROVE TypeOK'
    <2>1. PICK n \in 0 .. Len(sent[s]) : sent' = [sent EXCEPT ![s] = SubSeq(@, 1, n)]
      BY <1>4 DEF Break
    <2>2. sent[s] \in Seq(Item)
      BY <1>0 DEF ChannelsOK
    <2>3. SubSeq(sent[s], 1, n) \in Seq(Item)
      BY <2>2, LenProperties, ElementOfSeq, SubSeqProperties
    <2>4. ChannelsOK'
      BY <1>0, <1>4, <2>1, <2>3, EmptySeq DEF Break, ChannelsOK
    <2>5. WorkersOK' /\ HistoryOK'
      BY <1>0, <1>4 DEF Break, WorkersOK, HistoryOK, HasItem
    <2> QED BY <1>0, <1>4, <2>4, <2>5, TypePartsNext DEF ProcessOK
  <1>5. CASE Crash \/ \E w \in Worker : AssertFails(w)
    BY <1>0, <1>5, TypePartsNext DEF Crash, AssertFails, ProcessOK, WorkersOK, ChannelsOK, HistoryOK, HasItem
  <1>6. CASE UNCHANGED vars
    BY <1>0, <1>6, TypePartsNext DEF vars, ProcessOK, WorkersOK, ChannelsOK, HistoryOK, HasItem
  <1> QED BY <1>1, <1>2, <1>3, <1>4, <1>5, <1>6 DEF Next, StoreStep, Ended

(* Every variable keeps its domain, and a worker in a command is never     *)
(* past the end of its batch.                                              *)
THEOREM TypeCorrect == Spec => []TypeOK
  BY TypeInit, TypeStep, PTL DEF Spec

-----------------------------------------------------------------------------
(* One worker.  Nobody else is in a command, so the reply on a connection  *)
(* is the one to the command of the worker that waits for it.              *)

Alone ==
    /\ \A v, w \in pool : v = w
    /\ \A w \in Worker : wpc[w] # "idle" => w \in pool
    /\ \A w \in Worker : wpc[w] = "idle" => wpos[w] = 1 /\ wstore[w] = "redis"

Waits(w, s) == wpc[w] = "wait" /\ wstore[w] = s

Stored(item, s) == item \in Range(log[s])

(* A usable connection carries the command of the worker that waits, or    *)
(* its reply; an unusable one carries no reply.                            *)
Matched(s) ==
    /\ ~up[s] => replies[s] = << >>
    /\ up[s] /\ (\A w \in Worker : ~Waits(w, s)) => sent[s] = << >> /\ replies[s] = << >>
    /\ \A w \in Worker : up[s] /\ Waits(w, s) =>
          \/ sent[s] = <<Current(w)>> /\ replies[s] = << >>
          \/ sent[s] = << >> /\ replies[s] = <<FALSE>>
          \/ sent[s] = << >> /\ replies[s] = <<TRUE>> /\ Stored(Current(w), s)

(* What a worker has behind it is in both stores. *)
Behind(w) ==
    wpc[w] # "idle" =>
        /\ \A i \in DOMAIN Items[wreq[w]] : i < wpos[w] =>
              \A s \in Store : Stored(Items[wreq[w]][i], s)
        /\ wstore[w] = "mysql" => Stored(Current(w), "redis")

Acked ==
    \A r \in Request : answer[r] = "success" =>
        \A s \in Store : Range(Items[r]) \subseteq Range(log[s])

OneInv ==
    Alone /\ (\A s \in Store : Matched(s)) /\ (\A w \in Worker : Behind(w)) /\ Acked

LEMMA PushRange ==
    ASSUME NEW S, NEW s \in Seq(S), NEW e \in S
    PROVE  Range(Append(s, e)) = Range(s) \cup {e}
  <1>1. /\ DOMAIN s = 1 .. Len(s) /\ DOMAIN Append(s, e) = 1 .. (Len(s) + 1)
        /\ Len(s) \in Nat
    BY AppendProperties, LenProperties
  <1>2. \A i \in 1 .. Len(s) : Append(s, e)[i] = s[i]
    BY AppendProperties
  <1>3. Append(s, e)[Len(s) + 1] = e
    BY AppendProperties
  <1> QED BY <1>1, <1>2, <1>3 DEF Range

LEMMA OneInit ==
    ASSUME Init, OneWorker
    PROVE  OneInv
  <1>1. \A v, w \in pool : v = w
    <2>1. IsFiniteSet(pool) /\ Cardinality(pool) = 1
      BY PoolsAssumption DEF Init, OneWorker
    <2>2. PICK x : pool = {x}
      BY <2>1, FS_Singleton
    <2> QED BY <2>2
  <1>2. Alone
    BY <1>1 DEF Init, Alone
  <1>3. \A s \in Store : Matched(s)
    BY DEF Init, Matched, Waits
  <1> QED BY <1>2, <1>3 DEF Init, OneInv, Behind, Acked

(* No other worker is in a request. *)
LEMMA OthersIdle ==
    ASSUME Alone, NEW w \in Worker, wpc[w] # "idle"
    PROVE  \A v \in Worker : v # w => wpc[v] = "idle"
  BY DEF Alone

(* A worker that neither waits nor comes to wait does not disturb the      *)
(* connections.                                                            *)
LEMMA MatchedFrame ==
    ASSUME TypeOK, \A s \in Store : Matched(s),
           NEW w \in Worker, wpc[w] # "wait", wpc'[w] # "wait",
           \A v \in Worker : v # w => /\ wpc'[v] = wpc[v] /\ wstore'[v] = wstore[v]
                                      /\ wreq'[v] = wreq[v] /\ wpos'[v] = wpos[v],
           UNCHANGED <<up, sent, replies, log>>
    PROVE  \A s \in Store : Matched(s)'
  <1> SUFFICES ASSUME NEW s \in Store PROVE Matched(s)'
    OBVIOUS
  <1>1. \A v \in Worker : Waits(v, s)' <=> Waits(v, s)
    BY DEF Waits
  <1>2. \A v \in Worker : Waits(v, s) => Current(v)' = Current(v)
    BY DEF Waits, Current
  <1>3. \A item : Stored(item, s)' <=> Stored(item, s)
    BY DEF Stored
  <1>4. Matched(s)
    OBVIOUS
  <1> QED BY <1>1, <1>2, <1>3, <1>4 DEF Matched

(* An answer leaves every other worker, and what is behind it, as it was. *)
LEMMA AnswerBehind ==
    ASSUME TypeOK, Alone, \A v \in Worker : Behind(v),
           NEW w \in Worker, wpc[w] # "idle", NEW status, Answer(w, status), UNCHANGED <<pool, log>>
    PROVE  Alone' /\ \A v \in Worker : Behind(v)'
  <1>1. \A v \in Worker : wpc'[v] = "idle"
    BY OthersIdle DEF Answer, TypeOK
  <1>2. Alone'
    BY <1>1 DEF Alone, Answer, TypeOK
  <1> QED BY <1>1, <1>2 DEF Behind

(* An error says nothing of the stores. *)
LEMMA ErrorAcked ==
    ASSUME TypeOK, Acked, NEW w \in Worker, wpc[w] # "idle", Answer(w, "error"), UNCHANGED log
    PROVE  Acked'
  <1>1. \A r \in Request : answer'[r] = "success" => answer[r] = "success"
    BY DEF Answer, TypeOK
  <1> QED BY <1>1 DEF Acked

(* At the end of the batch, all of it is behind the worker. *)
LEMMA SuccessAcked ==
    ASSUME TypeOK, Acked, NEW w \in Worker, Behind(w), Succeed(w)
    PROVE  Acked'
  <1>1. wreq[w] \in Request /\ wpos[w] \in Nat \ {0} /\ wpc[w] # "idle"
    BY DEF TypeOK, Succeed
  <1>2. Items[wreq[w]] \in Seq(Item)
    BY <1>1, ItemsAssumption
  <1>3. DOMAIN Items[wreq[w]] = 1 .. Len(Items[wreq[w]]) /\ Len(Items[wreq[w]]) \in Nat
    BY <1>2, LenProperties
  <1>4. \A i \in DOMAIN Items[wreq[w]] : i < wpos[w]
    BY <1>1, <1>3 DEF Succeed, HasItem
  <1>5. \A s \in Store : Range(Items[wreq[w]]) \subseteq Range(log[s])
    BY <1>1, <1>4 DEF Behind, Stored, Range
  <1>6. \A r \in Request : answer'[r] = "success" => answer[r] = "success" \/ r = wreq[w]
    BY <1>1 DEF Succeed, Answer, TypeOK
  <1> QED BY <1>5, <1>6 DEF Acked, Succeed, storeVars

(* A worker that waits on a usable connection is the only one that waits,  *)
(* and the other connection is empty if it is usable.                      *)
LEMMA OnlyWaiter ==
    ASSUME TypeOK, Alone, \A s \in Store : Matched(s), NEW w \in Worker, wpc[w] # "idle"
    PROVE  /\ \A v \in Worker, s \in Store : Waits(v, s) => v = w
           /\ \A s \in Store : up[s] /\ ~Waits(w, s) => sent[s] = << >> /\ replies[s] = << >>
  BY OthersIdle DEF Matched, Waits

LEMMA CommandStep ==
    ASSUME TypeOK, OneInv, NEW w \in Worker, Command(w), UNCHANGED pool
    PROVE  OneInv'
  <1> USE DEF OneInv
  <1>1. wpc[w] = "call" /\ wstore[w] \in Store /\ up[wstore[w]] /\ HasItem(w)
    BY DEF Command, Ready, TypeOK
  <1>2. sent[wstore[w]] = << >> /\ replies[wstore[w]] = << >>
    BY <1>1, OnlyWaiter DEF Waits
  <1>3. Current(w) \in Item
    BY <1>1, CurrentType, TypeParts
  <1>4. sent' = [sent EXCEPT ![wstore[w]] = <<Current(w)>>]
    BY <1>1, <1>2, <1>3 DEF Command
  <1>5. \A v \in Worker : wpc'[v] = IF v = w THEN "wait" ELSE "idle"
    BY <1>1, OthersIdle DEF Command, TypeOK
  <1>6. UNCHANGED <<wreq, wpos, wstore, up, replies, log, answer>>
    BY DEF Command
  <1>7. ASSUME NEW s \in Store PROVE Matched(s)'
    <2>1. CASE s = wstore[w]
      <3>1. sent'[s] = <<Current(w)>>' /\ replies'[s] = << >>
        BY <1>2, <1>4, <1>6, <2>1 DEF TypeOK, Current
      <3> QED BY <1>1, <1>5, <1>6, <2>1, <3>1 DEF Matched, Waits
    <2>2. CASE s # wstore[w]
      <3>1. \A v \in Worker : ~Waits(v, s) /\ ~Waits(v, s)'
        BY <1>1, <1>5, <1>6, <2>2, OthersIdle DEF Waits
      <3>2. sent'[s] = sent[s]
        BY <1>4, <2>2 DEF TypeOK
      <3> QED BY <1>6, <3>1, <3>2 DEF Matched
    <2> QED BY <2>1, <2>2
  <1>8. Alone'
    BY <1>1, <1>5, <1>6 DEF Alone
  <1>9. \A v \in Worker : Behind(v)'
    BY <1>1, <1>5, <1>6 DEF Behind, Stored, Current
  <1> QED BY <1>6, <1>7, <1>8, <1>9 DEF Acked

LEMMA TakeStep ==
    ASSUME TypeOK, OneInv, NEW w \in Worker, Take(w), UNCHANGED pool
    PROVE  OneInv'
  <1> USE DEF OneInv
  <1>1. PICK r \in todo : wreq' = [wreq EXCEPT ![w] = r]
    BY DEF Take
  <1>2. wpc[w] = "idle" /\ w \in pool /\ wpos[w] = 1 /\ wstore[w] = "redis" /\ r \in Request
    BY DEF Take, Alone, TypeOK
  <1>3. UNCHANGED <<wpos, wstore, up, sent, replies, log, answer>>
    BY DEF Take, storeVars
  <1>4. wpc' = [wpc EXCEPT ![w] = "call"]
    BY DEF Take
  <1>5. \A s \in Store : Matched(s)'
    BY <1>1, <1>2, <1>3, <1>4, MatchedFrame DEF TypeOK
  <1>6. Alone'
    BY <1>2, <1>3, <1>4 DEF Alone, TypeOK
  <1>7. Items[r] \in Seq(Item)
    BY <1>2, ItemsAssumption
  <1>8. \A i \in DOMAIN Items[r] : ~(i < 1)
    BY <1>7, LenProperties
  <1>9. \A v \in Worker : Behind(v)'
    <2>1. Behind(w)'
      BY <1>1, <1>2, <1>3, <1>8 DEF Behind, TypeOK
    <2>2. ASSUME NEW v \in Worker, v # w PROVE Behind(v)'
      BY <1>1, <1>3, <1>4, <2>2 DEF Behind, Stored, Current, TypeOK
    <2> QED BY <2>1, <2>2
  <1> QED BY <1>3, <1>5, <1>6, <1>9 DEF Acked

LEMMA SingleReply == \A b : Head(<<b>>) = b /\ Tail(<<b>>) = << >>
  OBVIOUS

(* The worker reads its own reply. *)
LEMMA ReadsOwn ==
    ASSUME TypeOK, OneInv, NEW w \in Worker, NEW b \in BOOLEAN, ReadReply(w, b)
    PROVE  /\ wstore[w] \in Store /\ up[wstore[w]]
           /\ sent[wstore[w]] = << >> /\ replies' = [replies EXCEPT ![wstore[w]] = << >>]
           /\ b => Stored(Current(w), wstore[w])
  <1> DEFINE s == wstore[w]
  <1>1. s \in Store /\ replies[s] # << >> /\ Head(replies[s]) = b /\ Waits(w, s)
    BY DEF ReadReply, TypeOK, Waits
  <1>2. Matched(s)
    BY <1>1 DEF OneInv
  <1>3. up[s]
    BY <1>1, <1>2 DEF Matched
  <1>4. \/ sent[s] = << >> /\ replies[s] = <<FALSE>>
        \/ sent[s] = << >> /\ replies[s] = <<TRUE>> /\ Stored(Current(w), s)
    BY <1>1, <1>2, <1>3 DEF Matched
  <1>5. Tail(replies[s]) = << >>
    BY <1>4, SingleReply, Zenon
  <1>6. b => Stored(Current(w), s)
    <2>1. CASE replies[s] = <<FALSE>>
      <3>1. b = FALSE
        BY <1>1, <2>1, SingleReply, Zenon
      <3> QED BY <3>1
    <2> QED BY <1>4, <2>1
  <1> QED BY <1>1, <1>3, <1>4, <1>5, <1>6 DEF ReadReply

(* After it, the connections that are usable are empty. *)
LEMMA Drained ==
    ASSUME TypeOK, OneInv, NEW w \in Worker, wpc[w] # "idle", \A v \in Worker : wpc'[v] # "wait",
           UNCHANGED <<up, sent>>,
           \/ replies' = replies /\ (Waits(w, wstore[w]) => ~up[wstore[w]])
           \/ sent[wstore[w]] = << >> /\ replies' = [replies EXCEPT ![wstore[w]] = << >>]
    PROVE  \A s \in Store : Matched(s)'
  <1> USE DEF OneInv
  <1>1. \A s \in Store : up[s] /\ ~Waits(w, s) => sent[s] = << >> /\ replies[s] = << >>
    BY OnlyWaiter
  <1>2. \A s \in Store : Waits(w, s) => s = wstore[w]
    BY DEF Waits
  <1>3. \A s \in Store : ~up[s] => replies[s] = << >>
    BY DEF Matched
  <1>4. ASSUME NEW s \in Store
        PROVE  replies'[s] = << >> /\ (up[s] => sent[s] = << >>)
    BY <1>1, <1>2, <1>3 DEF TypeOK
  <1> QED BY <1>4 DEF Matched, Waits

LEMMA ReplyOkStep ==
    ASSUME TypeOK, OneInv, NEW w \in Worker, ReplyOk(w), UNCHANGED pool
    PROVE  OneInv'
  <1> USE DEF OneInv
  <1>1. wpc[w] = "wait" /\ HasItem(w) /\ ReadReply(w, TRUE) /\ Advance(w)
    BY DEF ReplyOk, ReadReply, TypeOK
  <1>2. /\ wstore[w] \in Store /\ sent[wstore[w]] = << >>
        /\ replies' = [replies EXCEPT ![wstore[w]] = << >>]
        /\ Stored(Current(w), wstore[w])
    BY <1>1, ReadsOwn
  <1>3. UNCHANGED <<up, sent, log, wreq, answer>>
    BY <1>1 DEF ReadReply, Advance, storeVars
  <1>4. \A v \in Worker : wpc'[v] = IF v = w THEN "call" ELSE "idle"
    BY <1>1, OthersIdle DEF Advance, TypeOK
  <1>5. \A s \in Store : Matched(s)'
    BY <1>1, <1>2, <1>3, <1>4, Drained
  <1>6. Alone'
    BY <1>1, <1>4 DEF Alone, Advance, TypeOK
  <1>7. Behind(w)'
    <2>1. \A i \in DOMAIN Items[wreq[w]] : i < wpos[w] =>
             \A s \in Store : Stored(Items[wreq[w]][i], s)
      BY <1>1 DEF Behind
    <2>2. CASE wstore[w] = "redis"
      BY <1>1, <1>2, <1>3, <2>1, <2>2 DEF Behind, Advance, Stored, Current, TypeOK
    <2>3. CASE wstore[w] = "mysql"
      <3>1. \A s \in Store : Stored(Current(w), s)
        BY <1>1, <1>2, <2>3 DEF Behind, Store
      <3>2. wpos'[w] = wpos[w] + 1 /\ wpos[w] \in Nat /\ wstore'[w] = "redis"
        BY <1>1, <2>3 DEF Advance, TypeOK
      <3>3. DOMAIN Items[wreq[w]] \subseteq Nat
        BY <1>1, CurrentType, TypeParts, ItemsAssumption, LenProperties
      <3>4. \A i \in DOMAIN Items[wreq[w]] : i < wpos'[w] => i < wpos[w] \/ i = wpos[w]
        BY <3>2, <3>3
      <3> QED BY <1>3, <2>1, <3>1, <3>2, <3>4 DEF Behind, Stored, Current
    <2> QED BY <1>2, <2>2, <2>3 DEF Store
  <1>8. \A v \in Worker : Behind(v)'
    BY <1>4, <1>7 DEF Behind
  <1> QED BY <1>3, <1>5, <1>6, <1>8 DEF Acked

(* The steps that answer the client. *)
LEMMA AnswerStep ==
    ASSUME TypeOK, OneInv, NEW w \in Worker, wpc[w] # "idle", NEW status, Answer(w, status),
           UNCHANGED <<pool, up, sent, log>>, Acked',
           \/ replies' = replies /\ (Waits(w, wstore[w]) => ~up[wstore[w]])
           \/ sent[wstore[w]] = << >> /\ replies' = [replies EXCEPT ![wstore[w]] = << >>]
    PROVE  OneInv'
  <1> USE DEF OneInv
  <1>1. \A v \in Worker : wpc'[v] # "wait"
    BY OthersIdle DEF Answer, TypeOK
  <1>2. \A s \in Store : Matched(s)'
    BY <1>1, Drained
  <1> QED BY <1>2, AnswerBehind

LEMMA WorkerOne ==
    ASSUME TypeOK, OneInv, NEW w \in Worker, WorkerStep(w)
    PROVE  OneInv'
  <1> USE DEF storeVars
  <1>1. CASE Take(w)
    BY <1>1, TakeStep DEF WorkerStep
  <1>2. CASE Succeed(w)
    <2>1. Acked'
      BY <1>2, SuccessAcked DEF OneInv
    <2> QED BY <1>2, <2>1, AnswerStep DEF Succeed, WorkerStep, Waits
  <1>3. ASSUME wpc[w] # "idle", Answer(w, "error"), UNCHANGED <<pool, up, sent, log>>,
               \/ replies' = replies /\ (Waits(w, wstore[w]) => ~up[wstore[w]])
               \/ /\ sent[wstore[w]] = << >>
                  /\ replies' = [replies EXCEPT ![wstore[w]] = << >>]
        PROVE  OneInv'
    <2>1. Acked'
      BY <1>3, ErrorAcked DEF OneInv
    <2> QED BY <1>3, <2>1, AnswerStep
  <1>4. CASE RejectItem(w)
    BY <1>3, <1>4 DEF RejectItem, LooksUp, WorkerStep, Waits
  <1>5. CASE Command(w)
    BY <1>5, CommandStep DEF WorkerStep
  <1>6. CASE CommandFails(w)
    BY <1>3, <1>6 DEF CommandFails, Ready, WorkerStep, Waits
  <1>7. CASE ReplyOk(w)
    BY <1>7, ReplyOkStep DEF WorkerStep
  <1>8. CASE ReplyError(w)
    <2>1. /\ sent[wstore[w]] = << >> /\ replies' = [replies EXCEPT ![wstore[w]] = << >>]
          /\ wpc[w] = "wait"
      BY <1>8, ReadsOwn DEF ReplyError, ReadReply
    <2> QED BY <1>3, <1>8, <2>1 DEF ReplyError, ReadReply, WorkerStep
  <1>9. CASE ReplyLost(w)
    BY <1>3, <1>9 DEF ReplyLost, WorkerStep
  <1> QED BY <1>1, <1>2, <1>4, <1>5, <1>6, <1>7, <1>8, <1>9 DEF WorkerStep

-----------------------------------------------------------------------------
(* The stores.  They only add to what they hold, so what was stored stays. *)

Grows == \A s \in Store : Range(log[s]) \subseteq Range(log'[s])

LEMMA GrowsKeeps ==
    ASSUME OneInv, Grows, UNCHANGED <<pool, wpc, wreq, wpos, wstore, answer>>
    PROVE  Alone' /\ (\A w \in Worker : Behind(w)') /\ Acked'
  <1>1. \A s \in Store : \A item : Stored(item, s) => Stored(item, s)'
    BY DEF Grows, Stored
  <1>2. Alone' /\ Acked'
    BY DEF Grows, OneInv, Alone, Acked
  <1>3. ASSUME NEW w \in Worker PROVE Behind(w)'
    <2>1. Behind(w) /\ Current(w)' = Current(w)
      BY DEF OneInv, Current
    <2> QED BY <1>1, <2>1 DEF Behind, Store
  <1> QED BY <1>2, <1>3

(* A store executes or refuses the command of the worker that waits. *)
LEMMA ReplyMatched ==
    ASSUME TypeOK, OneInv, NEW s \in Store, NEW b \in BOOLEAN, Reply(s, b), Grows,
           b => log' = [log EXCEPT ![s] = Append(@, Head(sent[s]))]
    PROVE  \A t \in Store : Matched(t)'
  <1> USE DEF OneInv
  <1>1. /\ UNCHANGED <<up, wpc, wreq, wpos, wstore>>
        /\ sent[s] # << >> /\ sent' = [sent EXCEPT ![s] = Tail(@)]
        /\ replies' = IF up[s] THEN [replies EXCEPT ![s] = Append(@, b)] ELSE replies
    BY DEF Reply, workerVars
  <1>2. ASSUME NEW t \in Store, t # s PROVE Matched(t)'
    <2>1. sent'[t] = sent[t] /\ replies'[t] = replies[t]
      BY <1>1, <1>2 DEF TypeOK
    <2> QED BY <1>1, <2>1 DEF Matched, Waits, Stored, Current, Grows
  <1>3. ASSUME ~up[s] PROVE Matched(s)'
    BY <1>1, <1>3 DEF Matched, Waits
  <1>4. ASSUME up[s] PROVE Matched(s)'
    <2>1. PICK w \in Worker : Waits(w, s)
      BY <1>1, <1>4 DEF Matched
    <2>2. sent[s] = <<Current(w)>> /\ replies[s] = << >>
      BY <1>1, <1>4, <2>1 DEF Matched
    <2>3. Head(sent[s]) = Current(w) /\ Tail(sent[s]) = << >>
      BY <2>2, SingleReply, Zenon
    <2>4. Append(replies[s], b) = <<b>>
      BY <2>2
    <2>5. sent'[s] = << >> /\ replies'[s] = <<b>>
      BY <1>1, <1>4, <2>3, <2>4 DEF TypeOK
    <2>6. b => Stored(Current(w), s)'
      <3>1. Current(w) \in Item /\ log[s] \in Seq(Item)
        BY <2>1, CurrentType, TypeParts DEF Waits, TypeOK
      <3>2. b => log'[s] = Append(log[s], Current(w))
        BY <2>3 DEF TypeOK
      <3>3. Current(w)' = Current(w)
        BY <1>1 DEF Current
      <3>4. Current(w) \in Range(Append(log[s], Current(w)))
        BY <3>1, PushRange
      <3> QED BY <3>2, <3>3, <3>4 DEF Stored
    <2>7. \A v \in Worker : Waits(v, s)' => v = w
      BY <1>1, <2>1, OnlyWaiter DEF Waits
    <2>8. Waits(w, s)'
      BY <1>1, <2>1 DEF Waits
    <2>9. b = TRUE \/ b = FALSE
      OBVIOUS
    <2> QED BY <1>1, <1>4, <2>5, <2>6, <2>7, <2>8, <2>9 DEF Matched
  <1> QED BY <1>2, <1>3, <1>4

LEMMA StoreOne ==
    ASSUME TypeOK, OneInv, NEW s \in Store, StoreStep(s)
    PROVE  OneInv'
  <1> USE DEF workerVars
  <1>1. CASE Execute(s)
    <2>1. Head(sent[s]) \in Item /\ log[s] \in Seq(Item)
      BY <1>1, StoreType, TypeParts DEF Execute, HistoryOK
    <2>2. Range(Append(log[s], Head(sent[s]))) = Range(log[s]) \cup {Head(sent[s])}
      BY <2>1, PushRange
    <2>3. log' = [log EXCEPT ![s] = Append(@, Head(sent[s]))] /\ Reply(s, TRUE)
      BY <1>1 DEF Execute
    <2>4. Grows
      BY <2>2, <2>3 DEF Grows, TypeOK
    <2>5. \A t \in Store : Matched(t)'
      BY <2>3, <2>4, ReplyMatched
    <2> QED BY <2>3, <2>4, <2>5, GrowsKeeps DEF OneInv, Reply, StoreStep
  <1>2. CASE Refuse(s)
    <2>1. Reply(s, FALSE) /\ Grows
      BY <1>2 DEF Refuse, Grows
    <2>2. \A t \in Store : Matched(t)'
      BY <2>1, ReplyMatched
    <2> QED BY <2>1, <2>2, GrowsKeeps DEF OneInv, Reply, StoreStep
  <1> QED BY <1>1, <1>2 DEF StoreStep

LEMMA BreakOne ==
    ASSUME TypeOK, OneInv, NEW s \in Store, Break(s), UNCHANGED pool
    PROVE  OneInv'
  <1>1. PICK n \in 0 .. Len(sent[s]) : sent' = [sent EXCEPT ![s] = SubSeq(@, 1, n)]
    BY DEF Break
  <1>2. /\ up' = [up EXCEPT ![s] = FALSE] /\ replies' = [replies EXCEPT ![s] = << >>]
        /\ UNCHANGED <<log, wpc, wreq, wpos, wstore, answer>>
    BY DEF Break, workerVars
  <1>3. ASSUME NEW t \in Store, t # s PROVE Matched(t)'
    <2>1. up'[t] = up[t] /\ sent'[t] = sent[t] /\ replies'[t] = replies[t]
      BY <1>1, <1>2, <1>3 DEF TypeOK
    <2>2. \A w \in Worker : /\ Waits(w, t)' <=> Waits(w, t)
                            /\ Current(w)' = Current(w)
                            /\ Stored(Current(w), t)' <=> Stored(Current(w), t)
      BY <1>2 DEF Waits, Current, Stored
    <2> QED BY <2>1, <2>2 DEF OneInv, Matched
  <1>4. Matched(s)'
    BY <1>2 DEF Matched, TypeOK
  <1> QED BY <1>2, <1>3, <1>4, GrowsKeeps DEF OneInv, Grows

LEMMA OneStep == TypeOK /\ OneWorker /\ OneInv /\ [Next]_vars => OneInv'
  <1> SUFFICES ASSUME TypeOK, OneInv, [Next]_vars PROVE OneInv'
    OBVIOUS
  <1>1. CASE UNCHANGED vars
    BY <1>1 DEF vars, OneInv, Alone, Matched, Waits, Behind, Stored, Current, Acked
  <1>2. CASE Crash
    BY <1>2 DEF Crash, workerVars, storeVars, OneInv, Alone, Matched, Waits, Behind, Stored,
                Current, Acked
  <1>3. ASSUME NEW w \in Worker, AssertFails(w) PROVE OneInv'
    BY <1>3 DEF AssertFails, workerVars, storeVars, OneInv, Alone, Matched, Waits, Behind,
                Stored, Current, Acked
  <1> QED BY <1>1, <1>2, <1>3, WorkerOne, StoreOne, BreakOne DEF Next, Ended

LEMMA PoolFixed == [Next]_vars => pool' = pool
  BY DEF Next, WorkerStep, StoreStep, Crash, AssertFails, Ended, vars

(* With one worker, a client is told of success only when every item of    *)
(* its request is in Redis and in MySQL.                                   *)
THEOREM AcknowledgedIsStored == Spec => []AckedStored
  <1>1. Init => (OneWorker => OneInv)
    BY OneInit
  <1>2. TypeOK /\ (OneWorker => OneInv) /\ [Next]_vars => (OneWorker => OneInv)'
    BY OneStep, PoolFixed DEF OneWorker
  <1>3. (OneWorker => OneInv) => AckedStored
    BY DEF OneInv, Acked, AckedStored
  <1> QED BY <1>1, <1>2, <1>3, TypeCorrect, PTL DEF Spec

-----------------------------------------------------------------------------
(* The order of the writes.  An item is on its way to MySQL only when it   *)
(* is in Redis, and on its way to Redis only when all before it in its     *)
(* batch are in both; that stays so when a store executes a command after  *)
(* its connection was lost and the worker has gone on.                     *)
OnItsWay(item, s) == Stored(item, s) \/ item \in Range(sent[s])

Ordered(r) ==
    \A i \in DOMAIN Items[r] :
        /\ OnItsWay(Items[r][i], "mysql") => Stored(Items[r][i], "redis")
        /\ OnItsWay(Items[r][i], "redis") =>
              \A j \in DOMAIN Items[r] : j < i => \A s \in Store : Stored(Items[r][j], s)

OrderInv == \A r \in Request : Ordered(r)

(* A step that sends nothing: stores grow by what was sent to them. *)
LEMMA OrderFrame ==
    ASSUME OrderInv,
           \A s \in Store : \A item : Stored(item, s) => Stored(item, s)',
           \A s \in Store : \A item : OnItsWay(item, s)' => OnItsWay(item, s)
    PROVE  OrderInv'
  <1>1. "mysql" \in Store /\ "redis" \in Store /\ Store' = Store
    BY DEF Store
  <1>2. ASSUME NEW r \in Request PROVE Ordered(r)'
    BY <1>1, <1>2 DEF OrderInv, Ordered
  <1> QED
    BY <1>2 DEF OrderInv

LEMMA CommandOrdered ==
    ASSUME TypeOK, OneInv, OrderInv, NEW w \in Worker, Command(w)
    PROVE  OrderInv'
  <1>1. wpc[w] = "call" /\ wstore[w] \in Store /\ HasItem(w)
    BY DEF Command, Ready, TypeOK
  <1>2. wreq[w] \in Request /\ wpos[w] \in DOMAIN Items[wreq[w]] /\ Current(w) \in Item
    BY <1>1, CurrentType, TypeParts
  <1>3. /\ sent' = [sent EXCEPT ![wstore[w]] = Append(@, Current(w))] /\ log' = log
        /\ Range(Append(sent[wstore[w]], Current(w))) = Range(sent[wstore[w]]) \cup {Current(w)}
    BY <1>1, <1>2, PushRange DEF Command, TypeOK
  <1>4. ASSUME NEW s \in Store, NEW item
        PROVE  OnItsWay(item, s)' => OnItsWay(item, s) \/ (s = wstore[w] /\ item = Current(w))
    BY <1>3 DEF OnItsWay, Stored, TypeOK
  <1>5. ASSUME NEW item, NEW s PROVE Stored(item, s)' <=> Stored(item, s)
    BY <1>3 DEF Stored
  <1>6. ASSUME NEW r \in Request, NEW i \in DOMAIN Items[r], Items[r][i] = Current(w)
        PROVE  r = wreq[w] /\ i = wpos[w]
    BY <1>2, <1>6, ItemsAssumption DEF Current
  <1>7. Behind(w)
    BY DEF OneInv
  <1>8. ASSUME NEW r \in Request PROVE Ordered(r)'
    <2> SUFFICES ASSUME NEW i \in DOMAIN Items[r]
                 PROVE  /\ OnItsWay(Items[r][i], "mysql")' => Stored(Items[r][i], "redis")
                        /\ OnItsWay(Items[r][i], "redis")' =>
                              \A j \in DOMAIN Items[r] : j < i =>
                                  \A s \in Store : Stored(Items[r][j], s)
      BY <1>5 DEF Ordered, Store
    <2>1. CASE Items[r][i] = Current(w)
      <3>1. r = wreq[w] /\ i = wpos[w]
        BY <1>6, <2>1
      <3>2. \A j \in DOMAIN Items[r] : j < i => \A s \in Store : Stored(Items[r][j], s)
        BY <1>1, <1>7, <3>1 DEF Behind
      <3>3. wstore[w] = "mysql" => Stored(Items[r][i], "redis")
        BY <1>1, <1>7, <2>1 DEF Behind
      <3>4. wstore[w] # "mysql" => (OnItsWay(Items[r][i], "mysql")' => OnItsWay(Items[r][i], "mysql"))
        BY <1>4 DEF Store
      <3> QED
        BY <3>2, <3>3, <3>4 DEF OrderInv, Ordered
    <2>2. CASE Items[r][i] # Current(w)
      <3>1. \A s \in Store : OnItsWay(Items[r][i], s)' => OnItsWay(Items[r][i], s)
        BY <1>4, <2>2
      <3> QED
        BY <3>1 DEF OrderInv, Ordered, Store
    <2> QED
      BY <2>1, <2>2
  <1> QED
    BY <1>8 DEF OrderInv

LEMMA Smaller ==
    ASSUME NEW S, NEW s \in Seq(S)
    PROVE  /\ s # << >> => Head(s) \in Range(s) /\ Range(Tail(s)) \subseteq Range(s)
           /\ \A n \in 0 .. Len(s) : Range(SubSeq(s, 1, n)) \subseteq Range(s)
  <1>1. Len(s) \in Nat /\ DOMAIN s = 1 .. Len(s)
    BY LenProperties
  <1>2. ASSUME s # << >> PROVE Head(s) \in Range(s) /\ Range(Tail(s)) \subseteq Range(s)
    <2>1. /\ Len(s) > 0 /\ Head(s) = s[1] /\ DOMAIN Tail(s) = 1 .. (Len(s) - 1)
          /\ \A i \in 1 .. (Len(s) - 1) : Tail(s)[i] = s[i + 1]
      BY <1>1, <1>2, HeadTailProperties
    <2>2. \A i \in 1 .. (Len(s) - 1) : i + 1 \in DOMAIN s
      BY <1>1
    <2> QED
      BY <1>1, <2>1, <2>2 DEF Range
  <1>3. ASSUME NEW n \in 0 .. Len(s) PROVE Range(SubSeq(s, 1, n)) \subseteq Range(s)
    <2>1. \A i \in 1 .. n : s[i] \in S
      BY <1>1
    <2>2. DOMAIN SubSeq(s, 1, n) = 1 .. n /\ \A i \in 1 .. n : SubSeq(s, 1, n)[i] = s[i]
      BY <1>1, <2>1, SubSeqProperties
    <2> QED
      BY <1>1, <2>2 DEF Range
  <1> QED
    BY <1>2, <1>3

LEMMA OrderStep ==
    ASSUME TypeOK, OneInv, OrderInv, [Next]_vars
    PROVE  OrderInv'
  <1>1. ASSUME UNCHANGED <<sent, log>> PROVE OrderInv'
    BY <1>1, OrderFrame DEF OnItsWay, Stored
  <1>2. ASSUME NEW w \in Worker, WorkerStep(w) PROVE OrderInv'
    <2>1. CASE Command(w)
      BY <2>1, CommandOrdered
    <2>2. CASE ~Command(w)
      BY <1>1, <1>2, <2>2 DEF WorkerStep, Take, Succeed, RejectItem, CommandFails, ReplyOk,
         ReplyError,
                              ReplyLost, ReadReply, storeVars
    <2> QED
      BY <2>1, <2>2
  <1>3. ASSUME NEW s \in Store, StoreStep(s) PROVE OrderInv'
    <2>1. /\ sent[s] \in Seq(Item) /\ log[s] \in Seq(Item) /\ sent[s] # << >>
          /\ sent' = [sent EXCEPT ![s] = Tail(@)]
          /\ log' = log \/ log' = [log EXCEPT ![s] = Append(@, Head(sent[s]))]
      BY <1>3 DEF StoreStep, Execute, Refuse, Reply, TypeOK
    <2>2. Head(sent[s]) \in Item /\ Head(sent[s]) \in Range(sent[s])
          /\ Range(Tail(sent[s])) \subseteq Range(sent[s])
      BY <2>1, Smaller, HeadTailProperties
    <2>3. Range(Append(log[s], Head(sent[s]))) = Range(log[s]) \cup {Head(sent[s])}
      BY <2>1, <2>2, PushRange
    <2>4. ASSUME NEW t \in Store, NEW item
          PROVE  /\ Stored(item, t) => Stored(item, t)'
                 /\ OnItsWay(item, t)' => OnItsWay(item, t)
      <3>1. CASE t = s
        BY <2>1, <2>2, <2>3, <3>1 DEF Stored, OnItsWay, TypeOK
      <3>2. CASE t # s
        BY <2>1, <3>2 DEF Stored, OnItsWay, TypeOK
      <3> QED
        BY <3>1, <3>2
    <2> QED
      BY <2>4, OrderFrame
  <1>4. ASSUME NEW s \in Store, Break(s) PROVE OrderInv'
    <2>1. PICK n \in 0 .. Len(sent[s]) : sent' = [sent EXCEPT ![s] = SubSeq(@, 1, n)]
      BY <1>4 DEF Break
    <2>2. log' = log /\ sent[s] \in Seq(Item)
      BY <1>4 DEF Break, TypeOK
    <2>3. Range(SubSeq(sent[s], 1, n)) \subseteq Range(sent[s])
      BY <2>2, Smaller
    <2>4. ASSUME NEW t \in Store, NEW item
          PROVE  /\ Stored(item, t) => Stored(item, t)'
                 /\ OnItsWay(item, t)' => OnItsWay(item, t)
      BY <2>1, <2>2, <2>3 DEF Stored, OnItsWay, TypeOK
    <2> QED
      BY <2>4, OrderFrame
  <1>5. CASE Crash \/ (\E w \in Worker : AssertFails(w)) \/ Ended \/ UNCHANGED vars
    BY <1>1, <1>5 DEF Crash, AssertFails, Ended, vars, storeVars
  <1> QED
    BY <1>2, <1>3, <1>4, <1>5 DEF Next

(* A set of positions without gaps is a prefix. *)
LEMMA InitialSegment ==
    ASSUME NEW n \in Nat, NEW S \in SUBSET (1 .. n), \A i \in S : \A j \in 1 .. i : j \in S
    PROVE  Cardinality(S) \in Nat /\ S = 1 .. Cardinality(S)
  <1> DEFINE T == {k \in Nat : k + 1 \notin S}
  <1>1. n \in T
    OBVIOUS
  <1>2. PICK k \in T : \A l \in T : ~(<<l, k>> \in OpToRel(<, Nat))
    BY <1>1, NatLessThanWellFounded, WFMin
  <1>3. OpToRel(<, Nat) = {ss \in Nat \X Nat : ss[1] < ss[2]}
    BY DEF OpToRel
  <1>4. ASSUME NEW i \in 1 .. k PROVE i \in S
    <2> SUFFICES ASSUME i \notin S PROVE FALSE
      OBVIOUS
    <2>1. i - 1 \in Nat /\ (i - 1) + 1 = i /\ i - 1 < k
      OBVIOUS
    <2>2. i - 1 \in T
      BY <2>1
    <2>3. <<i - 1, k>> \in OpToRel(<, Nat)
      BY <1>3, <2>1
    <2> QED
      BY <1>2, <2>2, <2>3
  <1>5. ASSUME NEW i \in S PROVE i \in 1 .. k
    <2> SUFFICES ASSUME i > k PROVE FALSE
      OBVIOUS
    <2>1. k + 1 \in 1 .. i
      OBVIOUS
    <2> QED
      BY <2>1
  <1>6. S = 1 .. k
    BY <1>4, <1>5
  <1> QED
    BY <1>6, FS_Interval

LEMMA OrderedIsPrefix ==
    ASSUME OrderInv, NEW r \in Request
    PROVE  LET m == Cardinality(Written(r, "mysql"))
               n == Cardinality(Written(r, "redis"))
           IN  /\ Written(r, "mysql") = 1 .. m /\ Written(r, "redis") = 1 .. n
               /\ m <= n /\ n <= m + 1
  <1> DEFINE W(s) == Written(r, s)
  <1>1. DOMAIN Items[r] = 1 .. Len(Items[r]) /\ Len(Items[r]) \in Nat
    BY ItemsAssumption, LenProperties
  <1>2. \A s : W(s) = {i \in 1 .. Len(Items[r]) : Stored(Items[r][i], s)}
    BY <1>1 DEF Written, Stored
  <1>3. \A i \in W("mysql") : i \in W("redis")
    BY <1>1, <1>2 DEF OrderInv, Ordered, OnItsWay
  <1>4. \A i \in W("redis") : \A j \in 1 .. i : j < i => j \in W("mysql") /\ j \in W("redis")
    BY <1>1, <1>2 DEF OrderInv, Ordered, OnItsWay, Store
  <1> HIDE DEF W
  <1>5. W("mysql") \in SUBSET (1 .. Len(Items[r])) /\ W("redis") \in SUBSET (1 .. Len(Items[r]))
    BY <1>2
  <1>6. \A i \in W("mysql") : \A j \in 1 .. i : j \in W("mysql")
    BY <1>1, <1>3, <1>4, <1>5
  <1>7. \A i \in W("redis") : \A j \in 1 .. i : j \in W("redis")
    BY <1>1, <1>4, <1>5
  <1> DEFINE m == Cardinality(W("mysql"))
             n == Cardinality(W("redis"))
  <1>8. m \in Nat /\ W("mysql") = 1 .. m
    BY <1>1, <1>5, <1>6, InitialSegment
  <1>9. n \in Nat /\ W("redis") = 1 .. n
    BY <1>1, <1>5, <1>7, InitialSegment
  <1> HIDE DEF m, n
  <1>10. m <= n
    <2> SUFFICES ASSUME m > n PROVE FALSE
      BY <1>8, <1>9
    <2>1. m \in W("mysql")
      BY <1>8, <1>9
    <2>2. m \in W("redis")
      BY <1>3, <2>1
    <2> QED
      BY <1>8, <1>9, <2>2
  <1>11. n <= m + 1
    <2> SUFFICES ASSUME n > m + 1 PROVE FALSE
      BY <1>8, <1>9
    <2>1. n \in 1 .. n /\ n - 1 \in 1 .. n /\ n - 1 < n /\ n - 1 > m
      BY <1>8, <1>9
    <2>2. n - 1 \in W("mysql")
      BY <1>4, <1>9, <2>1
    <2> QED
      BY <1>8, <2>1, <2>2
  <1> QED
    BY <1>8, <1>9, <1>10, <1>11 DEF m, n, W

(* With one worker, what a request leaves behind when it stops half-way is *)
(* a prefix of its batch in each store, and Redis is at most one item      *)
(* ahead (handleClient, processKeyValue), even when a store executes a     *)
(* command whose connection was lost.                                      *)
THEOREM BatchesArePrefixes == Spec => []BatchPrefix
  <1>1. Init => (OneWorker => OneInv /\ OrderInv)
    <2> SUFFICES ASSUME Init PROVE OrderInv
      BY OneInit
    <2>1. \A s \in Store : \A item : ~OnItsWay(item, s)
      BY DEF Init, OnItsWay, Stored, Range
    <2> QED
      BY <2>1 DEF OrderInv, Ordered, Store
  <1>2. TypeOK /\ (OneWorker => OneInv /\ OrderInv) /\ [Next]_vars => (OneWorker => OneInv /\ OrderInv)'
    BY OneStep, OrderStep, PoolFixed DEF OneWorker
  <1>3. (OneWorker => OneInv /\ OrderInv) => BatchPrefix
    BY OrderedIsPrefix DEF BatchPrefix
  <1> QED
    BY <1>1, <1>2, <1>3, TypeCorrect, PTL DEF Spec

-----------------------------------------------------------------------------
(* The cache and the database.  No item is sent twice, so a command that   *)
(* Redis still has to execute is new to both stores; the item a worker has *)
(* taken to MySQL is the newest of its key in Redis; and only the last     *)
(* command sent to MySQL can be executed late.                             *)

(* The worker has still to send an item of its request to Redis. *)
Ahead(w, item) ==
    /\ wpc[w] # "idle"
    /\ \E i \in DOMAIN Items[wreq[w]] :
          /\ item = Items[wreq[w]][i]
          /\ i > wpos[w] \/ (i = wpos[w] /\ wpc[w] = "call" /\ wstore[w] = "redis")

FreshInv ==
    /\ \A s \in Store : Len(sent[s]) <= 1
    /\ \A item \in Range(sent["redis"]) : ~Stored(item, "redis")
    /\ \A s \in Store : \A item : OnItsWay(item, s) =>
          \E r \in Request \ todo : item \in Range(Items[r])
    /\ \A w \in Worker : wpc[w] # "idle" => wreq[w] \notin todo
    /\ \A w \in Worker : \A item : Ahead(w, item) => ~OnItsWay(item, "redis")

IsNewest(item, s) == Newest(s, Key[item]) = item

AtMysql(w) == wpc[w] # "idle" /\ wstore[w] = "mysql"

HandedOver(w) ==
    /\ AtMysql(w) => sent["redis"] = << >>
    /\ AtMysql(w) \/ (Waits(w, "redis") /\ replies["redis"] = <<TRUE>>) =>
          \A item \in Item : item = Current(w) => IsNewest(item, "redis")

NewestInv ==
    /\ \A w \in Worker : HandedOver(w)
    /\ \A item \in Range(sent["mysql"]) :
          IsNewest(item, "redis") \/ ~Stored(Newest("redis", Key[item]), "mysql")
    /\ \A k \in Range(Key) : Stored(Newest("redis", k), "mysql") =>
          Newest("mysql", k) = Newest("redis", k)

LEMMA MaxExists ==
    ASSUME NEW n \in Nat, NEW S \in SUBSET (1 .. n), S # {}
    PROVE  Max(S) \in S /\ \A x \in S : x <= Max(S)
  <1> DEFINE T == {k \in 0 .. n : n - k \in S}
  <1>1. T # {} /\ T \subseteq Nat
    <2>1. PICK x \in S : x \in 1 .. n
      OBVIOUS
    <2>2. n - x \in 0 .. n /\ n - (n - x) = x
      BY <2>1
    <2>3. n - x \in T
      BY <2>2
    <2>4. T \subseteq Nat
      OBVIOUS
    <2> HIDE DEF T
    <2> QED
      BY <2>3, <2>4
  <1>2. PICK k \in T : \A l \in T : ~(<<l, k>> \in OpToRel(<, Nat))
    BY <1>1, NatLessThanWellFounded, WFMin
  <1>3. OpToRel(<, Nat) = {ss \in Nat \X Nat : ss[1] < ss[2]}
    BY DEF OpToRel
  <1>4. ASSUME NEW x \in S PROVE x <= n - k
    <2> SUFFICES ASSUME x > n - k PROVE FALSE
      OBVIOUS
    <2>1. x \in 1 .. n /\ k \in 0 .. n
      OBVIOUS
    <2>2. n - x \in 0 .. n /\ n - (n - x) = x /\ n - x < k
      BY <2>1
    <2>3. n - x \in T
      BY <2>2
    <2>4. n - x \in Nat /\ k \in Nat
      BY <2>1, <2>2
    <2>5. <<n - x, k>> \in OpToRel(<, Nat)
      BY <1>3, <2>2, <2>4
    <2> QED
      BY <1>2, <2>3, <2>5
  <1> QED
    BY <1>4 DEF Max

LEMMA MaxIs ==
    ASSUME NEW n \in Nat, NEW S \in SUBSET (1 .. n), NEW m \in S, \A x \in S : x <= m
    PROVE  Max(S) = m
  <1>1. Max(S) \in S /\ m <= Max(S)
    BY MaxExists
  <1>2. Max(S) <= m
    BY <1>1
  <1>3. Max(S) \in Nat /\ m \in Nat
    <2>1. \A x \in S : x \in Nat
      OBVIOUS
    <2> QED
      BY <1>1, <2>1
  <1> QED
    BY <1>1, <1>2, <1>3

(* The newest item of a key is the last one written under it. *)
LEMMA NewestStored ==
    ASSUME TypeOK, NEW s \in Store, NEW k, Newest(s, k) # NoItem
    PROVE  Stored(Newest(s, k), s) /\ Key[Newest(s, k)] = k /\ Newest(s, k) \in Item
  <1> DEFINE mine == {i \in DOMAIN log[s] : Key[log[s][i]] = k}
  <1>1. log[s] \in Seq(Item) /\ Len(log[s]) \in Nat /\ DOMAIN log[s] = 1 .. Len(log[s])
    BY LenProperties DEF TypeOK
  <1>2. mine # {} /\ Newest(s, k) = log[s][Max(mine)]
    BY DEF Newest
  <1>3. Max(mine) \in mine
    BY <1>1, <1>2, MaxExists
  <1> QED
    BY <1>1, <1>2, <1>3, ElementOfSeq DEF Stored, Range

LEMMA NewestNone ==
    ASSUME TypeOK, NEW s \in Store, NEW k, Newest(s, k) = NoItem
    PROVE  \A item : Stored(item, s) => Key[item] # k
  <1> SUFFICES ASSUME NEW i \in DOMAIN log[s], Key[log[s][i]] = k PROVE FALSE
    BY DEF Stored, Range
  <1> DEFINE mine == {j \in DOMAIN log[s] : Key[log[s][j]] = k}
  <1>1. log[s] \in Seq(Item) /\ Len(log[s]) \in Nat /\ DOMAIN log[s] = 1 .. Len(log[s])
    BY LenProperties DEF TypeOK
  <1>2. mine # {} /\ Newest(s, k) = log[s][Max(mine)]
    BY DEF Newest
  <1>3. Max(mine) \in mine
    BY <1>1, <1>2, MaxExists
  <1> QED
    BY <1>1, <1>2, <1>3, ElementOfSeq, NamesAssumption

LEMMA NewestSame ==
    ASSUME NEW s, log'[s] = log[s]
    PROVE  \A k : Newest(s, k)' = Newest(s, k)
  BY DEF Newest

LEMMA NewestPushed ==
    ASSUME TypeOK, NEW s \in Store, NEW e \in Item, log'[s] = Append(log[s], e)
    PROVE  \A k : Newest(s, k)' = IF k = Key[e] THEN e ELSE Newest(s, k)
  <1> SUFFICES ASSUME NEW k PROVE Newest(s, k)' = IF k = Key[e] THEN e ELSE Newest(s, k)
    OBVIOUS
  <1> DEFINE n == Len(log[s])
             old == {i \in DOMAIN log[s] : Key[log[s][i]] = k}
             new == {i \in DOMAIN log'[s] : Key[log'[s][i]] = k}
  <1>1. log[s] \in Seq(Item) /\ n \in Nat /\ DOMAIN log[s] = 1 .. n
    BY LenProperties DEF TypeOK
  <1>2. /\ DOMAIN log'[s] = 1 .. (n + 1) /\ log'[s][n + 1] = e
        /\ \A i \in 1 .. n : log'[s][i] = log[s][i]
    BY <1>1, AppendProperties
  <1>3. /\ Newest(s, k) = IF old = {} THEN NoItem ELSE log[s][Max(old)]
        /\ Newest(s, k)' = IF new = {} THEN NoItem ELSE log'[s][Max(new)]
    BY DEF Newest
  <1>4. CASE k = Key[e]
    <2>1. n + 1 \in new /\ new \in SUBSET (1 .. (n + 1)) /\ \A i \in new : i <= n + 1
      BY <1>1, <1>2, <1>4
    <2>2. Max(new) = n + 1
      <3>1. n + 1 \in Nat
        BY <1>1
      <3> HIDE DEF new, n
      <3> QED
        BY <2>1, <3>1, MaxIs
    <2> QED
      BY <1>2, <1>3, <1>4, <2>1, <2>2
  <1>5. CASE k # Key[e]
    <2>1. new = old
      BY <1>1, <1>2, <1>5
    <2>2. old # {} => Max(old) \in 1 .. n
      BY <1>1, MaxExists
    <2> QED
      BY <1>2, <1>3, <1>5, <2>1, <2>2
  <1> QED
    BY <1>4, <1>5

(* Two items of requests are the same only at the same place. *)
LEMMA SameItem ==
    ASSUME NEW q \in Request, NEW r \in Request,
           NEW i \in DOMAIN Items[q], NEW j \in DOMAIN Items[r], Items[q][i] = Items[r][j]
    PROVE  q = r /\ i = j
  BY ItemsAssumption

(* The worker sends on an empty connection. *)
LEMMA CommandSends ==
    ASSUME TypeOK, OneInv, NEW w \in Worker, Command(w)
    PROVE  /\ wpc[w] = "call" /\ wstore[w] \in Store /\ HasItem(w) /\ Current(w) \in Item
           /\ wreq[w] \in Request /\ wpos[w] \in DOMAIN Items[wreq[w]]
           /\ sent[wstore[w]] = << >> /\ replies[wstore[w]] = << >>
           /\ sent' = [sent EXCEPT ![wstore[w]] = <<Current(w)>>]
           /\ wpc' = [wpc EXCEPT ![w] = "wait"]
           /\ UNCHANGED <<todo, wreq, wpos, wstore, up, replies, log, answer>>
           /\ \A v \in Worker \ {w} : wpc[v] = "idle" /\ wpc'[v] = "idle"
  <1>1. wpc[w] = "call" /\ wstore[w] \in Store /\ HasItem(w) /\ up[wstore[w]]
    BY DEF Command, Ready, TypeOK
  <1>2. /\ Current(w) \in Item
        /\ wreq[w] \in Request /\ wpos[w] \in DOMAIN Items[wreq[w]]
    BY <1>1, CurrentType, TypeParts
  <1>3. sent[wstore[w]] = << >> /\ replies[wstore[w]] = << >>
    BY <1>1, OnlyWaiter DEF OneInv, Waits
  <1>4. \A v \in Worker \ {w} : wpc[v] = "idle" /\ wpc'[v] = "idle"
    BY <1>1, OthersIdle DEF Command, OneInv, TypeOK
  <1> QED
    BY <1>1, <1>2, <1>3, <1>4 DEF Command

(* A worker's step that sends nothing. *)
LEMMA FreshFrame ==
    ASSUME FreshInv, UNCHANGED <<sent, log>>, todo' = todo,
           \A w \in Worker : wpc'[w] # "idle" => wpc[w] # "idle" /\ wreq'[w] = wreq[w],
           \A w \in Worker : \A item : Ahead(w, item)' => Ahead(w, item)
    PROVE  FreshInv'
  <1>1. \A s \in Store : \A item : OnItsWay(item, s)' <=> OnItsWay(item, s)
    BY DEF OnItsWay, Stored
  <1>2. \A w \in Worker : \A item : Ahead(w, item)' => ~OnItsWay(item, "redis")'
    BY <1>1 DEF FreshInv, Store
  <1>3. \A item \in Range(sent'["redis"]) : ~Stored(item, "redis")'
    BY DEF FreshInv, Stored
  <1> QED
    BY <1>1, <1>2, <1>3 DEF FreshInv

LEMMA AnswerFresh ==
    ASSUME TypeOK, FreshInv, NEW w \in Worker, NEW status, Answer(w, status), UNCHANGED <<sent, log>>
    PROVE  FreshInv'
  BY FreshFrame DEF Answer, Ahead, TypeOK

LEMMA TakeFresh ==
    ASSUME TypeOK, FreshInv, NEW w \in Worker, Take(w)
    PROVE  FreshInv'
  <1>1. PICK r \in todo : todo' = todo \ {r} /\ wreq' = [wreq EXCEPT ![w] = r]
    BY DEF Take
  <1>2. /\ wpc' = [wpc EXCEPT ![w] = "call"] /\ UNCHANGED <<wpos, wstore, sent, log>>
        /\ r \in Request
    BY DEF Take, storeVars, TypeOK
  <1>3. \A i \in DOMAIN Items[r] : ~OnItsWay(Items[r][i], "redis")
    <2> SUFFICES ASSUME NEW i \in DOMAIN Items[r], OnItsWay(Items[r][i], "redis") PROVE FALSE
      OBVIOUS
    <2>1. PICK q \in Request \ todo : Items[r][i] \in Range(Items[q])
      BY DEF FreshInv, Store
    <2>2. PICK j \in DOMAIN Items[q] : Items[q][j] = Items[r][i]
      BY <2>1 DEF Range
    <2> QED
      BY <1>2, <2>2, SameItem
  <1>4. \A s \in Store : \A item : OnItsWay(item, s)' <=> OnItsWay(item, s)
    BY <1>2 DEF OnItsWay, Stored
  <1>5. \A item \in Range(sent'["redis"]) : ~Stored(item, "redis")'
    BY <1>2 DEF FreshInv, Stored
  <1>6. \A v \in Worker : wpc'[v] # "idle" => wreq'[v] \notin todo'
    BY <1>1, <1>2 DEF FreshInv, TypeOK
  <1>7. ASSUME NEW v \in Worker, NEW item, Ahead(v, item)'
        PROVE  ~OnItsWay(item, "redis")'
    <2>1. CASE v = w
      <3>1. wreq'[v] = r
        BY <1>1, <2>1 DEF TypeOK
      <3>2. PICK i \in DOMAIN Items[r] : item = Items[r][i]
        BY <1>7, <3>1 DEF Ahead
      <3> QED
        BY <1>3, <1>4, <3>2 DEF Store
    <2>2. CASE v # w
      <3>1. Ahead(v, item)
        BY <1>1, <1>2, <1>7, <2>2 DEF Ahead, TypeOK
      <3> QED
        BY <1>4, <3>1 DEF FreshInv, Store
    <2> QED
      BY <2>1, <2>2
  <1>8. \A s \in Store : \A item : OnItsWay(item, s)' =>
           \E q \in Request \ todo' : item \in Range(Items[q])
    BY <1>1, <1>4 DEF FreshInv
  <1> QED
    BY <1>2, <1>5, <1>6, <1>7, <1>8 DEF FreshInv

LEMMA CommandFresh ==
    ASSUME TypeOK, OneInv, FreshInv, NEW w \in Worker, Command(w)
    PROVE  FreshInv'
  <1>1. PICK e \in Item : e = Current(w)
    BY CommandSends
  <1>2. /\ wpc[w] = "call" /\ wstore[w] \in Store /\ wreq[w] \in Request
        /\ wpos[w] \in DOMAIN Items[wreq[w]] /\ e = Items[wreq[w]][wpos[w]]
        /\ sent[wstore[w]] = << >> /\ sent' = [sent EXCEPT ![wstore[w]] = <<e>>]
        /\ wpc' = [wpc EXCEPT ![w] = "wait"] /\ UNCHANGED <<todo, wreq, wpos, wstore, log>>
        /\ \A v \in Worker \ {w} : wpc'[v] = "idle"
    BY <1>1, CommandSends DEF Current
  <1>3. Range(<<e>>) = {e} /\ Len(<<e>>) = 1
    BY DEF Range
  <1>4. \A s \in Store : \A item : OnItsWay(item, s)' <=> OnItsWay(item, s) \/ (s = wstore[w] /\ item = e)
    <2> SUFFICES ASSUME NEW s \in Store, NEW item
                 PROVE  OnItsWay(item, s)' <=> OnItsWay(item, s) \/ (s = wstore[w] /\ item = e)
      OBVIOUS
    <2>1. Range(sent'[s]) = IF s = wstore[w] THEN {e} ELSE Range(sent[s])
      BY <1>2, <1>3 DEF TypeOK
    <2>2. s = wstore[w] => Range(sent[s]) = {}
      BY <1>2 DEF Range
    <2> QED
      BY <1>2, <2>1, <2>2 DEF OnItsWay, Stored
  <1>5. wstore[w] = "redis" => ~OnItsWay(e, "redis")
    BY <1>2 DEF FreshInv, Ahead, TypeOK
  <1>6. \A item \in Range(sent'["redis"]) : ~Stored(item, "redis")'
    <2>1. CASE wstore[w] = "redis"
      BY <1>2, <1>3, <1>5, <2>1 DEF OnItsWay, Stored, TypeOK
    <2>2. CASE wstore[w] # "redis"
      BY <1>2, <2>2 DEF FreshInv, Stored, TypeOK
    <2> QED
      BY <2>1, <2>2
  <1>7. \A s \in Store : Len(sent'[s]) <= 1
    BY <1>2, <1>3 DEF FreshInv, TypeOK
  <1>8. wreq[w] \in Request \ todo /\ e \in Range(Items[wreq[w]])
    BY <1>2 DEF FreshInv, Range
  <1>9. ASSUME NEW v \in Worker, NEW item, Ahead(v, item)'
        PROVE  ~OnItsWay(item, "redis")'
    <2>1. v = w
      BY <1>2, <1>9 DEF Ahead
    <2>2. PICK i \in DOMAIN Items[wreq[w]] : item = Items[wreq[w]][i] /\ i > wpos[w]
      BY <1>2, <1>9, <2>1 DEF Ahead, TypeOK
    <2>3. item # e
      <3>1. i # wpos[w]
        BY <1>2, <2>2, ItemsAssumption, LenProperties
      <3> QED
        BY <1>2, <2>2, <3>1, SameItem
    <2>4. ~OnItsWay(item, "redis")
      BY <1>2, <2>2 DEF FreshInv, Ahead
    <2> QED
      BY <1>4, <2>3, <2>4 DEF Store
  <1>10. \A s \in Store : \A item : OnItsWay(item, s)' =>
           \E r \in Request \ todo' : item \in Range(Items[r])
    BY <1>2, <1>4, <1>8 DEF FreshInv
  <1>11. \A v \in Worker : wpc'[v] # "idle" => wreq'[v] \notin todo'
    BY <1>2, <1>8
  <1> QED
    BY <1>6, <1>7, <1>9, <1>10, <1>11 DEF FreshInv

(* One store has executed or refused a command or lost its connection. *)
LEMMA StoreFresh ==
    ASSUME TypeOK, FreshInv, NEW s \in Store, UNCHANGED <<todo, wpc, wreq, wpos, wstore>>,
           Len(sent'[s]) <= 1, sent'[s] # << >> => log' = log,
           Range(sent'[s]) \subseteq Range(sent[s]),
           Range(log'[s]) \subseteq Range(log[s]) \cup Range(sent[s]),
           \A t \in Store \ {s} : sent'[t] = sent[t] /\ log'[t] = log[t]
    PROVE  FreshInv'
  <1>1. \A t \in Store : \A item : OnItsWay(item, t)' => OnItsWay(item, t)
    BY DEF OnItsWay, Stored
  <1>2. \A item \in Range(sent'["redis"]) : ~Stored(item, "redis")'
    <2>1. CASE s = "redis" /\ sent'[s] = << >>
      BY <2>1 DEF Range
    <2>2. CASE s = "redis" /\ sent'[s] # << >>
      BY <2>2 DEF FreshInv, Stored
    <2>3. CASE s # "redis"
      BY <2>3 DEF FreshInv, Stored, Store
    <2> QED
      BY <2>1, <2>2, <2>3, Zenon
  <1>3. \A v \in Worker : \A item : Ahead(v, item)' => ~OnItsWay(item, "redis")'
    BY <1>1 DEF FreshInv, Ahead, Store
  <1>4. \A t \in Store : Len(sent'[t]) <= 1
    BY DEF FreshInv
  <1> QED
    BY <1>1, <1>2, <1>3, <1>4 DEF FreshInv

LEMMA OneLeft ==
    ASSUME NEW S, NEW s \in Seq(S), s # << >>, Len(s) <= 1
    PROVE  Tail(s) = << >> /\ Range(s) = {Head(s)} /\ Head(s) \in S
  <1>1. Len(s) = 1 /\ Head(s) \in S /\ Head(s) = s[1] /\ Tail(s) \in Seq(S) /\ Len(Tail(s)) = 0
    <2>1. Head(s) \in S /\ Head(s) = s[1] /\ Tail(s) \in Seq(S) /\ Len(Tail(s)) = Len(s) - 1
      BY HeadTailProperties
    <2>2. Len(s) \in Nat /\ Len(s) # 0
      BY LenProperties, EmptySeq
    <2> QED
      BY <2>1, <2>2
  <1>2. DOMAIN s = {1}
    BY <1>1, LenProperties
  <1> QED
    BY <1>1, <1>2, EmptySeq DEF Range

(* The command of a store is executed or refused. *)
LEMMA OneReply ==
    ASSUME TypeOK, FreshInv, NEW s \in Store, StoreStep(s)
    PROVE  \E e \in Item :
             /\ Range(sent[s]) = {e} /\ Head(sent[s]) = e /\ sent' = [sent EXCEPT ![s] = << >>]
             /\ \/ Execute(s) /\ log' = [log EXCEPT ![s] = Append(@, e)]
                                /\ Range(log'[s]) = Range(log[s]) \cup {e}
                \/ Refuse(s) /\ log' = log
             /\ UNCHANGED <<todo, wpc, wreq, wpos, wstore, up, answer>>
  <1>1. sent[s] \in Seq(Item) /\ sent[s] # << >> /\ Len(sent[s]) <= 1 /\ log[s] \in Seq(Item)
    BY DEF StoreStep, Execute, Refuse, Reply, TypeOK, FreshInv
  <1>2. Tail(sent[s]) = << >> /\ Range(sent[s]) = {Head(sent[s])} /\ Head(sent[s]) \in Item
    BY <1>1, OneLeft
  <1>3. Range(Append(log[s], Head(sent[s]))) = Range(log[s]) \cup {Head(sent[s])}
    BY <1>1, <1>2, PushRange
  <1>4. sent' = [sent EXCEPT ![s] = << >>] /\ UNCHANGED <<todo, wpc, wreq, wpos, wstore, up, answer>>
    BY <1>2 DEF StoreStep, Execute, Refuse, Reply, workerVars
  <1>5. \/ Execute(s) /\ log' = [log EXCEPT ![s] = Append(@, Head(sent[s]))]
        \/ Refuse(s) /\ log' = log
    BY DEF StoreStep, Execute, Refuse
  <1> QED
    BY <1>2, <1>3, <1>4, <1>5 DEF TypeOK

LEMMA FreshStep ==
    ASSUME TypeOK, OneInv, FreshInv, [Next]_vars
    PROVE  FreshInv'
  <1> USE DEF storeVars, workerVars
  <1>1. ASSUME NEW w \in Worker, WorkerStep(w) PROVE FreshInv'
    <2>1. CASE Take(w)
      BY <2>1, TakeFresh
    <2>2. CASE Command(w)
      BY <2>2, CommandFresh
    <2>3. CASE ReplyOk(w)
      <3>1. Advance(w) /\ UNCHANGED <<sent, log>> /\ wpc[w] = "wait" /\ wpos[w] \in Nat
        BY <2>3 DEF ReplyOk, ReadReply, TypeOK
      <3>2. \A v \in Worker : \A item : Ahead(v, item)' => Ahead(v, item)
        <4> SUFFICES ASSUME NEW v \in Worker, NEW item, Ahead(v, item)' PROVE Ahead(v, item)
          OBVIOUS
        <4>1. CASE v # w
          BY <3>1, <4>1 DEF Ahead, Advance, TypeOK
        <4>2. CASE v = w
          <5>1. wreq[w] \in Request /\ wreq'[w] = wreq[w] /\ wpc[w] # "idle"
            BY <3>1, <4>2 DEF Advance, TypeOK
          <5>2. PICK i \in DOMAIN Items[wreq[w]] :
                   /\ item = Items[wreq[w]][i]
                   /\ i > wpos'[w] \/ (i = wpos'[w] /\ wstore'[w] = "redis")
            BY <4>2, <5>1 DEF Ahead
          <5>3. i \in Nat
            BY <5>1, ItemsAssumption, LenProperties
          <5>4. \/ wpos'[w] = wpos[w] /\ wstore'[w] = "mysql"
                \/ wpos'[w] = wpos[w] + 1
            BY <3>1 DEF Advance, TypeOK
          <5>5. i > wpos[w]
            BY <3>1, <5>2, <5>3, <5>4
          <5> QED
            BY <4>2, <5>1, <5>2, <5>5 DEF Ahead
        <4> QED
          BY <4>1, <4>2
      <3> QED
        BY <3>1, <3>2, FreshFrame DEF Advance, TypeOK
    <2>4. CASE Succeed(w) \/ RejectItem(w) \/ CommandFails(w) \/ ReplyError(w) \/ ReplyLost(w)
      BY <2>4, AnswerFresh DEF Succeed, RejectItem, CommandFails, ReplyError, ReplyLost, ReadReply
    <2> QED
      BY <1>1, <2>1, <2>2, <2>3, <2>4 DEF WorkerStep
  <1>2. ASSUME NEW s \in Store, StoreStep(s) PROVE FreshInv'
    <2>1. PICK e \in Item :
             /\ Range(sent[s]) = {e} /\ sent' = [sent EXCEPT ![s] = << >>]
             /\ \/ log' = [log EXCEPT ![s] = Append(@, e)] /\ Range(log'[s]) = Range(log[s]) \cup {e}
                \/ log' = log
             /\ UNCHANGED <<todo, wpc, wreq, wpos, wstore>>
      BY <1>2, OneReply
    <2>2. sent'[s] = << >> /\ Range(sent'[s]) = {} /\ Len(sent'[s]) <= 1
      BY <2>1 DEF TypeOK, Range
    <2>3. \A t \in Store \ {s} : sent'[t] = sent[t] /\ log'[t] = log[t]
      BY <2>1 DEF TypeOK
    <2> QED
      BY <2>1, <2>2, <2>3, StoreFresh
  <1>3. ASSUME NEW s \in Store, Break(s) PROVE FreshInv'
    <2>1. PICK n \in 0 .. Len(sent[s]) : sent' = [sent EXCEPT ![s] = SubSeq(@, 1, n)]
      BY <1>3 DEF Break
    <2>2. sent[s] \in Seq(Item) /\ Len(sent[s]) \in Nat /\ Len(sent[s]) <= 1
      BY LenProperties DEF TypeOK, FreshInv
    <2>3. Range(SubSeq(sent[s], 1, n)) \subseteq Range(sent[s])
      BY <2>2, Smaller
    <2>4. Len(SubSeq(sent[s], 1, n)) = n
      <3>1. \A i \in 1 .. n : sent[s][i] \in Item
        BY <2>2, ElementOfSeq, LenProperties
      <3> QED
        BY <2>2, <3>1, SubSeqProperties
    <2>5. UNCHANGED <<todo, wpc, wreq, wpos, wstore, log>>
      BY <1>3 DEF Break
    <2>6. \A t \in Store \ {s} : sent'[t] = sent[t]
      BY <2>1 DEF TypeOK
    <2>7. sent'[s] = SubSeq(sent[s], 1, n)
      BY <2>1 DEF TypeOK
    <2>8. Len(sent'[s]) <= 1
      BY <2>2, <2>4, <2>7
    <2> QED
      BY <2>3, <2>5, <2>6, <2>7, <2>8, StoreFresh
  <1>4. CASE Crash \/ (\E w \in Worker : AssertFails(w)) \/ Ended \/ UNCHANGED vars
    <2>1. UNCHANGED <<todo, wpc, wreq, wpos, wstore, sent, log>>
      BY <1>4 DEF Crash, AssertFails, Ended, vars
    <2> QED
      BY <2>1, FreshFrame DEF Ahead
  <1> QED
    BY <1>1, <1>2, <1>3, <1>4 DEF Next

LEMMA InStore == "redis" \in Store /\ "mysql" \in Store /\ \A s \in Store : s = "redis" \/ s = "mysql"
  BY DEF Store

(* A step that changes neither store nor what is sent to them. *)
LEMMA NewestFrame ==
    ASSUME NewestInv, UNCHANGED <<sent, log>>, \A w \in Worker : HandedOver(w)'
    PROVE  NewestInv'
  <1>1. \A s \in Store : \A k : Newest(s, k)' = Newest(s, k)
    BY NewestSame
  <1> QED
    BY <1>1, InStore DEF NewestInv, IsNewest, Stored

(* A worker whose place is not after Redis has handed nothing over. *)
LEMMA HandsOver ==
    ASSUME NewestInv, UNCHANGED <<sent, log>>, NEW w \in Worker,
           \/ wpc'[w] = "idle"
           \/ wpc'[w] = "call" /\ wstore'[w] = "redis"
           \/ /\ UNCHANGED <<wpc[w], wstore[w], wreq[w], wpos[w]>>
              /\ replies'["redis"] = replies["redis"] \/ replies'["redis"] = << >>
    PROVE  HandedOver(w)'
  <1>1. \A item : IsNewest(item, "redis")' <=> IsNewest(item, "redis")
    BY NewestSame DEF IsNewest
  <1>2. << >> # <<TRUE>> /\ "redis" # "mysql"
    OBVIOUS
  <1> QED
    BY <1>1, <1>2 DEF NewestInv, HandedOver, AtMysql, Waits, Current

LEMMA AnswerNewest ==
    ASSUME TypeOK, OneInv, NewestInv, NEW w \in Worker, NEW status, Answer(w, status),
           wpc[w] # "idle", UNCHANGED <<sent, log>>
    PROVE  NewestInv'
  <1>1. \A v \in Worker : wpc'[v] = "idle"
    BY OthersIdle DEF Answer, OneInv, TypeOK
  <1>2. \A v \in Worker : HandedOver(v)'
    BY <1>1, HandsOver
  <1> QED
    BY <1>2, NewestFrame

LEMMA ReplyOkNewest ==
    ASSUME TypeOK, OneInv, NewestInv, NEW w \in Worker, ReplyOk(w)
    PROVE  NewestInv'
  <1>1. /\ wpc[w] = "wait" /\ wstore[w] \in Store /\ UNCHANGED <<sent, log, wreq>>
        /\ wpc' = [wpc EXCEPT ![w] = "call"] /\ ReadReply(w, TRUE)
    BY DEF ReplyOk, ReadReply, Advance, storeVars, TypeOK
  <1>2. \A v \in Worker \ {w} : wpc'[v] = "idle"
    BY <1>1, OthersIdle DEF OneInv, TypeOK
  <1>3. CASE wstore[w] = "mysql"
    <2>1. wstore'[w] = "redis" /\ wpc'[w] = "call"
      BY <1>1, <1>3 DEF ReplyOk, Advance, TypeOK
    <2>2. \A v \in Worker : HandedOver(v)'
      BY <1>1, <1>2, <2>1, HandsOver
    <2> QED
      BY <1>1, <2>2, NewestFrame
  <1>4. CASE wstore[w] = "redis"
    <2>1. Waits(w, "redis") /\ Matched("redis") /\ replies["redis"] # << >> /\ Head(replies["redis"]) = TRUE
      BY <1>1, <1>4, InStore DEF Waits, OneInv, ReadReply
    <2>2. sent["redis"] = << >> /\ replies["redis"] = <<TRUE>>
      <3>1. replies["redis"] # <<FALSE>>
        BY <2>1, SingleReply, Zenon
      <3> QED
        BY <2>1, <3>1 DEF Matched
    <2>3. \A item \in Item : item = Current(w) => IsNewest(item, "redis")
      BY <2>1, <2>2 DEF NewestInv, HandedOver, AtMysql
    <2>4. \A item : IsNewest(item, "redis")' <=> IsNewest(item, "redis")
      BY <1>1, NewestSame DEF IsNewest
    <2>5. Current(w)' = Current(w) /\ wpc'[w] = "call"
      BY <1>1, <1>4 DEF Current, ReplyOk, Advance, TypeOK
    <2>6. HandedOver(w)'
      BY <1>1, <2>2, <2>3, <2>4, <2>5 DEF HandedOver, AtMysql, Waits
    <2>7. \A v \in Worker : HandedOver(v)'
      BY <1>1, <1>2, <2>6, HandsOver
    <2> QED
      BY <1>1, <2>7, NewestFrame
  <1> QED
    BY <1>1, <1>3, <1>4, InStore

LEMMA CommandNewest ==
    ASSUME TypeOK, OneInv, NewestInv, NEW w \in Worker, Command(w)
    PROVE  NewestInv'
  <1>1. PICK e \in Item : e = Current(w)
    BY CommandSends
  <1>2. /\ wpc[w] = "call" /\ wstore[w] \in Store
        /\ sent[wstore[w]] = << >> /\ replies[wstore[w]] = << >>
        /\ sent' = [sent EXCEPT ![wstore[w]] = <<e>>]
        /\ wpc' = [wpc EXCEPT ![w] = "wait"] /\ UNCHANGED <<wreq, wpos, wstore, log, replies>>
        /\ \A v \in Worker \ {w} : wpc'[v] = "idle"
    BY <1>1, CommandSends
  <1>3. \A s \in Store : \A k : Newest(s, k)' = Newest(s, k)
    BY <1>2, NewestSame
  <1>4. \A item : IsNewest(item, "redis")' <=> IsNewest(item, "redis")
    BY <1>3, InStore DEF IsNewest
  <1>5. Current(w)' = e
    BY <1>1, <1>2 DEF Current
  <1>6. \A k \in Range(Key) : Stored(Newest("redis", k), "mysql")' => Newest("mysql", k)' = Newest("redis", k)'
    BY <1>2, <1>3, InStore DEF NewestInv, Stored
  <1>7. \A v \in Worker : v # w => HandedOver(v)'
    BY <1>2 DEF HandedOver, AtMysql, Waits
  <1>8. CASE wstore[w] = "redis"
    <2>1. HandedOver(w)'
      <3>1. << >> # <<TRUE>> /\ "redis" # "mysql"
        OBVIOUS
      <3> QED
        BY <1>2, <1>8, <3>1 DEF HandedOver, AtMysql
    <2>2. sent'["mysql"] = sent["mysql"]
      BY <1>2, <1>8, InStore DEF TypeOK
    <2>3. \A item \in Range(sent'["mysql"]) :
             IsNewest(item, "redis")' \/ ~Stored(Newest("redis", Key[item]), "mysql")'
      BY <1>2, <1>3, <1>4, <2>2, InStore DEF NewestInv, Stored
    <2> QED
      BY <1>6, <1>7, <2>1, <2>3 DEF NewestInv
  <1>9. CASE wstore[w] = "mysql"
    <2>1. sent["redis"] = << >> /\ IsNewest(e, "redis")
      BY <1>1, <1>2, <1>9 DEF NewestInv, HandedOver, AtMysql
    <2>2. sent'["redis"] = << >> /\ sent'["mysql"] = <<e>>
      BY <1>2, <1>9, <2>1, InStore DEF TypeOK
    <2>3. HandedOver(w)'
      BY <1>2, <1>4, <1>5, <1>9, <2>1, <2>2 DEF HandedOver, AtMysql, Waits
    <2>4. Range(sent'["mysql"]) = {e}
      BY <2>2 DEF Range
    <2> QED
      BY <1>4, <1>6, <1>7, <2>1, <2>3, <2>4 DEF NewestInv
  <1> QED
    BY <1>2, <1>8, <1>9, InStore

(* A command that Redis executes is new to both stores. *)
LEMMA RedisNewest ==
    ASSUME TypeOK, OneInv, OrderInv, FreshInv, NewestInv, StoreStep("redis")
    PROVE  NewestInv'
  <1>1. PICK e \in Item :
           /\ Range(sent["redis"]) = {e} /\ Head(sent["redis"]) = e
           /\ sent' = [sent EXCEPT !["redis"] = << >>]
           /\ \/ Execute("redis") /\ log' = [log EXCEPT !["redis"] = Append(@, e)]
              \/ Refuse("redis") /\ log' = log
           /\ UNCHANGED <<todo, wpc, wreq, wpos, wstore, up>>
    BY OneReply, InStore
  <1>2. sent["redis"] # << >>
    BY <1>1 DEF Range
  <1>3. \A w \in Worker : wpc[w] # "idle" => wstore[w] = "redis"
    <2> SUFFICES ASSUME NEW w \in Worker, wpc[w] # "idle", wstore[w] = "mysql" PROVE FALSE
      BY InStore DEF TypeOK
    <2> QED
      BY <1>2 DEF NewestInv, HandedOver, AtMysql
  <1>4. sent'["mysql"] = sent["mysql"] /\ log'["mysql"] = log["mysql"]
    BY <1>1 DEF TypeOK, Store
  <1>5. ~Stored(e, "mysql")
    <2>1. OnItsWay(e, "redis") /\ ~Stored(e, "redis")
      BY <1>1 DEF FreshInv, OnItsWay
    <2>2. PICK r \in Request : e \in Range(Items[r])
      BY <2>1, InStore DEF FreshInv
    <2>3. PICK i \in DOMAIN Items[r] : e = Items[r][i]
      BY <2>2 DEF Range
    <2> QED
      BY <2>1, <2>3 DEF OrderInv, Ordered, OnItsWay
  <1>6. CASE Refuse("redis") /\ log' = log
    <2>1. \A s \in Store : \A k : Newest(s, k)' = Newest(s, k)
      BY <1>6, NewestSame
    <2>2. ASSUME NEW w \in Worker PROVE HandedOver(w)'
      <3>1. ~(wpc'[w] # "idle" /\ wstore'[w] = "mysql")
        BY <1>1, <1>3
      <3>2. ~(Waits(w, "redis")' /\ replies'["redis"] = <<TRUE>>)
        <4>1. CASE up["redis"] /\ Waits(w, "redis")
          <5>1. replies["redis"] = << >>
            BY <1>2, <4>1, InStore DEF OneInv, Matched
          <5>2. replies'["redis"] = <<FALSE>>
            <6>1. Append(<< >>, FALSE) = <<FALSE>>
              OBVIOUS
            <6>2. replies' = [replies EXCEPT !["redis"] = Append(replies["redis"], FALSE)]
              BY <1>6, <4>1 DEF Refuse, Reply
            <6> QED
              BY <5>1, <6>1, <6>2, InStore DEF TypeOK
          <5>3. <<FALSE>> # <<TRUE>>
            BY SingleReply, Zenon
          <5> QED
            BY <5>2, <5>3
        <4>2. CASE ~up["redis"]
          <5>1. replies'["redis"] = << >>
            BY <1>6, <4>2, InStore DEF Refuse, Reply, OneInv, Matched
          <5> QED
            BY <5>1
        <4> QED
          BY <1>1, <4>1, <4>2 DEF Waits
      <3> QED
        BY <3>1, <3>2 DEF HandedOver, AtMysql
    <2> QED
      BY <1>4, <1>6, <2>1, <2>2, InStore DEF NewestInv, IsNewest, Stored
  <1>7. CASE Execute("redis") /\ log' = [log EXCEPT !["redis"] = Append(@, e)]
    <2>1. log'["redis"] = Append(log["redis"], e)
      BY <1>7, InStore DEF TypeOK
    <2>2. \A k : Newest("redis", k)' = IF k = Key[e] THEN e ELSE Newest("redis", k)
      BY <2>1, InStore, NewestPushed
    <2>3. \A k : Newest("mysql", k)' = Newest("mysql", k)
      BY <1>4, NewestSame
    <2>4. \A x : Stored(x, "mysql")' <=> Stored(x, "mysql")
      BY <1>4 DEF Stored
    <2>5. ASSUME NEW w \in Worker PROVE HandedOver(w)'
      <3>1. ~(wpc'[w] # "idle" /\ wstore'[w] = "mysql")
        BY <1>1, <1>3
      <3>2. ASSUME Waits(w, "redis")', replies'["redis"] = <<TRUE>>, NEW item \in Item, item = Current(w)'
            PROVE  IsNewest(item, "redis")'
        <4>1. Waits(w, "redis") /\ item = Current(w)
          BY <1>1, <3>2 DEF Waits, Current
        <4>2. up["redis"]
          <5> SUFFICES ASSUME ~up["redis"] PROVE FALSE
            OBVIOUS
          <5>1. replies'["redis"] = << >>
            BY <1>7, InStore DEF Execute, Reply, OneInv, Matched
          <5> QED
            BY <3>2, <5>1
        <4>3. sent["redis"] = <<item>>
          BY <1>2, <4>1, <4>2, InStore DEF OneInv, Matched
        <4>4. item = e
          BY <1>1, <4>3 DEF Range
        <4> QED
          BY <2>2, <4>4 DEF IsNewest
      <3> QED
        BY <3>1, <3>2 DEF HandedOver, AtMysql
    <2>6. \A item \in Range(sent'["mysql"]) :
             IsNewest(item, "redis")' \/ ~Stored(Newest("redis", Key[item]), "mysql")'
      <3> SUFFICES ASSUME NEW item \in Range(sent["mysql"])
                   PROVE  IsNewest(item, "redis")' \/ ~Stored(Newest("redis", Key[item]), "mysql")'
        BY <1>4
      <3>1. IsNewest(item, "redis") \/ ~Stored(Newest("redis", Key[item]), "mysql")
        BY DEF NewestInv
      <3>2. PICK x : x = Newest("redis", Key[item])'
        OBVIOUS
      <3>3. ~Stored(x, "mysql") => ~Stored(x, "mysql")'
        BY <2>4
      <3> QED
        BY <1>5, <2>2, <3>1, <3>2, <3>3 DEF IsNewest
    <2>7. \A k \in Range(Key) : Stored(Newest("redis", k), "mysql")' => Newest("mysql", k)' = Newest("redis", k)'
      BY <1>4, <1>5, <2>2, <2>3 DEF NewestInv, Stored
    <2> QED
      BY <2>5, <2>6, <2>7 DEF NewestInv
  <1> QED
    BY <1>1, <1>6, <1>7

(* What MySQL executes is the newest item of its key in Redis, or is older *)
(* there than an item that does not reach MySQL.                           *)
LEMMA MysqlNewest ==
    ASSUME TypeOK, OneInv, FreshInv, NewestInv, StoreStep("mysql")
    PROVE  NewestInv'
  <1>1. PICK e \in Item :
           /\ Range(sent["mysql"]) = {e} /\ Head(sent["mysql"]) = e
           /\ sent' = [sent EXCEPT !["mysql"] = << >>]
           /\ \/ Execute("mysql") /\ log' = [log EXCEPT !["mysql"] = Append(@, e)]
                                  /\ Range(log'["mysql"]) = Range(log["mysql"]) \cup {e}
              \/ Refuse("mysql") /\ log' = log
           /\ UNCHANGED <<todo, wpc, wreq, wpos, wstore, up>>
    BY OneReply, InStore
  <1>2. sent'["redis"] = sent["redis"] /\ log'["redis"] = log["redis"] /\ sent'["mysql"] = << >>
    BY <1>1 DEF TypeOK, Store
  <1>3. replies'["redis"] = replies["redis"]
    BY DEF StoreStep, Execute, Refuse, Reply, TypeOK, Store
  <1>4. \A k : Newest("redis", k)' = Newest("redis", k)
    BY <1>2, NewestSame
  <1>5. ASSUME NEW w \in Worker PROVE HandedOver(w)'
    BY <1>1, <1>2, <1>3, <1>4 DEF NewestInv, HandedOver, AtMysql, Waits, Current, IsNewest
  <1>6. \A item \in Range(sent'["mysql"]) :
           IsNewest(item, "redis")' \/ ~Stored(Newest("redis", Key[item]), "mysql")'
    BY <1>2 DEF Range
  <1>7. CASE Refuse("mysql") /\ log' = log
    <2>1. \A k : Newest("mysql", k)' = Newest("mysql", k)
      BY <1>7, NewestSame
    <2> QED
      BY <1>4, <1>5, <1>6, <1>7, <2>1 DEF NewestInv, Stored
  <1>8. CASE /\ log' = [log EXCEPT !["mysql"] = Append(@, e)]
             /\ Range(log'["mysql"]) = Range(log["mysql"]) \cup {e}
    <2>1. log'["mysql"] = Append(log["mysql"], e)
      BY <1>8, InStore DEF TypeOK
    <2>2. \A k : Newest("mysql", k)' = IF k = Key[e] THEN e ELSE Newest("mysql", k)
      BY <2>1, InStore, NewestPushed
    <2>3. Newest("redis", Key[e]) = e \/ ~Stored(Newest("redis", Key[e]), "mysql")
      BY <1>1 DEF NewestInv, IsNewest
    <2>4. ASSUME NEW k \in Range(Key), Stored(Newest("redis", k), "mysql")'
          PROVE  Newest("mysql", k)' = Newest("redis", k)'
      <3>1. Newest("redis", k) = e \/ Stored(Newest("redis", k), "mysql")
        BY <1>4, <1>8, <2>4 DEF Stored
      <3>2. CASE k = Key[e]
        BY <1>4, <2>2, <2>3, <3>1, <3>2
      <3>3. CASE k # Key[e]
        <4>1. Newest("redis", k) # e
          <5>1. e # NoItem
            BY NamesAssumption
          <5> QED
            BY <3>3, <5>1, InStore, NewestStored
        <4> QED
          BY <1>4, <2>2, <3>1, <3>3, <4>1 DEF NewestInv
      <3> QED
        BY <3>2, <3>3
    <2> QED
      BY <1>5, <1>6, <2>4 DEF NewestInv
  <1> QED
    BY <1>1, <1>7, <1>8

LEMMA BreakNewest ==
    ASSUME TypeOK, NewestInv, NEW s \in Store, Break(s)
    PROVE  NewestInv'
  <1>1. PICK n \in 0 .. Len(sent[s]) : sent' = [sent EXCEPT ![s] = SubSeq(@, 1, n)]
    BY DEF Break
  <1>2. replies' = [replies EXCEPT ![s] = << >>] /\ UNCHANGED <<log, wpc, wreq, wpos, wstore>>
    BY DEF Break, workerVars
  <1>3. \A t \in Store : \A k : Newest(t, k)' = Newest(t, k)
    BY <1>2, NewestSame
  <1>4. sent["redis"] = << >> => sent'["redis"] = << >>
    <2>1. SubSeq(<< >>, 1, 0) = << >> /\ Len(<< >>) = 0
      OBVIOUS
    <2> QED
      BY <1>1, <2>1, InStore DEF TypeOK
  <1>5. Range(sent'["mysql"]) \subseteq Range(sent["mysql"])
    BY <1>1, InStore, Smaller DEF TypeOK
  <1>6. replies'["redis"] = replies["redis"] \/ replies'["redis"] = << >>
    BY <1>2, InStore DEF TypeOK
  <1>7. << >> # <<TRUE>>
    OBVIOUS
  <1>8. ASSUME NEW w \in Worker PROVE HandedOver(w)'
    <2>1. \A item : IsNewest(item, "redis")' <=> IsNewest(item, "redis")
      BY <1>3, InStore DEF IsNewest
    <2> QED
      BY <1>2, <1>4, <1>6, <1>7, <2>1 DEF NewestInv, HandedOver, AtMysql, Waits, Current
  <1> QED
    BY <1>2, <1>3, <1>5, <1>8, InStore DEF NewestInv, IsNewest, Stored

LEMMA NewestStep ==
    ASSUME TypeOK, OneInv, OrderInv, FreshInv, NewestInv, [Next]_vars
    PROVE  NewestInv'
  <1> USE DEF storeVars, workerVars
  <1>1. ASSUME NEW w \in Worker, WorkerStep(w) PROVE NewestInv'
    <2>1. CASE Take(w)
      <3>1. \A v \in Worker : HandedOver(v)'
        <4>1. /\ wpc[w] = "idle" /\ wpc' = [wpc EXCEPT ![w] = "call"] /\ wstore[w] = "redis"
              /\ UNCHANGED <<wpos, wstore, sent, log, replies>>
              /\ \A v \in Worker \ {w} : wreq'[v] = wreq[v]
          BY <2>1 DEF Take, OneInv, Alone, TypeOK
        <4>2. wpc'[w] = "call" /\ wstore'[w] = "redis"
          BY <4>1 DEF TypeOK
        <4>3. ASSUME NEW v \in Worker, v # w PROVE UNCHANGED <<wpc[v], wstore[v], wreq[v], wpos[v]>>
          BY <4>1, <4>3
        <4> QED
          BY <4>1, <4>2, <4>3, HandsOver
      <3> QED
        BY <2>1, <3>1, NewestFrame DEF Take
    <2>2. CASE Command(w)
      BY <2>2, CommandNewest
    <2>3. CASE ReplyOk(w)
      BY <2>3, ReplyOkNewest
    <2>4. CASE Succeed(w) \/ RejectItem(w) \/ CommandFails(w) \/ ReplyError(w) \/ ReplyLost(w)
      <3>1. wpc[w] # "idle" /\ UNCHANGED <<sent, log>>
        BY <2>4 DEF Succeed, RejectItem, LooksUp, CommandFails, Ready, ReplyError, ReplyLost, ReadReply
      <3> QED
        BY <2>4, <3>1, AnswerNewest DEF Succeed, RejectItem, CommandFails, ReplyError, ReplyLost
    <2> QED
      BY <1>1, <2>1, <2>2, <2>3, <2>4 DEF WorkerStep
  <1>2. ASSUME NEW s \in Store, StoreStep(s) PROVE NewestInv'
    BY <1>2, InStore, RedisNewest, MysqlNewest
  <1>3. CASE Crash \/ (\E w \in Worker : AssertFails(w)) \/ Ended \/ UNCHANGED vars
    <2>1. UNCHANGED <<wpc, wreq, wpos, wstore, sent, log, replies>>
      BY <1>3 DEF Crash, AssertFails, Ended, vars
    <2>2. \A w \in Worker : HandedOver(w)'
      BY <2>1, HandsOver
    <2> QED
      BY <2>1, <2>2, NewestFrame
  <1> QED
    BY <1>1, <1>2, <1>3, BreakNewest DEF Next

(* Where the stores disagree about a key, the item in Redis has not reached*)
(* MySQL, so its client was not told of success.                           *)
LEMMA NewestAgrees ==
    ASSUME TypeOK, OneInv, OrderInv, FreshInv, NewestInv
    PROVE  CacheAgrees
  <1> SUFFICES ASSUME NEW k \in Range(Key), Newest("redis", k) # Newest("mysql", k)
               PROVE  \E r \in Request : answer[r] # "success" /\ Newest("redis", k) \in Range(Items[r])
    BY DEF CacheAgrees
  <1>1. ASSUME NEW item, NEW s \in Store, Stored(item, s)
        PROVE  \E r \in Request : item \in Range(Items[r])
    BY <1>1 DEF FreshInv, OnItsWay
  <1>2. Newest("redis", k) # NoItem
    <2> SUFFICES ASSUME Newest("redis", k) = NoItem PROVE FALSE
      OBVIOUS
    <2>1. PICK y : y = Newest("mysql", k) /\ y # NoItem
      OBVIOUS
    <2>2. Stored(y, "mysql") /\ Key[y] = k
      BY <2>1, InStore, NewestStored
    <2>3. PICK r \in Request : y \in Range(Items[r])
      BY <1>1, <2>2, InStore
    <2>4. Stored(y, "redis")
      BY <2>2, <2>3 DEF OrderInv, Ordered, OnItsWay, Range
    <2> QED
      BY <2>2, <2>4, InStore, NewestNone
  <1>3. ~Stored(Newest("redis", k), "mysql")
    BY DEF NewestInv
  <1>4. PICK r \in Request : Newest("redis", k) \in Range(Items[r])
    BY <1>1, <1>2, InStore, NewestStored
  <1>5. answer[r] # "success"
    BY <1>3, <1>4, InStore DEF OneInv, Acked, Stored
  <1> QED
    BY <1>4, <1>5

(* With one worker, the cache differs from the newest row of a key only by *)
(* an item whose client was told of an error or of nothing yet, even when  *)
(* MySQL executes a command after its connection was lost                  *)
(* (processKeyValue, DBManager::setRedis and setMySQL).                    *)
THEOREM CacheFollowsDatabase == Spec => []CacheAgrees
  <1> DEFINE Inv == OneInv /\ OrderInv /\ FreshInv /\ NewestInv
  <1>1. Init => (OneWorker => Inv)
    <2> SUFFICES ASSUME Init, OneWorker PROVE Inv
      OBVIOUS
    <2>1. \A s \in Store : sent[s] = << >> /\ log[s] = << >> /\ Range(sent[s]) = {} /\ Range(log[s]) = {}
      BY DEF Init, Range
    <2>2. \A s \in Store : \A item : ~OnItsWay(item, s) /\ ~Stored(item, s)
      BY <2>1 DEF OnItsWay, Stored
    <2>3. \A w \in Worker : wpc[w] = "idle"
      BY DEF Init
    <2>4. OneInv
      BY OneInit
    <2>5. OrderInv
      BY <2>2, InStore DEF OrderInv, Ordered
    <2>6. FreshInv
      BY <2>1, <2>2, <2>3, InStore DEF FreshInv, Ahead
    <2>7. NewestInv
      BY <2>1, <2>2, <2>3, InStore DEF NewestInv, HandedOver, AtMysql, Waits
    <2> QED
      BY <2>4, <2>5, <2>6, <2>7
  <1>2. TypeOK /\ (OneWorker => Inv) /\ [Next]_vars => (OneWorker => Inv)'
    BY OneStep, OrderStep, FreshStep, NewestStep, PoolFixed DEF OneWorker
  <1>3. TypeOK /\ (OneWorker => Inv) => CacheAgrees
    BY NewestAgrees DEF CacheAgrees
  <1> QED
    BY <1>1, <1>2, <1>3, TypeCorrect, PTL DEF Spec

-----------------------------------------------------------------------------
(* Failures, for any number of workers.  Each refused command is paid for  *)
(* by a failed request, or will be: on a usable connection by the FALSE    *)
(* reply that somebody reads, and when the connection is lost by those who *)
(* wait on it, who are never fewer than the commands and replies on it.    *)

Falses(q) == {i \in DOMAIN q : q[i] = FALSE}
Waiting(s) == {w \in Worker : Waits(w, s)}

(* What a connection will still add to Failed, less what it will still add *)
(* to Refusals without telling anybody.                                    *)
Debt(s) ==
    IF up[s] THEN Cardinality(Falses(replies[s]))
             ELSE Cardinality(Waiting(s)) - Len(sent[s])

(* Every request is one worker's, and is unanswered as long as it is. *)
OwnRequests ==
    /\ \A r \in todo : answer[r] = "none"
    /\ \A w \in Worker : wpc[w] # "idle" => w \in pool /\ wreq[w] \notin todo /\ answer[wreq[w]] = "none"
    /\ \A v, w \in Worker : wpc[v] # "idle" /\ wpc[w] # "idle" /\ wreq[v] = wreq[w] => v = w

Lines ==
    \A s \in Store :
        /\ ~up[s] => replies[s] = << >>
        /\ up[s] => Cardinality(Waiting(s)) = Len(sent[s]) + Len(replies[s])

Paid ==
    /\ IsFiniteSet(Failed) /\ IsFiniteSet(Refusals)
    /\ Cardinality(Refusals) - Cardinality(Failed) <= Debt("redis") + Debt("mysql")

ToldInv == OwnRequests /\ Lines /\ Paid

LEMMA FalsesType ==
    ASSUME NEW q \in Seq(BOOLEAN)
    PROVE  /\ IsFiniteSet(Falses(q)) /\ Cardinality(Falses(q)) \in Nat
           /\ Cardinality(Falses(q)) <= Len(q)
  <1>1. Len(q) \in Nat /\ DOMAIN q = 1 .. Len(q)
    BY LenProperties
  <1>2. IsFiniteSet(1 .. Len(q)) /\ Cardinality(1 .. Len(q)) = Len(q)
    BY <1>1, FS_Interval
  <1>3. Falses(q) \in SUBSET (1 .. Len(q))
    BY <1>1 DEF Falses
  <1> QED
    BY <1>2, <1>3, FS_Subset, FS_CardinalityType

LEMMA FalsesAppend ==
    ASSUME NEW q \in Seq(BOOLEAN), NEW b \in BOOLEAN
    PROVE  Cardinality(Falses(Append(q, b))) = Cardinality(Falses(q)) + (IF b = FALSE THEN 1 ELSE 0)
  <1> DEFINE more == Append(q, b)
  <1>1. /\ Len(q) \in Nat /\ DOMAIN q = 1 .. Len(q) /\ DOMAIN more = 1 .. (Len(q) + 1)
        /\ more[Len(q) + 1] = b /\ \A i \in 1 .. Len(q) : more[i] = q[i]
    BY LenProperties, AppendProperties
  <1> HIDE DEF more
  <1>2. IsFiniteSet(Falses(q)) /\ Cardinality(Falses(q)) \in Nat
    BY FalsesType
  <1>5. \A i : i \in 1 .. (Len(q) + 1) <=> i \in 1 .. Len(q) \/ i = Len(q) + 1
    BY <1>1
  <1>6. Len(q) + 1 \notin 1 .. Len(q)
    BY <1>1
  <1>7. Len(q) + 1 \notin Falses(q)
    BY <1>1, <1>6 DEF Falses
  <1>3. CASE b = TRUE
    <2>1. Falses(more) = Falses(q)
      BY <1>1, <1>3, <1>5 DEF Falses
    <2> QED
      BY <1>2, <1>3, <2>1 DEF more
  <1>4. CASE b = FALSE
    <2>1. Falses(more) = Falses(q) \cup {Len(q) + 1}
      BY <1>1, <1>4, <1>5 DEF Falses
    <2>2. Cardinality(Falses(q) \cup {Len(q) + 1}) = Cardinality(Falses(q)) + 1
      BY <1>2, <1>7, FS_AddElement
    <2> QED
      BY <1>4, <2>1, <2>2 DEF more
  <1> QED
    BY <1>3, <1>4

LEMMA FalsesTail ==
    ASSUME NEW q \in Seq(BOOLEAN), q # << >>
    PROVE  Cardinality(Falses(Tail(q))) >= Cardinality(Falses(q)) - (IF Head(q) = FALSE THEN 1 ELSE 0)
  <1> DEFINE rest == Tail(q)
             f == [i \in Falses(q) \ {1} |-> i - 1]
  <1>1. /\ Len(q) \in Nat /\ Len(q) > 0 /\ DOMAIN q = 1 .. Len(q) /\ Head(q) = q[1]
        /\ rest \in Seq(BOOLEAN) /\ DOMAIN rest = 1 .. (Len(q) - 1)
        /\ \A i \in 1 .. (Len(q) - 1) : rest[i] = q[i + 1]
    BY HeadTailProperties, LenProperties
  <1> HIDE DEF rest
  <1>2. ASSUME NEW i \in Falses(q) \ {1} PROVE i - 1 \in Falses(rest) /\ i \in Nat
    <2>1. i \in 1 .. Len(q) /\ i # 1 /\ q[i] = FALSE
      BY <1>1 DEF Falses
    <2>2. i - 1 \in 1 .. (Len(q) - 1) /\ (i - 1) + 1 = i
      BY <1>1, <2>1
    <2> QED
      BY <1>1, <2>1, <2>2 DEF Falses
  <1>3. f \in Injection(Falses(q) \ {1}, Falses(rest))
    <2>1. f \in [Falses(q) \ {1} -> Falses(rest)]
      BY <1>2
    <2>2. \A i, j \in Falses(q) \ {1} : f[i] = f[j] => i = j
      BY <1>2
    <2> QED
      BY <2>1, <2>2 DEF Injection, IsInjective
  <1>4. IsFiniteSet(Falses(rest)) /\ Cardinality(Falses(rest)) \in Nat
    BY <1>1, FalsesType
  <1>5. Cardinality(Falses(q) \ {1}) <= Cardinality(Falses(rest))
    BY <1>3, <1>4, FS_Injection
  <1>6. IsFiniteSet(Falses(q)) /\ Cardinality(Falses(q)) \in Nat
    BY FalsesType
  <1>7. 1 \in Falses(q) <=> Head(q) = FALSE
    <2>1. 1 \in DOMAIN q
      BY <1>1
    <2> QED
      BY <1>1, <2>1 DEF Falses
  <1>8. Cardinality(Falses(q) \ {1}) = IF 1 \in Falses(q) THEN Cardinality(Falses(q)) - 1 ELSE Cardinality(Falses(q))
    BY <1>6, FS_RemoveElement
  <1> HIDE DEF f
  <1>9. CASE Head(q) = FALSE
    BY <1>4, <1>5, <1>6, <1>7, <1>8, <1>9 DEF rest
  <1>10. CASE Head(q) # FALSE
    <2>1. Cardinality(Falses(q) \ {1}) = Cardinality(Falses(q))
      BY <1>7, <1>8, <1>10
    <2>2. Cardinality(Falses(q)) <= Cardinality(Falses(rest))
      BY <1>5, <2>1
    <2>3. Cardinality(Falses(rest)) >= Cardinality(Falses(q)) - 0
      BY <1>4, <1>6, <2>2
    <2> QED
      BY <1>10, <2>3 DEF rest
  <1> QED
    BY <1>9, <1>10

LEMMA WaitingFinite ==
    ASSUME TypeOK, OwnRequests
    PROVE  \A s \in Store : IsFiniteSet(Waiting(s)) /\ Cardinality(Waiting(s)) \in Nat
  <1> SUFFICES ASSUME NEW s \in Store PROVE IsFiniteSet(Waiting(s))
    BY FS_CardinalityType
  <1>1. IsFiniteSet(pool)
    BY PoolsAssumption DEF TypeOK
  <1>2. Waiting(s) \in SUBSET pool
    BY DEF Waiting, Waits, OwnRequests
  <1> QED
    BY <1>1, <1>2, FS_Subset

LEMMA DebtType ==
    ASSUME TypeOK, OwnRequests
    PROVE  \A s \in Store : Debt(s) \in Int /\ Len(sent[s]) \in Nat /\ Len(replies[s]) \in Nat
  <1> SUFFICES ASSUME NEW s \in Store
               PROVE  Debt(s) \in Int /\ Len(sent[s]) \in Nat /\ Len(replies[s]) \in Nat
    OBVIOUS
  <1>1. sent[s] \in Seq(Item) /\ replies[s] \in Seq(BOOLEAN)
    BY DEF TypeOK
  <1> QED
    BY <1>1, LenProperties, FalsesType, WaitingFinite DEF Debt

(* When nobody has anything to do, no debt is left. *)
LEMMA PaidTells == TypeOK /\ ToldInv => FailuresTold
  <1> SUFFICES ASSUME TypeOK, ToldInv, Quiet PROVE Cardinality(Refusals) <= Cardinality(Failed)
    BY DEF FailuresTold
  <1>1. \A s \in Store : Waiting(s) = {}
    BY DEF Quiet, Waiting, Waits
  <1>2. ASSUME NEW s \in Store PROVE Debt(s) \in Int /\ Debt(s) <= 0
    <2>1. Cardinality(Waiting(s)) = 0 /\ Len(sent[s]) \in Nat /\ Len(replies[s]) \in Nat
      BY <1>1, FS_EmptySet, DebtType DEF ToldInv
    <2>2. CASE up[s]
      <3>1. Cardinality(Waiting(s)) = Len(sent[s]) + Len(replies[s])
        BY <2>2 DEF ToldInv, Lines
      <3>3. Len(replies[s]) = 0
        <4>1. \A x, y \in Nat : x + y = 0 => y = 0
          OBVIOUS
        <4> QED
          BY <2>1, <3>1, <4>1
      <3>2. /\ Cardinality(Falses(replies[s])) \in Nat
            /\ Cardinality(Falses(replies[s])) <= Len(replies[s])
        BY FalsesType DEF TypeOK
      <3> QED
        BY <2>2, <3>2, <3>3 DEF Debt
    <2>3. CASE ~up[s]
      BY <2>1, <2>3 DEF Debt
    <2> QED
      BY <2>2, <2>3
  <1>3. Cardinality(Refusals) \in Nat /\ Cardinality(Failed) \in Nat
    BY FS_CardinalityType DEF ToldInv, Paid
  <1> QED
    BY <1>2, <1>3, InStore DEF ToldInv, Paid

(* A request that is answered was unanswered and is nobody else's. *)
LEMMA AnswerOwn ==
    ASSUME TypeOK, OwnRequests, NEW w \in Worker, wpc[w] # "idle", NEW status, Answer(w, status),
           UNCHANGED pool
    PROVE  OwnRequests'
  <1>1. \A v \in Worker : wpc'[v] # "idle" => v # w /\ wpc[v] # "idle" /\ wreq'[v] = wreq[v]
    BY DEF Answer, TypeOK
  <1>2. \A r \in Request : r # wreq[w] => answer'[r] = answer[r]
    BY DEF Answer, TypeOK
  <1>3. \A v \in Worker : wpc[v] # "idle" => wreq[v] \in Request
    BY DEF TypeOK
  <1>4. todo' = todo /\ todo \subseteq Request /\ wreq[w] \notin todo
    BY DEF Answer, TypeOK, OwnRequests
  <1> QED
    BY <1>1, <1>2, <1>3, <1>4 DEF OwnRequests

LEMMA TakeOwn ==
    ASSUME TypeOK, OwnRequests, NEW w \in Worker, Take(w), UNCHANGED pool
    PROVE  OwnRequests'
  <1>1. PICK r \in todo : todo' = todo \ {r} /\ wreq' = [wreq EXCEPT ![w] = r]
    BY DEF Take
  <1>2. wpc' = [wpc EXCEPT ![w] = "call"] /\ answer' = answer /\ w \in pool
    BY DEF Take
  <1>3. wreq'[w] = r /\ \A v \in Worker \ {w} : wreq'[v] = wreq[v] /\ wpc'[v] = wpc[v]
    BY <1>1, <1>2 DEF TypeOK
  <1>4. ASSUME NEW v \in Worker, wpc'[v] # "idle"
        PROVE  v \in pool /\ wreq'[v] \notin todo' /\ answer'[wreq'[v]] = "none"
    BY <1>1, <1>2, <1>3, <1>4 DEF OwnRequests
  <1>5. ASSUME NEW u \in Worker, NEW v \in Worker, wpc'[u] # "idle", wpc'[v] # "idle", wreq'[u] = wreq'[v]
        PROVE  u = v
    BY <1>3, <1>5 DEF OwnRequests
  <1> QED
    BY <1>1, <1>2, <1>4, <1>5 DEF OwnRequests

LEMMA OwnRequestsStep == TypeOK /\ OwnRequests /\ [Next]_vars => OwnRequests'
  <1> SUFFICES ASSUME TypeOK, OwnRequests, [Next]_vars PROVE OwnRequests'
    OBVIOUS
  <1>1. ASSUME NEW w \in Worker, WorkerStep(w) PROVE OwnRequests'
    <2>1. CASE Take(w)
      BY <1>1, <2>1, TakeOwn DEF WorkerStep
    <2>2. CASE Command(w) \/ ReplyOk(w)
      <3>1. UNCHANGED <<pool, todo, wreq, answer>> /\ wpc[w] # "idle"
            /\ \A v \in Worker \ {w} : wpc'[v] = wpc[v]
        BY <1>1, <2>2 DEF WorkerStep, Command, Ready, ReplyOk, ReadReply, Advance, TypeOK
      <3> QED
        BY <3>1 DEF OwnRequests
    <2>3. CASE Succeed(w) \/ RejectItem(w) \/ CommandFails(w) \/ ReplyError(w) \/ ReplyLost(w)
      BY <1>1, <2>3, AnswerOwn DEF WorkerStep, Succeed, RejectItem, LooksUp, CommandFails, Ready,
         ReplyError,
                                   ReplyLost, ReadReply
    <2> QED
      BY <1>1, <2>1, <2>2, <2>3 DEF WorkerStep
  <1>2. ASSUME UNCHANGED <<pool, todo, wpc, wreq, answer>> PROVE OwnRequests'
    BY <1>2 DEF OwnRequests
  <1>3. ASSUME NEW s \in Store, StoreStep(s) PROVE OwnRequests'
    BY <1>2, <1>3 DEF StoreStep, Execute, Refuse, Reply, workerVars
  <1>4. ASSUME NEW s \in Store, Break(s), UNCHANGED pool PROVE OwnRequests'
    BY <1>2, <1>4 DEF Break, workerVars
  <1>5. CASE Crash \/ (\E w \in Worker : AssertFails(w)) \/ Ended \/ UNCHANGED vars
    BY <1>2, <1>5 DEF Crash, AssertFails, Ended, vars, workerVars
  <1> QED
    BY <1>1, <1>3, <1>4, <1>5 DEF Next

(* A step that concerns one connection. *)
LEMMA Balanced ==
    ASSUME TypeOK, ToldInv, OwnRequests', NEW s \in Store,
           \A t \in Store \ {s} : /\ UNCHANGED <<up[t], replies[t], sent[t]>>
                                  /\ Waiting(t)' = Waiting(t),
           ~up'[s] => replies'[s] = << >>,
           up'[s] => Cardinality(Waiting(s)') = Len(sent'[s]) + Len(replies'[s]),
           IsFiniteSet(Failed'), IsFiniteSet(Refusals'), Debt(s)' \in Int,
           Cardinality(Refusals') - Cardinality(Failed')
             <= Cardinality(Refusals) - Cardinality(Failed) + Debt(s)' - Debt(s)
    PROVE  ToldInv'
  <1>1. Lines'
    BY DEF ToldInv, Lines
  <1>2. \A t \in Store \ {s} : Debt(t)' = Debt(t)
    BY DEF Debt
  <1>3. /\ Cardinality(Refusals) \in Nat /\ Cardinality(Failed) \in Nat
        /\ Cardinality(Refusals') \in Nat /\ Cardinality(Failed') \in Nat
    BY FS_CardinalityType DEF ToldInv, Paid
  <1>4. Debt("redis") \in Int /\ Debt("mysql") \in Int
    BY InStore, DebtType DEF ToldInv
  <1>5. Cardinality(Refusals) - Cardinality(Failed) <= Debt("redis") + Debt("mysql")
    BY DEF ToldInv, Paid
  <1>6. Cardinality(Refusals') - Cardinality(Failed') <= Debt("redis")' + Debt("mysql")'
    <2>1. CASE s = "redis"
      <3>1. Debt("mysql")' = Debt("mysql")
        BY <1>2, <2>1, InStore
      <3> QED
        BY <1>3, <1>4, <1>5, <2>1, <3>1
    <2>2. CASE s = "mysql"
      <3>1. Debt("redis")' = Debt("redis")
        BY <1>2, <2>2, InStore
      <3> QED
        BY <1>3, <1>4, <1>5, <2>2, <3>1
    <2> QED
      BY <2>1, <2>2, InStore
  <1> QED
    BY <1>1, <1>6 DEF ToldInv, Paid

(* Who is told of an error counts as one more failed request. *)
LEMMA AnswerFailed ==
    ASSUME TypeOK, ToldInv, NEW w \in Worker, wpc[w] # "idle", NEW status \in {"success", "error"},
           Answer(w, status)
    PROVE  /\ IsFiniteSet(Failed') /\ Cardinality(Failed) \in Nat
           /\ Cardinality(Failed') = Cardinality(Failed) + (IF status = "error" THEN 1 ELSE 0)
  <1>1. wreq[w] \in Request /\ answer[wreq[w]] = "none" /\ answer' = [answer EXCEPT ![wreq[w]] = status]
    BY DEF TypeOK, ToldInv, OwnRequests, Answer
  <1>2. IsFiniteSet(Failed) /\ Cardinality(Failed) \in Nat /\ wreq[w] \notin Failed
    BY <1>1, FS_CardinalityType DEF ToldInv, Paid, Failed
  <1>3. CASE status = "error"
    <2>1. Failed' = Failed \cup {wreq[w]}
      BY <1>1, <1>3 DEF Failed, TypeOK
    <2> QED
      BY <1>2, <1>3, <2>1, FS_AddElement
  <1>4. CASE status = "success"
    <2>1. Failed' = Failed
      BY <1>1, <1>4 DEF Failed, TypeOK
    <2> QED
      BY <1>2, <1>4, <2>1
  <1> QED
    BY <1>3, <1>4

(* A worker stops waiting. *)
LEMMA WaitingLess ==
    ASSUME TypeOK, ToldInv, NEW w \in Worker, wpc[w] = "wait", wpc'[w] # "wait",
           \A v \in Worker \ {w} : wpc'[v] = wpc[v] /\ wstore'[v] = wstore[v]
    PROVE  /\ Cardinality(Waiting(wstore[w])) \in Nat
           /\ \A s \in Store : s = wstore[w] =>
                 Cardinality(Waiting(s)') = Cardinality(Waiting(s)) - 1
           /\ \A t \in Store : t # wstore[w] => Waiting(t)' = Waiting(t)
  <1>1. wstore[w] \in Store
    BY DEF TypeOK
  <1>2. \A s \in Store : IsFiniteSet(Waiting(s)) /\ Cardinality(Waiting(s)) \in Nat
    BY WaitingFinite DEF ToldInv
  <1>3. ASSUME NEW s \in Store, s = wstore[w]
        PROVE  Cardinality(Waiting(s)') = Cardinality(Waiting(s)) - 1
    <2>1. Waiting(s)' = Waiting(s) \ {w} /\ w \in Waiting(s)
      BY <1>3 DEF Waiting, Waits
    <2> QED
      BY <1>2, <2>1, FS_RemoveElement
  <1>4. \A t \in Store : t # wstore[w] => Waiting(t)' = Waiting(t)
    BY DEF Waiting, Waits
  <1> QED
    BY <1>1, <1>2, <1>3, <1>4

(* Nothing waits for the worker, and it waits for nothing. *)
LEMMA NoDebt ==
    ASSUME TypeOK, ToldInv, OwnRequests', UNCHANGED <<up, replies, sent, refused>>,
           \A s \in Store : Waiting(s)' = Waiting(s),
           IsFiniteSet(Failed'), Cardinality(Failed') >= Cardinality(Failed)
    PROVE  ToldInv'
  <1>1. Refusals' = Refusals
    BY DEF Refusals
  <1>2. Debt("redis")' = Debt("redis") /\ Debt("redis") \in Int
    BY InStore, DebtType DEF ToldInv, Debt
  <1>3. Cardinality(Refusals) \in Nat /\ Cardinality(Failed) \in Nat /\ Cardinality(Failed') \in Nat
    BY FS_CardinalityType DEF ToldInv, Paid
  <1>4. Cardinality(Refusals) - Cardinality(Failed')
          <= Cardinality(Refusals) - Cardinality(Failed) + Debt("redis") - Debt("redis")
    BY <1>2, <1>3
  <1>5. /\ ~up'["redis"] => replies'["redis"] = << >>
        /\ up'["redis"] => Cardinality(Waiting("redis")') = Len(sent'["redis"]) + Len(replies'["redis"])
    BY InStore DEF ToldInv, Lines
  <1> QED
    BY <1>1, <1>2, <1>4, <1>5, InStore, Balanced DEF ToldInv, Paid

(* How the numbers of a connection change together. *)
LEMMA Sums ==
    /\ \A m, n : m \in Nat /\ n \in Nat => (m + n) + 1 = (m + 1) + n
    /\ \A m, n : m \in Nat /\ n \in Nat => (m + n) - 1 = m + (n - 1)
    /\ \A m, n : m \in Nat /\ n \in Nat => m + n = (m - 1) + (n + 1)
  OBVIOUS

LEMMA Covered ==
    ASSUME NEW r \in Nat, NEW f \in Nat, NEW d \in Int, NEW e \in Int, NEW c \in Nat, e >= d - c
    PROVE  r - (f + c) <= r - f + e - d
  OBVIOUS

LEMMA Outstanding ==
    ASSUME NEW m \in Nat, NEW k \in Nat, NEW f \in Nat, NEW j \in Nat, j <= m, f <= k
    PROVE  (m + k) - j \in Int /\ (m + k) - j >= f /\ f \in Int
  OBVIOUS

LEMMA TailType ==
    ASSUME NEW q \in Seq(BOOLEAN), q # << >>
    PROVE  Tail(q) \in Seq(BOOLEAN) /\ Len(Tail(q)) = Len(q) - 1 /\ Len(q) \in Nat
  BY HeadTailProperties, LenProperties

(* A step that leaves Failed and the commands in transit alone. *)
LEMMA AtRest ==
    ASSUME TypeOK, ToldInv, OwnRequests',
           UNCHANGED <<up, replies, sent, refused, wpc, wstore, answer>>
    PROVE  ToldInv'
  <1>1. \A s \in Store : Waiting(s)' = Waiting(s)
    BY DEF Waiting, Waits
  <1>2. Failed' = Failed /\ Cardinality(Failed) \in Nat /\ IsFiniteSet(Failed)
    BY FS_CardinalityType DEF Failed, ToldInv, Paid
  <1>3. IsFiniteSet(Failed') /\ Cardinality(Failed') >= Cardinality(Failed)
    BY <1>2
  <1> QED
    BY <1>1, <1>3, NoDebt

(* Take, Succeed, RejectItem, CommandFails. *)
LEMMA CallTold ==
    ASSUME TypeOK, ToldInv, OwnRequests', NEW w \in Worker,
           Take(w) \/ Succeed(w) \/ RejectItem(w) \/ CommandFails(w)
    PROVE  ToldInv'
  <1>1. UNCHANGED <<up, replies, sent, refused>> /\ wpc[w] # "wait" /\ wpc'[w] # "wait"
        /\ \A v \in Worker \ {w} : wpc'[v] = wpc[v] /\ wstore'[v] = wstore[v]
    BY DEF Take, Succeed, RejectItem, LooksUp, CommandFails, Ready, Answer, storeVars, TypeOK
  <1>2. \A s \in Store : Waiting(s)' = Waiting(s)
    BY <1>1 DEF Waiting, Waits
  <1>3. IsFiniteSet(Failed') /\ Cardinality(Failed') >= Cardinality(Failed)
    <2>1. CASE Take(w)
      <3>1. Failed' = Failed /\ Cardinality(Failed) \in Nat /\ IsFiniteSet(Failed)
        BY <2>1, FS_CardinalityType DEF Take, Failed, ToldInv, Paid
      <3> QED
        BY <3>1
    <2>2. CASE Succeed(w) \/ RejectItem(w) \/ CommandFails(w)
      <3>1. wpc[w] # "idle" /\ (Answer(w, "success") \/ Answer(w, "error"))
        BY <2>2 DEF Succeed, RejectItem, LooksUp, CommandFails, Ready
      <3>2. PICK status \in {"success", "error"} : Answer(w, status)
        BY <3>1
      <3>3. /\ IsFiniteSet(Failed') /\ Cardinality(Failed) \in Nat
            /\ Cardinality(Failed') = Cardinality(Failed) + (IF status = "error" THEN 1 ELSE 0)
        BY <3>1, <3>2, AnswerFailed
      <3> QED
        BY <3>3
    <2> QED
      BY <2>1, <2>2
  <1> QED
    BY <1>1, <1>2, <1>3, NoDebt

(* A command more on the connection, and a worker more that waits on it. *)
LEMMA CommandTold ==
    ASSUME TypeOK, ToldInv, OwnRequests', NEW w \in Worker, Command(w)
    PROVE  ToldInv'
  <1> DEFINE item == Current(w)
  <1> HIDE DEF item
  <1>1. PICK s \in Store : s = wstore[w]
    BY DEF TypeOK
  <1>2. /\ up[s] /\ up' = up /\ replies' = replies /\ refused' = refused /\ answer' = answer
        /\ sent'[s] = Append(sent[s], item) /\ \A t \in Store \ {s} : sent'[t] = sent[t]
    BY <1>1 DEF Command, TypeOK, item
  <1>3. /\ wpc[w] # "wait" /\ wpc'[w] = "wait" /\ wstore' = wstore
        /\ \A v \in Worker \ {w} : wpc'[v] = wpc[v]
    BY DEF Command, Ready, TypeOK
  <1>4. item \in Item
    <2>1. WorkersOK /\ wpc[w] # "idle" /\ HasItem(w)
      BY TypeParts DEF Command, Ready
    <2> QED
      BY <2>1, CurrentType DEF item
  <1>5. Len(sent'[s]) = Len(sent[s]) + 1 /\ Len(sent[s]) \in Nat /\ Len(replies[s]) \in Nat
    <2>1. sent[s] \in Seq(Item) /\ replies[s] \in Seq(BOOLEAN)
      BY DEF TypeOK
    <2> QED
      BY <1>2, <1>4, <2>1, AppendProperties, LenProperties
  <1>6. /\ Cardinality(Waiting(s)) \in Nat
        /\ Cardinality(Waiting(s)') = Cardinality(Waiting(s)) + 1
    <2>1. Waiting(s)' = Waiting(s) \cup {w} /\ w \notin Waiting(s)
      BY <1>1, <1>3 DEF Waiting, Waits
    <2>2. IsFiniteSet(Waiting(s))
      BY WaitingFinite DEF ToldInv
    <2> QED
      BY <2>1, <2>2, FS_AddElement, FS_CardinalityType
  <1>7. \A t \in Store \ {s} : UNCHANGED <<up[t], replies[t], sent[t]>> /\ Waiting(t)' = Waiting(t)
    BY <1>1, <1>2, <1>3 DEF Waiting, Waits
  <1>8. Cardinality(Waiting(s)) = Len(sent[s]) + Len(replies[s])
    BY <1>2 DEF ToldInv, Lines
  <1>9. Cardinality(Waiting(s)') = Len(sent'[s]) + Len(replies'[s])
    <2>1. (Len(sent[s]) + Len(replies[s])) + 1 = (Len(sent[s]) + 1) + Len(replies[s])
      BY <1>5, Sums
    <2>2. replies'[s] = replies[s]
      BY <1>2
    <2> QED
      BY <1>5, <1>6, <1>8, <2>1, <2>2
  <1>10. Debt(s)' = Debt(s) /\ Debt(s) \in Int
    BY <1>2, DebtType DEF Debt, ToldInv
  <1>11. /\ Refusals' = Refusals /\ Failed' = Failed /\ IsFiniteSet(Failed) /\ IsFiniteSet(Refusals)
         /\ Cardinality(Refusals) \in Nat /\ Cardinality(Failed) \in Nat
    BY <1>2, FS_CardinalityType DEF Refusals, Failed, ToldInv, Paid
  <1>12. Cardinality(Refusals') - Cardinality(Failed')
           <= Cardinality(Refusals) - Cardinality(Failed) + Debt(s)' - Debt(s)
    BY <1>10, <1>11
  <1> QED
    BY <1>2, <1>7, <1>9, <1>10, <1>11, <1>12, Balanced

(* Whoever reads a reply: a refusal is read as an error. *)
LEMMA ReadTold ==
    ASSUME TypeOK, ToldInv, OwnRequests', NEW w \in Worker, ReplyOk(w) \/ ReplyError(w)
    PROVE  ToldInv'
  <1>1. PICK s \in Store : s = wstore[w]
    BY DEF TypeOK
  <1>2. /\ wpc[w] = "wait" /\ replies[s] # << >>
        /\ up' = up /\ sent' = sent /\ refused' = refused
        /\ replies'[s] = Tail(replies[s]) /\ \A t \in Store \ {s} : replies'[t] = replies[t]
    BY <1>1 DEF ReplyOk, ReplyError, ReadReply, storeVars, TypeOK
  <1>3. /\ wpc'[w] # "wait"
        /\ \A v \in Worker \ {w} : wpc'[v] = wpc[v] /\ wstore'[v] = wstore[v]
    <2>1. CASE ReplyOk(w)
      BY <2>1 DEF ReplyOk, Advance, TypeOK
    <2>2. CASE ReplyError(w)
      BY <2>2 DEF ReplyError, Answer, TypeOK
    <2> QED
      BY <2>1, <2>2
  <1>4. up[s]
    BY <1>2 DEF ToldInv, Lines
  <1>5. /\ Cardinality(Waiting(s)) \in Nat
        /\ Cardinality(Waiting(s)') = Cardinality(Waiting(s)) - 1
        /\ \A t \in Store \ {s} : Waiting(t)' = Waiting(t)
    BY <1>1, <1>2, <1>3, WaitingLess
  <1>6. replies[s] \in Seq(BOOLEAN) /\ replies'[s] \in Seq(BOOLEAN)
        /\ Len(replies'[s]) = Len(replies[s]) - 1 /\ Len(replies[s]) \in Nat
    <2>1. replies[s] \in Seq(BOOLEAN)
      BY DEF TypeOK
    <2> QED
      BY <1>2, <2>1, TailType
  <1>7. Cardinality(Waiting(s)) = Len(sent[s]) + Len(replies[s]) /\ Len(sent[s]) \in Nat
    BY <1>4, DebtType DEF ToldInv, Lines
  <1>8. Cardinality(Waiting(s)') = Len(sent'[s]) + Len(replies'[s])
    <2>1. (Len(sent[s]) + Len(replies[s])) - 1 = Len(sent[s]) + (Len(replies[s]) - 1)
      BY <1>6, <1>7, Sums
    <2>2. sent'[s] = sent[s]
      BY <1>2
    <2> QED
      BY <1>5, <1>6, <1>7, <2>1, <2>2
  <1> DEFINE cost == IF Head(replies[s]) = FALSE THEN 1 ELSE 0
  <1>c. cost \in {0, 1} /\ (Head(replies[s]) = FALSE => cost = 1) /\ (Head(replies[s]) # FALSE => cost = 0)
    OBVIOUS
  <1>d. cost \in Nat
    OBVIOUS
  <1>9. /\ Cardinality(Falses(replies[s])) \in Nat /\ Cardinality(Falses(replies'[s])) \in Nat
        /\ Cardinality(Falses(replies'[s]))
             >= Cardinality(Falses(replies[s])) - cost
    BY <1>2, <1>6, FalsesType, FalsesTail
  <1>10. Debt(s) = Cardinality(Falses(replies[s])) /\ Debt(s)' = Cardinality(Falses(replies'[s]))
    BY <1>2, <1>4 DEF Debt, Falses
  <1>11. Refusals' = Refusals /\ Cardinality(Refusals) \in Nat /\ IsFiniteSet(Refusals)
    BY <1>2, FS_CardinalityType DEF Refusals, ToldInv, Paid
  <1>12. /\ IsFiniteSet(Failed') /\ Cardinality(Failed) \in Nat
         /\ Cardinality(Failed') = Cardinality(Failed) + cost
    <2>1. CASE ReplyOk(w)
      <3>1. Failed' = Failed /\ IsFiniteSet(Failed) /\ Cardinality(Failed) \in Nat
        BY <2>1, FS_CardinalityType DEF ReplyOk, Advance, Failed, ToldInv, Paid
      <3>2. Head(replies[s]) # FALSE
        BY <1>1, <2>1 DEF ReplyOk, ReadReply
      <3>3. cost = 0
        BY <3>2
      <3> HIDE DEF cost
      <3>5. Cardinality(Failed) = Cardinality(Failed) + cost
        BY <3>1, <3>3
      <3> QED
        BY <3>1, <3>5
    <2>2. CASE ReplyError(w)
      <3>1. Answer(w, "error") /\ Head(replies[s]) = FALSE
        BY <1>1, <2>2 DEF ReplyError, ReadReply
      <3>2. /\ IsFiniteSet(Failed') /\ Cardinality(Failed) \in Nat
            /\ Cardinality(Failed') = Cardinality(Failed) + 1
        BY <1>2, <3>1, AnswerFailed
      <3>3. cost = 1
        BY <3>1
      <3> HIDE DEF cost
      <3> QED
        BY <3>2, <3>3
    <2> QED
      BY <2>1, <2>2
  <1> HIDE DEF cost
  <1>13. Cardinality(Refusals') - Cardinality(Failed')
           <= Cardinality(Refusals) - Cardinality(Failed) + Debt(s)' - Debt(s)
    <2>4. /\ Cardinality(Falses(replies[s])) \in Int /\ Cardinality(Falses(replies'[s])) \in Int
          /\ Cardinality(Falses(replies'[s])) >= Cardinality(Falses(replies[s])) - cost
      BY <1>9
    <2>2. Debt(s) \in Int /\ Debt(s)' \in Int /\ Debt(s)' >= Debt(s) - cost
      BY <1>10, <2>4, Zenon
    <2>3. Cardinality(Refusals) - (Cardinality(Failed) + cost)
            <= Cardinality(Refusals) - Cardinality(Failed) + Debt(s)' - Debt(s)
      BY <1>11, <1>12, <1>d, <2>2, Covered
    <2> QED
      BY <1>11, <1>12, <2>3
  <1>14. Debt(s)' \in Int
    BY <1>9, <1>10
  <1>15. IsFiniteSet(Refusals') /\ up'[s]
    BY <1>2, <1>4, <1>11
  <1> QED
    BY <1>2, <1>5, <1>8, <1>12, <1>13, <1>14, <1>15, Balanced

(* The connection is lost: who waits on it fails. *)
LEMMA LostTold ==
    ASSUME TypeOK, ToldInv, OwnRequests', NEW w \in Worker, ReplyLost(w)
    PROVE  ToldInv'
  <1>1. PICK s \in Store : s = wstore[w]
    BY DEF TypeOK
  <1>2. /\ wpc[w] = "wait" /\ ~up[s] /\ UNCHANGED <<up, replies, sent, refused>> /\ Answer(w, "error")
    BY <1>1 DEF ReplyLost, storeVars
  <1>3. /\ wpc'[w] # "wait"
        /\ \A v \in Worker \ {w} : wpc'[v] = wpc[v] /\ wstore'[v] = wstore[v]
    BY <1>2 DEF Answer, TypeOK
  <1>4. /\ Cardinality(Waiting(s)) \in Nat
        /\ Cardinality(Waiting(s)') = Cardinality(Waiting(s)) - 1
        /\ \A t \in Store \ {s} : Waiting(t)' = Waiting(t)
    BY <1>1, <1>2, <1>3, WaitingLess
  <1>5. Len(sent[s]) \in Nat
    BY DebtType DEF ToldInv
  <1>6. Debt(s) = Cardinality(Waiting(s)) - Len(sent[s]) /\ Debt(s)' = Cardinality(Waiting(s)') - Len(sent[s])
    BY <1>2 DEF Debt
  <1>7. Refusals' = Refusals /\ Cardinality(Refusals) \in Nat /\ IsFiniteSet(Refusals)
    BY <1>2, FS_CardinalityType DEF Refusals, ToldInv, Paid
  <1>8. /\ IsFiniteSet(Failed') /\ Cardinality(Failed) \in Nat
        /\ Cardinality(Failed') = Cardinality(Failed) + 1
    BY <1>2, AnswerFailed
  <1>9. Cardinality(Refusals') - Cardinality(Failed')
          <= Cardinality(Refusals) - Cardinality(Failed) + Debt(s)' - Debt(s)
    BY <1>4, <1>5, <1>6, <1>7, <1>8
  <1>10. Debt(s)' \in Int
    BY <1>4, <1>5, <1>6
  <1>11. replies'[s] = << >> /\ ~up'[s]
    BY <1>2 DEF ToldInv, Lines
  <1> QED
    BY <1>2, <1>4, <1>7, <1>8, <1>9, <1>10, <1>11, Balanced

(* A command leaves the connection; what it adds to Refusals is in its     *)
(* reply, or in what those who wait are more than the commands left.       *)
LEMMA StoreTold ==
    ASSUME TypeOK, ToldInv, OwnRequests', NEW s \in Store, Execute(s) \/ Refuse(s)
    PROVE  ToldInv'
  <1>1. PICK b \in BOOLEAN : /\ Reply(s, b) /\ (b = FALSE <=> ~Execute(s))
                             /\ b = TRUE => refused' = refused
                             /\ b = FALSE => refused' = [refused EXCEPT ![s] = @ \cup {Head(sent[s])}]
    BY DEF Execute, Refuse
  <1>2. /\ sent[s] # << >> /\ sent'[s] = Tail(sent[s]) /\ up' = up /\ UNCHANGED <<wpc, wstore, answer>>
        /\ replies'[s] = IF up[s] THEN Append(replies[s], b) ELSE replies[s]
        /\ \A t \in Store \ {s} : sent'[t] = sent[t] /\ replies'[t] = replies[t]
    BY <1>1 DEF Reply, workerVars, TypeOK
  <1>3. /\ Len(sent'[s]) = Len(sent[s]) - 1 /\ Len(sent[s]) \in Nat
        /\ replies[s] \in Seq(BOOLEAN) /\ Len(replies[s]) \in Nat
        /\ Len(Append(replies[s], b)) = Len(replies[s]) + 1
    <2>1. sent[s] \in Seq(Item) /\ replies[s] \in Seq(BOOLEAN)
      BY DEF TypeOK
    <2> QED
      BY <1>2, <2>1, HeadTailProperties, LenProperties, AppendProperties
  <1>4. \A t \in Store : Waiting(t)' = Waiting(t)
    BY <1>2 DEF Waiting, Waits
  <1>5. Cardinality(Waiting(s)) \in Nat
    BY WaitingFinite DEF ToldInv
  <1>6. Failed' = Failed /\ IsFiniteSet(Failed) /\ Cardinality(Failed) \in Nat
    BY <1>2, FS_CardinalityType DEF Failed, ToldInv, Paid
  <1>7. IsFiniteSet(Refusals) /\ Cardinality(Refusals) \in Nat
    BY FS_CardinalityType DEF ToldInv, Paid
  <1>8. /\ IsFiniteSet(Refusals') /\ Cardinality(Refusals') \in Nat
        /\ Cardinality(Refusals') <= Cardinality(Refusals) + (IF b = FALSE THEN 1 ELSE 0)
    <2>1. CASE b = TRUE
      <3>1. Refusals' = Refusals
        BY <1>1, <2>1 DEF Refusals
      <3> QED
        BY <1>7, <2>1, <3>1
    <2>2. CASE b = FALSE
      <3>1. Head(sent[s]) \in Item
        BY <1>2, HeadTailProperties DEF TypeOK
      <3>2. Refusals' = Refusals \cup {<<s, Head(sent[s])>>}
        <4>1. refused'[s] = refused[s] \cup {Head(sent[s])} /\ \A t \in Store \ {s} : refused'[t] = refused[t]
          BY <1>1, <2>2 DEF TypeOK
        <4>2. \A t \in Store : \A c \in Item :
                 <<t, c>> \in Refusals' <=> <<t, c>> \in Refusals \/ (t = s /\ c = Head(sent[s]))
          BY <4>1 DEF Refusals
        <4>3. \A p : p \in Store \X Item <=> \E t \in Store : \E c \in Item : p = <<t, c>>
          OBVIOUS
        <4>4. Refusals \subseteq Store \X Item /\ Refusals' \subseteq Store \X Item
          BY DEF Refusals
        <4> QED
          BY <3>1, <4>2, <4>3, <4>4
      <3>3. IsFiniteSet(Refusals') /\ (\/ Cardinality(Refusals') = Cardinality(Refusals) + 1
                                       \/ Cardinality(Refusals') = Cardinality(Refusals))
        BY <1>7, <3>2, FS_AddElement
      <3> QED
        BY <1>7, <2>2, <3>3
    <2> QED
      BY <2>1, <2>2
  <1>9. CASE up[s]
    <2>1. /\ Debt(s) = Cardinality(Falses(replies[s])) /\ Debt(s)' = Cardinality(Falses(Append(replies[s], b)))
          /\ Debt(s) \in Nat
      BY <1>2, <1>3, <1>9, FalsesType DEF Debt, Falses
    <2>2. Debt(s)' = Debt(s) + (IF b = FALSE THEN 1 ELSE 0)
      BY <1>3, <2>1, FalsesAppend
    <2>3. Cardinality(Waiting(s)) = Len(sent[s]) + Len(replies[s])
      BY <1>9 DEF ToldInv, Lines
    <2>4. Cardinality(Waiting(s)') = Len(sent'[s]) + Len(replies'[s])
      <3>1. Len(sent[s]) + Len(replies[s]) = (Len(sent[s]) - 1) + (Len(replies[s]) + 1)
        BY <1>3, Sums
      <3>2. Waiting(s)' = Waiting(s) /\ replies'[s] = Append(replies[s], b)
        BY <1>2, <1>4, <1>9
      <3> QED
        BY <1>3, <2>3, <3>1, <3>2
    <2>5. /\ Debt(s)' \in Int
          /\ Cardinality(Refusals') - Cardinality(Failed')
               <= Cardinality(Refusals) - Cardinality(Failed) + Debt(s)' - Debt(s)
      BY <1>6, <1>7, <1>8, <2>1, <2>2
    <2> QED
      BY <1>2, <1>4, <1>6, <1>8, <1>9, <2>4, <2>5, Balanced
  <1>10. CASE ~up[s]
    <2>1. Debt(s) = Cardinality(Waiting(s)) - Len(sent[s]) /\ Debt(s)' = Cardinality(Waiting(s)) - Len(sent'[s])
      BY <1>2, <1>4, <1>10 DEF Debt
    <2>2. Debt(s)' = Debt(s) + 1 /\ Debt(s) \in Int /\ Debt(s)' \in Int
      BY <1>3, <1>5, <2>1
    <2>3. Cardinality(Refusals') <= Cardinality(Refusals) + 1
      BY <1>7, <1>8
    <2>4. Cardinality(Refusals') - Cardinality(Failed')
            <= Cardinality(Refusals) - Cardinality(Failed) + Debt(s)' - Debt(s)
      BY <1>6, <1>7, <1>8, <2>2, <2>3
    <2>5. replies'[s] = << >> /\ ~up'[s]
      BY <1>2, <1>10 DEF ToldInv, Lines
    <2> QED
      BY <1>2, <1>4, <1>6, <1>8, <2>2, <2>4, <2>5, Balanced
  <1> QED
    BY <1>9, <1>10

(* The replies are gone, the workers that wait are not. *)
LEMMA BreakTold ==
    ASSUME TypeOK, ToldInv, OwnRequests', NEW s \in Store, Break(s)
    PROVE  ToldInv'
  <1>1. PICK n \in 0 .. Len(sent[s]) : sent' = [sent EXCEPT ![s] = SubSeq(@, 1, n)]
    BY DEF Break
  <1>2. /\ up[s] /\ ~up'[s] /\ replies'[s] = << >> /\ UNCHANGED <<refused, wpc, wstore, answer>>
        /\ \A t \in Store \ {s} : up'[t] = up[t] /\ sent'[t] = sent[t] /\ replies'[t] = replies[t]
    BY <1>1 DEF Break, workerVars, TypeOK
  <1>3. Len(sent'[s]) = n /\ n \in Nat /\ n <= Len(sent[s]) /\ Len(sent[s]) \in Nat
        /\ replies[s] \in Seq(BOOLEAN) /\ Len(replies[s]) \in Nat
    <2>1. sent[s] \in Seq(Item) /\ replies[s] \in Seq(BOOLEAN) /\ sent'[s] = SubSeq(sent[s], 1, n)
      BY <1>1 DEF TypeOK
    <2>2. Len(sent[s]) \in Nat /\ Len(replies[s]) \in Nat
      BY <2>1, LenProperties
    <2>3. n \in Nat /\ n <= Len(sent[s])
      BY <2>2
    <2>4. Len(SubSeq(sent[s], 1, n)) = n
      BY <2>1, <2>2, <2>3
    <2> QED
      BY <2>1, <2>2, <2>3, <2>4
  <1>4. \A t \in Store : Waiting(t)' = Waiting(t)
    BY <1>2 DEF Waiting, Waits
  <1>5. Cardinality(Waiting(s)) \in Nat /\ Cardinality(Waiting(s)) = Len(sent[s]) + Len(replies[s])
    BY <1>2, WaitingFinite DEF ToldInv, Lines
  <1>6. Failed' = Failed /\ Refusals' = Refusals /\ IsFiniteSet(Failed) /\ Cardinality(Failed) \in Nat
        /\ IsFiniteSet(Refusals) /\ Cardinality(Refusals) \in Nat
    BY <1>2, FS_CardinalityType DEF Failed, Refusals, ToldInv, Paid
  <1>7. Debt(s) = Cardinality(Falses(replies[s])) /\ Debt(s)' = Cardinality(Waiting(s)) - n
    BY <1>2, <1>3, <1>4 DEF Debt
  <1>8. Cardinality(Falses(replies[s])) \in Nat /\ Cardinality(Falses(replies[s])) <= Len(replies[s])
    BY <1>3, FalsesType
  <1>9. Debt(s) \in Int /\ Debt(s)' \in Int /\ Debt(s)' >= Debt(s)
    <2> DEFINE more == (Len(sent[s]) + Len(replies[s])) - n
    <2>1. /\ more \in Int /\ more >= Cardinality(Falses(replies[s]))
          /\ Cardinality(Falses(replies[s])) \in Int
      BY <1>3, <1>8, Outstanding
    <2>2. Debt(s)' = more
      BY <1>5, <1>7, Zenon
    <2> HIDE DEF more
    <2> QED
      BY <1>7, <2>1, <2>2, Zenon
  <1>10. Cardinality(Refusals') - Cardinality(Failed')
           <= Cardinality(Refusals) - Cardinality(Failed) + Debt(s)' - Debt(s)
    BY <1>6, <1>9
  <1> QED
    BY <1>2, <1>4, <1>6, <1>9, <1>10, Balanced

LEMMA ToldStep == TypeOK /\ ToldInv /\ [Next]_vars => ToldInv'
  <1> SUFFICES ASSUME TypeOK, ToldInv, [Next]_vars PROVE ToldInv'
    OBVIOUS
  <1> OwnRequests'
    BY OwnRequestsStep DEF ToldInv
  <1>1. ASSUME NEW w \in Worker, WorkerStep(w) PROVE ToldInv'
    BY <1>1, CallTold, CommandTold, ReadTold, LostTold DEF WorkerStep
  <1>2. ASSUME NEW s \in Store, StoreStep(s) PROVE ToldInv'
    BY <1>2, StoreTold DEF StoreStep
  <1>3. ASSUME NEW s \in Store, Break(s) PROVE ToldInv'
    BY <1>3, BreakTold
  <1>4. CASE Crash \/ (\E w \in Worker : AssertFails(w)) \/ Ended \/ UNCHANGED vars
    BY <1>4, AtRest DEF Crash, AssertFails, Ended, vars, workerVars, storeVars
  <1> QED
    BY <1>1, <1>2, <1>3, <1>4 DEF Next

LEMMA ToldInit == Init => ToldInv
  <1> SUFFICES ASSUME Init PROVE ToldInv
    OBVIOUS
  <1>1. OwnRequests
    BY DEF Init, OwnRequests
  <1>2. \A s \in Store : Waiting(s) = {}
    BY DEF Init, Waiting, Waits
  <1>3. Failed = {} /\ Refusals = {}
    BY DEF Init, Failed, Refusals
  <1>4. \A s \in Store : up[s] /\ Len(sent[s]) = 0 /\ Len(replies[s]) = 0 /\ Falses(replies[s]) = {}
    BY DEF Init, Falses
  <1>5. Debt("redis") = 0 /\ Debt("mysql") = 0
    BY <1>4, InStore, FS_EmptySet DEF Debt
  <1>6. Lines
    <2>1. Cardinality({}) = 0 + 0
      BY FS_EmptySet
    <2> QED
      BY <1>2, <1>4, <2>1 DEF Lines
  <1>7. Paid
    BY <1>3, <1>5, FS_EmptySet DEF Paid
  <1> QED
    BY <1>1, <1>6, <1>7 DEF ToldInv

(* For every number of workers, and though a worker may read the reply of  *)
(* another and a connection may be lost with its replies: when the server  *)
(* is quiet, as many requests were answered with an error as commands were *)
(* refused, at least.                                                      *)
THEOREM RefusalsAreTold == Spec => []FailuresTold
  <1> QED
    BY ToldInit, TypeCorrect, ToldStep, PaidTells, PTL DEF Spec
=============================================================================
